------------------------------ MODULE Session ------------------------------
(***************************************************************************)
(* The UI of src/internal/webui: the session behind its forms (session.go) *)
(* and the two screens it shows (handler.go, view.go, proposal_view.go),   *)
(* on a service that the JSON API uses as well.                            *)
(*                                                                         *)
(* A request of the UI is one step, for the handler holds its mutex; steps *)
(* of other clients, on any WBS, come in between two requests.  A request  *)
(* that changes something redirects the browser to a screen, which is      *)
(* another request, and may find another state.                            *)
(***************************************************************************)
EXTENDS EstimationService, Quote

CONSTANT NoProposal    \* the nil *Proposal

VARIABLES
  active,        \* the id of the active WBS, 0 for ""
  inline,        \* the inline message of the Build screen, "" for none
  proposal,      \* the last proposal
  proposalErr    \* the inline message of the Proposal screen

service == <<store, nextID, primed, err>>
session == <<active, inline, proposal, proposalErr>>

SessionInit ==
  /\ Init
  /\ active = 0
  /\ inline = ""
  /\ proposal = NoProposal
  /\ proposalErr = ""

-----------------------------------------------------------------------------
(* Messages. *)

\* The errors that have a message of their own: all of the domain's.
UIMessages ==
  {"ErrEmptyRequirement", "ErrUnreadableDocument", "ErrNoTasks",
   "ErrEmptyDescription", "ErrTaskNotFound", "ErrRiskNoteNotFound",
   "ErrWBSNotFound", "ErrNoEstimate", "ErrEstimatesNotGenerated",
   "ErrOffFibonacciScale", "ErrEstimatesNotIncreasing", "ErrEmptyReasoning",
   "ErrNonPositiveTeamInputs", "ErrWBSNotApproved",
   "ErrWBSNotApprovedForEstimation", "ErrEstimatesNotApprovedForProposal"}

\* What the screen says of what a call returned.
Message(e) ==
  IF e = OK THEN ""
  ELSE IF e \in UIMessages THEN e
  ELSE "something went wrong"

-----------------------------------------------------------------------------
(* The forms of the Build screen. *)

\* Mutant of GenerateWBS: the new id is taken from the counter whatever happens.
GenerateWBSAnyway(doc) ==
  /\ Generate(doc)
  /\ inline' = Message(err')
  /\ active' = nextID
  /\ UNCHANGED <<proposal, proposalErr>>

\* A new WBS becomes the active one; an error leaves the one there was.
GenerateWBS(doc) ==
  /\ Generate(doc)
  /\ inline' = Message(err')
  /\ active' = IF err' = OK THEN nextID ELSE active
  /\ UNCHANGED <<proposal, proposalErr>>

\* apply: a call of the service on the active WBS, nothing without one.
OnActive(call) ==
  /\ IF active = 0
     THEN inline' = "" /\ UNCHANGED service
     ELSE call /\ inline' = Message(err')
  /\ UNCHANGED <<active, proposal, proposalErr>>

ActiveTasks == IF active = 0 THEN << >> ELSE store[active].tasks

\* What deleting the first task again and again, until none is left, comes to.
\* (Not behind a form.)
DeleteAllTasks ==
  /\ inline' = ""
  /\ IF ActiveTasks = << >>
     THEN UNCHANGED service
     ELSE /\ store' = [store EXCEPT ![active].tasks = << >>,
                                   ![active].approved = FALSE]
          /\ err' = OK
          /\ UNCHANGED <<nextID, primed>>
  /\ UNCHANGED <<active, proposal, proposalErr>>

-----------------------------------------------------------------------------
(* The form of the Proposal screen. *)

\* Mutant of RequestProposal: the earlier proposal is kept when there is an error.
RequestProposalKeeping(inputs) ==
  /\ IF active = 0
     THEN proposal' = NoProposal /\ proposalErr' = "" /\ UNCHANGED service
     ELSE /\ Proposal(active, inputs)
          /\ proposalErr' = Message(err')
          /\ \/ err' # OK /\ UNCHANGED proposal
             \/ err' = OK /\ proposal' \in Proposals(store[active], inputs)
  /\ UNCHANGED <<active, inline>>

\* Asked again, the form first forgets the earlier proposal.
RequestProposal(inputs) ==
  /\ IF active = 0
     THEN proposal' = NoProposal /\ proposalErr' = "" /\ UNCHANGED service
     ELSE /\ Proposal(active, inputs)
          /\ proposalErr' = Message(err')
          /\ \/ err' # OK /\ proposal' = NoProposal
             \/ err' = OK /\ proposal' \in Proposals(store[active], inputs)
  /\ UNCHANGED <<active, inline>>

-----------------------------------------------------------------------------

\* A page may be old: the numbers it sends are those of any list there may be.
PageNumbers == 0..(MaxTaskID + 1)

UIRequest ==
  \/ \E doc \in Documents : GenerateWBS(doc)
  \/ OnActive(ServiceApprove(active))
  \/ OnActive(FlagRisks(active))
  \/ OnActive(GenerateEstimates(active))
  \/ OnActive(ServiceApproveEstimates(active))
  \/ \E d \in Text : OnActive(ServiceAddTask(active, d))
  \/ \E n \in PageNumbers :
       \/ OnActive(ServiceDeleteTask(active, n))
       \/ \E d \in Text : OnActive(ServiceEditTask(active, n, d))
       \/ \E d \in Text : OnActive(ServiceAddRiskNote(active, n, d))
       \/ \E e \in Overrides : OnActive(ServiceOverrideEstimate(active, n, e))
  \/ DeleteAllTasks
  \/ \E inputs \in TeamInputSet : RequestProposal(inputs)

\* A call of another client of the service; the priming forms of the UI, which
\* leave the session alone, are such calls as well.
OtherClient == Next /\ UNCHANGED session

SessionNext == UIRequest \/ OtherClient

SessionSpec == SessionInit /\ [][SessionNext]_<<service, session>>

-----------------------------------------------------------------------------
(* The screens. *)

\* GET /proposal shows the Proposal screen, and else redirects to GET /.
ProposalReachable == active # 0 /\ store[active].estimatesApproved

-----------------------------------------------------------------------------
(* Invariants. *)

Percent == 0..100

\* Amounts are ints: nothing keeps a provider's estimates from being negative.
ProposalType ==
  [confidence : {"high", "medium", "lower"},
   contract : {"fixed-price", "fixed-price-with-buffer", "time-and-materials"},
   invitesRenegotiation : BOOLEAN,
   cost : [low : Int, high : Int], weeks : [low : Int, high : Int],
   atLow : Percent, atHigh : Percent,
   scope : Seq([id : Nat, description : Text]), assumptions : Seq(Text)]

\* Every variable has its type; what a request of a proposal is refused for always
\* has a message of its own (messages.go:10-44).
SessionTypeOK ==
  /\ TypeOK
  /\ active \in Nat
  /\ inline \in {"", "something went wrong"} \cup UIMessages
  /\ proposal \in ProposalType \cup {NoProposal}
  /\ proposalErr \in {""} \cup UIMessages

\* The active WBS is one the service knows, whoever generates WBSs and whatever
\* fails: "WBS not found" never comes up in the UI (session.go:40-48 and 202-211).
ActiveKnown ==
  /\ active \in DOMAIN store \cup {0}
  /\ "ErrWBSNotFound" \notin {inline, proposalErr}

\* An error and a proposal are never shown together: a request that is refused
\* takes away the proposal of the one before (session.go:171-188).
NoProposalBesideError == proposalErr # "" => proposal = NoProposal

-----------------------------------------------------------------------------
(* What the documents say and the code does not do. *)

\* The proposal on the screen is about the tasks of the active WBS.
\* (docs/superpowers/specs/2026-07-09-two-stage-estimation-ui-design.md:138
\* "**Scope** - the task list."; nothing but another request clears a proposal:
\* session.go:40-48 and 192-200 leave it.)
ShownProposalCurrent ==
  ProposalReachable /\ proposal # NoProposal => proposal.scope = Scope(store[active])

=============================================================================
