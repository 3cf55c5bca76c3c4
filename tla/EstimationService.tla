------------------------- MODULE EstimationService -------------------------
(***************************************************************************)
(* The in-process service of src/internal/wbs/service.go with its three AI *)
(* provider ports (provider.go): the store of WBS aggregates, the id       *)
(* counter and, in mock mode, the queues of primed provider outputs.       *)
(*                                                                         *)
(* One action per method, taken as a whole: this module is the service as  *)
(* one caller at a time sees it.  Mock = TRUE composes it with the primed  *)
(* providers (NewService), Mock = FALSE with the live ones (AIProvider),   *)
(* where the model may submit any of a set of lists.                       *)
(***************************************************************************)
EXTENDS AIProvider, Pert

CONSTANTS
  Mock,           \* are the primed providers composed in?
  Documents,      \* requirement documents, see RequirementError
  TaskLists,      \* task lists the model submits, or the mock is primed with
  RiskLists,      \* risk assignment lists, likewise
  EstimateLists,  \* estimate assignment lists, likewise
  Overrides,      \* estimates a Tech Lead enters
  TeamInputSet,   \* team inputs a caller asks a proposal for
  MaxWBS,         \* bound: how many WBSs are generated
  MaxTaskID,      \* bound: the largest task id handed out
  MaxNoteID,      \* bound: the largest note id handed out
  MaxPrimed       \* bound: the length of a priming queue

ASSUME ServiceAssumption ==
  /\ Mock \in BOOLEAN
  /\ \A doc \in Documents : doc.kind \in {"text", "pdf"}
  /\ TaskLists \subseteq Seq(Text)
  /\ RiskLists \subseteq Seq(RiskAssignment)
  /\ EstimateLists \subseteq Seq(EstimateAssignment)
  /\ Overrides \subseteq Estimate
  /\ TeamInputSet \subseteq TeamInputs
  /\ \A ts \in TaskLists : Len(ts) <= MaxTaskID
  /\ MaxWBS \in Nat /\ MaxTaskID \in Nat /\ MaxNoteID \in Nat /\ MaxPrimed \in Nat

VARIABLES
  store,       \* the WBSs, by id ("wbs-2" is 2)
  nextID,      \* the next WBS id
  primed,      \* the three priming queues, each front first
  err          \* what the last call returned

vars == <<store, nextID, primed, err>>

Init ==
  /\ store = << >>
  /\ nextID = 1
  /\ primed = [tasks |-> << >>, risks |-> << >>, estimates |-> << >>]
  /\ err = OK

-----------------------------------------------------------------------------
(* Building blocks. *)

\* An early return: the call changed nothing.
Reject(e) ==
  /\ err' = e
  /\ UNCHANGED <<store, nextID, primed>>

\* withWBS on a known id, with a method that returns e and, when it returns
\* OK, leaves w.
Apply(id, e, w) ==
  /\ id \in DOMAIN store
  /\ err' = e
  /\ store' = IF e = OK THEN [store EXCEPT ![id] = w] ELSE store
  /\ UNCHANGED <<nextID, primed>>

\* Requirement: an empty text, an unreadable PDF, a PDF that draws nothing.
RequirementError(doc) ==
  IF doc.kind = "pdf" /\ ~doc.wellFormed THEN "ErrUnreadableDocument"
  ELSE IF Trim[doc.body] = Blank THEN "ErrEmptyRequirement"
  ELSE OK

\* The outcomes of a provider call: the front of the queue (nothing when it is
\* empty) from a primed provider, those of the adapter from a live one.
Outcomes(queue, live) ==
  IF Mock THEN {Outcome(OK, IF queue = << >> THEN << >> ELSE Head(queue))}
  ELSE live

\* Mutant of Consumed: the last priming is dropped, the front served again.
ConsumedFromBack(queue) == IF queue = << >> THEN queue ELSE Front(queue)

\* The queue a provider call leaves: a priming is consumed.
Consumed(queue) == IF queue = << >> THEN queue ELSE Tail(queue)

\* The call of the given port succeeded and its output went into the WBS w.
Serve(id, w, port) ==
  /\ store' = [store EXCEPT ![id] = w]
  /\ primed' = [primed EXCEPT ![port] = Consumed(@)]
  /\ err' = OK
  /\ UNCHANGED nextID

-----------------------------------------------------------------------------
(* WBS generation and the breakdown. *)

Generate(doc) ==
  \/ RequirementError(doc) # OK /\ Reject(RequirementError(doc))
  \/ /\ RequirementError(doc) = OK
     /\ \E o \in Outcomes(primed.tasks, GenerateOutcomes(TaskLists)) :
          \/ o.err # OK /\ Reject(o.err)
          \/ /\ o.err = OK
             /\ nextID <= MaxWBS
             /\ store' = [id \in DOMAIN store \cup {nextID} |->
                            IF id = nextID THEN NewWBS(o.out) ELSE store[id]]
             /\ nextID' = nextID + 1
             /\ primed' = [primed EXCEPT !.tasks = Consumed(@)]
             /\ err' = OK

\* Any method called with an id the store does not hold.
GetFails(id) == id \notin DOMAIN store /\ Reject("ErrWBSNotFound")

ServiceAddTask(id, d) ==
  /\ id \in DOMAIN store
  /\ store[id].nextSeq <= MaxTaskID
  /\ Apply(id, AddTaskError(d), AddTask(store[id], d))

ServiceEditTask(id, n, d) ==
  /\ id \in DOMAIN store
  /\ Apply(id, EditTaskError(store[id], n, d), EditTask(store[id], n, d))

ServiceDeleteTask(id, n) ==
  /\ id \in DOMAIN store
  /\ Apply(id, DeleteTaskError(store[id], n), DeleteTask(store[id], n))

ServiceApprove(id) ==
  /\ id \in DOMAIN store
  /\ Apply(id, ApproveError(store[id]), Approve(store[id]))

-----------------------------------------------------------------------------
(* Risk notes. *)

FlagRisks(id) ==
  /\ id \in DOMAIN store
  /\ \/ ~store[id].approved /\ Reject("ErrWBSNotApproved")
     \/ /\ store[id].approved
        /\ \E o \in Outcomes(primed.risks, FlagRisksOutcomes(RiskLists)) :
             \/ o.err # OK /\ Reject(o.err)
             \/ /\ o.err = OK
                /\ store[id].nextNote + Len(o.out) <= MaxNoteID + 1
                /\ Serve(id, ReplaceRiskNotes(store[id], o.out), "risks")

ServiceAddRiskNote(id, n, d) ==
  /\ id \in DOMAIN store
  /\ store[id].nextNote <= MaxNoteID
  /\ Apply(id, AddRiskNoteError(store[id], n, d), AddRiskNote(store[id], n, d))

ServiceEditRiskNote(id, n, k, d) ==
  /\ id \in DOMAIN store
  /\ Apply(id, EditRiskNoteError(store[id], n, k, d),
               EditRiskNote(store[id], n, k, d))

ServiceDeleteRiskNote(id, n, k) ==
  /\ id \in DOMAIN store
  /\ Apply(id, DeleteRiskNoteError(store[id], n, k),
               DeleteRiskNote(store[id], n, k))

-----------------------------------------------------------------------------
(* Estimates and the proposal. *)

GenerateEstimates(id) ==
  /\ id \in DOMAIN store
  /\ \/ ~store[id].approved /\ Reject("ErrWBSNotApprovedForEstimation")
     \/ /\ store[id].approved
        /\ \E o \in Outcomes(primed.estimates, EstimateOutcomes(EstimateLists)) :
             \/ o.err # OK /\ Reject(o.err)
             \/ o.err = OK /\ Serve(id, SetEstimates(store[id], o.out), "estimates")

ServiceOverrideEstimate(id, n, e) ==
  /\ id \in DOMAIN store
  /\ Apply(id, OverrideEstimateError(store[id], n, e),
               OverrideEstimate(store[id], n, e))

ServiceApproveEstimates(id) ==
  /\ id \in DOMAIN store
  /\ Apply(id, ApproveEstimatesError(store[id]), ApproveEstimates(store[id]))

\* Reading the aggregate changes nothing; only the outcome is of interest here.
Proposal(id, inputs) ==
  /\ id \in DOMAIN store
  /\ Reject(ProposalError(store[id], inputs))

-----------------------------------------------------------------------------
(* Priming: a no-op on a live provider. *)

Prime(port, output) ==
  /\ Len(primed[port]) < MaxPrimed
  /\ primed' = IF Mock THEN [primed EXCEPT ![port] = Append(@, output)]
               ELSE primed
  /\ err' = OK
  /\ UNCHANGED <<store, nextID>>

-----------------------------------------------------------------------------

\* The ids callers use: those a Generate may have returned, and one it never
\* returns.
CallIDs == 0..MaxWBS

\* The task numbers and note positions callers use: the existing ones and one
\* to either side.
Numbers(s) == 0..(Len(s) + 1)

Next ==
  \/ \E doc \in Documents : Generate(doc)
  \/ \E port \in {"tasks"}, ts \in TaskLists : Prime(port, ts)
  \/ \E port \in {"risks"}, rs \in RiskLists : Prime(port, rs)
  \/ \E port \in {"estimates"}, es \in EstimateLists : Prime(port, es)
  \/ \E id \in CallIDs : GetFails(id)
  \/ \E id \in DOMAIN store :
       \/ ServiceApprove(id)
       \/ FlagRisks(id)
       \/ GenerateEstimates(id)
       \/ ServiceApproveEstimates(id)
       \/ \E inputs \in TeamInputSet : Proposal(id, inputs)
       \/ \E d \in Text : ServiceAddTask(id, d)
       \/ \E n \in Numbers(store[id].tasks) :
            \/ ServiceDeleteTask(id, n)
            \/ \E d \in Text : ServiceEditTask(id, n, d)
            \/ \E d \in Text : ServiceAddRiskNote(id, n, d)
            \/ \E e \in Overrides : ServiceOverrideEstimate(id, n, e)
            \/ \E k \in 0..(MaxNoteID + 1) :
                 \/ ServiceDeleteRiskNote(id, n, k)
                 \/ \E d \in Text : ServiceEditRiskNote(id, n, k, d)

Spec == Init /\ [][Next]_vars

-----------------------------------------------------------------------------
(* Invariants. *)

\* Every variable has its type; the store holds exactly the ids handed out so
\* far, for no WBS is ever removed (service.go:69-71).
TypeOK ==
  /\ nextID \in Nat \ {0}
  /\ store \in [1..(nextID - 1) -> WBSType]
  /\ primed \in [tasks : Seq(TaskLists), risks : Seq(RiskLists),
                 estimates : Seq(EstimateLists)]
  /\ err \in Results

OrderedTaskIDs(w) ==
  /\ \A i \in DOMAIN w.tasks : w.tasks[i].id < w.nextSeq
  /\ \A i, j \in DOMAIN w.tasks : i < j => w.tasks[i].id < w.tasks[j].id

\* A task id names one task of its WBS for ever: the ids ascend along the task
\* list and stay below the counter, however tasks are added and deleted, so
\* that an id a client remembers never comes to mean another task
\* (wbs.go:8-9: "Its ID is stable for the lifetime of the task").
TaskIDsOrdered == \A id \in DOMAIN store : OrderedTaskIDs(store[id])

\* The places of the notes of w, as pairs of a task number and a position.
NotePlaces(w) == UNION {{i} \X DOMAIN w.tasks[i].riskNotes : i \in DOMAIN w.tasks}

NoteAt(w, place) == w.tasks[place[1]].riskNotes[place[2]]

\* A note id names at most one note of the whole WBS, across its tasks and
\* across re-flagging, additions and deletions, and is below the counter
\* (risk.go:3-5: "Its ID is stable so a client can address it directly").
NoteIDsUnique ==
  \A id \in DOMAIN store :
    LET w == store[id]
    IN /\ \A a \in NotePlaces(w) : NoteAt(w, a).id < w.nextNote
       /\ \A a, b \in NotePlaces(w) : NoteAt(w, a).id = NoteAt(w, b).id => a = b

\* An approved WBS has at least one task: Approve refuses an empty list, and
\* no later edit empties the list and leaves it approved (wbs.go:129-146).
ApprovedNotEmpty ==
  \A id \in DOMAIN store : store[id].approved => store[id].tasks # << >>

\* With the live providers no blank or untrimmed text is ever stored, whether it
\* came from the model (the adapters clean it) or from a caller (the domain does).
TextsClean ==
  ~Mock => \A id \in DOMAIN store :
             LET w == store[id]
                 Clean(d) == Trim[d] = d /\ d # Blank
             IN \A i \in DOMAIN w.tasks :
                  /\ Clean(w.tasks[i].description)
                  /\ \A k \in DOMAIN w.tasks[i].riskNotes :
                       Clean(w.tasks[i].riskNotes[k].description)

-----------------------------------------------------------------------------
(* Action properties. *)

\* The ids and descriptions the Tech Lead sees when approving.
Breakdown(w) ==
  [i \in DOMAIN w.tasks |-> <<w.tasks[i].id, w.tasks[i].description>>]

\* The task list that was approved is the task list that is approved: while a
\* WBS stays approved no call, not even one on notes or estimates, changes an
\* id, a description or the order of its tasks (wbs.go:36: "Any structural edit
\* unapproves the WBS").
ApprovedListFrozen ==
  [][\A id \in DOMAIN store :
       store[id].approved /\ store'[id].approved
         => Breakdown(store'[id]) = Breakdown(store[id])]_vars

\* While an estimate set stays approved, no task that is still there has its
\* estimate changed or taken away, nor gets a first one (estimate.go:58-100).
ApprovedEstimatesFrozen ==
  [][\A id \in DOMAIN store :
       store[id].estimatesApproved /\ store'[id].estimatesApproved
         => \A i \in DOMAIN store[id].tasks, j \in DOMAIN store'[id].tasks :
              store[id].tasks[i].id = store'[id].tasks[j].id
                => store[id].tasks[i].estimate = store'[id].tasks[j].estimate]_vars

\* When a call changes how many tasks a WBS has, every task that is in the list
\* before and after keeps its description, its notes and its estimate, although
\* its number may change: they travel with the task (wbs.go:104-137).
SurvivorsUntouched ==
  [][\A id \in DOMAIN store :
       Len(store'[id].tasks) # Len(store[id].tasks)
         => \A i \in DOMAIN store[id].tasks, j \in DOMAIN store'[id].tasks :
              store[id].tasks[i].id = store'[id].tasks[j].id
                => store[id].tasks[i] = store'[id].tasks[j]]_vars

\* A note id the counter has passed never names a note at another task, nor
\* comes back: whatever note a step brings has an id not handed out before
\* (risk.go:18-34, re-flagging does not reset the counter).
NewNotesNewIDs ==
  [][\A id \in DOMAIN store :
       LET old == store[id]
           new == store'[id]
           Notes(w) == {<<w.tasks[a[1]].id, NoteAt(w, a).id>> : a \in NotePlaces(w)}
       IN \A n \in Notes(new) \ Notes(old) : n[2] \in old.nextNote..(new.nextNote - 1)]_vars

\* What a list assigns to task i, in order: the descriptions, and the last estimate.
Assigned(list, i) == Subsequence(list, {k \in DOMAIN list : list[k].task = i})

DescriptionsFor(list, i) ==
  LET mine == Assigned(list, i) IN [k \in DOMAIN mine |-> mine[k].description]

EstimateFor(list, i) ==
  LET mine == Assigned(list, i)
  IN IF mine = << >> THEN NoEstimate ELSE mine[Len(mine)].estimate

\* The output went where it was meant to go: into a WBS created by this very
\* step, or into an approved WBS, replacing the notes or estimates of every task.
Served(port, output) ==
  /\ err' = OK
  /\ CASE port = "tasks" ->
            \E id \in DOMAIN store' \ DOMAIN store :
              LET ts == store'[id].tasks
              IN [i \in DOMAIN ts |-> ts[i].description] = output
       [] port = "risks" ->
            \E id \in DOMAIN store :
              LET ts == store'[id].tasks
              IN /\ store[id].approved
                 /\ \A i \in DOMAIN ts :
                      [k \in DOMAIN ts[i].riskNotes |-> ts[i].riskNotes[k].description]
                        = DescriptionsFor(output, i)
       [] port = "estimates" ->
            \E id \in DOMAIN store :
              LET ts == store'[id].tasks
              IN /\ store[id].approved
                 /\ \A i \in DOMAIN ts : ts[i].estimate = EstimateFor(output, i)

\* Primings are one-shot and first in, first out, over all WBSs: a step either
\* leaves the queue in front of what it adds, or takes exactly the front and
\* serves it as the code promises; a rejected call consumes nothing
\* (provider.go:28-30 and 94-109).
PrimingsServedInOrder ==
  [][Mock => \A port \in DOMAIN primed :
       \/ IsPrefix(primed[port], primed'[port])
       \/ primed[port] # << >> /\ primed'[port] = Tail(primed[port])
            /\ Served(port, Head(primed[port]))]_vars

-----------------------------------------------------------------------------
(* What the documents say and the code does not do. *)

\* Every estimate of a WBS keeps the rules of an estimate, whoever gave it.
\* (qa/estimation_qa_suite.md:15-16 "Rules for every estimate (AI-suggested and
\* Tech-Lead override)"; SetEstimates, estimate.go:62-79, checks none of them.)
EstimatesValid ==
  \A id \in DOMAIN store : \A i \in DOMAIN store[id].tasks :
    LET e == store[id].tasks[i].estimate
    IN e # NoEstimate => ValidateError(e) = OK

\* Every proposal is computed from a positive expected value and a positive
\* standard deviation.  (metrics.go:98-100 "Every PERT metric is non-negative
\* because estimates are strictly increasing, so SD and expected are positive";
\* proposal.go:68 drops the ok of projectPert and rounds 0/0.)
ProposalMetricsPositive ==
  \A id \in DOMAIN store, inputs \in TeamInputSet :
    ProposalError(store[id], inputs) = OK
      => ProjectPert(store[id]).sixths > 0 /\ ProjectPert(store[id]).variance > 0

-----------------------------------------------------------------------------
(* The service implements the approval gates. *)

GatesOf(w) ==
  [size      |-> Len(w.tasks),
   breakdown |-> IF w.approved THEN "approved" ELSE "draft",
   estimates |-> IF w.estimatesApproved THEN "approved"
                 ELSE IF w.estimatesGenerated THEN "generated" ELSE "none"]

Gates == INSTANCE ApprovalGates WITH
  IDs   <- 1..MaxWBS,
  Sizes <- 0..MaxTaskID,
  gates <- [id \in DOMAIN store |-> GatesOf(store[id])]

\* Every call is one step of the gates, or none: estimates appear only in an
\* approved breakdown and are approved only once generated, an override takes
\* the approval back, an edit of the breakdown does not touch the estimates'.
ImplementsGates == Gates!Spec

=============================================================================
