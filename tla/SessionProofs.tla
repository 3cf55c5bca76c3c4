--------------------------- MODULE SessionProofs ---------------------------
(***************************************************************************)
(* Theorems about the UI (Session, Pages): what the session remembers, and *)
(* what the browser shows of it, for every value of the constants.         *)
(***************************************************************************)
EXTENDS Pages, EstimationServiceProofs, QuoteProofs

-----------------------------------------------------------------------------
(* What a request of the UI does to the service. *)

\* The one thing that is not one method of the aggregate: all tasks go.
Emptied ==
  /\ active \in DOMAIN store
  /\ store' = [store EXCEPT ![active].tasks = << >>, ![active].approved = FALSE]
  /\ nextID' = nextID

LEMMA EmptiedWBS ==
  ASSUME NEW w \in WBSType, NEW v, v = [w EXCEPT !.tasks = << >>, !.approved = FALSE]
  PROVE  /\ v \in WBSType /\ v.tasks = << >> /\ v.approved = FALSE
         /\ v.nextSeq = w.nextSeq /\ v.estimatesGenerated = w.estimatesGenerated
BY EmptySeq DEF WBSType

LEMMA EmptiedKeeps ==
  ASSUME IInv, AllSound, Emptied, RestTyped
  PROVE  IInv' /\ AllSound'
<1> DEFINE w == store[active]
           v == [w EXCEPT !.tasks = << >>, !.approved = FALSE]
<1>1. w \in WBSType /\ Sound(w)
  BY DEF IInv, TypeOK, AllSound, Emptied
<1>2. store' = [store EXCEPT ![active] = v] /\ nextID' = nextID
  BY DEF Emptied
<1> HIDE DEF w
<1>3. /\ v \in WBSType /\ v.tasks = << >> /\ v.approved = FALSE
      /\ v.nextSeq = w.nextSeq /\ v.estimatesGenerated = w.estimatesGenerated
  BY <1>1, EmptiedWBS
<1> HIDE DEF v
<1>4. \A id \in DOMAIN store' :
        id \in DOMAIN store /\ store'[id] = IF id = active THEN v ELSE store[id]
  BY <1>2
<1>5. OrderedTaskIDs(v)
  BY <1>3 DEF OrderedTaskIDs
<1>6. Sound(v)
  <2>1. Len(v.tasks) = 0 /\ w.nextSeq \in Nat /\ Len(w.tasks) \in Nat
    BY <1>1, <1>3, LenProperties DEF WBSType
  <2> QED
    BY <1>1, <1>3, <2>1 DEF Sound
<1>7. TypeOK'
  BY <1>2, <1>3 DEF IInv, TypeOK, RestTyped, PrimedType
<1>8. TaskIDsOrdered' /\ ApprovedNotEmpty' /\ AllSound'
  BY <1>3, <1>4, <1>5, <1>6 DEF IInv, TaskIDsOrdered, ApprovedNotEmpty, AllSound
<1> QED
  BY <1>7, <1>8 DEF IInv

LEMMA NothingStep ==
  ASSUME TypeOK, UNCHANGED service
  PROVE  StoreStep /\ RestTyped
BY DEF service, StoreStep, RestTyped, TypeOK, PrimedType

LEMMA RequestStep ==
  ASSUME TypeOK, active \in DOMAIN store \cup {0}, UIRequest
  PROVE  (StoreStep \/ Emptied) /\ RestTyped
<1>1. CASE \E doc \in Documents : GenerateWBS(doc)
  BY <1>1, GenerateStep DEF GenerateWBS
<1>2. CASE OnActive(ServiceApprove(active))
  BY <1>2, WithWBSStep, NothingStep DEF OnActive
<1>3. CASE OnActive(FlagRisks(active))
  BY <1>3, FlagRisksStep, NothingStep DEF OnActive
<1>4. CASE OnActive(GenerateEstimates(active))
  BY <1>4, GenerateEstimatesStep, NothingStep DEF OnActive
<1>5. CASE OnActive(ServiceApproveEstimates(active))
  BY <1>5, WithWBSStep, NothingStep DEF OnActive
<1>6. CASE \E d \in Text : OnActive(ServiceAddTask(active, d))
  BY <1>6, WithWBSStep, NothingStep DEF OnActive
<1>7. ASSUME NEW n, OnActive(ServiceDeleteTask(active, n))
      PROVE  StoreStep /\ RestTyped
  BY <1>7, WithWBSStep, NothingStep DEF OnActive
<1>8. ASSUME NEW n, NEW d \in Text, OnActive(ServiceEditTask(active, n, d))
      PROVE  StoreStep /\ RestTyped
  BY <1>8, WithWBSStep, NothingStep DEF OnActive
<1>9. ASSUME NEW n, NEW d \in Text, OnActive(ServiceAddRiskNote(active, n, d))
      PROVE  StoreStep /\ RestTyped
  BY <1>9, WithWBSStep, NothingStep DEF OnActive
<1>10. ASSUME NEW n, NEW e \in Overrides, OnActive(ServiceOverrideEstimate(active, n, e))
       PROVE  StoreStep /\ RestTyped
  BY <1>10, WithWBSStep, NothingStep DEF OnActive
<1>11. CASE DeleteAllTasks
  <2>1. CASE ActiveTasks = << >>
    BY <1>11, <2>1, NothingStep DEF DeleteAllTasks
  <2>2. CASE ActiveTasks # << >>
    <3>1. active \in DOMAIN store
      BY <2>2 DEF ActiveTasks
    <3>2. Emptied
      BY <1>11, <2>2, <3>1 DEF DeleteAllTasks, Emptied
    <3>3. RestTyped
      BY <1>11, <2>2 DEF DeleteAllTasks, RestTyped, TypeOK, PrimedType, Results
    <3> QED
      BY <3>2, <3>3
  <2> QED
    BY <2>1, <2>2
<1>12. CASE \E inputs \in TeamInputSet : RequestProposal(inputs)
  <2>1. PICK inputs \in TeamInputSet : RequestProposal(inputs)
    BY <1>12
  <2>2. CASE UNCHANGED service
    BY <2>2, NothingStep
  <2>3. CASE Proposal(active, inputs)
    <3>1. Reject(ProposalError(store[active], inputs))
      BY <2>3 DEF Proposal
    <3> QED
      BY <3>1, RejectStep, ErrorsAreResults
  <2> QED
    BY <2>1, <2>2, <2>3 DEF RequestProposal
<1> QED
  BY <1>1, <1>2, <1>3, <1>4, <1>5, <1>6, <1>7, <1>8, <1>9, <1>10, <1>11, <1>12
     DEF UIRequest

-----------------------------------------------------------------------------
(* What a call on the active WBS may return. *)

LEMMA OutcomeErrors ==
  ASSUME NEW queue, NEW L
  PROVE  /\ \A o \in Outcomes(queue, GenerateOutcomes(L)) : o.err \in {OK} \cup ProviderErrors
         /\ \A o \in Outcomes(queue, FlagRisksOutcomes(L)) : o.err \in {OK} \cup ProviderErrors
         /\ \A o \in Outcomes(queue, EstimateOutcomes(L)) : o.err \in {OK} \cup ProviderErrors
<1> USE DEF Outcome, ProviderErrors
<1>1. CASE Mock
  BY <1>1 DEF Outcomes
<1>2. CASE ~Mock
  <2>1. \A o \in GenerateOutcomes(L) : o.err \in {OK} \cup ProviderErrors
    BY DEF GenerateOutcomes, TasksSubmitted, Failures
  <2>2. \A o \in FlagRisksOutcomes(L) : o.err \in {OK} \cup ProviderErrors
    BY DEF FlagRisksOutcomes, Failures
  <2>3. \A o \in EstimateOutcomes(L) : o.err \in {OK} \cup ProviderErrors
    BY DEF EstimateOutcomes, Failures
  <2> QED
    BY <1>2, <2>1, <2>2, <2>3 DEF Outcomes
<1> QED
  BY <1>1, <1>2

\* The results of a form that says nothing of a gate: the input is bad, or a provider.
InputErrors ==
  {OK, "ErrUnreadableDocument", "ErrEmptyRequirement", "ErrEmptyDescription",
   "ErrNoTasks", "ErrOffFibonacciScale", "ErrEstimatesNotIncreasing",
   "ErrEmptyReasoning", "ErrNonPositiveTeamInputs"} \cup ProviderErrors

\* What there is to say of a gate that is shut or a row that is gone.
GateErrors == Preconditions \ {"ErrWBSNotFound"}

LEMMA Messages ==
  ASSUME NEW e
  PROVE  /\ e \in InputErrors => Message(e) \notin Preconditions
         /\ e \in InputErrors \cup GateErrors => Message(e) # "ErrWBSNotFound"
         /\ Message(e) = "" <=> e = OK
BY DEF InputErrors, GateErrors, Preconditions, Message, OK, UIMessages, ProviderErrors

LEMMA GenerateResult ==
  ASSUME NEW doc \in Documents, Generate(doc)
  PROVE  /\ err' \in InputErrors
         /\ err' = OK => nextID \in DOMAIN store'
<1>1. CASE RequirementError(doc) # OK /\ Reject(RequirementError(doc))
  BY <1>1 DEF Reject, RequirementError, InputErrors
<1>2. CASE ~(RequirementError(doc) # OK /\ Reject(RequirementError(doc)))
  <2>1. PICK o \in Outcomes(primed.tasks, GenerateOutcomes(TaskLists)) :
          \/ o.err # OK /\ Reject(o.err)
          \/ /\ o.err = OK
             /\ store' = [id \in DOMAIN store \cup {nextID} |->
                            IF id = nextID THEN NewWBS(o.out) ELSE store[id]]
             /\ err' = OK
    BY <1>2 DEF Generate
  <2>2. o.err \in InputErrors /\ OK \in InputErrors
    BY OutcomeErrors DEF InputErrors
  <2> QED
    BY <2>1, <2>2 DEF Reject
<1> QED
  BY <1>1, <1>2

LEMMA TaskCallResults ==
  ASSUME NEW id, NEW n, NEW d, NEW e
  PROVE  /\ ServiceApprove(id) => err' \in InputErrors
         /\ ServiceAddTask(id, d) => err' \in InputErrors
         /\ ServiceDeleteTask(id, n)
              => err' = IF TaskExists(store[id], n) THEN OK ELSE "ErrTaskNotFound"
         /\ ServiceEditTask(id, n, d) \/ ServiceAddRiskNote(id, n, d)
              => IF TaskExists(store[id], n) THEN err' \in InputErrors
                 ELSE err' = "ErrTaskNotFound"
         /\ ServiceOverrideEstimate(id, n, e)
              => IF ~TaskExists(store[id], n) THEN err' = "ErrTaskNotFound"
                 ELSE IF store[id].tasks[n].estimate = NoEstimate THEN err' = "ErrNoEstimate"
                 ELSE err' \in InputErrors
         /\ ServiceApproveEstimates(id)
              => err' = IF store[id].estimatesGenerated THEN OK
                        ELSE "ErrEstimatesNotGenerated"
<1>1. ServiceApprove(id) => err' \in InputErrors
  BY DEF ServiceApprove, Apply, ApproveError, InputErrors
<1>2. ServiceAddTask(id, d) => err' \in InputErrors
  BY DEF ServiceAddTask, Apply, AddTaskError, InputErrors
<1>3. ServiceDeleteTask(id, n)
        => err' = IF TaskExists(store[id], n) THEN OK ELSE "ErrTaskNotFound"
  BY DEF ServiceDeleteTask, Apply, DeleteTaskError
<1>4. ServiceEditTask(id, n, d) \/ ServiceAddRiskNote(id, n, d)
        => IF TaskExists(store[id], n) THEN err' \in InputErrors
           ELSE err' = "ErrTaskNotFound"
  BY DEF ServiceEditTask, ServiceAddRiskNote, Apply, AddRiskNoteError, EditTaskError,
         AddTaskError, InputErrors
<1>5. ServiceOverrideEstimate(id, n, e)
        => IF ~TaskExists(store[id], n) THEN err' = "ErrTaskNotFound"
           ELSE IF store[id].tasks[n].estimate = NoEstimate THEN err' = "ErrNoEstimate"
           ELSE err' \in InputErrors
  <2>1. ValidateError(e) \in InputErrors
    BY DEF ValidateError, InputErrors
  <2> QED
    BY <2>1 DEF ServiceOverrideEstimate, Apply, OverrideEstimateError
<1>6. ServiceApproveEstimates(id)
        => err' = IF store[id].estimatesGenerated THEN OK ELSE "ErrEstimatesNotGenerated"
  BY DEF ServiceApproveEstimates, Apply, ApproveEstimatesError
<1> QED
  BY <1>1, <1>2, <1>3, <1>4, <1>5, <1>6

LEMMA ProviderCallResults ==
  ASSUME NEW id
  PROVE  /\ FlagRisks(id)
              => IF store[id].approved THEN err' \in InputErrors
                 ELSE err' = "ErrWBSNotApproved"
         /\ GenerateEstimates(id)
              => IF store[id].approved THEN err' \in InputErrors
                 ELSE err' = "ErrWBSNotApprovedForEstimation"
<1>1. {OK} \cup ProviderErrors \subseteq InputErrors
  BY DEF InputErrors
<1>2. ASSUME FlagRisks(id), store[id].approved
      PROVE  err' \in InputErrors
  BY <1>1, <1>2, OutcomeErrors DEF FlagRisks, Reject, Serve
<1>3. ASSUME GenerateEstimates(id), store[id].approved
      PROVE  err' \in InputErrors
  BY <1>1, <1>3, OutcomeErrors DEF GenerateEstimates, Reject, Serve
<1>4. FlagRisks(id) /\ ~store[id].approved => err' = "ErrWBSNotApproved"
  BY DEF FlagRisks, Reject
<1>5. GenerateEstimates(id) /\ ~store[id].approved
        => err' = "ErrWBSNotApprovedForEstimation"
  BY DEF GenerateEstimates, Reject
<1> QED
  BY <1>2, <1>3, <1>4, <1>5

LEMMA ProposalResult ==
  ASSUME NEW id, NEW inputs, Proposal(id, inputs)
  PROVE  IF store[id].estimatesApproved THEN err' \in InputErrors
         ELSE err' = "ErrEstimatesNotApprovedForProposal"
BY DEF Proposal, Reject, ProposalError, InputErrors

-----------------------------------------------------------------------------
(* The session. *)

\* The inductive invariant of the session: that of the service, with what the gates
\* rest on, and a WBS to be active.
SessionInv == IInv /\ AllSound /\ ActiveKnown

\* What a form leaves in the session: the WBS of before or the one it generated, and
\* the message of what its call returned.
LEMMA RequestKnown ==
  ASSUME ActiveKnown, UIRequest
  PROVE  /\ active' = active \/ active' \in DOMAIN store'
         /\ "ErrWBSNotFound" \notin {inline', proposalErr'}
<1> DEFINE Known == /\ active' = active \/ active' \in DOMAIN store'
                    /\ "ErrWBSNotFound" \notin {inline', proposalErr'}
<1>1. "ErrWBSNotFound" \notin {inline, proposalErr}
  BY DEF ActiveKnown
<1>2. ASSUME NEW doc \in Documents, GenerateWBS(doc)
      PROVE  Known
  <2>1. Message(err') # "ErrWBSNotFound"
    BY <1>2, GenerateResult, Messages DEF GenerateWBS
  <2> QED
    BY <1>1, <1>2, <2>1, GenerateResult DEF GenerateWBS
<1>3. ASSUME active' = active, proposalErr' = proposalErr,
             inline' = "" \/ (inline' = Message(err') /\ err' \in InputErrors \cup GateErrors)
      PROVE  Known
  BY <1>1, <1>3, Messages
<1>4. /\ "ErrTaskNotFound" \in GateErrors /\ "ErrNoEstimate" \in GateErrors
      /\ "ErrEstimatesNotGenerated" \in GateErrors /\ "ErrWBSNotApproved" \in GateErrors
      /\ "ErrWBSNotApprovedForEstimation" \in GateErrors /\ OK \in InputErrors
      /\ "ErrEstimatesNotApprovedForProposal" \in GateErrors
  BY DEF GateErrors, Preconditions, InputErrors
<1>5. CASE OnActive(ServiceApprove(active))
  BY <1>3, <1>5, TaskCallResults DEF OnActive
<1>6. CASE OnActive(FlagRisks(active))
  BY <1>3, <1>4, <1>6, ProviderCallResults DEF OnActive
<1>7. CASE OnActive(GenerateEstimates(active))
  BY <1>3, <1>4, <1>7, ProviderCallResults DEF OnActive
<1>8. CASE OnActive(ServiceApproveEstimates(active))
  BY <1>3, <1>4, <1>8, TaskCallResults DEF OnActive
<1>9. ASSUME NEW d, OnActive(ServiceAddTask(active, d))
      PROVE  Known
  BY <1>3, <1>9, TaskCallResults DEF OnActive
<1>10. ASSUME NEW n, OnActive(ServiceDeleteTask(active, n))
       PROVE  Known
  BY <1>3, <1>4, <1>10, TaskCallResults DEF OnActive
<1>11. ASSUME NEW n, NEW d, OnActive(ServiceEditTask(active, n, d))
       PROVE  Known
  BY <1>3, <1>4, <1>11, TaskCallResults DEF OnActive
<1>12. ASSUME NEW n, NEW d, OnActive(ServiceAddRiskNote(active, n, d))
       PROVE  Known
  BY <1>3, <1>4, <1>12, TaskCallResults DEF OnActive
<1>13. ASSUME NEW n, NEW e, OnActive(ServiceOverrideEstimate(active, n, e))
       PROVE  Known
  BY <1>3, <1>4, <1>13, TaskCallResults DEF OnActive
<1>14. CASE DeleteAllTasks
  BY <1>3, <1>14 DEF DeleteAllTasks
<1>15. ASSUME NEW inputs, RequestProposal(inputs)
       PROVE  Known
  <2>1. CASE active = 0
    BY <1>1, <1>15, <2>1 DEF RequestProposal
  <2>2. CASE active # 0
    <3>1. Proposal(active, inputs) /\ proposalErr' = Message(err')
      BY <1>15, <2>2 DEF RequestProposal
    <3>2. Message(err') # "ErrWBSNotFound"
      BY <1>4, <3>1, ProposalResult, Messages
    <3> QED
      BY <1>1, <1>15, <3>1, <3>2 DEF RequestProposal
  <2> QED
    BY <2>1, <2>2
<1> QED
  BY <1>2, <1>5, <1>6, <1>7, <1>8, <1>9, <1>10, <1>11, <1>12, <1>13, <1>14, <1>15
     DEF UIRequest

LEMMA SessionInvInductive ==
  SessionInv /\ [SessionNext]_<<service, session>> => SessionInv'
<1> USE DEF SessionInv
<1>1. ASSUME SessionInv, UNCHANGED <<service, session>>
      PROVE  SessionInv'
  BY <1>1 DEF service, session, IInv, TypeOK, TaskIDsOrdered, ApprovedNotEmpty, AllSound,
              ActiveKnown
<1>2. ASSUME SessionInv, UIRequest
      PROVE  SessionInv'
  <2>1. (StoreStep \/ Emptied) /\ RestTyped
    BY <1>2, RequestStep DEF IInv, ActiveKnown
  <2>2. IInv' /\ AllSound'
    BY <1>2, <2>1, StepKeepsIInv, StepKeepsSound, EmptiedKeeps
  <2>3. DOMAIN store \subseteq DOMAIN store'
    BY <2>1 DEF StoreStep, Emptied
  <2>4. ActiveKnown'
    BY <1>2, <2>3, RequestKnown DEF ActiveKnown
  <2> QED
    BY <2>2, <2>4
<1>3. ASSUME SessionInv, OtherClient
      PROVE  SessionInv'
  <2>1. StoreStep /\ RestTyped
    BY <1>3, NextStep DEF OtherClient, IInv
  <2>2. IInv' /\ AllSound'
    BY <1>3, <2>1, StepKeepsIInv, StepKeepsSound
  <2>3. DOMAIN store \subseteq DOMAIN store'
    BY <2>1 DEF StoreStep
  <2>4. ActiveKnown'
    BY <1>3, <2>3 DEF OtherClient, session, ActiveKnown
  <2> QED
    BY <2>2, <2>4
<1> QED
  BY <1>1, <1>2, <1>3 DEF SessionNext

LEMMA InitSessionInv == SessionInit => SessionInv
<1>1. Init => IInv
  BY InitTyped DEF IInv, Init, TaskIDsOrdered, ApprovedNotEmpty
<1>2. Init => AllSound
  BY DEF Init, AllSound
<1>3. SessionInit => ActiveKnown
  BY DEF SessionInit, ActiveKnown
<1> QED
  BY <1>1, <1>2, <1>3 DEF SessionInit, SessionInv

LEMMA NoErrorBesideProposal ==
  NoProposalBesideError /\ [SessionNext]_<<service, session>> => NoProposalBesideError'
<1>1. SUFFICES ASSUME NoProposalBesideError, SessionNext
               PROVE  NoProposalBesideError'
  BY DEF NoProposalBesideError, session
<1>2. ASSUME NEW inputs, RequestProposal(inputs)
      PROVE  NoProposalBesideError'
  <2>1. err' = OK => Message(err') = ""
    BY DEF Message
  <2> QED
    BY <1>2, <2>1 DEF RequestProposal, NoProposalBesideError
<1>3. CASE UNCHANGED <<proposal, proposalErr>>
  BY <1>1, <1>3 DEF NoProposalBesideError
<1> QED
  BY <1>1, <1>2, <1>3
     DEF SessionNext, UIRequest, OtherClient, session, GenerateWBS, OnActive, DeleteAllTasks

\* The session's own part of the typing.
SessionTyped ==
  /\ active \in Nat
  /\ inline \in {"", "something went wrong"} \cup UIMessages
  /\ proposal \in ProposalType \cup {NoProposal}
  /\ proposalErr \in {""} \cup UIMessages

LEMMA MessageTyped ==
  ASSUME NEW e
  PROVE  /\ Message(e) \in {"", "something went wrong"} \cup UIMessages
         /\ e \in {OK} \cup UIMessages => Message(e) \in {""} \cup UIMessages
BY DEF Message

LEMMA ProposalTyped ==
  ASSUME NEW w \in WBSType, NEW inputs, Positive(inputs), NEW p \in Proposals(w, inputs)
  PROVE  p \in ProposalType
<1>1. PICK b \in Bands(w) :
        p \in [confidence : {b.confidence}, contract : {b.contract},
               invitesRenegotiation : {b.invitesRenegotiation},
               cost  : [low  : Cost(LowPoints(w, b), inputs),
                        high : Cost(HighPoints(w), inputs)],
               weeks : [low  : WeeksFor(LowPoints(w, b), inputs),
                        high : WeeksFor(HighPoints(w), inputs)],
               atLow : {NormalCDFPercent(b.lowSDMultiplier)},
               atHigh : {NormalCDFPercent(2)},
               scope : {Scope(w)}, assumptions : {Assumptions(w)}]
  BY DEF Proposals
<1>2. b \in {Green, Yellow, Red}
  BY BandKinds
<1>3. /\ b.confidence \in {"high", "medium", "lower"}
      /\ b.contract \in {"fixed-price", "fixed-price-with-buffer", "time-and-materials"}
      /\ b.invitesRenegotiation \in BOOLEAN
  <2>1. b.confidence \in {"high", "medium", "lower"}
    BY <1>2 DEF Green, Yellow, Red
  <2>2. b.contract \in {"fixed-price", "fixed-price-with-buffer", "time-and-materials"}
    BY <1>2 DEF Green, Yellow, Red
  <2>3. b.invitesRenegotiation = FALSE \/ b.invitesRenegotiation = TRUE
    BY <1>2 DEF Green, Yellow, Red
  <2> QED
    BY <2>1, <2>2, <2>3
<1>4. /\ Cost(LowPoints(w, b), inputs) \subseteq Int
      /\ Cost(HighPoints(w), inputs) \subseteq Int
      /\ WeeksFor(LowPoints(w, b), inputs) \subseteq Int
      /\ WeeksFor(HighPoints(w), inputs) \subseteq Int
      /\ NormalCDFPercent(b.lowSDMultiplier) \in {50, 84} /\ NormalCDFPercent(2) = 98
      /\ Scope(w) \in Seq([id : Nat, description : Text])
      /\ Assumptions(w) \in Seq(Text)
  BY <1>2, ProposalFields
<1> DEFINE costs == [low  : Cost(LowPoints(w, b), inputs),
                     high : Cost(HighPoints(w), inputs)]
           weeks == [low  : WeeksFor(LowPoints(w, b), inputs),
                     high : WeeksFor(HighPoints(w), inputs)]
<1>5. costs \subseteq [low : Int, high : Int] /\ weeks \subseteq [low : Int, high : Int]
  BY <1>4
<1>6. NormalCDFPercent(b.lowSDMultiplier) \in Percent /\ NormalCDFPercent(2) \in Percent
  BY <1>4 DEF Percent
<1>7. p \in [confidence : {b.confidence}, contract : {b.contract},
             invitesRenegotiation : {b.invitesRenegotiation}, cost : costs, weeks : weeks,
             atLow : {NormalCDFPercent(b.lowSDMultiplier)},
             atHigh : {NormalCDFPercent(2)},
             scope : {Scope(w)}, assumptions : {Assumptions(w)}]
  BY <1>1
<1> HIDE DEF costs, weeks
<1>8. /\ p = [confidence |-> p.confidence, contract |-> p.contract,
              invitesRenegotiation |-> p.invitesRenegotiation, cost |-> p.cost,
              weeks |-> p.weeks, atLow |-> p.atLow, atHigh |-> p.atHigh,
              scope |-> p.scope, assumptions |-> p.assumptions]
      /\ p.confidence = b.confidence /\ p.contract = b.contract
      /\ p.invitesRenegotiation = b.invitesRenegotiation
      /\ p.cost \in costs /\ p.weeks \in weeks
      /\ p.atLow = NormalCDFPercent(b.lowSDMultiplier) /\ p.atHigh = NormalCDFPercent(2)
      /\ p.scope = Scope(w) /\ p.assumptions = Assumptions(w)
  BY <1>7
<1>9. /\ p.confidence \in {"high", "medium", "lower"}
      /\ p.contract \in {"fixed-price", "fixed-price-with-buffer", "time-and-materials"}
      /\ p.invitesRenegotiation \in BOOLEAN
      /\ p.cost \in [low : Int, high : Int] /\ p.weeks \in [low : Int, high : Int]
      /\ p.atLow \in Percent /\ p.atHigh \in Percent
      /\ p.scope \in Seq([id : Nat, description : Text]) /\ p.assumptions \in Seq(Text)
  BY <1>3, <1>4, <1>5, <1>6, <1>8
<1> QED
  BY <1>8, <1>9 DEF ProposalType

LEMMA CheckedInputs ==
  ASSUME NEW w, NEW inputs \in TeamInputs, ProposalError(w, inputs) = OK
  PROVE  Positive(inputs)
BY DEF ProposalError, OK, Positive, TeamInputs

LEMMA SessionStaysTyped ==
  ASSUME SessionInv, SessionTyped, [SessionNext]_<<service, session>>
  PROVE  SessionTyped'
<1> USE DEF SessionTyped
<1>1. CASE UNCHANGED session
  BY <1>1 DEF session
<1>2. ASSUME NEW doc, GenerateWBS(doc)
      PROVE  SessionTyped'
  <2>1. nextID \in Nat
    BY DEF SessionInv, IInv, TypeOK
  <2> QED
    BY <1>2, <2>1, MessageTyped DEF GenerateWBS
<1>3. ASSUME UNCHANGED <<active, proposal, proposalErr>>,
             inline' = "" \/ inline' = Message(err')
      PROVE  SessionTyped'
  BY <1>3, MessageTyped
<1>4. ASSUME NEW inputs \in TeamInputSet, RequestProposal(inputs)
      PROVE  SessionTyped'
  <2>1. CASE active = 0
    BY <1>4, <2>1 DEF RequestProposal
  <2>2. CASE active # 0
    <3> DEFINE w == store[active]
    <3>1. w \in WBSType
      BY <2>2 DEF SessionInv, ActiveKnown, IInv, TypeOK
    <3>2. err' = ProposalError(w, inputs)
      BY <1>4, <2>2 DEF RequestProposal, Proposal, Reject
    <3>3. err' \in {OK} \cup UIMessages
      BY <3>2 DEF ProposalError, UIMessages
    <3>4. Message(err') \in {""} \cup UIMessages
      BY <3>3, MessageTyped
    <3>5. err' = OK => Positive(inputs)
      <4>1. inputs \in TeamInputs
        BY ServiceAssumption
      <4> QED
        BY <3>2, <4>1, CheckedInputs
    <3> HIDE DEF w
    <3>6. err' = OK => Proposals(w, inputs) \subseteq ProposalType
      BY <3>1, <3>5, ProposalTyped
    <3>7. proposal' = NoProposal \/ (err' = OK /\ proposal' \in Proposals(w, inputs))
      BY <1>4, <2>2 DEF RequestProposal, w
    <3>8. proposalErr' = Message(err') /\ UNCHANGED <<active, inline>>
      BY <1>4, <2>2 DEF RequestProposal
    <3> QED
      BY <3>4, <3>6, <3>7, <3>8
  <2> QED
    BY <2>1, <2>2
<1>5. CASE DeleteAllTasks
  BY <1>3, <1>5 DEF DeleteAllTasks
<1>6. CASE UIRequest
  BY <1>2, <1>3, <1>4, <1>5, <1>6 DEF UIRequest, OnActive
<1> QED
  BY <1>1, <1>6 DEF SessionNext, OtherClient

\* The screens depend on the store and the session only.
LEMMA SameViews ==
  ASSUME UNCHANGED <<store, session>>
  PROVE  /\ BuildView' = BuildView /\ ProposalView' = ProposalView
         /\ ProposalReachable' = ProposalReachable
<1>1. store' = store /\ active' = active /\ inline' = inline /\ proposal' = proposal
      /\ proposalErr' = proposalErr
  BY DEF session
<1>2. BuildView' = BuildView
  BY <1>1 DEF BuildView, NothingBuilt
<1>3. ProposalView' = ProposalView
  BY <1>1 DEF ProposalView
<1>4. ProposalReachable' = ProposalReachable
  BY <1>1 DEF ProposalReachable
<1> QED
  BY <1>2, <1>3, <1>4

LEMMA ScreenNames == BuildView.screen = "build" /\ ProposalView.screen = "proposal"
BY DEF BuildView, NothingBuilt, ProposalView

LEMMA PageStaysCurrent ==
  PageCurrent /\ [PagesNext]_all => PageCurrent'
<1>1. ASSUME PageCurrent, UNCHANGED <<store, session>>, page' = page,
             going' = going \/ page = OldPage
      PROVE  PageCurrent'
  <2>1. UpToDate => UpToDate'
    <3>1. /\ BuildView' = BuildView /\ ProposalView' = ProposalView
          /\ ProposalReachable' = ProposalReachable
      BY <1>1, SameViews
    <3> QED
      BY <1>1, <3>1 DEF UpToDate
  <2> QED
    BY <1>1, <2>1 DEF PageCurrent
<1>2. ASSUME page' = OldPage \/ going' # ""
      PROVE  PageCurrent'
  BY <1>2 DEF PageCurrent
<1>3. CASE UNCHANGED all
  BY <1>1, <1>3 DEF all, service, browser
<1>4. ASSUME NEW f, Post(f)
      PROVE  PageCurrent'
  BY <1>2, <1>4 DEF Post
<1>5. CASE PostOld
  BY <1>2, <1>5 DEF PostOld
<1>6. CASE ShowBuild
  <2>1. page' = BuildView /\ UNCHANGED <<store, session>>
    BY <1>6 DEF ShowBuild, service
  <2> QED
    BY <2>1, SameViews, ScreenNames DEF PageCurrent, UpToDate
<1>7. CASE ShowProposal
  <2>1. UNCHANGED <<store, session>>
    BY <1>7 DEF ShowProposal, service
  <2>2. CASE ProposalReachable
    <3>1. page' = ProposalView
      BY <1>7, <2>2 DEF ShowProposal
    <3> QED
      BY <2>1, <2>2, <3>1, SameViews, ScreenNames DEF PageCurrent, UpToDate
  <2>3. CASE ~ProposalReachable
    BY <1>2, <1>7, <2>3 DEF ShowProposal
  <2> QED
    BY <2>2, <2>3
<1>8. CASE Follow
  BY <1>2, <1>8 DEF Follow
<1>9. ASSUME PageCurrent, Elsewhere
      PROVE  PageCurrent'
  <2>1. CASE UNCHANGED <<store, session>>
    BY <1>1, <1>9, <2>1 DEF Elsewhere
  <2>2. CASE ~UNCHANGED <<store, session>>
    BY <1>2, <1>9, <2>2 DEF Elsewhere
  <2> QED
    BY <2>1, <2>2
<1> QED
  BY <1>3, <1>4, <1>5, <1>6, <1>7, <1>8, <1>9 DEF PagesNext

-----------------------------------------------------------------------------
(* The forms of a page that is up to date. *)

\* The forms of a session, with what must be so for a screen to offer them.
Offered(f) ==
  \/ f = Form("generate")
  \/ f = Form("proposal") /\ ProposalReachable
  \/ active # 0 /\ f \in {Form("addTask"), Form("approve")}
  \/ active # 0 /\ store[active].approved
       /\ f \in {Form("flagRisks"), Form("generateEstimates")}
  \/ active # 0 /\ HasEstimate(store[active]) /\ f = Form("approveEstimates")

\* The same of the form of row i.
OfferedAt(f, i) ==
  /\ active # 0 /\ i \in DOMAIN store[active].tasks
  /\ page.rows = Rows(store[active].tasks)
  /\ f.number = i
  /\ \/ f.op \in {"editTask", "deleteTask", "addRiskNote"}
     \/ f.op = "overrideEstimate" /\ store[active].tasks[i].estimate # NoEstimate

LEMMA BuildFields ==
  ASSUME active # 0
  PROVE  /\ BuildView.hasWBS = TRUE /\ BuildView.rows = Rows(store[active].tasks)
         /\ BuildView.locked = ~store[active].approved
         /\ BuildView.estimated = HasEstimate(store[active])
BY DEF BuildView, NothingBuilt

LEMMA RowFields ==
  ASSUME NEW row, NEW i, NEW t, row = [number |-> i, task |-> t]
  PROVE  row.number = i /\ row.task = t
OBVIOUS

LEMMA RowFormsOf ==
  ASSUME NEW v, NEW row, NEW f \in RowForms(v, row)
  PROVE  /\ f.number = row.number
         /\ \/ f.op \in {"editTask", "deleteTask", "addRiskNote"}
            \/ f.op = "overrideEstimate" /\ row.task.estimate # NoEstimate
BY DEF RowForms, RowForm

LEMMA FormsOffered ==
  ASSUME PageCurrent, going = "", NEW f \in Forms(page)
  PROVE  Offered(f) \/ \E i \in DOMAIN store[active].tasks : OfferedAt(f, i)
<1>1. page # OldPage
  BY DEF Forms
<1>2. UpToDate
  BY <1>1 DEF PageCurrent
<1>3. CASE page.screen # "build"
  <2>1. ProposalReachable /\ page.screen = "proposal"
    BY <1>2, <1>3, ScreenNames DEF UpToDate
  <2> QED
    BY <1>1, <2>1 DEF Forms, Offered
<1>4. CASE page.screen = "build"
  <2>1. page = BuildView
    BY <1>2, <1>4 DEF UpToDate
  <2>2. \/ f = Form("generate")
        \/ page.hasWBS /\ f \in SectionForms(page)
        \/ page.hasWBS /\ \E i \in DOMAIN page.rows : f \in RowForms(page, page.rows[i])
    BY <1>1, <1>4 DEF Forms
  <2>3. CASE active = 0
    BY <2>1, <2>2, <2>3 DEF BuildView, NothingBuilt, Offered
  <2>4. CASE active # 0
    <3> DEFINE w == store[active]
    <3>1. /\ page.rows = Rows(w.tasks) /\ page.locked = ~w.approved
          /\ page.estimated = HasEstimate(w)
      BY <2>1, <2>4, BuildFields
    <3>2. CASE f \in SectionForms(page)
      BY <2>4, <3>1, <3>2 DEF SectionForms, Offered
    <3>3. ASSUME NEW i \in DOMAIN page.rows, f \in RowForms(page, page.rows[i])
          PROVE  i \in DOMAIN w.tasks /\ OfferedAt(f, i)
      <4>1. i \in DOMAIN w.tasks /\ page.rows[i] = [number |-> i, task |-> w.tasks[i]]
        BY <3>1 DEF Rows
      <4>2. /\ f.number = i
            /\ \/ f.op \in {"editTask", "deleteTask", "addRiskNote"}
               \/ f.op = "overrideEstimate" /\ w.tasks[i].estimate # NoEstimate
        <5> DEFINE row == page.rows[i]
        <5>1. row = [number |-> i, task |-> w.tasks[i]]
          BY <4>1
        <5> HIDE DEF row, w
        <5>2. row.number = i /\ row.task = w.tasks[i]
          BY <5>1, RowFields
        <5>3. f \in RowForms(page, row)
          BY <3>3 DEF row
        <5> QED
          BY <5>2, <5>3, RowFormsOf
      <4> QED
        BY <2>4, <3>1, <4>1, <4>2 DEF OfferedAt
    <3> QED
      BY <2>2, <3>2, <3>3 DEF Offered
  <2> QED
    BY <2>3, <2>4
<1> QED
  BY <1>3, <1>4

\* The routes, one by one.
LEMMA Routes ==
  ASSUME NEW f, Handle(f)
  PROVE  /\ f.op = "generate" => \E doc \in Documents : GenerateWBS(doc)
         /\ f.op = "addTask" => \E d \in Text : OnActive(ServiceAddTask(active, d))
         /\ f.op = "editTask" =>
              \E d \in Text : OnActive(ServiceEditTask(active, f.number, d))
         /\ f.op = "deleteTask" => OnActive(ServiceDeleteTask(active, f.number))
         /\ f.op = "approve" => OnActive(ServiceApprove(active))
         /\ f.op = "flagRisks" => OnActive(FlagRisks(active))
         /\ f.op = "addRiskNote" =>
              \E d \in Text : OnActive(ServiceAddRiskNote(active, f.number, d))
         /\ f.op = "generateEstimates" => OnActive(GenerateEstimates(active))
         /\ f.op = "overrideEstimate" =>
              \E e \in Overrides : OnActive(ServiceOverrideEstimate(active, f.number, e))
         /\ f.op = "approveEstimates" => OnActive(ServiceApproveEstimates(active))
         /\ f.op = "proposal" => \E inputs \in TeamInputSet : RequestProposal(inputs)
BY DEF Handle

\* A task that a method leaves alone is in the list after it.
LEMMA OthersStay ==
  ASSUME NEW w \in WBSType, NEW v, NEW n \in 1..Len(w.tasks), NEW t,
         OneReplaced(w, v, n, t), v \in WBSType, NEW j \in 1..Len(w.tasks), j # n
  PROVE  w.tasks[j] \in Range(v.tasks)
<1>1. v.tasks[j] = w.tasks[j] /\ Len(v.tasks) = Len(w.tasks)
  BY DEF OneReplaced
<1>2. DOMAIN v.tasks = 1..Len(v.tasks)
  BY LenProperties DEF WBSType
<1> QED
  BY <1>1, <1>2 DEF Range

LEMMA DeletedOthersStay ==
  ASSUME NEW w \in WBSType, NEW n \in 1..Len(w.tasks), NEW v, v = DeleteTask(w, n),
         NEW j \in 1..Len(w.tasks), j # n
  PROVE  w.tasks[j] \in Range(v.tasks)
<1>1. v \in WBSType
  BY DeleteTaskType
<1>2. /\ Len(v.tasks) = Len(w.tasks) - 1 /\ Len(w.tasks) \in Nat
      /\ DOMAIN v.tasks = 1..Len(v.tasks)
  BY <1>1, DeleteTaskEffect, LenProperties DEF WBSType
<1>3. \A k \in 1..(Len(w.tasks) - 1) :
        v.tasks[k] = IF k < n THEN w.tasks[k] ELSE w.tasks[k + 1]
  BY DeleteTaskEffect
<1>4. CASE j < n
  <2>1. j \in 1..(Len(w.tasks) - 1)
    BY <1>2, <1>4
  <2>2. v.tasks[j] = w.tasks[j]
    BY <1>3, <1>4, <2>1
  <2> QED
    BY <1>2, <2>1, <2>2 DEF Range
<1>5. CASE n < j
  <2>1. j - 1 \in 1..(Len(w.tasks) - 1) /\ ~(j - 1 < n) /\ (j - 1) + 1 = j
    BY <1>2, <1>5
  <2>2. v.tasks[j - 1] = w.tasks[j]
    BY <1>3, <2>1
  <2> QED
    BY <1>2, <2>1, <2>2 DEF Range
<1> QED
  BY <1>4, <1>5

\* The message a form leaves on its screen.
MessageFor(f) == IF f.op = "proposal" THEN proposalErr' ELSE inline'

LEMMA NoMessage == "" \notin Preconditions /\ Message(OK) \notin Preconditions
BY DEF Preconditions, Message

LEMMA FormFields == \A op : Form(op).op = op /\ Form(op).number = 0
BY DEF Form

LEMMA OfferedWorks ==
  ASSUME SessionInv, NEW f, Offered(f), Handle(f)
  PROVE  f.number = 0 /\ MessageFor(f) \notin Preconditions
<1> USE NoMessage, FormFields DEF MessageFor
<1>1. active \in DOMAIN store \cup {0}
  BY DEF SessionInv, ActiveKnown
<1>2. CASE f = Form("generate")
  <2>1. PICK doc \in Documents : GenerateWBS(doc)
    BY <1>2, Routes
  <2>2. Message(err') \notin Preconditions
    BY <2>1, GenerateResult, Messages DEF GenerateWBS
  <2> QED
    BY <1>2, <2>1, <2>2 DEF GenerateWBS
<1>3. CASE f = Form("proposal") /\ ProposalReachable
  <2>1. PICK inputs \in TeamInputSet : RequestProposal(inputs)
    BY <1>3, Routes
  <2>2. /\ Proposal(active, inputs) /\ proposalErr' = Message(err')
        /\ store[active].estimatesApproved
    BY <1>3, <2>1 DEF RequestProposal, ProposalReachable
  <2>3. Message(err') \notin Preconditions
    BY <2>2, ProposalResult, Messages
  <2> QED
    BY <1>3, <2>2, <2>3
<1>4. CASE active # 0 /\ f = Form("addTask")
  <2>1. PICK d \in Text : ServiceAddTask(active, d) /\ inline' = Message(err')
    BY <1>4, Routes DEF OnActive
  <2>2. err' \in InputErrors
    BY <2>1, TaskCallResults
  <2> QED
    BY <1>4, <2>1, <2>2, Messages
<1>5. CASE active # 0 /\ f = Form("approve")
  <2>1. ServiceApprove(active) /\ inline' = Message(err')
    BY <1>5, Routes DEF OnActive
  <2>2. err' \in InputErrors
    BY <2>1, TaskCallResults
  <2> QED
    BY <1>5, <2>1, <2>2, Messages
<1>6. ASSUME active # 0, store[active].approved, f = Form("flagRisks")
      PROVE  f.number = 0 /\ MessageFor(f) \notin Preconditions
  <2>1. FlagRisks(active) /\ inline' = Message(err')
    BY <1>6, Routes DEF OnActive
  <2>2. err' \in InputErrors
    BY <1>6, <2>1, ProviderCallResults
  <2>3. Message(err') \notin Preconditions
    BY <2>2, Messages
  <2>4. f.op = "flagRisks" /\ f.number = 0
    BY <1>6
  <2>5. f.op # "proposal"
    BY <2>4
  <2> QED
    BY <2>1, <2>3, <2>4, <2>5
<1>7. ASSUME active # 0, store[active].approved, f = Form("generateEstimates")
      PROVE  f.number = 0 /\ MessageFor(f) \notin Preconditions
  <2>1. GenerateEstimates(active) /\ inline' = Message(err')
    BY <1>7, Routes DEF OnActive
  <2>2. err' \in InputErrors
    BY <1>7, <2>1, ProviderCallResults
  <2>3. Message(err') \notin Preconditions
    BY <2>2, Messages
  <2>4. f.op = "generateEstimates" /\ f.number = 0
    BY <1>7
  <2>5. f.op # "proposal"
    BY <2>4
  <2> QED
    BY <2>1, <2>3, <2>4, <2>5
<1>8. CASE active # 0 /\ HasEstimate(store[active]) /\ f = Form("approveEstimates")
  <2>1. ServiceApproveEstimates(active) /\ inline' = Message(err')
    BY <1>8, Routes DEF OnActive
  <2>2. store[active] \in WBSType /\ Sound(store[active])
    BY <1>1, <1>8 DEF SessionInv, IInv, TypeOK, AllSound
  <2>3. store[active].estimatesGenerated
    BY <1>8, <2>2, LenProperties DEF HasEstimate, Sound, WBSType
  <2>4. err' = OK
    BY <2>1, <2>3, TaskCallResults
  <2> QED
    BY <1>8, <2>1, <2>4
<1> QED
  BY <1>2, <1>3, <1>4, <1>5, <1>6, <1>7, <1>8 DEF Offered

LEMMA OfferedAtWorks ==
  ASSUME SessionInv, NEW f, NEW i, OfferedAt(f, i), Handle(f)
  PROVE  /\ MessageFor(f) \notin Preconditions
         /\ \A j \in DOMAIN store[active].tasks : j # i =>
              store[active].tasks[j] \in Range(store'[active].tasks)
<1> DEFINE w == store[active]
           v == store'[active]
           Others == \A j \in DOMAIN w.tasks : j # i => w.tasks[j] \in Range(v.tasks)
<1>1. active \in DOMAIN store /\ w \in WBSType
  BY DEF SessionInv, ActiveKnown, OfferedAt, IInv, TypeOK
<1>2. DOMAIN w.tasks = 1..Len(w.tasks) /\ i \in 1..Len(w.tasks) /\ TaskExists(w, i)
  BY <1>1, LenProperties DEF OfferedAt, WBSType, TaskExists
<1>3. ASSUME v = w
      PROVE  Others
  BY <1>3 DEF Range
<1>4. ASSUME NEW e, NEW u, Apply(active, e, u)
      PROVE  v = w \/ v = u
  BY <1>1, <1>4 DEF Apply
<1>5. ASSUME NEW t, OneReplaced(w, v, i, t), v \in WBSType
      PROVE  Others
  BY <1>1, <1>2, <1>5, OthersStay
<1> HIDE DEF w, v, Others
<1>6. ASSUME NEW d \in Text, ServiceEditTask(active, i, d)
      PROVE  Others /\ err' \in InputErrors
  <2>1. v = w \/ v = EditTask(w, i, d)
    BY <1>4, <1>6 DEF ServiceEditTask, w
  <2>2. v = EditTask(w, i, d) => Others
    BY <1>1, <1>2, <1>5, EditTaskEffect, EditTaskType
  <2> QED
    BY <1>2, <1>3, <1>6, <2>1, <2>2, TaskCallResults DEF w
<1>7. ASSUME ServiceDeleteTask(active, i)
      PROVE  Others /\ err' = OK
  <2>1. v = w \/ v = DeleteTask(w, i)
    BY <1>4, <1>7 DEF ServiceDeleteTask, w
  <2>2. v = DeleteTask(w, i) => Others
    BY <1>1, <1>2, DeletedOthersStay DEF Others
  <2> QED
    BY <1>2, <1>3, <1>7, <2>1, <2>2, TaskCallResults DEF w
<1>8. ASSUME NEW d \in Text, ServiceAddRiskNote(active, i, d)
      PROVE  Others /\ err' \in InputErrors
  <2>1. v = w \/ v = AddRiskNote(w, i, d)
    BY <1>4, <1>8 DEF ServiceAddRiskNote, w
  <2>2. v = AddRiskNote(w, i, d) => Others
    BY <1>1, <1>2, <1>5, AddRiskNoteEffect, AddRiskNoteType
  <2> QED
    BY <1>2, <1>3, <1>8, <2>1, <2>2, TaskCallResults DEF w
<1>9. ASSUME NEW e \in Overrides, ServiceOverrideEstimate(active, i, e),
             w.tasks[i].estimate # NoEstimate
      PROVE  Others /\ err' \in InputErrors
  <2>1. v = w \/ v = OverrideEstimate(w, i, e)
    BY <1>4, <1>9 DEF ServiceOverrideEstimate, w
  <2>2. v = OverrideEstimate(w, i, e) => Others
    BY <1>1, <1>2, <1>5, ServiceAssumption, OverrideEstimateEffect, OverrideEstimateType
  <2> QED
    BY <1>2, <1>3, <1>9, <2>1, <2>2, TaskCallResults DEF w
<1>10. active # 0 /\ f.number = i
  BY DEF OfferedAt
<1>11. Others /\ MessageFor(f) \notin Preconditions
  <2>1. CASE f.op = "editTask"
    <3>1. PICK d \in Text : ServiceEditTask(active, i, d) /\ inline' = Message(err')
      BY <1>10, <2>1, Routes DEF OnActive
    <3> QED
      BY <1>6, <2>1, <3>1, Messages DEF MessageFor
  <2>2. CASE f.op = "deleteTask"
    <3>1. ServiceDeleteTask(active, i) /\ inline' = Message(err')
      BY <1>10, <2>2, Routes DEF OnActive
    <3> QED
      BY <1>7, <2>2, <3>1, NoMessage DEF MessageFor
  <2>3. CASE f.op = "addRiskNote"
    <3>1. PICK d \in Text : ServiceAddRiskNote(active, i, d) /\ inline' = Message(err')
      BY <1>10, <2>3, Routes DEF OnActive
    <3> QED
      BY <1>8, <2>3, <3>1, Messages DEF MessageFor
  <2>4. CASE f.op = "overrideEstimate" /\ w.tasks[i].estimate # NoEstimate
    <3>1. PICK e \in Overrides :
            ServiceOverrideEstimate(active, i, e) /\ inline' = Message(err')
      BY <1>10, <2>4, Routes DEF OnActive
    <3> QED
      BY <1>9, <2>4, <3>1, Messages DEF MessageFor
  <2> QED
    BY <2>1, <2>2, <2>3, <2>4 DEF OfferedAt, w
<1> QED
  BY <1>11 DEF Others, w, v

-----------------------------------------------------------------------------
(* The browser. *)

\* The inductive invariant of the browser: a form that a page offers is one of the
\* session because the page is up to date.
PagesInv == SessionInv /\ SessionTyped /\ PageCurrent /\ NoProposalBesideError

\* What a page that is up to date posts is a request of the session: a row's number is
\* one that a list may have.
LEMMA PostIsRequest ==
  ASSUME SessionInv, PageCurrent, NEW f \in Forms(page), Post(f)
  PROVE  UIRequest
<1>1. going = "" /\ Handle(f)
  BY DEF Post
<1>2. CASE Offered(f)
  <2>1. f.op \in {"generate", "proposal", "addTask", "approve", "flagRisks",
                  "generateEstimates", "approveEstimates"}
    BY <1>2, FormFields DEF Offered
  <2> QED
    BY <1>1, <2>1, Routes DEF UIRequest
<1>3. ASSUME NEW i \in DOMAIN store[active].tasks, OfferedAt(f, i)
      PROVE  UIRequest
  <2> DEFINE w == store[active]
  <2>1. w \in WBSType /\ Sound(w)
    BY <1>3 DEF OfferedAt, SessionInv, ActiveKnown, IInv, TypeOK, AllSound
  <2>2. i \in 1..Len(w.tasks) /\ Len(w.tasks) \in Nat /\ w.nextSeq \in Nat
    BY <2>1, LenProperties DEF WBSType
  <2>3. f.number = i
    BY <1>3 DEF OfferedAt
  <2>4. f.number \in PageNumbers
    BY <2>1, <2>2, <2>3, ServiceAssumption DEF Sound, PageNumbers
  <2>5. f.op \in {"editTask", "deleteTask", "addRiskNote", "overrideEstimate"}
    BY <1>3 DEF OfferedAt
  <2> HIDE DEF w
  <2> QED
    BY <1>1, <2>4, <2>5, Routes DEF UIRequest
<1> QED
  BY <1>1, <1>2, <1>3, FormsOffered

LEMMA PagesStep ==
  ASSUME SessionInv, PageCurrent, [PagesNext]_all
  PROVE  [SessionNext]_<<service, session>>
<1>1. CASE UNCHANGED all
  BY <1>1 DEF all
<1>2. ASSUME NEW f \in Forms(page), Post(f)
      PROVE  SessionNext
  BY <1>2, PostIsRequest DEF SessionNext
<1>3. CASE PostOld
  BY <1>3 DEF PostOld, SessionNext
<1>4. CASE ShowBuild \/ ShowProposal \/ Follow
  BY <1>4 DEF ShowBuild, ShowProposal, Follow
<1>5. CASE Elsewhere
  BY <1>5 DEF Elsewhere, SessionNext
<1> QED
  BY <1>1, <1>2, <1>3, <1>4, <1>5 DEF PagesNext

LEMMA InitPagesInv == PagesInit => PagesInv
<1>1. SUFFICES ASSUME PagesInit  PROVE PagesInv
  OBVIOUS
<1>2. active = 0 /\ inline = "" /\ proposal = NoProposal /\ proposalErr = ""
  BY <1>1 DEF PagesInit, SessionInit
<1>3. SessionTyped
  BY <1>2 DEF SessionTyped
<1>4. PageCurrent /\ NoProposalBesideError
  BY <1>1, <1>2 DEF PagesInit, PageCurrent, NoProposalBesideError
<1> QED
  BY <1>1, <1>3, <1>4, InitSessionInv DEF PagesInit, PagesInv

LEMMA PagesInvInductive == PagesInv /\ [PagesNext]_all => PagesInv'
<1>1. SUFFICES ASSUME PagesInv, [PagesNext]_all
               PROVE  PagesInv'
  OBVIOUS
<1>2. [SessionNext]_<<service, session>>
  BY <1>1, PagesStep DEF PagesInv
<1>3. SessionInv'
  BY <1>1, <1>2, SessionInvInductive DEF PagesInv
<1>4. PageCurrent'
  BY <1>1, PageStaysCurrent DEF PagesInv
<1>5. NoProposalBesideError'
  BY <1>1, <1>2, NoErrorBesideProposal DEF PagesInv
<1>6. SessionTyped'
  BY <1>1, <1>2, SessionStaysTyped DEF PagesInv
<1> QED
  BY <1>3, <1>4, <1>5, <1>6 DEF PagesInv

THEOREM PagesInvHolds == PagesSpec => []PagesInv
BY InitPagesInv, PagesInvInductive, PTL DEF PagesSpec

\* Service and session keep their types, a shown proposal its kinds, percentages and
\* lists of any length included, and what refuses a proposal is always an error with a
\* message of its own (session.go:164-188, messages.go:10-44).
THEOREM SessionTypeCorrect == PagesSpec => []SessionTypeOK
<1>1. PagesInv => SessionTypeOK
  BY DEF PagesInv, SessionInv, IInv, SessionTyped, SessionTypeOK
<1> QED
  BY <1>1, PagesInvHolds, PTL

\* Whatever else happens to the service, the session's WBS is one it holds, and no
\* screen ever says "WBS not found" (session.go:40-48 and 202-211).
THEOREM ActiveStaysKnown == PagesSpec => []ActiveKnown
BY PagesInvHolds, PTL DEF PagesInv, SessionInv

\* A request that is refused leaves no proposal beside its error (session.go:171-188).
THEOREM ErrorsStandAlone == PagesSpec => []NoProposalBesideError
BY PagesInvHolds, PTL DEF PagesInv

\* After whatever sequence of forms, links and redirects, and with any number of tasks,
\* what the browser shows is what it would get (handler.go:112-139).
THEOREM PagesStayCurrent == PagesSpec => []PageCurrent
BY PagesInvHolds, PTL DEF PagesInv

\* Every form of an up-to-date page passes the gates of the service and leaves the
\* tasks of the other rows alone: what the templates show and hide is what the
\* aggregate would accept and refuse (build.html, view.go, wbs.go, estimate.go).
THEOREM FormsAlwaysWork == PagesSpec => FormsWork
<1> DEFINE Works == \A f \in Forms(page) : Post(f) =>
             /\ (IF f.op = "proposal" THEN proposalErr' ELSE inline') \notin Preconditions
             /\ f.number # 0 =>
                  \A row \in Range(page.rows) : row.number # f.number =>
                    row.task \in Range(store'[active].tasks)
<1>1. ASSUME PagesInv, NEW f \in Forms(page), Post(f)
      PROVE  /\ MessageFor(f) \notin Preconditions
             /\ f.number # 0 =>
                  \A row \in Range(page.rows) : row.number # f.number =>
                    row.task \in Range(store'[active].tasks)
  <2>1. going = "" /\ Handle(f)
    BY <1>1 DEF Post
  <2>2. CASE Offered(f)
    BY <1>1, <2>1, <2>2, OfferedWorks DEF PagesInv
  <2>3. ASSUME NEW i \in DOMAIN store[active].tasks, OfferedAt(f, i)
        PROVE  /\ MessageFor(f) \notin Preconditions
               /\ \A row \in Range(page.rows) : row.number # f.number =>
                    row.task \in Range(store'[active].tasks)
    <3>1. /\ MessageFor(f) \notin Preconditions
          /\ \A j \in DOMAIN store[active].tasks : j # i =>
               store[active].tasks[j] \in Range(store'[active].tasks)
      BY <1>1, <2>1, <2>3, OfferedAtWorks DEF PagesInv
    <3>2. ASSUME NEW row \in Range(page.rows)
          PROVE  \E j \in DOMAIN store[active].tasks :
                   row.number = j /\ row.task = store[active].tasks[j]
      <4>1. PICK j \in DOMAIN store[active].tasks :
              row = [number |-> j, task |-> store[active].tasks[j]]
        BY <2>3, <3>2 DEF OfferedAt, Rows, Range
      <4> QED
        BY <4>1, RowFields
    <3>3. f.number = i
      BY <2>3 DEF OfferedAt
    <3> QED
      BY <3>1, <3>2, <3>3
  <2> QED
    BY <1>1, <2>1, <2>2, <2>3, FormsOffered DEF PagesInv
<1>2. PagesInv => Works
  BY <1>1 DEF MessageFor
<1>3. PagesInv /\ [PagesNext]_all => [Works]_all
  BY <1>2
<1> QED
  BY <1>3, PagesInvHolds, PTL DEF PagesSpec, FormsWork

\* A browser does to the session nothing but what the session's own specification has
\* it do: the numbers and gates of its forms are among those considered there.
THEOREM PagesKeepToSession == PagesSpec => SessionSpec
<1>1. PagesInit => SessionInit
  BY DEF PagesInit
<1>2. PagesInv /\ [PagesNext]_all => [SessionNext]_<<service, session>>
  BY PagesStep DEF PagesInv
<1> QED
  BY <1>1, <1>2, PagesInvHolds, PTL DEF PagesSpec, SessionSpec

\* The forms keep what the calls of the service keep: the ids stay in order and an
\* approved WBS has a task, also when all tasks are deleted at once
\* (session.go:50-162).
THEOREM SessionKeepsService == SessionSpec => [](IInv /\ AllSound)
<1>1. SessionSpec => []SessionInv
  BY InitSessionInv, SessionInvInductive, PTL DEF SessionSpec
<1> QED
  BY <1>1, PTL DEF SessionInv

=============================================================================
