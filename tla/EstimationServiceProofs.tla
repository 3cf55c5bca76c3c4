---------------------- MODULE EstimationServiceProofs ----------------------
(***************************************************************************)
(* Theorems about EstimationService, for every value of its constants.     *)
(*                                                                         *)
(* The argument goes through one observation (StoreStep): whatever a       *)
(* client calls, at most one WBS changes, and it changes by exactly one    *)
(* method of the aggregate, called with its checks passed.  What remains   *)
(* for each property is a lemma about the methods.                         *)
(***************************************************************************)
EXTENDS EstimationService, WBSProofs

-----------------------------------------------------------------------------
(* What the provider ports return. *)

\* What a port may return: a primed provider what it was primed with or nothing, a
\* live one what the adapter left of a submission.
TaskOutputs ==
  {ts \in Seq(Text) : /\ Len(ts) <= MaxTaskID
                      /\ Mock \/ \A i \in 1..Len(ts) : CleanText(ts[i])}

RiskOutputs ==
  {rs \in Seq(RiskAssignment) :
     Mock \/ \A i \in 1..Len(rs) : CleanText(rs[i].description)}

\* Every estimate the model may submit differs in its least and its most.  (Nothing
\* sees to that; it is not assumed here but asked for where it is needed.)
ListsSpread == \A es \in EstimateLists : SpreadList(es)

EstimateOutputs == {es \in Seq(EstimateAssignment) : ListsSpread => SpreadList(es)}

\* The primed queues have their types.
PrimedType ==
  primed \in [tasks : Seq(TaskLists), risks : Seq(RiskLists), estimates : Seq(EstimateLists)]

\* A primed provider returns nothing, or the front of its queue.
LEMMA PrimedOutcome ==
  ASSUME NEW S, NEW queue \in Seq(S), NEW live, Mock, NEW o \in Outcomes(queue, live)
  PROVE  o.err = OK /\ (o.out = << >> \/ o.out \in S)
<1>1. o = Outcome(OK, IF queue = << >> THEN << >> ELSE Head(queue))
  BY DEF Outcomes
<1>2. queue # << >> => Head(queue) \in S
  BY HeadTailProperties
<1> QED
  BY <1>1, <1>2 DEF Outcome

LEMMA EmptyOutputs ==
  << >> \in TaskOutputs /\ << >> \in RiskOutputs /\ << >> \in EstimateOutputs
BY EmptySeq, ServiceAssumption DEF TaskOutputs, RiskOutputs, EstimateOutputs, SpreadList

LEMMA OutcomeTypes ==
  ASSUME PrimedType
  PROVE  /\ \A o \in Outcomes(primed.tasks, GenerateOutcomes(TaskLists)) :
              o.err \in Results /\ o.out \in TaskOutputs
         /\ \A o \in Outcomes(primed.risks, FlagRisksOutcomes(RiskLists)) :
              o.err \in Results /\ o.out \in RiskOutputs
         /\ \A o \in Outcomes(primed.estimates, EstimateOutcomes(EstimateLists)) :
              o.err \in Results /\ o.out \in EstimateOutputs
<1>1. CASE Mock
  <2>1. /\ primed.tasks \in Seq(TaskLists)
        /\ primed.risks \in Seq(RiskLists)
        /\ primed.estimates \in Seq(EstimateLists)
    BY DEF PrimedType
  <2>2. OK \in Results
    BY DEF Results
  <2>3. /\ TaskLists \subseteq TaskOutputs
        /\ RiskLists \subseteq RiskOutputs
        /\ EstimateLists \subseteq EstimateOutputs
    BY <1>1, ServiceAssumption DEF TaskOutputs, RiskOutputs, EstimateOutputs, ListsSpread
  <2> QED
    BY <1>1, <2>1, <2>2, <2>3, PrimedOutcome, EmptyOutputs
<1>2. CASE ~Mock
  <2>1. ASSUME NEW o \in GenerateOutcomes(TaskLists)
        PROVE  o.err \in Results /\ o.out \in TaskOutputs
    <3>1. CASE o \in Failures("aiprovider.ErrNoTasks")
      BY <3>1, FailureType, EmptyOutputs DEF ProviderErrors
    <3>2. CASE o \in {TasksSubmitted(items) : items \in TaskLists}
      <4>1. PICK items \in TaskLists : o = TasksSubmitted(items)
        BY <3>2
      <4>2. items \in Seq(Text) /\ Len(items) <= MaxTaskID /\ MaxTaskID \in Nat
        BY ServiceAssumption
      <4>3. ParseTasks(items) \in TaskOutputs
        <5>1. Len(ParseTasks(items)) \in Nat /\ Len(items) \in Nat
          BY <4>2, ParseTasksProperties, LenProperties
        <5>2. Len(ParseTasks(items)) <= MaxTaskID
          BY <4>2, <5>1, ParseTasksProperties
        <5> QED
          BY <4>2, <5>2, ParseTasksProperties DEF TaskOutputs
      <4> QED
        BY <4>1, <4>3, EmptyOutputs DEF TasksSubmitted, Outcome, Results, ProviderErrors
    <3> QED
      BY <3>1, <3>2 DEF GenerateOutcomes
  <2>2. ASSUME NEW o \in FlagRisksOutcomes(RiskLists)
        PROVE  o.err \in Results /\ o.out \in RiskOutputs
    <3>1. CASE o \in Failures("ErrNoRiskSubmission")
      BY <3>1, FailureType, EmptyOutputs DEF ProviderErrors
    <3>2. CASE o \in {Outcome(OK, ParseRisks(items)) : items \in RiskLists}
      <4>1. PICK items \in RiskLists : o = Outcome(OK, ParseRisks(items))
        BY <3>2
      <4>2. ParseRisks(items) \in RiskOutputs
        BY ServiceAssumption, ParseRisksProperties DEF RiskOutputs
      <4> QED
        BY <4>1, <4>2 DEF Outcome, Results
    <3> QED
      BY <3>1, <3>2 DEF FlagRisksOutcomes
  <2>3. ASSUME NEW o \in EstimateOutcomes(EstimateLists)
        PROVE  o.err \in Results /\ o.out \in EstimateOutputs
    <3>1. CASE o \in Failures("ErrNoEstimateSubmission")
      BY <3>1, FailureType, EmptyOutputs DEF ProviderErrors
    <3>2. CASE o \in {Outcome(OK, ParseEstimates(items)) : items \in EstimateLists}
      <4>1. PICK items \in EstimateLists : o = Outcome(OK, ParseEstimates(items))
        BY <3>2
      <4>2. ParseEstimates(items) \in EstimateOutputs
        BY ServiceAssumption, ParseEstimatesProperties DEF EstimateOutputs, ListsSpread
      <4> QED
        BY <4>1, <4>2 DEF Outcome, Results
    <3> QED
      BY <3>1, <3>2 DEF EstimateOutcomes
  <2> QED
    BY <1>2, <2>1, <2>2, <2>3 DEF Outcomes
<1> QED
  BY <1>1, <1>2

-----------------------------------------------------------------------------
(* The methods of the aggregate, called with their checks passed. *)

\* v is w after one call of a method that changes it, its checks passed.
Method(w, v) ==
  \/ \E d \in Text : Trim[d] # Blank /\ w.nextSeq <= MaxTaskID /\ v = AddTask(w, d)
  \/ \E n \in 1..Len(w.tasks), d \in Text : Trim[d] # Blank /\ v = EditTask(w, n, d)
  \/ \E n \in 1..Len(w.tasks) : v = DeleteTask(w, n)
  \/ w.tasks # << >> /\ v = Approve(w)
  \/ \E list \in RiskOutputs : w.approved /\ v = ReplaceRiskNotes(w, list)
  \/ \E n \in 1..Len(w.tasks), d \in Text : Trim[d] # Blank /\ v = AddRiskNote(w, n, d)
  \/ \E n \in 1..Len(w.tasks), d \in Text :
       \E k \in 1..Len(w.tasks[n].riskNotes) :
         Trim[d] # Blank /\ v = EditRiskNote(w, n, k, d)
  \/ \E n \in 1..Len(w.tasks) :
       \E k \in 1..Len(w.tasks[n].riskNotes) : v = DeleteRiskNote(w, n, k)
  \/ \E list \in EstimateOutputs : w.approved /\ v = SetEstimates(w, list)
  \/ \E n \in 1..Len(w.tasks), e \in Estimate :
       w.tasks[n].estimate # NoEstimate /\ e.o < e.p /\ v = OverrideEstimate(w, n, e)
  \/ w.estimatesGenerated /\ v = ApproveEstimates(w)

LEMMA MethodType ==
  ASSUME NEW w \in WBSType, NEW v, Method(w, v)
  PROVE  v \in WBSType
BY AddTaskType, EditTaskType, DeleteTaskType, ApproveType, ReplaceRiskNotesType,
   AddRiskNoteType, EditRiskNoteType, DeleteRiskNoteType, SetEstimatesType,
   OverrideEstimateType DEF Method, RiskOutputs, EstimateOutputs

\* What a step may do to the store: nothing, a new WBS under the next id, or one
\* method on one WBS.
StoreStep ==
  \/ store' = store /\ nextID' = nextID
  \/ \E ds \in TaskOutputs :
       /\ nextID <= MaxWBS
       /\ store' = [id \in DOMAIN store \cup {nextID} |->
                     IF id = nextID THEN NewWBS(ds) ELSE store[id]]
       /\ nextID' = nextID + 1
  \/ \E id \in DOMAIN store, v \in WBSType :
       /\ Method(store[id], v)
       /\ store' = [store EXCEPT ![id] = v]
       /\ nextID' = nextID

\* The variables next to the store, after a step.
RestTyped == PrimedType' /\ err' \in Results

LEMMA ApplyStep ==
  ASSUME TypeOK, NEW id \in DOMAIN store, NEW e \in Results, NEW v,
         Apply(id, e, v), e = OK => Method(store[id], v)
  PROVE  StoreStep /\ RestTyped
<1>1. store[id] \in WBSType
  BY DEF TypeOK
<1>2. RestTyped
  BY DEF TypeOK, Apply, RestTyped, PrimedType
<1>3. CASE e = OK
  <2>1. v \in WBSType
    BY <1>1, <1>3, MethodType
  <2>2. store' = [store EXCEPT ![id] = v] /\ nextID' = nextID
    BY <1>3 DEF Apply
  <2> QED
    BY <1>2, <1>3, <2>1, <2>2 DEF StoreStep
<1>4. CASE e # OK
  BY <1>2, <1>4 DEF Apply, StoreStep
<1> QED
  BY <1>3, <1>4

LEMMA RejectStep ==
  ASSUME TypeOK, NEW e \in Results, Reject(e)
  PROVE  StoreStep /\ RestTyped
BY DEF Reject, StoreStep, RestTyped, TypeOK, PrimedType

LEMMA ConsumedType ==
  ASSUME NEW S, NEW queue \in Seq(S)
  PROVE  Consumed(queue) \in Seq(S)
BY HeadTailProperties DEF Consumed

\* The result of a check that found nothing wrong, or an error of the domain.
LEMMA ErrorsAreResults ==
  ASSUME NEW w, NEW n, NEW k, NEW d, NEW e, NEW inputs
  PROVE  /\ AddTaskError(d) \in Results
         /\ EditTaskError(w, n, d) \in Results
         /\ DeleteTaskError(w, n) \in Results
         /\ ApproveError(w) \in Results
         /\ DeleteRiskNoteError(w, n, k) \in Results
         /\ EditRiskNoteError(w, n, k, d) \in Results
         /\ OverrideEstimateError(w, n, e) \in Results
         /\ ApproveEstimatesError(w) \in Results
         /\ ProposalError(w, inputs) \in Results
<1> USE DEF Results, DomainErrors
<1>1. AddTaskError(d) \in Results
  BY DEF AddTaskError
<1>2. DeleteRiskNoteError(w, n, k) \in Results
  BY DEF DeleteRiskNoteError
<1>3. OverrideEstimateError(w, n, e) \in Results
  BY DEF OverrideEstimateError, ValidateError
<1>4. /\ EditTaskError(w, n, d) \in Results
      /\ EditRiskNoteError(w, n, k, d) \in Results
  BY <1>1, <1>2 DEF EditTaskError, EditRiskNoteError
<1>5. /\ DeleteTaskError(w, n) \in Results
      /\ ApproveError(w) \in Results
      /\ ApproveEstimatesError(w) \in Results
      /\ ProposalError(w, inputs) \in Results
  BY DEF DeleteTaskError, ApproveError, ApproveEstimatesError, ProposalError
<1> QED
  BY <1>1, <1>2, <1>3, <1>4, <1>5

-----------------------------------------------------------------------------
(* Every action is such a step. *)

LEMMA GenerateStep ==
  ASSUME TypeOK, NEW doc \in Documents, Generate(doc)
  PROVE  StoreStep /\ RestTyped
<1>1. CASE RequirementError(doc) # OK /\ Reject(RequirementError(doc))
  <2>1. RequirementError(doc) \in Results
    BY DEF RequirementError, Results, DomainErrors
  <2> QED
    BY <1>1, <2>1, RejectStep
<1>2. CASE ~(RequirementError(doc) # OK /\ Reject(RequirementError(doc)))
  <2>1. PICK o \in Outcomes(primed.tasks, GenerateOutcomes(TaskLists)) :
          \/ o.err # OK /\ Reject(o.err)
          \/ /\ o.err = OK
             /\ nextID <= MaxWBS
             /\ store' = [id \in DOMAIN store \cup {nextID} |->
                            IF id = nextID THEN NewWBS(o.out) ELSE store[id]]
             /\ nextID' = nextID + 1
             /\ primed' = [primed EXCEPT !.tasks = Consumed(@)]
             /\ err' = OK
    BY <1>2 DEF Generate
  <2>2. PrimedType
    BY DEF TypeOK, PrimedType
  <2>3. o.err \in Results /\ o.out \in TaskOutputs
    BY <2>2, OutcomeTypes
  <2>4. CASE o.err # OK
    BY <2>1, <2>3, <2>4, RejectStep
  <2>5. CASE o.err = OK
    <3>1. Consumed(primed.tasks) \in Seq(TaskLists)
      BY <2>2, ConsumedType DEF PrimedType
    <3>2. primed' = [primed EXCEPT !.tasks = Consumed(primed.tasks)]
      BY <2>1, <2>5
    <3>3. PrimedType'
      BY <2>2, <3>1, <3>2 DEF PrimedType
    <3>4. err' \in Results
      BY <2>1, <2>5 DEF Results
    <3>5. StoreStep
      BY <2>1, <2>3, <2>5 DEF StoreStep
    <3> QED
      BY <3>3, <3>4, <3>5 DEF RestTyped
  <2> QED
    BY <2>4, <2>5
<1> QED
  BY <1>1, <1>2

LEMMA PrimeStep ==
  ASSUME TypeOK,
         \/ \E ts \in TaskLists : Prime("tasks", ts)
         \/ \E rs \in RiskLists : Prime("risks", rs)
         \/ \E es \in EstimateLists : Prime("estimates", es)
  PROVE  StoreStep /\ RestTyped
<1>1. StoreStep /\ err' \in Results
  BY DEF Prime, StoreStep, Results
<1>2. PrimedType
  BY DEF TypeOK, PrimedType
<1>3. CASE primed' = primed
  BY <1>1, <1>2, <1>3 DEF RestTyped, PrimedType
<1>4. CASE primed' # primed
  <2>1. \/ \E ts \in TaskLists : primed' = [primed EXCEPT !.tasks = Append(@, ts)]
        \/ \E rs \in RiskLists : primed' = [primed EXCEPT !.risks = Append(@, rs)]
        \/ \E es \in EstimateLists : primed' = [primed EXCEPT !.estimates = Append(@, es)]
    BY <1>4 DEF Prime
  <2>2. /\ \A ts \in TaskLists : Append(primed.tasks, ts) \in Seq(TaskLists)
        /\ \A rs \in RiskLists : Append(primed.risks, rs) \in Seq(RiskLists)
        /\ \A es \in EstimateLists :
             Append(primed.estimates, es) \in Seq(EstimateLists)
    BY <1>2, ServiceAssumption, AppendProperties DEF PrimedType
  <2>3. PrimedType'
    BY <1>2, <2>1, <2>2 DEF PrimedType
  <2> QED
    BY <1>1, <2>3 DEF RestTyped
<1> QED
  BY <1>3, <1>4

LEMMA FlagRisksStep ==
  ASSUME TypeOK, NEW id \in DOMAIN store, FlagRisks(id)
  PROVE  StoreStep /\ RestTyped
<1>1. CASE Reject("ErrWBSNotApproved")
  BY <1>1, RejectStep DEF Results, DomainErrors
<1>2. CASE ~Reject("ErrWBSNotApproved")
  <2>1. PICK o \in Outcomes(primed.risks, FlagRisksOutcomes(RiskLists)) :
          \/ o.err # OK /\ Reject(o.err)
          \/ o.err = OK /\ Serve(id, ReplaceRiskNotes(store[id], o.out), "risks")
    BY <1>2 DEF FlagRisks
  <2>2. PrimedType /\ store[id] \in WBSType
    BY DEF TypeOK, PrimedType
  <2>3. o.err \in Results /\ o.out \in RiskOutputs
    BY <2>2, OutcomeTypes
  <2>4. CASE o.err # OK
    BY <2>1, <2>3, <2>4, RejectStep
  <2>5. CASE o.err = OK
    <3>1. Consumed(primed.risks) \in Seq(RiskLists)
      BY <2>2, ConsumedType DEF PrimedType
    <3>2. primed' = [primed EXCEPT !.risks = Consumed(primed.risks)]
      BY <2>1, <2>5 DEF Serve
    <3>3. RestTyped
      BY <2>1, <2>2, <2>5, <3>1, <3>2 DEF Serve, RestTyped, Results, PrimedType
    <3>4. store[id].approved
      BY <1>2 DEF FlagRisks
    <3>5. Method(store[id], ReplaceRiskNotes(store[id], o.out))
      BY <2>3, <3>4 DEF Method
    <3>6. StoreStep
      BY <2>1, <2>2, <2>5, <3>5, MethodType DEF Serve, StoreStep
    <3> QED
      BY <3>3, <3>6
  <2> QED
    BY <2>4, <2>5
<1> QED
  BY <1>1, <1>2

LEMMA GenerateEstimatesStep ==
  ASSUME TypeOK, NEW id \in DOMAIN store, GenerateEstimates(id)
  PROVE  StoreStep /\ RestTyped
<1>1. CASE Reject("ErrWBSNotApprovedForEstimation")
  BY <1>1, RejectStep DEF Results, DomainErrors
<1>2. CASE ~Reject("ErrWBSNotApprovedForEstimation")
  <2>1. PICK o \in Outcomes(primed.estimates, EstimateOutcomes(EstimateLists)) :
          \/ o.err # OK /\ Reject(o.err)
          \/ o.err = OK /\ Serve(id, SetEstimates(store[id], o.out), "estimates")
    BY <1>2 DEF GenerateEstimates
  <2>2. PrimedType /\ store[id] \in WBSType
    BY DEF TypeOK, PrimedType
  <2>3. o.err \in Results /\ o.out \in EstimateOutputs
    BY <2>2, OutcomeTypes
  <2>4. CASE o.err # OK
    BY <2>1, <2>3, <2>4, RejectStep
  <2>5. CASE o.err = OK
    <3>1. Consumed(primed.estimates) \in Seq(EstimateLists)
      BY <2>2, ConsumedType DEF PrimedType
    <3>2. primed' = [primed EXCEPT !.estimates = Consumed(primed.estimates)]
      BY <2>1, <2>5 DEF Serve
    <3>3. RestTyped
      BY <2>1, <2>2, <2>5, <3>1, <3>2 DEF Serve, RestTyped, Results, PrimedType
    <3>4. store[id].approved
      BY <1>2 DEF GenerateEstimates
    <3>5. Method(store[id], SetEstimates(store[id], o.out))
      BY <2>3, <3>4 DEF Method
    <3>6. StoreStep
      BY <2>1, <2>2, <2>5, <3>5, MethodType DEF Serve, StoreStep
    <3> QED
      BY <3>3, <3>6
  <2> QED
    BY <2>4, <2>5
<1> QED
  BY <1>1, <1>2

\* The calls that go through withWBS, whatever number they are called with.
LEMMA WithWBSStep ==
  ASSUME TypeOK, NEW id \in DOMAIN store,
         \/ ServiceApprove(id)
         \/ ServiceApproveEstimates(id)
         \/ \E d \in Text : ServiceAddTask(id, d)
         \/ \E n :
              \/ ServiceDeleteTask(id, n)
              \/ \E d \in Text : ServiceEditTask(id, n, d)
              \/ \E d \in Text : ServiceAddRiskNote(id, n, d)
              \/ \E e \in Overrides : ServiceOverrideEstimate(id, n, e)
              \/ \E k :
                   \/ ServiceDeleteRiskNote(id, n, k)
                   \/ \E d \in Text : ServiceEditRiskNote(id, n, k, d)
  PROVE  StoreStep /\ RestTyped
<1> DEFINE w == store[id]
<1> USE ErrorsAreResults
<1>1. CASE ServiceApprove(id)
  <2>1. ApproveError(w) = OK => Method(w, Approve(w))
    BY DEF ApproveError, OK, Method
  <2> QED
    BY <1>1, <2>1, ApplyStep DEF ServiceApprove
<1>2. CASE ServiceApproveEstimates(id)
  <2>1. ApproveEstimatesError(w) = OK => Method(w, ApproveEstimates(w))
    BY DEF ApproveEstimatesError, OK, Method
  <2> QED
    BY <1>2, <2>1, ApplyStep DEF ServiceApproveEstimates
<1>3. ASSUME NEW d \in Text, ServiceAddTask(id, d)
      PROVE  StoreStep /\ RestTyped
  <2>1. AddTaskError(d) = OK => Method(w, AddTask(w, d))
    BY <1>3 DEF AddTaskError, OK, Method, ServiceAddTask
  <2> QED
    BY <1>3, <2>1, ApplyStep DEF ServiceAddTask
<1>4. ASSUME NEW n, ServiceDeleteTask(id, n)
      PROVE  StoreStep /\ RestTyped
  <2>1. DeleteTaskError(w, n) = OK => Method(w, DeleteTask(w, n))
    BY DEF DeleteTaskError, TaskExists, OK, Method
  <2> QED
    BY <1>4, <2>1, ApplyStep DEF ServiceDeleteTask
<1>5. ASSUME NEW n, NEW d \in Text, ServiceEditTask(id, n, d)
      PROVE  StoreStep /\ RestTyped
  <2>1. EditTaskError(w, n, d) = OK => Method(w, EditTask(w, n, d))
    BY DEF EditTaskError, AddTaskError, TaskExists, OK, Method
  <2> QED
    BY <1>5, <2>1, ApplyStep DEF ServiceEditTask
<1>6. ASSUME NEW n, NEW d \in Text, ServiceAddRiskNote(id, n, d)
      PROVE  StoreStep /\ RestTyped
  <2>1. AddRiskNoteError(w, n, d) = OK => Method(w, AddRiskNote(w, n, d))
    BY DEF AddRiskNoteError, EditTaskError, AddTaskError, TaskExists, OK, Method
  <2> QED
    BY <1>6, <2>1, ApplyStep DEF ServiceAddRiskNote, AddRiskNoteError
<1>7. ASSUME NEW n, NEW e \in Overrides, ServiceOverrideEstimate(id, n, e)
      PROVE  StoreStep /\ RestTyped
  <2>1. OverrideEstimateError(w, n, e) = OK => Method(w, OverrideEstimate(w, n, e))
    <3>1. e \in Estimate
      BY ServiceAssumption
    <3>2. OverrideEstimateError(w, n, e) = OK => ValidateError(e) = OK
      BY DEF OverrideEstimateError, OK
    <3>3. ValidateError(e) = OK => e.o < e.m /\ e.m < e.p
      BY DEF ValidateError, OK
    <3>4. e.o < e.m /\ e.m < e.p => e.o < e.p
      BY <3>1 DEF Estimate
    <3> QED
      BY <3>1, <3>2, <3>3, <3>4 DEF OverrideEstimateError, TaskExists, OK, Method
  <2> QED
    BY <1>7, <2>1, ApplyStep DEF ServiceOverrideEstimate
<1>8. ASSUME NEW n, NEW k, ServiceDeleteRiskNote(id, n, k)
      PROVE  StoreStep /\ RestTyped
  <2>1. DeleteRiskNoteError(w, n, k) = OK => Method(w, DeleteRiskNote(w, n, k))
    BY DEF DeleteRiskNoteError, TaskExists, OK, Method
  <2> QED
    BY <1>8, <2>1, ApplyStep DEF ServiceDeleteRiskNote
<1>9. ASSUME NEW n, NEW k, NEW d \in Text, ServiceEditRiskNote(id, n, k, d)
      PROVE  StoreStep /\ RestTyped
  <2>1. EditRiskNoteError(w, n, k, d) = OK => Method(w, EditRiskNote(w, n, k, d))
    BY DEF EditRiskNoteError, DeleteRiskNoteError, AddTaskError, TaskExists, OK, Method
  <2> QED
    BY <1>9, <2>1, ApplyStep DEF ServiceEditRiskNote
<1> QED
  BY <1>1, <1>2, <1>3, <1>4, <1>5, <1>6, <1>7, <1>8, <1>9

LEMMA NextStep ==
  ASSUME TypeOK, Next
  PROVE  StoreStep /\ RestTyped
<1>1. ASSUME NEW id, GetFails(id)
      PROVE  StoreStep /\ RestTyped
  BY <1>1, RejectStep DEF GetFails, Results, DomainErrors
<1>2. ASSUME NEW id \in DOMAIN store, NEW inputs \in TeamInputSet, Proposal(id, inputs)
      PROVE  StoreStep /\ RestTyped
  BY <1>2, RejectStep, ErrorsAreResults DEF Proposal
<1> QED
  BY <1>1, <1>2, GenerateStep, PrimeStep, FlagRisksStep, GenerateEstimatesStep,
     WithWBSStep DEF Next

-----------------------------------------------------------------------------
(* Type correctness. *)

LEMMA InitTyped == Init => TypeOK
BY EmptySeq DEF Init, TypeOK, Results

LEMMA StepTyped ==
  ASSUME TypeOK, StoreStep, RestTyped
  PROVE  TypeOK'
<1>1. nextID' \in Nat \ {0} /\ store' \in [1..(nextID' - 1) -> WBSType]
  <2>1. nextID \in Nat \ {0} /\ store \in [1..(nextID - 1) -> WBSType]
    BY DEF TypeOK
  <2>2. CASE store' = store /\ nextID' = nextID
    BY <2>1, <2>2
  <2>3. ASSUME NEW ds \in TaskOutputs,
               store' = [id \in DOMAIN store \cup {nextID} |->
                           IF id = nextID THEN NewWBS(ds) ELSE store[id]],
               nextID' = nextID + 1
        PROVE  nextID' \in Nat \ {0} /\ store' \in [1..(nextID' - 1) -> WBSType]
    <3>1. NewWBS(ds) \in WBSType
      BY NewWBSType DEF TaskOutputs
    <3>2. DOMAIN store \cup {nextID} = 1..(nextID' - 1)
      BY <2>1, <2>3
    <3> QED
      BY <2>1, <2>3, <3>1, <3>2
  <2>4. CASE \E id \in DOMAIN store, v \in WBSType :
               store' = [store EXCEPT ![id] = v] /\ nextID' = nextID
    BY <2>1, <2>4
  <2> QED
    BY <2>2, <2>3, <2>4 DEF StoreStep
<1> QED
  BY <1>1 DEF TypeOK, RestTyped, PrimedType

LEMMA TypeKept == TypeOK /\ [Next]_vars => TypeOK'
<1>1. UNCHANGED vars /\ TypeOK => TypeOK'
  BY DEF vars, TypeOK
<1> QED
  BY <1>1, NextStep, StepTyped

\* Every variable keeps its type through every sequence of calls: the store is a
\* function on exactly the ids handed out, and no method leaves a hole in a task
\* list, a note list or an estimate (service.go, wbs.go, risk.go, estimate.go).
THEOREM TypeCorrect == Spec => []TypeOK
BY InitTyped, TypeKept, PTL DEF Spec

-----------------------------------------------------------------------------
(* What the methods do to the task list. *)

\* The same tasks in the same places, by their ids; and with their descriptions;
\* and with their estimates.
KeepsIDs(w, v) ==
  /\ Len(v.tasks) = Len(w.tasks) /\ v.nextSeq = w.nextSeq
  /\ \A i \in 1..Len(w.tasks) : v.tasks[i].id = w.tasks[i].id

KeepsDescriptions(w, v) ==
  \A i \in 1..Len(w.tasks) : v.tasks[i].description = w.tasks[i].description

KeepsEstimates(w, v) ==
  \A i \in 1..Len(w.tasks) : v.tasks[i].estimate = w.tasks[i].estimate

Adds(w, v) ==
  /\ \E t \in Task : t.id = w.nextSeq /\ v.tasks = Append(w.tasks, t)
  /\ v.nextSeq = w.nextSeq + 1
  /\ ~v.approved

Deletes(w, v) ==
  /\ \E n \in 1..Len(w.tasks) : v.tasks = RemoveAt(w.tasks, n)
  /\ v.nextSeq = w.nextSeq
  /\ ~v.approved

Keeps(w, v) ==
  /\ KeepsIDs(w, v)
  /\ KeepsDescriptions(w, v) \/ ~v.approved
  /\ KeepsEstimates(w, v) \/ ~v.estimatesApproved
  /\ v.approved => w.approved \/ w.tasks # << >>

\* One task of w is another: what has to be seen of it.
LEMMA OneTask ==
  ASSUME NEW w \in WBSType, NEW v \in WBSType, NEW n \in 1..Len(w.tasks), NEW t,
         v.tasks = [w.tasks EXCEPT ![n] = t], v.nextSeq = w.nextSeq,
         t.id = w.tasks[n].id
  PROVE  /\ KeepsIDs(w, v)
         /\ t.description = w.tasks[n].description => KeepsDescriptions(w, v)
         /\ t.estimate = w.tasks[n].estimate => KeepsEstimates(w, v)
<1>1. w.tasks \in Seq(Task) /\ v.tasks \in Seq(Task)
  BY DEF WBSType
<1>2. DOMAIN w.tasks = 1..Len(w.tasks) /\ DOMAIN v.tasks = 1..Len(v.tasks)
      /\ Len(w.tasks) \in Nat /\ Len(v.tasks) \in Nat
  BY <1>1, LenProperties
<1>3. 1..Len(v.tasks) = 1..Len(w.tasks)
  BY <1>2
<1>4. Len(v.tasks) = Len(w.tasks)
  BY <1>2, <1>3
<1>5. \A i \in 1..Len(w.tasks) : v.tasks[i] = IF i = n THEN t ELSE w.tasks[i]
  BY <1>2
<1> QED
  BY <1>4, <1>5 DEF KeepsIDs, KeepsDescriptions, KeepsEstimates

\* All tasks of w are others, under the same ids and descriptions.
LEMMA AllTasks ==
  ASSUME NEW w \in WBSType, NEW v \in WBSType,
         DOMAIN v.tasks = DOMAIN w.tasks, v.nextSeq = w.nextSeq,
         \A i \in DOMAIN w.tasks : /\ v.tasks[i].id = w.tasks[i].id
                                  /\ v.tasks[i].description = w.tasks[i].description
  PROVE  KeepsIDs(w, v) /\ KeepsDescriptions(w, v)
<1>1. w.tasks \in Seq(Task) /\ v.tasks \in Seq(Task)
  BY DEF WBSType
<1>2. DOMAIN w.tasks = 1..Len(w.tasks) /\ DOMAIN v.tasks = 1..Len(v.tasks)
      /\ Len(w.tasks) \in Nat /\ Len(v.tasks) \in Nat
  BY <1>1, LenProperties
<1>3. Len(v.tasks) = Len(w.tasks)
  BY <1>2
<1> QED
  BY <1>2, <1>3 DEF KeepsIDs, KeepsDescriptions

LEMMA MethodShape ==
  ASSUME NEW w \in WBSType, NEW v \in WBSType, Method(w, v)
  PROVE  Adds(w, v) \/ Deletes(w, v) \/ Keeps(w, v)
<1>1. ASSUME NEW d \in Text, v = AddTask(w, d)
      PROVE  Adds(w, v)
  <2> DEFINE t == NewTask(w.nextSeq, Trim[d])
  <2>1. t \in Task /\ t.id = w.nextSeq
    BY TextAssumption, EmptySeq DEF NewTask, Task, WBSType
  <2>2. v.tasks = Append(w.tasks, t) /\ v.nextSeq = w.nextSeq + 1 /\ ~v.approved
    BY <1>1 DEF AddTask, WBSType
  <2> QED
    BY <2>1, <2>2 DEF Adds
<1>2. ASSUME NEW n \in 1..Len(w.tasks), NEW d \in Text, v = EditTask(w, n, d)
      PROVE  Keeps(w, v)
  <2> DEFINE t == [w.tasks[n] EXCEPT !.description = Trim[d]]
  <2>1. w.tasks[n] \in Task
    BY ElementOfSeq DEF WBSType
  <2>2. t.id = w.tasks[n].id /\ t.estimate = w.tasks[n].estimate
    BY <2>1 DEF Task
  <2>3. v = [w EXCEPT !.tasks = [w.tasks EXCEPT ![n] = t], !.approved = FALSE]
    BY <1>2 DEF EditTask
  <2> HIDE DEF t
  <2>4. v.tasks = [w.tasks EXCEPT ![n] = t] /\ v.nextSeq = w.nextSeq /\ ~v.approved
    BY <2>3 DEF WBSType
  <2> QED
    BY <2>2, <2>4, OneTask DEF Keeps
<1>3. ASSUME NEW n \in 1..Len(w.tasks), v = DeleteTask(w, n)
      PROVE  Deletes(w, v)
  BY <1>3 DEF DeleteTask, Deletes, WBSType
<1>4. ASSUME v \in {Approve(w), ApproveEstimates(w)}, v.approved => w.approved \/ w.tasks # << >>
      PROVE  Keeps(w, v)
  <2>1. v.tasks = w.tasks /\ v.nextSeq = w.nextSeq
    BY <1>4 DEF Approve, ApproveEstimates, WBSType
  <2> QED
    BY <1>4, <2>1 DEF Keeps, KeepsIDs, KeepsDescriptions, KeepsEstimates
<1>5. ASSUME NEW list \in Seq(RiskAssignment), v = ReplaceRiskNotes(w, list)
      PROVE  Keeps(w, v)
  <2>1. /\ DOMAIN v.tasks = DOMAIN w.tasks
        /\ v.nextSeq = w.nextSeq /\ v.approved = w.approved
    BY <1>5 DEF ReplaceRiskNotes, WBSType
  <2>2. ASSUME NEW i \in DOMAIN w.tasks
        PROVE  /\ v.tasks[i].id = w.tasks[i].id
               /\ v.tasks[i].description = w.tasks[i].description
               /\ v.tasks[i].estimate = w.tasks[i].estimate
    <3>1. \E notes : v.tasks[i] = [w.tasks[i] EXCEPT !.riskNotes = notes]
      BY <1>5 DEF ReplaceRiskNotes, WBSType
    <3>2. w.tasks[i] \in Task
      BY ElementOfSeq, LenProperties DEF WBSType
    <3> QED
      BY <3>1, <3>2 DEF Task
  <2>3. KeepsEstimates(w, v)
    BY <2>2, LenProperties DEF KeepsEstimates, WBSType
  <2> QED
    BY <2>1, <2>2, <2>3, AllTasks DEF Keeps
<1>6. ASSUME NEW n \in 1..Len(w.tasks), NEW notes,
             v.tasks = [w.tasks EXCEPT ![n] = [w.tasks[n] EXCEPT !.riskNotes = notes]],
             v.nextSeq = w.nextSeq, v.approved = w.approved
      PROVE  Keeps(w, v)
  <2> DEFINE t == [w.tasks[n] EXCEPT !.riskNotes = notes]
  <2>1. w.tasks[n] \in Task
    BY ElementOfSeq DEF WBSType
  <2>2. /\ t.id = w.tasks[n].id
        /\ t.description = w.tasks[n].description
        /\ t.estimate = w.tasks[n].estimate
    BY <2>1 DEF Task
  <2>3. v.tasks = [w.tasks EXCEPT ![n] = t]
    BY <1>6
  <2> HIDE DEF t
  <2> QED
    BY <1>6, <2>2, <2>3, OneTask DEF Keeps
<1>7. ASSUME NEW list \in Seq(EstimateAssignment), v = SetEstimates(w, list)
      PROVE  Keeps(w, v)
  <2>1. /\ DOMAIN v.tasks = DOMAIN w.tasks
        /\ v.nextSeq = w.nextSeq /\ v.approved = w.approved /\ ~v.estimatesApproved
    BY <1>7 DEF SetEstimates, WBSType
  <2>2. ASSUME NEW i \in DOMAIN w.tasks
        PROVE  /\ v.tasks[i].id = w.tasks[i].id
               /\ v.tasks[i].description = w.tasks[i].description
    <3>1. \E e : v.tasks[i] = [w.tasks[i] EXCEPT !.estimate = e]
      BY <1>7 DEF SetEstimates, WBSType
    <3>2. w.tasks[i] \in Task
      BY ElementOfSeq, LenProperties DEF WBSType
    <3> QED
      BY <3>1, <3>2 DEF Task
  <2> QED
    BY <2>1, <2>2, AllTasks DEF Keeps
<1>8. ASSUME NEW n \in 1..Len(w.tasks), NEW e \in Estimate, v = OverrideEstimate(w, n, e)
      PROVE  Keeps(w, v)
  <2> DEFINE t == [w.tasks[n] EXCEPT !.estimate = [e EXCEPT !.reasoning = Trim[e.reasoning]]]
  <2>1. w.tasks[n] \in Task
    BY ElementOfSeq DEF WBSType
  <2>2. t.id = w.tasks[n].id /\ t.description = w.tasks[n].description
    BY <2>1 DEF Task
  <2>3. v = [w EXCEPT !.tasks = [w.tasks EXCEPT ![n] = t], !.estimatesApproved = FALSE]
    BY <1>8 DEF OverrideEstimate
  <2> HIDE DEF t
  <2>4. /\ v.tasks = [w.tasks EXCEPT ![n] = t] /\ v.nextSeq = w.nextSeq
        /\ v.approved = w.approved /\ ~v.estimatesApproved
    BY <2>3 DEF WBSType
  <2> QED
    BY <2>2, <2>4, OneTask DEF Keeps
<1>9. ASSUME NEW n \in 1..Len(w.tasks), NEW d \in Text, v = AddRiskNote(w, n, d)
      PROVE  Keeps(w, v)
  <2> DEFINE notes == Append(w.tasks[n].riskNotes,
                             [id |-> w.nextNote, description |-> Trim[d]])
  <2>1. v = [w EXCEPT !.tasks = [w.tasks EXCEPT ![n] = [w.tasks[n] EXCEPT !.riskNotes = notes]],
                      !.nextNote = w.nextNote + 1]
    BY <1>9 DEF AddRiskNote
  <2> HIDE DEF notes
  <2> QED
    BY <1>6, <2>1 DEF WBSType
<1>10. ASSUME NEW n \in 1..Len(w.tasks), NEW d \in Text,
              NEW k \in 1..Len(w.tasks[n].riskNotes), v = EditRiskNote(w, n, k, d)
       PROVE  Keeps(w, v)
  <2> DEFINE notes == [w.tasks[n].riskNotes EXCEPT ![k].description = Trim[d]]
  <2>1. v = [w EXCEPT !.tasks = [w.tasks EXCEPT ![n] = [w.tasks[n] EXCEPT !.riskNotes = notes]]]
    BY <1>10 DEF EditRiskNote
  <2> HIDE DEF notes
  <2> QED
    BY <1>6, <2>1 DEF WBSType
<1>11. ASSUME NEW n \in 1..Len(w.tasks), NEW k \in 1..Len(w.tasks[n].riskNotes),
              v = DeleteRiskNote(w, n, k)
       PROVE  Keeps(w, v)
  <2> DEFINE notes == RemoveAt(w.tasks[n].riskNotes, k)
  <2>1. v = [w EXCEPT !.tasks = [w.tasks EXCEPT ![n] = [w.tasks[n] EXCEPT !.riskNotes = notes]]]
    BY <1>11 DEF DeleteRiskNote
  <2> HIDE DEF notes
  <2> QED
    BY <1>6, <2>1 DEF WBSType
<1>12. ApproveEstimates(w).approved = w.approved
  BY DEF ApproveEstimates, WBSType
<1> QED
  BY <1>1, <1>2, <1>3, <1>4, <1>5, <1>7, <1>8, <1>9, <1>10, <1>11, <1>12
     DEF Method, RiskOutputs, EstimateOutputs

\* The tasks of v, when one was added or deleted, are the old ones in their old
\* order, and at most a new one at the end.
LEMMA AddsTasks ==
  ASSUME NEW w \in WBSType, NEW v \in WBSType, Adds(w, v)
  PROVE  /\ Len(v.tasks) = Len(w.tasks) + 1
         /\ \A i \in 1..Len(w.tasks) : v.tasks[i] = w.tasks[i]
         /\ v.tasks[Len(w.tasks) + 1].id = w.nextSeq
<1>1. PICK t \in Task : t.id = w.nextSeq /\ v.tasks = Append(w.tasks, t)
  BY DEF Adds
<1>2. w.tasks \in Seq(Task)
  BY DEF WBSType
<1> QED
  BY <1>1, <1>2, AppendProperties

LEMMA DeletesTasks ==
  ASSUME NEW w \in WBSType, NEW v \in WBSType, Deletes(w, v)
  PROVE  /\ Len(v.tasks) = Len(w.tasks) - 1
         /\ \E n \in 1..Len(w.tasks) : \A j \in 1..(Len(w.tasks) - 1) :
              v.tasks[j] = IF j < n THEN w.tasks[j] ELSE w.tasks[j + 1]
<1>1. PICK n \in 1..Len(w.tasks) : v.tasks = RemoveAt(w.tasks, n)
  BY DEF Deletes
<1>2. w.tasks \in Seq(Task)
  BY DEF WBSType
<1> QED
  BY <1>1, <1>2, RemoveAtProperties

LEMMA MethodKeepsOrder ==
  ASSUME NEW w \in WBSType, NEW v \in WBSType, Method(w, v), OrderedTaskIDs(w)
  PROVE  OrderedTaskIDs(v)
<1>1. /\ DOMAIN w.tasks = 1..Len(w.tasks) /\ Len(w.tasks) \in Nat
      /\ DOMAIN v.tasks = 1..Len(v.tasks) /\ Len(v.tasks) \in Nat
      /\ w.nextSeq \in Nat
  BY LenProperties DEF WBSType
<1>2. \A i \in 1..Len(w.tasks) : w.tasks[i].id \in Nat
  <2>1. \A i \in 1..Len(w.tasks) : w.tasks[i] \in Task
    BY ElementOfSeq DEF WBSType
  <2> QED
    BY <2>1 DEF Task
<1>3. /\ \A i \in 1..Len(w.tasks) : w.tasks[i].id < w.nextSeq
      /\ \A i, j \in 1..Len(w.tasks) : i < j => w.tasks[i].id < w.tasks[j].id
  BY <1>1 DEF OrderedTaskIDs
<1>4. SUFFICES /\ \A i \in 1..Len(v.tasks) : v.tasks[i].id < v.nextSeq
               /\ \A i, j \in 1..Len(v.tasks) : i < j => v.tasks[i].id < v.tasks[j].id
  BY <1>1 DEF OrderedTaskIDs
<1>5. CASE Adds(w, v)
  <2>1. /\ Len(v.tasks) = Len(w.tasks) + 1
        /\ \A i \in 1..Len(w.tasks) : v.tasks[i].id = w.tasks[i].id
        /\ v.tasks[Len(w.tasks) + 1].id = w.nextSeq
        /\ v.nextSeq = w.nextSeq + 1
    BY <1>5, AddsTasks DEF Adds
  <2>2. \A i \in 1..Len(v.tasks) : i \in 1..Len(w.tasks) \/ i = Len(w.tasks) + 1
    BY <1>1, <2>1
  <2>3. ASSUME NEW i \in 1..Len(v.tasks)
        PROVE  v.tasks[i].id < v.nextSeq
    <3>1. CASE i \in 1..Len(w.tasks)
      <4>1. v.tasks[i].id \in Nat /\ v.tasks[i].id < w.nextSeq
        BY <1>2, <1>3, <2>1, <3>1
      <4> QED
        BY <1>1, <2>1, <4>1
    <3>2. CASE i = Len(w.tasks) + 1
      BY <1>1, <2>1, <3>2
    <3> QED
      BY <2>2, <3>1, <3>2
  <2>4. ASSUME NEW i \in 1..Len(v.tasks), NEW j \in 1..Len(v.tasks), i < j
        PROVE  v.tasks[i].id < v.tasks[j].id
    <3>1. i \in 1..Len(w.tasks)
      BY <1>1, <2>1, <2>4
    <3> QED
      BY <1>3, <2>1, <2>2, <2>4, <3>1
  <2> QED
    BY <2>3, <2>4
<1>6. CASE Deletes(w, v)
  <2>1. PICK n \in 1..Len(w.tasks) : \A j \in 1..(Len(w.tasks) - 1) :
          v.tasks[j] = IF j < n THEN w.tasks[j] ELSE w.tasks[j + 1]
    BY <1>6, DeletesTasks
  <2>2. Len(v.tasks) = Len(w.tasks) - 1 /\ v.nextSeq = w.nextSeq
    BY <1>6, DeletesTasks DEF Deletes
  <2> DEFINE Old(j) == IF j < n THEN j ELSE j + 1
  <2>3. \A j \in 1..Len(v.tasks) : Old(j) \in 1..Len(w.tasks)
                                  /\ v.tasks[j].id = w.tasks[Old(j)].id
    BY <1>1, <2>1, <2>2
  <2>4. \A i, j \in 1..Len(v.tasks) : i < j => Old(i) < Old(j)
    BY <1>1
  <2> HIDE DEF Old
  <2> QED
    BY <1>3, <2>2, <2>3, <2>4
<1>7. CASE Keeps(w, v)
  BY <1>3, <1>7 DEF Keeps, KeepsIDs
<1> QED
  BY <1>5, <1>6, <1>7, MethodShape

\* Two tasks with the same id are the same task.
LEMMA OrderedIDsUnique ==
  ASSUME NEW w \in WBSType, OrderedTaskIDs(w),
         NEW i \in 1..Len(w.tasks), NEW j \in 1..Len(w.tasks),
         w.tasks[i].id = w.tasks[j].id
  PROVE  i = j
<1>1. DOMAIN w.tasks = 1..Len(w.tasks) /\ Len(w.tasks) \in Nat
  BY LenProperties DEF WBSType
<1>2. w.tasks[i].id \in Nat /\ w.tasks[j].id \in Nat
  <2>1. w.tasks[i] \in Task /\ w.tasks[j] \in Task
    BY ElementOfSeq DEF WBSType
  <2> QED
    BY <2>1 DEF Task
<1>3. /\ i < j => w.tasks[i].id < w.tasks[j].id
      /\ j < i => w.tasks[j].id < w.tasks[i].id
  BY <1>1 DEF OrderedTaskIDs
<1> QED
  BY <1>1, <1>2, <1>3

\* An addition or a deletion leaves every other task as it is.
LEMMA SurvivorsSame ==
  ASSUME NEW w \in WBSType, NEW v \in WBSType, OrderedTaskIDs(w),
         Adds(w, v) \/ Deletes(w, v),
         NEW i \in 1..Len(w.tasks), NEW j \in 1..Len(v.tasks),
         w.tasks[i].id = v.tasks[j].id
  PROVE  w.tasks[i] = v.tasks[j]
<1>1. /\ DOMAIN w.tasks = 1..Len(w.tasks) /\ Len(w.tasks) \in Nat
      /\ DOMAIN v.tasks = 1..Len(v.tasks) /\ Len(v.tasks) \in Nat
  BY LenProperties DEF WBSType
<1>2. SUFFICES \E k \in 1..Len(w.tasks) : v.tasks[j] = w.tasks[k]
  BY OrderedIDsUnique
<1>3. CASE Adds(w, v)
  <2>1. /\ Len(v.tasks) = Len(w.tasks) + 1
        /\ \A k \in 1..Len(w.tasks) : v.tasks[k] = w.tasks[k]
        /\ v.tasks[Len(w.tasks) + 1].id = w.nextSeq
    BY <1>3, AddsTasks
  <2>2. j # Len(w.tasks) + 1
    <3>1. w.tasks[i].id < w.nextSeq
      BY <1>1 DEF OrderedTaskIDs
    <3>2. w.tasks[i].id \in Nat /\ w.nextSeq \in Nat
      <4>1. w.tasks[i] \in Task
        BY ElementOfSeq DEF WBSType
      <4> QED
        BY <4>1 DEF Task, WBSType
    <3> QED
      BY <2>1, <3>1, <3>2
  <2>3. j \in 1..Len(w.tasks)
    BY <1>1, <2>1, <2>2
  <2> QED
    BY <2>1, <2>3
<1>4. CASE Deletes(w, v)
  <2>1. PICK n \in 1..Len(w.tasks) : \A k \in 1..(Len(w.tasks) - 1) :
          v.tasks[k] = IF k < n THEN w.tasks[k] ELSE w.tasks[k + 1]
    BY <1>4, DeletesTasks
  <2>2. Len(v.tasks) = Len(w.tasks) - 1
    BY <1>4, DeletesTasks
  <2>3. j \in 1..Len(w.tasks) /\ j + 1 \in 1..Len(w.tasks)
    BY <1>1, <2>2
  <2>4. v.tasks[j] = w.tasks[j] \/ v.tasks[j] = w.tasks[j + 1]
    BY <1>1, <2>1, <2>2
  <2> QED
    BY <2>3, <2>4
<1> QED
  BY <1>3, <1>4

-----------------------------------------------------------------------------
(* The invariants. *)

\* What holds of every reachable state: the inductive invariant of this module.
\* The typing is needed to know that a method is called on an aggregate, and each
\* of the other two is kept by every method on its own.
IInv == TypeOK /\ TaskIDsOrdered /\ ApprovedNotEmpty

LEMMA MethodKeepsNotEmpty ==
  ASSUME NEW w \in WBSType, NEW v \in WBSType, Method(w, v),
         w.approved => w.tasks # << >>
  PROVE  v.approved => v.tasks # << >>
<1>1. CASE Adds(w, v) \/ Deletes(w, v)
  BY <1>1 DEF Adds, Deletes
<1>2. CASE Keeps(w, v)
  <2>1. w.tasks \in Seq(Task) /\ v.tasks \in Seq(Task) /\ Len(v.tasks) = Len(w.tasks)
    BY <1>2 DEF Keeps, KeepsIDs, WBSType
  <2>2. w.tasks # << >> => v.tasks # << >>
    BY <2>1, EmptySeq
  <2> QED
    BY <1>2, <2>2 DEF Keeps
<1> QED
  BY <1>1, <1>2, MethodShape

LEMMA NewWBSSound ==
  ASSUME NEW ds \in TaskOutputs
  PROVE  OrderedTaskIDs(NewWBS(ds)) /\ ~NewWBS(ds).approved
<1>1. Len(ds) \in Nat
  BY LenProperties DEF TaskOutputs
<1> QED
  BY <1>1 DEF OrderedTaskIDs, NewWBS, NewTask

LEMMA StepKeepsIInv ==
  ASSUME IInv, StoreStep, RestTyped
  PROVE  IInv'
<1>1. TypeOK'
  BY StepTyped DEF IInv
<1>2. SUFFICES TaskIDsOrdered' /\ ApprovedNotEmpty'
  BY <1>1 DEF IInv
<1>3. CASE store' = store
  BY <1>3 DEF IInv, TaskIDsOrdered, ApprovedNotEmpty
<1>4. ASSUME NEW ds \in TaskOutputs,
             store' = [id \in DOMAIN store \cup {nextID} |->
                         IF id = nextID THEN NewWBS(ds) ELSE store[id]]
      PROVE  TaskIDsOrdered' /\ ApprovedNotEmpty'
  <2>1. \A id \in DOMAIN store' :
          store'[id] = NewWBS(ds) \/ (id \in DOMAIN store /\ store'[id] = store[id])
    BY <1>4
  <2> QED
    BY <2>1, NewWBSSound DEF IInv, TaskIDsOrdered, ApprovedNotEmpty
<1>5. ASSUME NEW id \in DOMAIN store, NEW v \in WBSType,
             Method(store[id], v), store' = [store EXCEPT ![id] = v]
      PROVE  TaskIDsOrdered' /\ ApprovedNotEmpty'
  <2>1. store[id] \in WBSType
    BY DEF IInv, TypeOK
  <2>2. OrderedTaskIDs(v) /\ (v.approved => v.tasks # << >>)
    BY <1>5, <2>1, MethodKeepsOrder, MethodKeepsNotEmpty
       DEF IInv, TaskIDsOrdered, ApprovedNotEmpty
  <2>3. \A i \in DOMAIN store' : i \in DOMAIN store /\ store'[i] = IF i = id THEN v ELSE store[i]
    BY <1>5
  <2> QED
    BY <2>2, <2>3 DEF IInv, TaskIDsOrdered, ApprovedNotEmpty
<1> QED
  BY <1>3, <1>4, <1>5 DEF StoreStep

LEMMA IInvInductive == IInv /\ [Next]_vars => IInv'
<1>1. UNCHANGED vars /\ IInv => IInv'
  BY DEF vars, IInv, TypeOK, TaskIDsOrdered, ApprovedNotEmpty
<1>2. IInv /\ Next => StoreStep /\ RestTyped
  BY NextStep DEF IInv
<1> QED
  BY <1>1, <1>2, StepKeepsIInv

THEOREM IInvHolds == Spec => []IInv
<1>1. Init => IInv
  BY InitTyped DEF IInv, Init, TaskIDsOrdered, ApprovedNotEmpty
<1> QED
  BY <1>1, IInvInductive, PTL DEF Spec

\* Task ids ascend along the list and stay below the counter, for any number of
\* WBSs, tasks, edits and deletions: an id never comes to mean another task
\* (wbs.go:8-9, 104-137).
THEOREM TaskIDsStayOrdered == Spec => []TaskIDsOrdered
BY IInvHolds, PTL DEF IInv

\* An approved WBS is never empty: deleting its last task unapproves it
\* (wbs.go:129-146).
THEOREM ApprovedNeverEmpty == Spec => []ApprovedNotEmpty
BY IInvHolds, PTL DEF IInv

-----------------------------------------------------------------------------
(* The action properties. *)

\* A WBS that is there before a step is there after it, as it was or after one
\* method.
LEMMA OneWBS ==
  ASSUME IInv, [Next]_vars, NEW id \in DOMAIN store
  PROVE  /\ store[id] \in WBSType
         /\ OrderedTaskIDs(store[id])
         /\ \/ store'[id] = store[id]
            \/ /\ store'[id] \in WBSType
               /\ Method(store[id], store'[id])
<1>1. store[id] \in WBSType /\ OrderedTaskIDs(store[id])
  BY DEF IInv, TypeOK, TaskIDsOrdered
<1>2. CASE UNCHANGED vars
  BY <1>1, <1>2 DEF vars
<1>3. CASE Next
  <2>1. StoreStep
    BY <1>3, NextStep DEF IInv
  <2>2. CASE \E ds \in TaskOutputs :
               store' = [i \in DOMAIN store \cup {nextID} |->
                           IF i = nextID THEN NewWBS(ds) ELSE store[i]]
    <3>1. id # nextID
      BY DEF IInv, TypeOK
    <3> QED
      BY <1>1, <2>2, <3>1
  <2>3. CASE \E i \in DOMAIN store, v \in WBSType :
               Method(store[i], v) /\ store' = [store EXCEPT ![i] = v]
    BY <1>1, <2>3
  <2>4. CASE store' = store
    BY <1>1, <2>4
  <2> QED
    BY <2>1, <2>2, <2>3, <2>4 DEF StoreStep
<1> QED
  BY <1>2, <1>3

\* While a WBS stays approved nothing changes its breakdown: of the methods, only
\* those that edit the structure could, and each of them unapproves it
\* (wbs.go:36, 104-137).
THEOREM ApprovedListStaysFrozen == Spec => ApprovedListFrozen
<1> DEFINE Frozen == \A id \in DOMAIN store :
                       store[id].approved /\ store'[id].approved
                         => Breakdown(store'[id]) = Breakdown(store[id])
<1>1. IInv /\ [Next]_vars => Frozen
  <2>1. SUFFICES ASSUME IInv, [Next]_vars, NEW id \in DOMAIN store,
                        store[id].approved, store'[id].approved
                 PROVE  Breakdown(store'[id]) = Breakdown(store[id])
    OBVIOUS
  <2>2. CASE store'[id] = store[id]
    BY <2>2
  <2>3. CASE store'[id] # store[id]
    <3> DEFINE w == store[id]
               v == store'[id]
    <3>1. w \in WBSType /\ v \in WBSType /\ Method(w, v)
      BY <2>1, <2>3, OneWBS
    <3>2. v.approved
      BY <2>1
    <3> HIDE DEF w, v
    <3>3. Keeps(w, v) /\ KeepsDescriptions(w, v)
      BY <3>1, <3>2, MethodShape DEF Adds, Deletes, Keeps
    <3>4. /\ DOMAIN w.tasks = 1..Len(w.tasks)
          /\ DOMAIN v.tasks = 1..Len(v.tasks)
          /\ Len(v.tasks) = Len(w.tasks)
      BY <3>1, <3>3, LenProperties DEF Keeps, KeepsIDs, WBSType
    <3>5. \A i \in 1..Len(w.tasks) : /\ v.tasks[i].id = w.tasks[i].id
                                     /\ v.tasks[i].description = w.tasks[i].description
      BY <3>3 DEF Keeps, KeepsIDs, KeepsDescriptions
    <3>6. Breakdown(v) = Breakdown(w)
      BY <3>4, <3>5 DEF Breakdown
    <3> QED
      BY <3>6 DEF v, w
  <2> QED
    BY <2>2, <2>3
<1> QED
  BY <1>1, IInvHolds, PTL DEF Spec, ApprovedListFrozen

\* The estimates of an approved set do not change while it stays approved: the two
\* methods that set estimates take the approval back, and the others move the
\* tasks about at most, each with its estimate (estimate.go:58-101).
THEOREM ApprovedEstimatesStayFrozen == Spec => ApprovedEstimatesFrozen
<1> DEFINE Frozen ==
      \A id \in DOMAIN store :
        store[id].estimatesApproved /\ store'[id].estimatesApproved
          => \A i \in DOMAIN store[id].tasks, j \in DOMAIN store'[id].tasks :
               store[id].tasks[i].id = store'[id].tasks[j].id
                 => store[id].tasks[i].estimate = store'[id].tasks[j].estimate
<1>1. IInv /\ [Next]_vars => Frozen
  <2>1. SUFFICES ASSUME IInv, [Next]_vars, NEW id \in DOMAIN store,
                        store'[id].estimatesApproved,
                        NEW i \in DOMAIN store[id].tasks,
                        NEW j \in DOMAIN store'[id].tasks,
                        store[id].tasks[i].id = store'[id].tasks[j].id
                 PROVE  store[id].tasks[i].estimate = store'[id].tasks[j].estimate
    OBVIOUS
  <2> DEFINE w == store[id]
             v == store'[id]
  <2>2. w \in WBSType /\ OrderedTaskIDs(w) /\ (v = w \/ (v \in WBSType /\ Method(w, v)))
    BY <2>1, OneWBS
  <2>3. v.estimatesApproved /\ i \in DOMAIN w.tasks /\ j \in DOMAIN v.tasks
          /\ w.tasks[i].id = v.tasks[j].id
    BY <2>1
  <2>4. SUFFICES w.tasks[i].estimate = v.tasks[j].estimate
    OBVIOUS
  <2> HIDE DEF w, v
  <2>5. v \in WBSType
    BY <2>2
  <2>6. /\ DOMAIN w.tasks = 1..Len(w.tasks) /\ Len(w.tasks) \in Nat
        /\ DOMAIN v.tasks = 1..Len(v.tasks) /\ Len(v.tasks) \in Nat
    BY <2>2, <2>5, LenProperties DEF WBSType
  <2>7. CASE v = w \/ Keeps(w, v)
    <3>1. \A k \in 1..Len(w.tasks) : /\ v.tasks[k].id = w.tasks[k].id
                                     /\ v.tasks[k].estimate = w.tasks[k].estimate
      BY <2>3, <2>7 DEF Keeps, KeepsIDs, KeepsEstimates
    <3>2. i \in 1..Len(w.tasks) /\ j \in 1..Len(w.tasks)
      BY <2>3, <2>6, <2>7 DEF Keeps, KeepsIDs
    <3>3. i = j
      BY <2>2, <2>3, <3>1, <3>2, OrderedIDsUnique
    <3> QED
      BY <3>1, <3>2, <3>3
  <2>8. CASE Adds(w, v) \/ Deletes(w, v)
    <3>1. w.tasks[i] = v.tasks[j]
      BY <2>2, <2>3, <2>5, <2>6, <2>8, SurvivorsSame
    <3> QED
      BY <3>1
  <2> QED
    BY <2>2, <2>7, <2>8, MethodShape
<1> QED
  BY <1>1, IInvHolds, PTL DEF Spec, ApprovedEstimatesFrozen

\* A task that outlives the addition or deletion of another is left exactly as it
\* was, notes and estimate included (wbs.go:104-137).
THEOREM SurvivorsStayUntouched == Spec => SurvivorsUntouched
<1> DEFINE Untouched ==
      \A id \in DOMAIN store :
        Len(store'[id].tasks) # Len(store[id].tasks)
          => \A i \in DOMAIN store[id].tasks, j \in DOMAIN store'[id].tasks :
               store[id].tasks[i].id = store'[id].tasks[j].id
                 => store[id].tasks[i] = store'[id].tasks[j]
<1>1. IInv /\ [Next]_vars => Untouched
  <2>1. SUFFICES ASSUME IInv, [Next]_vars, NEW id \in DOMAIN store,
                        Len(store'[id].tasks) # Len(store[id].tasks),
                        NEW i \in DOMAIN store[id].tasks,
                        NEW j \in DOMAIN store'[id].tasks,
                        store[id].tasks[i].id = store'[id].tasks[j].id
                 PROVE  store[id].tasks[i] = store'[id].tasks[j]
    OBVIOUS
  <2> DEFINE w == store[id]
             v == store'[id]
  <2>2. w \in WBSType /\ OrderedTaskIDs(w) /\ (v = w \/ (v \in WBSType /\ Method(w, v)))
    BY <2>1, OneWBS
  <2>3. Len(v.tasks) # Len(w.tasks) /\ i \in DOMAIN w.tasks /\ j \in DOMAIN v.tasks
          /\ w.tasks[i].id = v.tasks[j].id
    BY <2>1
  <2>4. SUFFICES w.tasks[i] = v.tasks[j]
    OBVIOUS
  <2> HIDE DEF w, v
  <2>5. v \in WBSType /\ (Adds(w, v) \/ Deletes(w, v))
    BY <2>2, <2>3, MethodShape DEF Keeps, KeepsIDs
  <2>6. i \in 1..Len(w.tasks) /\ j \in 1..Len(v.tasks)
    BY <2>2, <2>3, <2>5, LenProperties DEF WBSType
  <2> QED
    BY <2>2, <2>3, <2>5, <2>6, SurvivorsSame
<1> QED
  BY <1>1, IInvHolds, PTL DEF Spec, SurvivorsUntouched

-----------------------------------------------------------------------------
(* The primings: a step leaves a queue in front of what it adds, or takes its   *)
(* front and serves it.                                                         *)

LEMMA PrefixOfItself ==
  ASSUME NEW S, NEW s \in Seq(S)
  PROVE  IsPrefix(s, s)
BY LenProperties DEF IsPrefix

LEMMA PrefixOfLonger ==
  ASSUME NEW S, NEW s \in Seq(S), NEW e \in S
  PROVE  IsPrefix(s, Append(s, e))
<1> DEFINE n == Len(s)
           t == Append(s, e)
<1>1. /\ n \in Nat /\ t \in Seq(S) /\ Len(t) = n + 1
      /\ \A i \in 1..n : t[i] = s[i]
  BY LenProperties, AppendProperties
<1>2. \A i \in 1..n : s[i] \in S /\ t[i] \in S
  BY <1>1, ElementOfSeq
<1> HIDE DEF t, n
<1>3. /\ SubSeq(s, 1, n) \in Seq(S) /\ SubSeq(t, 1, n) \in Seq(S)
      /\ Len(SubSeq(s, 1, n)) = IF 1 <= n THEN n - 1 + 1 ELSE 0
      /\ Len(SubSeq(t, 1, n)) = IF 1 <= n THEN n - 1 + 1 ELSE 0
      /\ \A i \in 1..(n - 1 + 1) : SubSeq(s, 1, n)[i] = s[1 + i - 1]
      /\ \A i \in 1..(n - 1 + 1) : SubSeq(t, 1, n)[i] = t[1 + i - 1]
  BY <1>1, <1>2, SubSeqProperties
<1>4. /\ Len(SubSeq(s, 1, n)) = n /\ Len(SubSeq(t, 1, n)) = n
      /\ n - 1 + 1 = n /\ \A i \in 1..n : 1 + i - 1 = i
  BY <1>1, <1>3
<1>5. \A i \in 1..n : SubSeq(s, 1, n)[i] = SubSeq(t, 1, n)[i]
  BY <1>1, <1>3, <1>4
<1>6. SubSeq(s, 1, n) = SubSeq(t, 1, n)
  BY <1>3, <1>4, <1>5, SeqEqual
<1> QED
  BY <1>1, <1>6 DEF IsPrefix, n, t

\* A breakdown says what it was generated from.
LEMMA NewWBSSays ==
  ASSUME NEW ds \in Seq(Text), NEW ts, ts = NewWBS(ds).tasks
  PROVE  [i \in DOMAIN ts |-> ts[i].description] = ds
<1>1. Len(ds) \in Nat /\ ds = [i \in 1..Len(ds) |-> ds[i]]
  BY LenProperties
<1>2. ts = [i \in 1..Len(ds) |-> NewTask(i, ds[i])]
  BY DEF NewWBS
<1>3. \A i \in 1..Len(ds) : NewTask(i, ds[i]).description = ds[i]
  BY DEF NewTask
<1>4. DOMAIN ts = 1..Len(ds) /\ \A i \in 1..Len(ds) : ts[i] = NewTask(i, ds[i])
  BY <1>2
<1> QED
  BY <1>1, <1>3, <1>4

\* A flagging picks the notes of existing tasks and then those of task i; it might as
\* well have picked those of task i at once.
LEMMA ReplacedNotesSay ==
  ASSUME NEW w \in WBSType, NEW list \in Seq(RiskAssignment), NEW v,
         v = ReplaceRiskNotes(w, list), NEW i \in 1..Len(w.tasks), NEW mine,
         mine = v.tasks[i].riskNotes
  PROVE  [k \in DOMAIN mine |-> mine[k].description] = DescriptionsFor(list, i)
<1> DEFINE P == {k \in DOMAIN list : TaskExists(w, list[k].task)}
           Q == {k \in DOMAIN list : list[k].task = i}
           addressed == Subsequence(list, P)
           notes == [q \in DOMAIN addressed |->
                       [id |-> w.nextNote + q - 1,
                        description |-> addressed[q].description]]
           Mine(n) == {q \in DOMAIN notes : addressed[q].task = n}
           M == Mine(i)
<1>1. /\ DOMAIN w.tasks = 1..Len(w.tasks) /\ Len(w.tasks) \in Nat
      /\ DOMAIN list = 1..Len(list) /\ Len(list) \in Nat
  BY LenProperties DEF WBSType
<1>2. mine = Subsequence(notes, M)
  <2>1. v = [w EXCEPT !.tasks =
                        [n \in DOMAIN w.tasks |->
                          [w.tasks[n] EXCEPT !.riskNotes = Subsequence(notes, Mine(n))]],
                      !.nextNote = w.nextNote + Len(addressed)]
    BY DEF ReplaceRiskNotes
  <2>2. \A n \in 1..Len(w.tasks) : w.tasks[n] \in Task
    BY ElementOfSeq DEF WBSType
  <2> HIDE DEF notes, Mine, addressed
  <2> QED
    BY <1>1, <2>1, <2>2 DEF WBSType, Task
<1>3. P \in SUBSET DOMAIN list /\ Q \in SUBSET DOMAIN list /\ Q \in SUBSET P
  BY <1>1 DEF TaskExists
<1>4. \A k \in DOMAIN list : k \in Q <=> list[k].task = i
  OBVIOUS
<1> HIDE DEF P, Q
<1>5. /\ IsFiniteSet(P) /\ P \in SUBSET Nat /\ addressed \in Seq(RiskAssignment)
      /\ Len(addressed) = Cardinality(P) /\ Cardinality(P) \in Nat
      /\ \A q \in 1..Cardinality(P) : addressed[q] = list[Ascending(P)[q]]
      /\ Ascending(P) \in [1..Cardinality(P) -> P]
  BY <1>3, SubsequenceProperties, FS_CardinalityType, AscendingLists DEF Lists
<1>6. DOMAIN addressed = 1..Cardinality(P)
  BY <1>5, LenProperties
<1> HIDE DEF addressed
<1> DEFINE c == Cardinality(P)
           Bringing == {notes[q] : q \in 1..c}
<1>7. notes \in Seq(Bringing) /\ DOMAIN notes = 1..c
  <2>1. DOMAIN notes = 1..c /\ notes = [q \in 1..c |-> notes[q]]
    BY <1>6
  <2> HIDE DEF notes
  <2>2. \A q \in 1..c : notes[q] \in Bringing
    OBVIOUS
  <2>3. c \in Nat
    BY <1>5
  <2> HIDE DEF Bringing, c
  <2>4. [q \in 1..c |-> notes[q]] \in Seq(Bringing)
    BY <2>2, <2>3
  <2> QED
    BY <2>1, <2>4
<1>8. \A q \in 1..c : notes[q].description = addressed[q].description
  BY <1>6
<1>9. \A q \in 1..c : q \in M <=> addressed[q].task = i
  BY <1>7
<1>10. M \in SUBSET DOMAIN notes /\ M \in SUBSET (1..c)
  BY <1>7
<1> HIDE DEF notes, M, Mine, Bringing
<1>11. /\ Cardinality(M) = Cardinality(Q)
       /\ \A k \in 1..Cardinality(M) :
            /\ Ascending(M)[k] \in 1..c
            /\ Ascending(P)[Ascending(M)[k]] = Ascending(Q)[k]
  <2>1. \A q \in 1..c : q \in M <=> Ascending(P)[q] \in Q
    BY <1>3, <1>4, <1>5, <1>9
  <2> QED
    BY <1>3, <1>5, <1>10, <2>1, AscendingTwice
<1>12. /\ mine \in Seq(Bringing) /\ Len(mine) = Cardinality(M)
       /\ \A k \in 1..Cardinality(M) : mine[k] = notes[Ascending(M)[k]]
  BY <1>2, <1>7, <1>10, SubsequenceProperties
<1>13. DOMAIN mine = 1..Cardinality(M)
  BY <1>12, LenProperties
<1>14. /\ Assigned(list, i) \in Seq(RiskAssignment)
       /\ Len(Assigned(list, i)) = Cardinality(Q)
       /\ \A k \in 1..Cardinality(Q) : Assigned(list, i)[k] = list[Ascending(Q)[k]]
  BY <1>3, SubsequenceProperties DEF Assigned, Q
<1>15. DOMAIN Assigned(list, i) = 1..Cardinality(Q)
  BY <1>14, LenProperties
<1>16. ASSUME NEW k \in 1..Cardinality(M)
       PROVE  mine[k].description = Assigned(list, i)[k].description
  <2>1. mine[k].description = addressed[Ascending(M)[k]].description
    BY <1>8, <1>11, <1>12
  <2>2. addressed[Ascending(M)[k]] = list[Ascending(Q)[k]]
    BY <1>5, <1>11
  <2> QED
    BY <1>11, <1>14, <2>1, <2>2
<1>17. DescriptionsFor(list, i)
         = [k \in 1..Cardinality(M) |-> Assigned(list, i)[k].description]
  BY <1>11, <1>15 DEF DescriptionsFor
<1> QED
  BY <1>13, <1>16, <1>17

\* A generation gives task i the last estimate of those that name it.
LEMMA SetEstimatesSay ==
  ASSUME NEW w \in WBSType, NEW list \in Seq(EstimateAssignment), NEW v,
         v = SetEstimates(w, list), NEW i \in 1..Len(w.tasks)
  PROVE  v.tasks[i].estimate = EstimateFor(list, i)
<1> DEFINE For(n) == {k \in DOMAIN list : list[k].task = n}
           Latest(n) == CHOOSE k \in For(n) : \A j \in For(n) : j <= k
           Given(n) == IF For(n) = {} THEN NoEstimate ELSE list[Latest(n)].estimate
           Q == For(i)
<1>1. DOMAIN w.tasks = 1..Len(w.tasks) /\ Len(w.tasks) \in Nat
  BY LenProperties DEF WBSType
<1>2. v.tasks[i].estimate = Given(i)
  <2>1. v = [w EXCEPT !.tasks = [n \in DOMAIN w.tasks |->
                                   [w.tasks[n] EXCEPT !.estimate = Given(n)]],
                      !.estimatesGenerated = TRUE,
                      !.estimatesApproved  = FALSE]
    BY DEF SetEstimates
  <2>2. \A n \in 1..Len(w.tasks) : w.tasks[n] \in Task
    BY ElementOfSeq DEF WBSType
  <2> HIDE DEF Given
  <2> QED
    BY <1>1, <2>1, <2>2 DEF WBSType, Task
<1>3. Q \in SUBSET DOMAIN list
  OBVIOUS
<1>4. Assigned(list, i) = Subsequence(list, Q)
  BY DEF Assigned
<1>5. Given(i) = IF Q = {} THEN NoEstimate
                 ELSE list[CHOOSE k \in Q : \A j \in Q : j <= k].estimate
  OBVIOUS
<1> HIDE DEF Q, Given
<1>6. /\ IsFiniteSet(Q) /\ Q \in SUBSET Nat
      /\ Assigned(list, i) \in Seq(EstimateAssignment)
      /\ Len(Assigned(list, i)) = Cardinality(Q)
      /\ \A k \in 1..Cardinality(Q) : Assigned(list, i)[k] = list[Ascending(Q)[k]]
  BY <1>3, <1>4, SubsequenceProperties
<1>7. CASE Q = {}
  <2>1. Assigned(list, i) = << >>
    BY <1>4, <1>7, SubsequenceEmpty
  <2> QED
    BY <1>2, <1>5, <1>7, <2>1 DEF EstimateFor
<1>8. CASE Q # {}
  <2> DEFINE c == Cardinality(Q)
  <2>1. /\ c \in Nat \ {0}
        /\ Ascending(Q)[c] = CHOOSE k \in Q : \A j \in Q : j <= k
    BY <1>6, <1>8, AscendingGreatest
  <2>2. Assigned(list, i)[c] = list[CHOOSE k \in Q : \A j \in Q : j <= k]
    <3>1. c \in 1..c
      BY <2>1
    <3>2. Assigned(list, i)[c] = list[Ascending(Q)[c]]
      BY <1>6, <3>1
    <3> QED
      BY <2>1, <3>2, Zenon
  <2>3. Assigned(list, i) # << >>
    BY <1>6, <2>1
  <2>4. EstimateFor(list, i) = Assigned(list, i)[c].estimate
    BY <1>6, <2>3 DEF EstimateFor
  <2> QED
    BY <1>2, <1>5, <1>8, <2>2, <2>4
<1> QED
  BY <1>7, <1>8

\* What a step does to the queue of one port.
QueueStep(port) ==
  \/ IsPrefix(primed[port], primed'[port])
  \/ primed[port] # << >> /\ primed'[port] = Tail(primed[port])
       /\ Served(port, Head(primed[port]))

Queues == \A port \in DOMAIN primed : QueueStep(port)

LEMMA QueueTypes ==
  ASSUME TypeOK
  PROVE  /\ DOMAIN primed = {"tasks", "risks", "estimates"}
         /\ primed["tasks"] \in Seq(TaskLists)
         /\ primed["risks"] \in Seq(RiskLists)
         /\ primed["estimates"] \in Seq(EstimateLists)
BY DEF TypeOK

LEMMA SameQueue ==
  ASSUME TypeOK, NEW port \in DOMAIN primed, primed'[port] = primed[port]
  PROVE  QueueStep(port)
<1>1. \E S : primed[port] \in Seq(S)
  BY QueueTypes
<1>2. IsPrefix(primed[port], primed[port])
  BY <1>1, PrefixOfItself
<1> QED
  BY <1>2 DEF QueueStep

LEMMA SameQueues ==
  ASSUME TypeOK, primed' = primed
  PROVE  Queues
BY SameQueue DEF Queues

\* A call of a port that succeeds, on a provider that is primed: the output is what
\* it was primed with, or nothing.
LEMMA OneServed ==
  ASSUME TypeOK, NEW port \in DOMAIN primed, NEW out,
         out = IF primed[port] = << >> THEN << >> ELSE Head(primed[port]),
         primed' = [primed EXCEPT ![port] = Consumed(primed[port])],
         primed[port] # << >> => Served(port, out)
  PROVE  Queues
<1>1. ASSUME NEW other \in DOMAIN primed, other # port
      PROVE  primed'[other] = primed[other]
  BY <1>1
<1>2. primed'[port] = Consumed(primed[port])
  OBVIOUS
<1>3. QueueStep(port)
  <2>1. CASE primed[port] = << >>
    BY <1>2, <2>1, SameQueue DEF Consumed
  <2>2. CASE primed[port] # << >>
    BY <1>2, <2>2 DEF Consumed, QueueStep
  <2> QED
    BY <2>1, <2>2
<1> QED
  BY <1>1, <1>3, SameQueue DEF Queues

LEMMA GenerateServes ==
  ASSUME TypeOK, Mock, NEW doc \in Documents, Generate(doc)
  PROVE  Queues
<1> DEFINE queue == primed["tasks"]
<1>1. CASE primed' = primed
  BY <1>1, SameQueues
<1>2. CASE primed' # primed
  <2>1. PICK o \in Outcomes(queue, GenerateOutcomes(TaskLists)) :
          /\ store' = [id \in DOMAIN store \cup {nextID} |->
                         IF id = nextID THEN NewWBS(o.out) ELSE store[id]]
          /\ primed' = [primed EXCEPT !["tasks"] = Consumed(queue)]
          /\ err' = OK
    BY <1>2 DEF Generate, Reject
  <2>2. o.out = IF queue = << >> THEN << >> ELSE Head(queue)
    BY DEF Outcomes, Outcome
  <2>3. o.out \in Seq(Text)
    <3>1. PrimedType
      BY DEF TypeOK, PrimedType
    <3>2. o \in Outcomes(primed.tasks, GenerateOutcomes(TaskLists))
      OBVIOUS
    <3> QED
      BY <3>1, <3>2, OutcomeTypes DEF TaskOutputs
  <2>4. nextID \in DOMAIN store' \ DOMAIN store /\ store'[nextID] = NewWBS(o.out)
    BY <2>1 DEF TypeOK
  <2> DEFINE ts == store'[nextID].tasks
  <2>5. [i \in DOMAIN ts |-> ts[i].description] = o.out
    BY <2>3, <2>4, NewWBSSays
  <2>6. Served("tasks", o.out)
    BY <2>1, <2>4, <2>5 DEF Served
  <2> QED
    BY <2>1, <2>2, <2>6, OneServed, QueueTypes
<1> QED
  BY <1>1, <1>2

LEMMA FlagRisksServes ==
  ASSUME TypeOK, Mock, NEW id \in DOMAIN store, FlagRisks(id)
  PROVE  Queues
<1> DEFINE queue == primed["risks"]
<1>1. CASE primed' = primed
  BY <1>1, SameQueues
<1>2. CASE primed' # primed
  <2>1. PICK o \in Outcomes(queue, FlagRisksOutcomes(RiskLists)) :
          /\ store' = [store EXCEPT ![id] = ReplaceRiskNotes(store[id], o.out)]
          /\ primed' = [primed EXCEPT !["risks"] = Consumed(queue)]
          /\ err' = OK /\ store[id].approved
    BY <1>2 DEF FlagRisks, Reject, Serve
  <2>2. o.out = IF queue = << >> THEN << >> ELSE Head(queue)
    BY DEF Outcomes, Outcome
  <2>3. o.out \in Seq(RiskAssignment)
    <3>1. PrimedType
      BY DEF TypeOK, PrimedType
    <3>2. o \in Outcomes(primed.risks, FlagRisksOutcomes(RiskLists))
      OBVIOUS
    <3> QED
      BY <3>1, <3>2, OutcomeTypes DEF RiskOutputs
  <2> DEFINE w == store[id]
             v == store'[id]
  <2>4. w \in WBSType /\ v = ReplaceRiskNotes(w, o.out)
    BY <2>1 DEF TypeOK
  <2> HIDE DEF w, v
  <2>5. DOMAIN v.tasks = 1..Len(w.tasks)
    <3>1. Len(v.tasks) = Len(w.tasks) /\ v \in WBSType
      BY <2>3, <2>4, ReplaceRiskNotesEffect, ReplaceRiskNotesType
    <3> QED
      BY <3>1, LenProperties DEF WBSType
  <2>6. \A i \in DOMAIN v.tasks :
          [k \in DOMAIN v.tasks[i].riskNotes |-> v.tasks[i].riskNotes[k].description]
            = DescriptionsFor(o.out, i)
    BY <2>3, <2>4, <2>5, ReplacedNotesSay
  <2>7. Served("risks", o.out)
    BY <2>1, <2>6 DEF Served, w, v
  <2> QED
    BY <2>1, <2>2, <2>7, OneServed, QueueTypes
<1> QED
  BY <1>1, <1>2

LEMMA GenerateEstimatesServes ==
  ASSUME TypeOK, Mock, NEW id \in DOMAIN store, GenerateEstimates(id)
  PROVE  Queues
<1> DEFINE queue == primed["estimates"]
<1>1. CASE primed' = primed
  BY <1>1, SameQueues
<1>2. CASE primed' # primed
  <2>1. PICK o \in Outcomes(queue, EstimateOutcomes(EstimateLists)) :
          /\ store' = [store EXCEPT ![id] = SetEstimates(store[id], o.out)]
          /\ primed' = [primed EXCEPT !["estimates"] = Consumed(queue)]
          /\ err' = OK /\ store[id].approved
    BY <1>2 DEF GenerateEstimates, Reject, Serve
  <2>2. o.out = IF queue = << >> THEN << >> ELSE Head(queue)
    BY DEF Outcomes, Outcome
  <2>3. o.out \in Seq(EstimateAssignment)
    <3>1. PrimedType
      BY DEF TypeOK, PrimedType
    <3>2. o \in Outcomes(primed.estimates, EstimateOutcomes(EstimateLists))
      OBVIOUS
    <3> QED
      BY <3>1, <3>2, OutcomeTypes DEF EstimateOutputs
  <2> DEFINE w == store[id]
             v == store'[id]
  <2>4. w \in WBSType /\ v = SetEstimates(w, o.out)
    BY <2>1 DEF TypeOK
  <2> HIDE DEF w, v
  <2>5. DOMAIN v.tasks = 1..Len(w.tasks)
    <3>1. Len(v.tasks) = Len(w.tasks) /\ v \in WBSType
      BY <2>3, <2>4, SetEstimatesEffect, SetEstimatesType
    <3> QED
      BY <3>1, LenProperties DEF WBSType
  <2>6. \A i \in DOMAIN v.tasks : v.tasks[i].estimate = EstimateFor(o.out, i)
    BY <2>3, <2>4, <2>5, SetEstimatesSay
  <2>7. Served("estimates", o.out)
    BY <2>1, <2>6 DEF Served, w, v
  <2> QED
    BY <2>1, <2>2, <2>7, OneServed, QueueTypes
<1> QED
  BY <1>1, <1>2

LEMMA PrimeQueues ==
  ASSUME TypeOK, NEW port \in DOMAIN primed, NEW S, primed[port] \in Seq(S),
         NEW output \in S, Prime(port, output)
  PROVE  Queues
<1>1. CASE primed' = primed
  BY <1>1, SameQueues
<1>2. CASE primed' = [primed EXCEPT ![port] = Append(primed[port], output)]
  <2>1. primed'[port] = Append(primed[port], output)
    BY <1>2
  <2>2. \A other \in DOMAIN primed : other # port => primed'[other] = primed[other]
    BY <1>2
  <2>3. QueueStep(port)
    BY <2>1, PrefixOfLonger DEF QueueStep
  <2> QED
    BY <2>2, <2>3, SameQueue DEF Queues
<1> QED
  BY <1>1, <1>2 DEF Prime

LEMMA NextServes ==
  ASSUME TypeOK, Mock, Next
  PROVE  Queues
<1>1. ASSUME NEW doc \in Documents, Generate(doc)  PROVE Queues
  BY <1>1, GenerateServes
<1>2. ASSUME NEW ts \in TaskLists, Prime("tasks", ts)  PROVE Queues
  BY <1>2, PrimeQueues, QueueTypes
<1>3. ASSUME NEW rs \in RiskLists, Prime("risks", rs)  PROVE Queues
  BY <1>3, PrimeQueues, QueueTypes
<1>4. ASSUME NEW es \in EstimateLists, Prime("estimates", es)  PROVE Queues
  BY <1>4, PrimeQueues, QueueTypes
<1>5. ASSUME NEW id \in DOMAIN store, FlagRisks(id)  PROVE Queues
  BY <1>5, FlagRisksServes
<1>6. ASSUME NEW id \in DOMAIN store, GenerateEstimates(id)  PROVE Queues
  BY <1>6, GenerateEstimatesServes
<1>7. \/ \E doc \in Documents : Generate(doc)
      \/ \E ts \in TaskLists : Prime("tasks", ts)
      \/ \E rs \in RiskLists : Prime("risks", rs)
      \/ \E es \in EstimateLists : Prime("estimates", es)
      \/ \E id \in DOMAIN store : FlagRisks(id) \/ GenerateEstimates(id)
      \/ primed' = primed
  BY DEF Next, GetFails, ServiceApprove, ServiceApproveEstimates, Proposal,
    ServiceAddTask, ServiceDeleteTask, ServiceEditTask, ServiceAddRiskNote,
    ServiceOverrideEstimate, ServiceDeleteRiskNote, ServiceEditRiskNote, Apply, Reject
<1> QED
  BY <1>1, <1>2, <1>3, <1>4, <1>5, <1>6, <1>7, SameQueues

\* Primings are served once each, first in first out, over all WBSs: only a call that
\* succeeds takes one, the front, and what it puts into the WBS is just that
\* (internal/wbs/provider.go:28-30, 94-109).
THEOREM PrimingsAreServedInOrder == Spec => PrimingsServedInOrder
<1>1. TypeOK /\ [Next]_vars => (Mock => Queues)
  <2>1. TypeOK /\ Next => (Mock => Queues)
    BY NextServes
  <2>2. TypeOK /\ UNCHANGED vars => Queues
    BY SameQueues DEF vars
  <2> QED
    BY <2>1, <2>2
<1>2. (Mock => Queues) <=>
        (Mock => \A port \in DOMAIN primed :
           \/ IsPrefix(primed[port], primed'[port])
           \/ primed[port] # << >> /\ primed'[port] = Tail(primed[port])
                /\ Served(port, Head(primed[port])))
  BY DEF Queues, QueueStep
<1> QED
  BY <1>1, <1>2, TypeCorrect, PTL DEF Spec, PrimingsServedInOrder

-----------------------------------------------------------------------------
(* The service implements ApprovalGates: a call is one step of the gates of one *)
(* WBS, or none.                                                               *)
(*                                                                             *)
(* Two steps of the gates have guards the methods do not check themselves.     *)
(* OverrideEstimate asks whether the task has an estimate, not whether         *)
(* estimates were generated; and no method asks how many tasks there are.      *)
(* Sound is why both hold.                                                     *)

\* An estimate can only come from a generation, whatever happened to the tasks since;
\* and a WBS has fewer tasks than ids were handed out in it.
Sound(w) ==
  /\ \A i \in 1..Len(w.tasks) : w.tasks[i].estimate # NoEstimate => w.estimatesGenerated
  /\ Len(w.tasks) < w.nextSeq
  /\ w.nextSeq <= MaxTaskID + 1

AllSound == \A id \in DOMAIN store : Sound(store[id])

\* What one step makes of the gates g of a WBS.
GateStep(g, h) ==
  \/ h = g
  \/ \E change \in {-1, 0, 1} :
       /\ g.size + change \in 0..MaxTaskID
       /\ h = [g EXCEPT !.size = g.size + change, !.breakdown = "draft"]
  \/ g.size > 0 /\ h = [g EXCEPT !.breakdown = "approved"]
  \/ g.breakdown = "approved" /\ h = [g EXCEPT !.estimates = "generated"]
  \/ g.estimates # "none" /\ g.size > 0 /\ h = [g EXCEPT !.estimates = "generated"]
  \/ g.estimates # "none" /\ h = [g EXCEPT !.estimates = "approved"]

\* The gates of w as a record with fields.
LEMMA GatesFields ==
  ASSUME NEW w
  PROVE  /\ GatesOf(w).size = Len(w.tasks)
         /\ GatesOf(w).breakdown = IF w.approved THEN "approved" ELSE "draft"
         /\ GatesOf(w).estimates # "none" <=> w.estimatesApproved \/ w.estimatesGenerated
BY DEF GatesOf

\* A WBS whose tasks, all told, have the ids, and no estimates but those, of w.
LEMMA SameTasks ==
  ASSUME NEW w \in WBSType, NEW v, Sound(w),
         Len(v.tasks) = Len(w.tasks), v.nextSeq = w.nextSeq,
         \A i \in 1..Len(w.tasks) : v.tasks[i].estimate = w.tasks[i].estimate,
         v.estimatesGenerated = w.estimatesGenerated
  PROVE  Sound(v)
BY DEF Sound

LEMMA OneReplacedSound ==
  ASSUME NEW w \in WBSType, NEW v, NEW n \in 1..Len(w.tasks), NEW t, Sound(w),
         OneReplaced(w, v, n, t), v.nextSeq = w.nextSeq,
         t.estimate = w.tasks[n].estimate \/ w.estimatesGenerated,
         v.estimatesGenerated = w.estimatesGenerated
  PROVE  Sound(v)
BY DEF Sound, OneReplaced

-----------------------------------------------------------------------------
(* A method is a step of the gates. *)

LEMMA EditGates ==
  ASSUME NEW w \in WBSType, NEW v, NEW change \in {-1, 0, 1},
         Len(v.tasks) = Len(w.tasks) + change, Len(w.tasks) + change \in 0..MaxTaskID,
         v.approved = FALSE, SameFlags(w, v)
  PROVE  GateStep(GatesOf(w), GatesOf(v))
<1> DEFINE g == GatesOf(w)
<1>1. GatesOf(v) = [g EXCEPT !.size = g.size + change, !.breakdown = "draft"]
  <2>1. /\ g.size + change = Len(v.tasks)
        /\ GatesOf(v).breakdown = "draft" /\ GatesOf(v).estimates = g.estimates
    BY DEF GatesOf, SameFlags
  <2>2. GatesOf(v) = [size |-> Len(v.tasks), breakdown |-> "draft", estimates |-> g.estimates]
    BY <2>1 DEF GatesOf
  <2>3. [g EXCEPT !.size = Len(v.tasks), !.breakdown = "draft"]
          = [size |-> Len(v.tasks), breakdown |-> "draft", estimates |-> g.estimates]
    <3>1. PICK a, b, c : g = [size |-> a, breakdown |-> b, estimates |-> c]
      BY DEF GatesOf
    <3> HIDE DEF g
    <3> DEFINE h == [g EXCEPT !.size = Len(v.tasks)]
    <3>2. h = [size |-> Len(v.tasks), breakdown |-> b, estimates |-> g.estimates]
      BY <3>1
    <3>3. [g EXCEPT !.size = Len(v.tasks), !.breakdown = "draft"]
            = [h EXCEPT !.breakdown = "draft"]
      OBVIOUS
    <3> HIDE DEF h
    <3> QED
      BY <3>2, <3>3
  <2> QED
    BY <2>1, <2>2, <2>3
<1>2. g.size + change \in 0..MaxTaskID
  BY GatesFields
<1> QED
  BY <1>1, <1>2 DEF GateStep

LEMMA NoteGates ==
  ASSUME NEW w \in WBSType, NEW v,
         Len(v.tasks) = Len(w.tasks), v.approved = w.approved, SameFlags(w, v)
  PROVE  GateStep(GatesOf(w), GatesOf(v))
BY DEF GatesOf, SameFlags, GateStep

LEMMA MethodGates ==
  ASSUME NEW w \in WBSType, NEW v, Method(w, v), Sound(w)
  PROVE  Sound(v) /\ GateStep(GatesOf(w), GatesOf(v))
<1>1. /\ Len(w.tasks) \in Nat /\ w.nextSeq \in Nat /\ MaxTaskID \in Nat
      /\ Len(w.tasks) < w.nextSeq /\ w.nextSeq <= MaxTaskID + 1
      /\ w.approved \in BOOLEAN /\ w.estimatesGenerated \in BOOLEAN
  BY LenProperties, ServiceAssumption DEF WBSType, Sound
<1>2. \A n \in 1..Len(w.tasks) : w.tasks[n] \in Task
  BY ElementOfSeq DEF WBSType
<1>3. ASSUME NEW d \in Text, w.nextSeq <= MaxTaskID, v = AddTask(w, d)
      PROVE  Sound(v) /\ GateStep(GatesOf(w), GatesOf(v))
  <2>1. /\ Len(v.tasks) = Len(w.tasks) + 1
        /\ \A i \in 1..Len(w.tasks) : v.tasks[i] = w.tasks[i]
        /\ v.tasks[Len(w.tasks) + 1] = NewTask(w.nextSeq, Trim[d])
        /\ v.nextSeq = w.nextSeq + 1 /\ v.approved = FALSE /\ SameFlags(w, v)
    BY <1>3, AddTaskEffect
  <2>2. v.tasks[Len(w.tasks) + 1].estimate = NoEstimate
    BY <2>1 DEF NewTask
  <2>3. \A i \in 1..Len(v.tasks) : i \in 1..Len(w.tasks) \/ i = Len(w.tasks) + 1
    BY <1>1, <2>1
  <2>4. Sound(v)
    <3>1. Len(v.tasks) < v.nextSeq /\ v.nextSeq <= MaxTaskID + 1
      BY <1>1, <1>3, <2>1
    <3>2. ASSUME NEW i \in 1..Len(v.tasks), v.tasks[i].estimate # NoEstimate
          PROVE  v.estimatesGenerated
      <4>1. i \in 1..Len(w.tasks)
        BY <2>2, <2>3, <3>2
      <4> QED
        BY <2>1, <3>2, <4>1 DEF Sound, SameFlags
    <3> QED
      BY <3>1, <3>2 DEF Sound
  <2>5. Len(w.tasks) + 1 \in 0..MaxTaskID
    BY <1>1, <1>3
  <2> QED
    BY <2>1, <2>4, <2>5, EditGates
<1>4. ASSUME NEW n \in 1..Len(w.tasks), NEW d \in Text, v = EditTask(w, n, d)
      PROVE  Sound(v) /\ GateStep(GatesOf(w), GatesOf(v))
  <2> DEFINE t == WithDescription(w.tasks[n], Trim[d])
  <2>1. OneReplaced(w, v, n, t) /\ SameCounters(w, v) /\ v.approved = FALSE /\ SameFlags(w, v)
    BY <1>4, EditTaskEffect
  <2>2. t.estimate = w.tasks[n].estimate
    BY <1>2, WithFields
  <2> HIDE DEF t
  <2>3. Sound(v)
    BY <2>1, <2>2, OneReplacedSound DEF SameCounters, SameFlags
  <2>4. Len(v.tasks) = Len(w.tasks) + 0 /\ Len(w.tasks) + 0 \in 0..MaxTaskID
    BY <1>1, <2>1 DEF OneReplaced
  <2> QED
    BY <2>1, <2>3, <2>4, EditGates
<1>5. ASSUME NEW n \in 1..Len(w.tasks), v = DeleteTask(w, n)
      PROVE  Sound(v) /\ GateStep(GatesOf(w), GatesOf(v))
  <2>1. /\ Len(v.tasks) = Len(w.tasks) - 1
        /\ \A j \in 1..(Len(w.tasks) - 1) :
             v.tasks[j] = IF j < n THEN w.tasks[j] ELSE w.tasks[j + 1]
        /\ SameCounters(w, v) /\ v.approved = FALSE /\ SameFlags(w, v)
    BY <1>5, DeleteTaskEffect
  <2>2. \A j \in 1..(Len(w.tasks) - 1) : \E i \in 1..Len(w.tasks) : v.tasks[j] = w.tasks[i]
    BY <1>1, <2>1
  <2>3. Sound(v)
    BY <1>1, <2>1, <2>2 DEF Sound, SameCounters, SameFlags
  <2>4. Len(v.tasks) = Len(w.tasks) + (-1) /\ Len(w.tasks) + (-1) \in 0..MaxTaskID
    BY <1>1, <2>1
  <2> QED
    BY <2>1, <2>3, <2>4, EditGates
<1>6. ASSUME w.tasks # << >>, v = Approve(w)
      PROVE  Sound(v) /\ GateStep(GatesOf(w), GatesOf(v))
  <2>1. v.tasks = w.tasks /\ SameCounters(w, v) /\ v.approved = TRUE /\ SameFlags(w, v)
    BY <1>6, ApproveEffect
  <2>2. Len(w.tasks) > 0
    BY <1>1, <1>6, EmptySeq DEF WBSType
  <2>3. GatesOf(v) = [GatesOf(w) EXCEPT !.breakdown = "approved"]
    BY <2>1 DEF GatesOf, SameFlags
  <2> QED
    BY <2>1, <2>2, <2>3, GatesFields, SameTasks DEF GateStep, SameCounters, SameFlags
<1>7. ASSUME NEW list \in Seq(RiskAssignment), v = ReplaceRiskNotes(w, list)
      PROVE  Sound(v) /\ GateStep(GatesOf(w), GatesOf(v))
  <2>1. /\ Len(v.tasks) = Len(w.tasks)
        /\ \A i \in 1..Len(w.tasks) :
             \E notes : v.tasks[i] = WithNotes(w.tasks[i], notes)
        /\ v.nextSeq = w.nextSeq /\ v.approved = w.approved /\ SameFlags(w, v)
    BY <1>7, ReplaceRiskNotesEffect
  <2>2. \A i \in 1..Len(w.tasks) : v.tasks[i].estimate = w.tasks[i].estimate
    BY <1>2, <2>1, WithFields
  <2> QED
    BY <2>1, <2>2, SameTasks, NoteGates DEF SameFlags
<1>8. ASSUME NEW n \in 1..Len(w.tasks), NEW notes,
             OneReplaced(w, v, n, WithNotes(w.tasks[n], notes)),
             v.nextSeq = w.nextSeq, v.approved = w.approved, SameFlags(w, v)
      PROVE  Sound(v) /\ GateStep(GatesOf(w), GatesOf(v))
  <2> DEFINE t == WithNotes(w.tasks[n], notes)
  <2>1. OneReplaced(w, v, n, t) /\ t.estimate = w.tasks[n].estimate
    BY <1>2, <1>8, WithFields
  <2> HIDE DEF t
  <2>2. Sound(v) /\ Len(v.tasks) = Len(w.tasks)
    BY <1>8, <2>1, OneReplacedSound DEF SameFlags, OneReplaced
  <2> QED
    BY <1>8, <2>2, NoteGates
<1>9. ASSUME NEW list \in Seq(EstimateAssignment), w.approved, v = SetEstimates(w, list)
      PROVE  Sound(v) /\ GateStep(GatesOf(w), GatesOf(v))
  <2>1. /\ Len(v.tasks) = Len(w.tasks) /\ SameCounters(w, v) /\ v.approved = w.approved
        /\ v.estimatesGenerated = TRUE /\ v.estimatesApproved = FALSE
    BY <1>9, SetEstimatesEffect
  <2>2. Sound(v)
    BY <1>1, <2>1 DEF Sound, SameCounters
  <2>3. GatesOf(v) = [GatesOf(w) EXCEPT !.estimates = "generated"]
    BY <2>1 DEF GatesOf
  <2> QED
    BY <1>9, <2>2, <2>3, GatesFields DEF GateStep
<1>10. ASSUME NEW n \in 1..Len(w.tasks), NEW e \in Estimate,
              w.tasks[n].estimate # NoEstimate, v = OverrideEstimate(w, n, e)
       PROVE  Sound(v) /\ GateStep(GatesOf(w), GatesOf(v))
  <2> DEFINE t == WithEstimate(w.tasks[n], [e EXCEPT !.reasoning = Trim[e.reasoning]])
  <2>1. /\ OneReplaced(w, v, n, t) /\ SameCounters(w, v) /\ v.approved = w.approved
        /\ v.estimatesGenerated = w.estimatesGenerated /\ v.estimatesApproved = FALSE
    BY <1>10, OverrideEstimateEffect
  <2>2. w.estimatesGenerated
    BY <1>10 DEF Sound
  <2> HIDE DEF t
  <2>3. Sound(v)
    BY <2>1, <2>2, OneReplacedSound DEF SameCounters
  <2>4. GatesOf(v) = [GatesOf(w) EXCEPT !.estimates = "generated"]
    BY <2>1, <2>2 DEF GatesOf, OneReplaced
  <2>5. Len(w.tasks) > 0
    BY <1>1
  <2> QED
    BY <2>2, <2>3, <2>4, <2>5, GatesFields DEF GateStep
<1>11. ASSUME w.estimatesGenerated, v = ApproveEstimates(w)
       PROVE  Sound(v) /\ GateStep(GatesOf(w), GatesOf(v))
  <2>1. /\ v.tasks = w.tasks /\ SameCounters(w, v) /\ v.approved = w.approved
        /\ v.estimatesGenerated = w.estimatesGenerated /\ v.estimatesApproved = TRUE
    BY <1>11, ApproveEstimatesEffect
  <2>2. GatesOf(v) = [GatesOf(w) EXCEPT !.estimates = "approved"]
    BY <2>1 DEF GatesOf
  <2> QED
    BY <1>11, <2>1, <2>2, GatesFields, SameTasks DEF GateStep, SameCounters
<1>12. ASSUME NEW n \in 1..Len(w.tasks), NEW d, v = AddRiskNote(w, n, d)
       PROVE  Sound(v) /\ GateStep(GatesOf(w), GatesOf(v))
  <2> DEFINE notes == Append(w.tasks[n].riskNotes, [id |-> w.nextNote, description |-> Trim[d]])
  <2>1. /\ OneReplaced(w, v, n, WithNotes(w.tasks[n], notes))
        /\ v.nextSeq = w.nextSeq /\ v.approved = w.approved /\ SameFlags(w, v)
    BY <1>12, AddRiskNoteEffect
  <2> HIDE DEF notes
  <2> QED
    BY <1>8, <2>1
<1>13. ASSUME NEW n \in 1..Len(w.tasks), NEW k, NEW d, v = EditRiskNote(w, n, k, d)
       PROVE  Sound(v) /\ GateStep(GatesOf(w), GatesOf(v))
  <2> DEFINE notes == Reworded(w.tasks[n].riskNotes, k, d)
  <2>1. /\ OneReplaced(w, v, n, WithNotes(w.tasks[n], notes))
        /\ v.nextSeq = w.nextSeq /\ v.approved = w.approved /\ SameFlags(w, v)
    BY <1>13, EditRiskNoteEffect DEF SameCounters
  <2> HIDE DEF notes
  <2> QED
    BY <1>8, <2>1
<1>14. ASSUME NEW n \in 1..Len(w.tasks), NEW k, v = DeleteRiskNote(w, n, k)
       PROVE  Sound(v) /\ GateStep(GatesOf(w), GatesOf(v))
  BY <1>8, <1>14, DeleteRiskNoteEffect DEF SameCounters
<1> QED
  BY <1>3, <1>4, <1>5, <1>6, <1>7, <1>9, <1>10, <1>11, <1>12, <1>13, <1>14
     DEF Method, RiskOutputs, EstimateOutputs

LEMMA NewWBSGates ==
  ASSUME NEW ds \in TaskOutputs
  PROVE  /\ Sound(NewWBS(ds))
         /\ Len(ds) \in 0..MaxTaskID
         /\ GatesOf(NewWBS(ds))
              = [size |-> Len(ds), breakdown |-> "draft", estimates |-> "none"]
<1>1. Len(ds) \in Nat /\ Len(ds) <= MaxTaskID /\ MaxTaskID \in Nat
  BY LenProperties, ServiceAssumption DEF TaskOutputs
<1>2. Len(NewWBS(ds).tasks) = Len(ds)
  BY <1>1 DEF NewWBS
<1> QED
  BY <1>1, <1>2 DEF Sound, GatesOf, NewWBS, NewTask

-----------------------------------------------------------------------------
(* The refinement. *)

LEMMA StepKeepsSound ==
  ASSUME IInv, AllSound, StoreStep
  PROVE  AllSound'
<1>1. CASE store' = store
  BY <1>1 DEF AllSound
<1>2. ASSUME NEW ds \in TaskOutputs,
             store' = [id \in DOMAIN store \cup {nextID} |->
                         IF id = nextID THEN NewWBS(ds) ELSE store[id]]
      PROVE  AllSound'
  <2>1. \A id \in DOMAIN store' :
          store'[id] = NewWBS(ds) \/ (id \in DOMAIN store /\ store'[id] = store[id])
    BY <1>2
  <2> QED
    BY <2>1, NewWBSGates DEF AllSound
<1>3. ASSUME NEW id \in DOMAIN store, NEW v \in WBSType,
             Method(store[id], v), store' = [store EXCEPT ![id] = v]
      PROVE  AllSound'
  <2>1. store[id] \in WBSType /\ Sound(store[id])
    BY DEF IInv, TypeOK, AllSound
  <2>2. Sound(v)
    BY <1>3, <2>1, MethodGates
  <2>3. \A i \in DOMAIN store' : i \in DOMAIN store /\ store'[i] = IF i = id THEN v ELSE store[i]
    BY <1>3
  <2> QED
    BY <2>2, <2>3 DEF AllSound
<1> QED
  BY <1>1, <1>2, <1>3 DEF StoreStep

LEMMA SoundKept == IInv /\ AllSound /\ [Next]_vars => AllSound'
<1>1. UNCHANGED vars /\ AllSound => AllSound'
  BY DEF vars, AllSound
<1>2. IInv /\ Next => StoreStep
  BY NextStep DEF IInv
<1> QED
  BY <1>1, <1>2, StepKeepsSound

\* The gates of the store.
GatesMap == [id \in DOMAIN store |-> GatesOf(store[id])]

LEMMA InitGates == Init => Gates!Init
BY DEF Init, Gates!Init

\* A step on the gates of one WBS is a step of the abstract machine.
LEMMA LiftGateStep ==
  ASSUME NEW id \in DOMAIN GatesMap, NEW h, GateStep(GatesMap[id], h),
         GatesMap' = [GatesMap EXCEPT ![id] = h]
  PROVE  Gates!Next \/ GatesMap' = GatesMap
<1> DEFINE g == GatesMap[id]
           m == GatesMap
           n == GatesMap'
<1>1. id \in DOMAIN m /\ g = m[id] /\ n = [m EXCEPT ![id] = h] /\ GateStep(g, h)
  OBVIOUS
<1>2. CASE h = g
  BY <1>1, <1>2 DEF GatesMap
<1>3. CASE \E change \in {-1, 0, 1} :
             /\ g.size + change \in 0..MaxTaskID
             /\ h = [g EXCEPT !.size = g.size + change, !.breakdown = "draft"]
  <2>1. PICK change \in {-1, 0, 1} :
          /\ g.size + change \in 0..MaxTaskID
          /\ h = [g EXCEPT !.size = g.size + change, !.breakdown = "draft"]
    BY <1>3
  <2>2. Gates!EditBreakdown(id, change)
    BY <1>1, <2>1 DEF Gates!EditBreakdown, GatesMap
  <2> QED
    BY <2>2 DEF Gates!Next, GatesMap
<1>4. CASE g.size > 0 /\ h = [g EXCEPT !.breakdown = "approved"]
  BY <1>1, <1>4 DEF Gates!Approve, Gates!Next, GatesMap
<1>5. CASE g.breakdown = "approved" /\ h = [g EXCEPT !.estimates = "generated"]
  BY <1>1, <1>5 DEF Gates!Estimate, Gates!Next, GatesMap
<1>6. CASE g.estimates # "none" /\ g.size > 0 /\ h = [g EXCEPT !.estimates = "generated"]
  BY <1>1, <1>6 DEF Gates!Override, Gates!Next, GatesMap
<1>7. CASE g.estimates # "none" /\ h = [g EXCEPT !.estimates = "approved"]
  BY <1>1, <1>7 DEF Gates!ApproveEstimates, Gates!Next, GatesMap
<1> QED
  BY <1>1, <1>2, <1>3, <1>4, <1>5, <1>6, <1>7 DEF GateStep

LEMMA StepGates ==
  ASSUME IInv, AllSound, [Next]_vars
  PROVE  Gates!Next \/ GatesMap' = GatesMap
<1>1. CASE UNCHANGED vars
  BY <1>1 DEF vars, GatesMap
<1>2. CASE Next
  <2>1. StoreStep
    BY <1>2, NextStep DEF IInv
  <2>2. CASE store' = store
    BY <2>2 DEF GatesMap
  <2>3. ASSUME NEW ds \in TaskOutputs, nextID <= MaxWBS,
               store' = [id \in DOMAIN store \cup {nextID} |->
                           IF id = nextID THEN NewWBS(ds) ELSE store[id]]
        PROVE  Gates!Next
    <3>1. nextID \in 1..MaxWBS /\ nextID \notin DOMAIN store
      BY <2>3, ServiceAssumption DEF IInv, TypeOK
    <3>2. GatesMap' = [i \in DOMAIN GatesMap \cup {nextID} |->
                         IF i = nextID THEN GatesOf(NewWBS(ds)) ELSE GatesMap[i]]
      BY <2>3 DEF GatesMap
    <3>3. Gates!Create(nextID, Len(ds))
      BY <3>1, <3>2, NewWBSGates DEF Gates!Create, GatesMap
    <3> QED
      BY <3>1, <3>3, NewWBSGates DEF Gates!Next
  <2>4. ASSUME NEW id \in DOMAIN store, NEW v \in WBSType,
               Method(store[id], v), store' = [store EXCEPT ![id] = v]
        PROVE  Gates!Next \/ GatesMap' = GatesMap
    <3>1. store[id] \in WBSType /\ Sound(store[id])
      BY DEF IInv, TypeOK, AllSound
    <3>2. GateStep(GatesOf(store[id]), GatesOf(v))
      BY <2>4, <3>1, MethodGates
    <3>3. /\ id \in DOMAIN GatesMap /\ GatesMap[id] = GatesOf(store[id])
          /\ GatesMap' = [GatesMap EXCEPT ![id] = GatesOf(v)]
      BY <2>4 DEF GatesMap
    <3> QED
      BY <3>2, <3>3, LiftGateStep
  <2> QED
    BY <2>1, <2>2, <2>3, <2>4 DEF StoreStep
<1> QED
  BY <1>1, <1>2

\* The service implements the gates: estimates come in only while the breakdown is
\* approved and are approved only once generated, whatever changes an estimate takes
\* its approval back, a breakdown is only approved with tasks in it and any edit of
\* it takes that back (wbs.go:85-149, estimate.go:58-101, service.go).
THEOREM GatesImplemented == Spec => ImplementsGates
<1>1. Init => IInv /\ AllSound /\ Gates!Init
  <2>1. Init => IInv
    BY InitTyped DEF IInv, Init, TaskIDsOrdered, ApprovedNotEmpty
  <2> QED
    BY <2>1, InitGates DEF Init, AllSound
<1>2. IInv /\ AllSound /\ [Next]_vars
        => IInv' /\ AllSound' /\ [Gates!Next]_[id \in DOMAIN store |-> GatesOf(store[id])]
  BY IInvInductive, SoundKept, StepGates DEF GatesMap
<1> QED
  BY <1>1, <1>2, PTL DEF Spec, ImplementsGates, Gates!Spec

=============================================================================
