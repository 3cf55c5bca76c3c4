--------------------------- MODULE SurfacesProofs ---------------------------
(***************************************************************************)
(* Theorems about Surfaces.  Types, the mutexes and the statuses of errors *)
(* hold for any calls; that a handler finds the WBS as it left it, and so  *)
(* is one atomic call, holds when all calls come through one surface, for  *)
(* each surface has a mutex of its own.                                    *)
(***************************************************************************)
EXTENDS Surfaces, WBSProofs

\* Clients use the API only, or the UI only.
OneSurface == \A c, d \in CallSet : c.surface = d.surface

-----------------------------------------------------------------------------
(* The inductive invariant. *)

\* The steps a request takes with the mutex of its surface.
Holding == {"resolve", "body", "act", "provider", "store", "respond"}

\* What a call acts on in w.
Place(w, c) == IF Resolves(c) THEN Resolve(w, c) ELSE AsGiven(c)

\* What the step p of the call c, which acts on a, takes for granted, whatever other
\* requests do.
Local(p, c, a) ==
  /\ p = "resolve" => Resolves(c)
  /\ p \in {"act", "provider", "store"} => c.wellFormed
  /\ p = "provider" => c.op \in ProviderOps
  /\ p \in {"provider", "store"} /\ c.op = "generate" => Trim[c.text] # Blank
  /\ p = "store" => c.op = "generate" /\ \E o \in PortOutcomes(c) : o.err = OK
  /\ p \in {"store", "respond"} /\ c.op = "generate" => a.n \in Nat
  /\ p = "respond" => c.op \notin ReadOps

\* A handler has the mutex it needs and what its step takes for granted, and ends
\* with a known error.
Handler(r) ==
  /\ pc[r] \in Holding => mu[call[r].surface] = r
  /\ Local(pc[r], call[r], at[r])
  /\ pc[r] = "done" => answer[r].err \in Results \cup {"invalid request body"}

\* What a handler knows of the WBS w and the next id, if nothing changes them before
\* it does.
Knows(p, c, a, w, id) ==
  /\ p \in {"body", "act", "provider"} =>
       a = Place(w, c) /\ (Resolves(c) => ResolveError(w, c) = OK)
  /\ p = "provider" => CallError(w, c, a) = OK
  /\ p = "store" => a.n = id

Knowledge == \A r \in Requests : Knows(pc[r], call[r], at[r], wbs, nextID)

\* The ids made are below the counter.
IDsBelow == nextID \in Nat \ {0, 1} /\ made \subseteq 1..(nextID - 1)

\* The generations that have not stored their WBS yet; the ids left are enough.
Generating == {r \in Requests : /\ pc[r] \notin {"idle", "respond", "done"}
                                /\ call[r].op = "generate"}

RoomLeft == nextID + Cardinality(Generating) <= MaxWBS + 1

\* Whatever the calls, and when they come through one surface.
SInv   == TypeOK /\ \A r \in Requests : Handler(r)
OneInv == SInv /\ Knowledge /\ IDsBelow /\ RoomLeft

-----------------------------------------------------------------------------
(* What the operators of Calls return. *)

\* The type of an answer.
Answers == [err : Results \cup {"none", "invalid request body"},
            wbs : WBSView, id : Nat]

LEMMA CallSetType ==
  ASSUME NEW c \in CallSet
  PROVE  /\ c \in Call /\ c.op \in Ops
         /\ c.text \in Text /\ c.task \in Int /\ c.note \in Int
         /\ c.surface \in {"api", "ui"} /\ c.wellFormed \in BOOLEAN
         /\ c.op = "overrideEstimate" => c.estimate \in Estimate
BY SurfacesAssumption DEF Call

LEMMA NoCallType == NoCall \in CallSet
BY SurfacesAssumption DEF NoCall

\* A check finds nothing wrong, or a domain error.
LEMMA ChecksAreResults ==
  ASSUME NEW w, NEW n, NEW k, NEW d, NEW e, NEW inputs
  PROVE  /\ AddTaskError(d) \in Results
         /\ EditTaskError(w, n, d) \in Results
         /\ DeleteTaskError(w, n) \in Results
         /\ ApproveError(w) \in Results
         /\ DeleteRiskNoteError(w, n, k) \in Results
         /\ EditRiskNoteError(w, n, k, d) \in Results
         /\ OverrideEstimateError(w, n, e) \in Results
         /\ ApproveEstimatesError(w) \in Results
         /\ ProposalError(w, inputs) \in Results
<1> USE DEF Results, DomainErrors
<1>1. AddTaskError(d) \in Results
  BY DEF AddTaskError
<1>2. DeleteRiskNoteError(w, n, k) \in Results
  BY DEF DeleteRiskNoteError
<1>3. OverrideEstimateError(w, n, e) \in Results
  BY DEF OverrideEstimateError, ValidateError
<1>4. /\ EditTaskError(w, n, d) \in Results
      /\ EditRiskNoteError(w, n, k, d) \in Results
  BY <1>1, <1>2 DEF EditTaskError, EditRiskNoteError
<1>5. /\ DeleteTaskError(w, n) \in Results
      /\ ApproveError(w) \in Results
      /\ ApproveEstimatesError(w) \in Results
      /\ ProposalError(w, inputs) \in Results
  BY DEF DeleteTaskError, ApproveError, ApproveEstimatesError, ProposalError
<1> QED
  BY <1>1, <1>2, <1>3, <1>4, <1>5

LEMMA CallErrorType ==
  ASSUME NEW w, NEW c \in CallSet, NEW a
  PROVE  CallError(w, c, a) \in Results
<1>1. c.op \in Ops
  BY CallSetType
<1>2. {OK, "ErrEmptyRequirement", "ErrWBSNotApproved", "ErrWBSNotApprovedForEstimation"}
        \subseteq Results
  BY DEF Results, DomainErrors
<1>3. AddRiskNoteError(w, a.n, c.text) \in Results
  BY ChecksAreResults DEF AddRiskNoteError
<1> QED
  BY <1>1, <1>2, <1>3, ChecksAreResults
     DEF CallError, Ops, ReadOps, ProviderOps, TaskOps

LEMMA ResolveErrorType ==
  ASSUME NEW w, NEW c
  PROVE  ResolveError(w, c) \in Results
BY DEF ResolveError, Results, DomainErrors

\* An id resolves to the place of the task, and of the note, that have it.
LEMMA ResolveType ==
  ASSUME NEW w \in WBSType, NEW c, ResolveError(w, c) = OK
  PROVE  /\ Resolve(w, c) \in [n : Int, k : Int]
         /\ Resolve(w, c).n \in At(w.tasks, c.task)
         /\ c.op \in NoteOps =>
              Resolve(w, c).k \in At(w.tasks[Resolve(w, c).n].riskNotes, c.note)
<1> DEFINE n == TheOne(At(w.tasks, c.task))
           k == TheOne(At(w.tasks[n].riskNotes, c.note))
<1>1. At(w.tasks, c.task) # {} /\ (c.op \in NoteOps => At(w.tasks[n].riskNotes, c.note) # {})
  BY DEF ResolveError, OK
<1>2. DOMAIN w.tasks = 1..Len(w.tasks) /\ w.tasks \in Seq(Task)
  BY LenProperties DEF WBSType
<1>3. /\ n \in At(w.tasks, c.task)
      /\ c.op \in NoteOps => k \in At(w.tasks[n].riskNotes, c.note)
  BY <1>1 DEF TheOne
<1>4. Resolve(w, c) = [n |-> n, k |-> IF c.op \in NoteOps THEN k ELSE 0]
  BY DEF Resolve
<1> HIDE DEF n, k
<1>5. n \in 1..Len(w.tasks)
  BY <1>2, <1>3 DEF At
<1>6. c.op \in NoteOps => k \in Int
  <2>1. w.tasks[n] \in Task
    BY <1>2, <1>5, ElementOfSeq
  <2>2. w.tasks[n].riskNotes \in Seq(RiskNote)
    BY <2>1 DEF Task
  <2>3. DOMAIN w.tasks[n].riskNotes = 1..Len(w.tasks[n].riskNotes)
    BY <2>2, LenProperties
  <2> QED
    BY <1>3, <2>3 DEF At
<1> QED
  BY <1>3, <1>4, <1>5, <1>6

\* What the live providers return; the lists they were given have their types.
LEMMA PortOutcomesType ==
  ASSUME NEW c \in CallSet, NEW o \in PortOutcomes(c)
  PROVE  /\ o.err \in Results
         /\ c.op = "flagRisks" => o.out \in Seq(RiskAssignment)
         /\ c.op = "generateEstimates" => o.out \in Seq(EstimateAssignment)
<1>1. CASE c.op = "generate"
  <2>1. o \in GenerateOutcomes(TaskLists)
    BY <1>1 DEF PortOutcomes
  <2>2. CASE o \in Failures("aiprovider.ErrNoTasks")
    BY <1>1, <2>2, FailureType DEF ProviderErrors
  <2>3. CASE o \in {TasksSubmitted(items) : items \in TaskLists}
    BY <1>1, <2>3 DEF TasksSubmitted, Outcome, Results, ProviderErrors
  <2> QED
    BY <2>1, <2>2, <2>3 DEF GenerateOutcomes
<1>2. CASE c.op = "flagRisks"
  <2>1. o \in FlagRisksOutcomes(RiskLists)
    BY <1>2 DEF PortOutcomes
  <2>2. CASE o \in Failures("ErrNoRiskSubmission")
    BY <1>2, <2>2, FailureType, EmptySeq DEF ProviderErrors
  <2>3. CASE o \in {Outcome(OK, ParseRisks(items)) : items \in RiskLists}
    BY <1>2, <2>3, CallsAssumption, ParseRisksProperties DEF Outcome, Results
  <2> QED
    BY <2>1, <2>2, <2>3 DEF FlagRisksOutcomes
<1>3. CASE c.op = "generateEstimates"
  <2>1. o \in EstimateOutcomes(EstimateLists)
    BY <1>3 DEF PortOutcomes
  <2>2. CASE o \in Failures("ErrNoEstimateSubmission")
    BY <1>3, <2>2, FailureType, EmptySeq DEF ProviderErrors
  <2>3. CASE o \in {Outcome(OK, ParseEstimates(items)) : items \in EstimateLists}
    BY <1>3, <2>3, CallsAssumption, ParseEstimatesProperties DEF Outcome, Results
  <2> QED
    BY <2>1, <2>2, <2>3 DEF EstimateOutcomes
<1>4. CASE c.op \notin {"generate", "flagRisks", "generateEstimates"}
  BY <1>4 DEF PortOutcomes, Outcome, Results
<1> QED
  BY <1>1, <1>2, <1>3, <1>4

\* A call whose checks pass leaves a WBS.
LEMMA CallResultType ==
  ASSUME NEW w \in WBSType, NEW c \in CallSet, NEW a, NEW out,
         c.op \in ProviderOps \/ CallError(w, c, a) = OK,
         c.op = "flagRisks" => out \in Seq(RiskAssignment),
         c.op = "generateEstimates" => out \in Seq(EstimateAssignment)
  PROVE  CallResult(w, c, a, out) \in WBSType
<1>1. /\ c.op \in Ops /\ c.text \in Text
      /\ c.op = "overrideEstimate" => c.estimate \in Estimate
  BY CallSetType
<1>2. \A n, d : EditTaskError(w, n, d) = OK => n \in 1..Len(w.tasks)
  BY DEF EditTaskError, TaskExists, OK
<1>3. \A n, d : AddRiskNoteError(w, n, d) = OK => n \in 1..Len(w.tasks)
  BY <1>2 DEF AddRiskNoteError
<1>4. \A n, k : DeleteRiskNoteError(w, n, k) = OK
                  => n \in 1..Len(w.tasks) /\ k \in 1..Len(w.tasks[n].riskNotes)
  BY DEF DeleteRiskNoteError, TaskExists, OK
<1>5. \A n, k, d : EditRiskNoteError(w, n, k, d) = OK => DeleteRiskNoteError(w, n, k) = OK
  BY DEF EditRiskNoteError
<1>6. \A n : DeleteTaskError(w, n) = OK => n \in 1..Len(w.tasks)
  BY DEF DeleteTaskError, TaskExists, OK
<1>7. \A n, e : OverrideEstimateError(w, n, e) = OK => n \in 1..Len(w.tasks)
  BY DEF OverrideEstimateError, TaskExists, OK
<1>8. CASE c.op = "addTask"
  BY <1>1, <1>8, AddTaskType DEF CallResult
<1>9. CASE c.op = "editTask"
  BY <1>1, <1>2, <1>9, EditTaskType DEF CallResult, CallError, ProviderOps
<1>10. CASE c.op = "deleteTask"
  BY <1>1, <1>6, <1>10, DeleteTaskType DEF CallResult, CallError, ProviderOps
<1>11. CASE c.op = "approve" \/ c.op = "approveEstimates"
  BY <1>11, ApproveType DEF CallResult
<1>12. CASE c.op = "flagRisks"
  BY <1>12, ReplaceRiskNotesType DEF CallResult
<1>13. CASE c.op = "addRiskNote"
  BY <1>1, <1>3, <1>13, AddRiskNoteType DEF CallResult, CallError, ProviderOps
<1>14. CASE c.op = "editRiskNote"
  BY <1>1, <1>4, <1>5, <1>14, EditRiskNoteType DEF CallResult, CallError, ProviderOps
<1>15. CASE c.op = "deleteRiskNote"
  BY <1>1, <1>4, <1>15, DeleteRiskNoteType DEF CallResult, CallError, ProviderOps
<1>16. CASE c.op = "generateEstimates"
  BY <1>16, SetEstimatesType DEF CallResult
<1>17. CASE c.op = "overrideEstimate"
  BY <1>1, <1>7, <1>17, OverrideEstimateType DEF CallResult, CallError, ProviderOps
<1>18. CASE c.op \in {"generate", "get", "proposal"}
  BY <1>18 DEF CallResult
<1> QED
  BY <1>1, <1>8, <1>9, <1>10, <1>11, <1>12, <1>13, <1>14, <1>15, <1>16, <1>17, <1>18
     DEF Ops, ReadOps, ProviderOps, TaskOps

LEMMA ViewType ==
  ASSUME NEW w \in WBSType
  PROVE  View(w) \in WBSView
<1>1. w.tasks \in Seq(Task) /\ << >> \in Seq(Task)
  BY EmptySeq DEF WBSType
<1>2. (IF w.approved THEN w.tasks ELSE << >>) \in Seq(Task)
  BY <1>1
<1>3. \A approved \in BOOLEAN : Label(approved) \in {"approved", "unapproved"}
  BY DEF Label
<1> QED
  BY <1>1, <1>2, <1>3 DEF View, WBSView, WBSType

LEMMA NoAnswerType == NoAnswer \in Answers
<1>1. NewWBS(<< >>) \in WBSType
  BY EmptySeq, NewWBSType
<1> QED
  BY <1>1, ViewType DEF NoAnswer, Answers

LEMMA AnswerType ==
  ASSUME NEW c, NEW e \in Results \cup {"invalid request body"}, NEW w \in WBSType,
         NEW id, e = OK /\ c.op = "generate" => id \in Nat
  PROVE  AnswerTo(c, e, w, id) \in Answers /\ AnswerTo(c, e, w, id).err = e
<1>1. NoAnswer \in Answers /\ OK \in Results
  BY NoAnswerType DEF Results
<1>2. View(w) \in WBSView
  BY ViewType
<1> QED
  BY <1>1, <1>2 DEF AnswerTo, Answers

-----------------------------------------------------------------------------
(* Every step keeps the types and what its handler takes for granted. *)

\* The step r takes.
StepOf(r) == Arrive(r) \/ Lock(r) \/ Handle(r) \/ Return(r)

\* Requests whose row no step of r touches.
LEMMA RowsKept ==
  ASSUME TypeOK, NEW r \in Requests, StepOf(r), NEW q \in Requests, q # r
  PROVE  pc'[q] = pc[q] /\ call'[q] = call[q] /\ at'[q] = at[q] /\ answer'[q] = answer[q]
<1> USE DEF TypeOK, Goto
<1>1. ASSUME NEW e, Finish(r, e)
      PROVE  pc'[q] = pc[q] /\ call'[q] = call[q] /\ at'[q] = at[q] /\ answer'[q] = answer[q]
  BY <1>1 DEF Finish
<1>2. CASE Arrive(r)
  BY <1>2 DEF Arrive
<1>3. CASE Lock(r)
  BY <1>3 DEF Lock
<1>4. CASE ResolveIDs(r)
  BY <1>1, <1>4 DEF ResolveIDs
<1>5. CASE ReadBody(r)
  BY <1>1, <1>5 DEF ReadBody
<1>6. CASE Act(r)
  BY <1>1, <1>6 DEF Act
<1>7. CASE Provide(r)
  BY <1>1, <1>7 DEF Provide
<1>8. CASE StoreWBS(r)
  BY <1>8 DEF StoreWBS
<1>9. CASE Respond(r)
  BY <1>1, <1>9 DEF Respond
<1>10. CASE Return(r)
  BY <1>10 DEF Return
<1> QED
  BY <1>2, <1>3, <1>4, <1>5, <1>6, <1>7, <1>8, <1>9, <1>10 DEF StepOf, Handle

\* A mutex is taken when it is free and released by its holder.
LEMMA MutexStep ==
  ASSUME SInv, NEW r \in Requests, StepOf(r)
  PROVE  \/ mu' = mu
         \/ /\ mu[call[r].surface] = Free
            /\ mu' = [mu EXCEPT ![call[r].surface] = r]
         \/ /\ pc[r] \in Holding
            /\ mu' = [mu EXCEPT ![call[r].surface] = Free]
<1>1. CASE Arrive(r) \/ StoreWBS(r) \/ Return(r)
  BY <1>1 DEF Arrive, StoreWBS, Return
<1>2. CASE Lock(r)
  BY <1>2 DEF Lock
<1>3. CASE ResolveIDs(r)
  BY <1>3 DEF ResolveIDs, Finish, Holding
<1>4. CASE ReadBody(r)
  BY <1>4 DEF ReadBody, Finish, Holding
<1>5. CASE Act(r)
  BY <1>5 DEF Act, Finish, Holding
<1>6. CASE Provide(r)
  BY <1>6 DEF Provide, Finish, Holding
<1>7. CASE Respond(r)
  BY <1>7 DEF Respond, Finish, Holding
<1> QED
  BY <1>1, <1>2, <1>3, <1>4, <1>5, <1>6, <1>7 DEF StepOf, Handle

LEMMA OthersKept ==
  ASSUME SInv, NEW r \in Requests, StepOf(r), NEW q \in Requests, q # r
  PROVE  Handler(q)'
<1>1. pc'[q] = pc[q] /\ call'[q] = call[q] /\ at'[q] = at[q] /\ answer'[q] = answer[q]
  BY RowsKept DEF SInv
<1>2. Handler(q) /\ Handler(r)
  BY DEF SInv
<1>3. /\ mu \in [{"api", "ui"} -> Requests \cup {Free}]
      /\ \A p \in Requests : call[p].surface \in {"api", "ui"}
      /\ Free \notin Requests
  BY CallSetType, SurfacesAssumption DEF SInv, TypeOK
<1>4. pc[q] \in Holding => mu'[call[q].surface] = q
  <2>1. SUFFICES ASSUME pc[q] \in Holding
                 PROVE  mu'[call[q].surface] = q
    OBVIOUS
  <2>2. mu[call[q].surface] = q
    BY <1>2, <2>1 DEF Handler
  <2>3. CASE mu' = mu
    BY <2>2, <2>3
  <2>4. CASE /\ mu[call[r].surface] = Free
             /\ mu' = [mu EXCEPT ![call[r].surface] = r]
    BY <1>3, <2>2, <2>4
  <2>5. CASE /\ pc[r] \in Holding
             /\ mu' = [mu EXCEPT ![call[r].surface] = Free]
    <3>1. mu[call[r].surface] = r
      BY <1>2, <2>5 DEF Handler
    <3> QED
      BY <1>3, <2>2, <2>5, <3>1
  <2> QED
    BY <2>3, <2>4, <2>5, MutexStep
<1> QED
  BY <1>1, <1>2, <1>4 DEF Handler

\* The end of a handler.
LEMMA FinishKept ==
  ASSUME SInv, NEW r \in Requests, NEW e \in Results \cup {"invalid request body"},
         Finish(r, e), e = OK /\ call[r].op = "generate" => at[r].n \in Nat
  PROVE  TypeOK' /\ Handler(r)'
<1>0. wbs \in WBSType
  BY DEF SInv, TypeOK
<1>1. Response(r, e) \in Answers /\ Response(r, e).err = e
  <2> DEFINE c == call[r]
             id == at[r].n
  <2>1. e = OK /\ c.op = "generate" => id \in Nat
    OBVIOUS
  <2> HIDE DEF c, id
  <2>2. AnswerTo(c, e, wbs, id) \in Answers /\ AnswerTo(c, e, wbs, id).err = e
    BY <1>0, <2>1, AnswerType
  <2> QED
    BY <2>2 DEF Response, c, id
<1>2. answer' = [answer EXCEPT ![r] = Response(r, e)]
  BY DEF Finish
<1>3. call[r].surface \in {"api", "ui"}
  BY CallSetType DEF SInv, TypeOK
<1>4. /\ mu' \in [{"api", "ui"} -> Requests \cup {Free}]
      /\ pc' = [pc EXCEPT ![r] = "done"]
      /\ UNCHANGED <<wbs, nextID, made, call, at>>
  BY <1>3 DEF SInv, TypeOK, Finish, Goto, stored
<1>5. answer' \in [Requests -> Answers] /\ answer'[r].err = e
  BY <1>1, <1>2 DEF SInv, TypeOK, Answers
<1>6. TypeOK'
  BY <1>4, <1>5 DEF SInv, TypeOK, Answers
<1>7. pc'[r] = "done"
  BY <1>4 DEF SInv, TypeOK
<1> QED
  BY <1>5, <1>6, <1>7 DEF Handler, Local, Holding

\* A step of a handler on to the step p, at the place a, with the mutex.
LEMMA MovedKept ==
  ASSUME SInv, NEW r \in Requests, NEW p \in Holding, NEW a \in [n : Int, k : Int],
         pc[r] \in Holding, Local(p, call[r], a),
         Goto(r, p), at' = [at EXCEPT ![r] = a], UNCHANGED <<mu, call, answer>>,
         wbs' \in WBSType, nextID' \in Nat, made' \subseteq Nat
  PROVE  TypeOK' /\ Handler(r)'
<1>1. pc' \in [Requests -> {"idle", "lock", "resolve", "body", "act", "provider",
                           "store", "respond", "done"}]
  BY DEF SInv, TypeOK, Goto, Holding
<1>2. at' \in [Requests -> [n : Int, k : Int]]
  BY DEF SInv, TypeOK
<1>3. TypeOK'
  BY <1>1, <1>2 DEF SInv, TypeOK
<1>4. pc'[r] = p /\ at'[r] = a /\ p # "done"
  BY DEF SInv, TypeOK, Goto, Holding
<1>5. mu[call[r].surface] = r
  BY DEF SInv, Handler
<1> QED
  BY <1>3, <1>4, <1>5 DEF Handler

LEMMA ArriveKept ==
  ASSUME SInv, NEW r \in Requests, Arrive(r)
  PROVE  TypeOK' /\ Handler(r)'
<1>1. PICK c \in CallSet : call' = [call EXCEPT ![r] = c]
  BY DEF Arrive
<1>2. pc' = [pc EXCEPT ![r] = "lock"] /\ UNCHANGED <<wbs, nextID, made, mu, at, answer>>
  BY DEF Arrive, Goto, stored
<1>3. TypeOK'
  BY <1>1, <1>2 DEF SInv, TypeOK
<1>4. pc'[r] = "lock"
  BY <1>2 DEF SInv, TypeOK
<1> QED
  BY <1>3, <1>4 DEF Handler, Local, Holding

LEMMA LockKept ==
  ASSUME SInv, NEW r \in Requests, Lock(r)
  PROVE  TypeOK' /\ Handler(r)'
<1> DEFINE c == call[r]
<1>1. /\ c \in CallSet /\ c.surface \in {"api", "ui"} /\ c.task \in Int /\ c.note \in Int
      /\ c.wellFormed \/ HasBody(c)
  BY CallSetType, SurfacesAssumption DEF SInv, TypeOK, HasBody
<1>2. AsGiven(c) \in [n : Int, k : Int]
  BY <1>1 DEF AsGiven
<1>3. /\ mu' = [mu EXCEPT ![c.surface] = r]
      /\ UNCHANGED <<wbs, nextID, made, call, answer>>
      /\ \/ Resolves(c) /\ pc' = [pc EXCEPT ![r] = "resolve"] /\ UNCHANGED at
         \/ /\ pc' = [pc EXCEPT ![r] = AfterResolve(c)]
            /\ at' = [at EXCEPT ![r] = AsGiven(c)]
  BY DEF Lock, Goto, stored
<1>4. AfterResolve(c) \in {"body", "act"} /\ (AfterResolve(c) = "act" => c.wellFormed)
  BY <1>1 DEF AfterResolve
<1>5. c' = c
  BY <1>3
<1> HIDE DEF c
<1>6. TypeOK'
  <2>1. mu' \in [{"api", "ui"} -> Requests \cup {Free}]
    BY <1>1, <1>3 DEF SInv, TypeOK
  <2>2. pc' \in [Requests -> {"idle", "lock", "resolve", "body", "act", "provider",
                             "store", "respond", "done"}]
    BY <1>3, <1>4 DEF SInv, TypeOK
  <2>3. at' \in [Requests -> [n : Int, k : Int]]
    BY <1>2, <1>3 DEF SInv, TypeOK
  <2> QED
    BY <1>3, <2>1, <2>2, <2>3 DEF SInv, TypeOK
<1>7. /\ mu'[c.surface] = r
      /\ pc'[r] \in {"body", "act"} \/ (pc'[r] = "resolve" /\ Resolves(c))
      /\ pc'[r] = "act" => c.wellFormed
  BY <1>1, <1>3, <1>4 DEF SInv, TypeOK
<1> QED
  BY <1>5, <1>6, <1>7 DEF Handler, Local, c

LEMMA ResolveKept ==
  ASSUME SInv, NEW r \in Requests, ResolveIDs(r)
  PROVE  TypeOK' /\ Handler(r)'
<1> DEFINE c == call[r]
<1>1. /\ c \in CallSet
      /\ c.wellFormed \/ c.op \in BodyOps
      /\ pc[r] \in Holding /\ Handler(r) /\ pc[r] = "resolve"
      /\ wbs \in WBSType /\ nextID \in Nat /\ made \subseteq Nat
  BY SurfacesAssumption DEF SInv, TypeOK, Holding, ResolveIDs
<1>2. CASE Finish(r, ResolveError(wbs, c)) /\ ResolveError(wbs, c) # OK
  BY <1>2, ResolveErrorType, FinishKept
<1>3. CASE /\ ResolveError(wbs, c) = OK
           /\ at' = [at EXCEPT ![r] = Resolve(wbs, c)]
           /\ Goto(r, AfterResolve(c))
           /\ UNCHANGED <<wbs, stored, mu, call, answer>>
  <2>1. Resolve(wbs, c) \in [n : Int, k : Int]
    BY <1>1, <1>3, ResolveType
  <2>2. AfterResolve(c) \in {"body", "act"} /\ (AfterResolve(c) = "act" => c.wellFormed)
    BY <1>1 DEF AfterResolve, HasBody
  <2>3. Local(AfterResolve(c), c, Resolve(wbs, c)) /\ AfterResolve(c) \in Holding
    BY <2>2 DEF Local, Holding
  <2>4. UNCHANGED <<wbs, nextID, made, mu, call, answer>>
    BY <1>3 DEF stored
  <2> HIDE DEF c
  <2>5. wbs' \in WBSType /\ nextID' \in Nat /\ made' \subseteq Nat
    BY <1>1, <2>4
  <2> QED
    BY <1>1, <1>3, <2>1, <2>3, <2>4, <2>5, MovedKept DEF c
<1> QED
  BY <1>2, <1>3 DEF ResolveIDs

LEMMA ReadBodyKept ==
  ASSUME SInv, NEW r \in Requests, ReadBody(r)
  PROVE  TypeOK' /\ Handler(r)'
<1>1. /\ pc[r] \in Holding
      /\ wbs \in WBSType /\ nextID \in Nat /\ made \subseteq Nat
      /\ at[r] \in [n : Int, k : Int]
  BY DEF SInv, TypeOK, Holding, ReadBody
<1>2. CASE Finish(r, BodyError(call[r]))
  <2>1. BodyError(call[r]) \in Results \cup {"invalid request body"}
        /\ BodyError(call[r]) # OK
    BY DEF BodyError, Results, DomainErrors, OK
  <2> QED
    BY <1>2, <2>1, FinishKept
<1>3. CASE /\ call[r].wellFormed
           /\ Goto(r, "act")
           /\ UNCHANGED <<wbs, stored, mu, call, at, answer>>
  <2>1. at' = [at EXCEPT ![r] = at[r]]
    BY <1>3 DEF SInv, TypeOK
  <2>2. Local("act", call[r], at[r]) /\ "act" \in Holding
    BY <1>3 DEF Local, Holding
  <2>3. /\ UNCHANGED <<mu, call, answer>>
        /\ wbs' \in WBSType /\ nextID' \in Nat /\ made' \subseteq Nat
    BY <1>1, <1>3 DEF stored
  <2> QED
    BY <1>1, <1>3, <2>1, <2>2, <2>3, MovedKept
<1> QED
  BY <1>2, <1>3 DEF ReadBody

LEMMA ActKept ==
  ASSUME SInv, NEW r \in Requests, Act(r)
  PROVE  TypeOK' /\ Handler(r)'
<1> DEFINE c == call[r]
           e == CallError(wbs, c, at[r])
<1>1. /\ pc[r] = "act" /\ pc[r] \in Holding /\ Handler(r)
      /\ wbs \in WBSType /\ nextID \in Nat /\ made \subseteq Nat
      /\ at[r] \in [n : Int, k : Int] /\ c \in CallSet
  BY DEF SInv, TypeOK, Holding, Act
<1>2. c.wellFormed /\ e \in Results
  BY <1>1, CallErrorType DEF Handler, Local
<1>3. CASE (e # OK \/ c.op \in ReadOps) /\ Finish(r, e)
  <2>1. e = OK => c.op # "generate"
    BY <1>3 DEF ReadOps
  <2> HIDE DEF e
  <2> QED
    BY <1>2, <1>3, <2>1, FinishKept
<1>4. CASE /\ e = OK /\ c.op \in ProviderOps
           /\ Goto(r, "provider")
           /\ UNCHANGED <<wbs, stored, mu, call, at, answer>>
  <2>1. c.op = "generate" => Trim[c.text] # Blank
    BY <1>4 DEF CallError, OK
  <2>2. at' = [at EXCEPT ![r] = at[r]]
    BY <1>4 DEF SInv, TypeOK
  <2>3. Local("provider", call[r], at[r]) /\ "provider" \in Holding
    BY <1>2, <1>4, <2>1 DEF Local, Holding
  <2>4. /\ UNCHANGED <<mu, call, answer>>
        /\ wbs' \in WBSType /\ nextID' \in Nat /\ made' \subseteq Nat
    BY <1>1, <1>4 DEF stored
  <2> HIDE DEF c, e
  <2> QED
    BY <1>1, <1>4, <2>2, <2>3, <2>4, MovedKept
<1>5. CASE /\ e = OK /\ c.op \notin ReadOps \cup ProviderOps
           /\ wbs' = CallResult(wbs, c, at[r], << >>)
           /\ Goto(r, "respond")
           /\ UNCHANGED <<stored, mu, call, at, answer>>
  <2>1. wbs' \in WBSType
    <3>1. c.op \notin {"flagRisks", "generateEstimates"}
      BY <1>5 DEF ProviderOps
    <3> QED
      BY <1>1, <1>5, <3>1, CallResultType
  <2>2. at' = [at EXCEPT ![r] = at[r]]
    BY <1>5 DEF SInv, TypeOK
  <2>3. Local("respond", call[r], at[r]) /\ "respond" \in Holding
    BY <1>5 DEF Local, Holding, ProviderOps
  <2>4. UNCHANGED <<mu, call, answer>> /\ nextID' \in Nat /\ made' \subseteq Nat
    BY <1>1, <1>5 DEF stored
  <2> HIDE DEF c, e
  <2> QED
    BY <1>1, <1>5, <2>1, <2>2, <2>3, <2>4, MovedKept
<1> QED
  BY <1>3, <1>4, <1>5 DEF Act

LEMMA ProvideKept ==
  ASSUME SInv, NEW r \in Requests, Provide(r)
  PROVE  TypeOK' /\ Handler(r)'
<1> DEFINE c == call[r]
<1>1. /\ pc[r] = "provider" /\ pc[r] \in Holding /\ Handler(r)
      /\ wbs \in WBSType /\ nextID \in Nat /\ made \subseteq Nat
      /\ at[r] \in [n : Int, k : Int] /\ c \in CallSet
  BY DEF SInv, TypeOK, Holding, Provide
<1>2. /\ c.wellFormed /\ c.op \in ProviderOps /\ c.op \notin ReadOps
      /\ c.op = "generate" => Trim[c.text] # Blank
  BY <1>1 DEF Handler, Local, ProviderOps, ReadOps
<1>3. PICK o \in PortOutcomes(c) :
        \/ o.err # OK /\ Finish(r, o.err)
        \/ /\ o.err = OK /\ c.op = "generate"
           /\ at' = [at EXCEPT ![r].n = nextID]
           /\ Goto(r, "store")
           /\ UNCHANGED <<wbs, stored, mu, call, answer>>
        \/ /\ o.err = OK /\ c.op # "generate"
           /\ wbs' = CallResult(wbs, c, at[r], o.out)
           /\ Goto(r, "respond")
           /\ UNCHANGED <<stored, mu, call, at, answer>>
  BY DEF Provide
<1>4. /\ o.err \in Results
      /\ c.op = "flagRisks" => o.out \in Seq(RiskAssignment)
      /\ c.op = "generateEstimates" => o.out \in Seq(EstimateAssignment)
  BY <1>1, PortOutcomesType
<1>5. CASE o.err # OK /\ Finish(r, o.err)
  BY <1>4, <1>5, FinishKept
<1>6. CASE /\ o.err = OK /\ c.op = "generate"
           /\ at' = [at EXCEPT ![r].n = nextID]
           /\ Goto(r, "store")
           /\ UNCHANGED <<wbs, stored, mu, call, answer>>
  <2> DEFINE a == [at[r] EXCEPT !.n = nextID]
  <2>1. at' = [at EXCEPT ![r] = a] /\ a \in [n : Int, k : Int] /\ a.n \in Nat
    BY <1>1, <1>6
  <2>2. Local("store", call[r], a) /\ "store" \in Holding
    BY <1>2, <1>6, <2>1 DEF Local, Holding
  <2>3. /\ UNCHANGED <<mu, call, answer>>
        /\ wbs' \in WBSType /\ nextID' \in Nat /\ made' \subseteq Nat
    BY <1>1, <1>6 DEF stored
  <2> HIDE DEF c, a
  <2> QED
    BY <1>1, <1>6, <2>1, <2>2, <2>3, MovedKept
<1>7. CASE /\ o.err = OK /\ c.op # "generate"
           /\ wbs' = CallResult(wbs, c, at[r], o.out)
           /\ Goto(r, "respond")
           /\ UNCHANGED <<stored, mu, call, at, answer>>
  <2>1. wbs' \in WBSType
    BY <1>1, <1>2, <1>4, <1>7, CallResultType
  <2>2. at' = [at EXCEPT ![r] = at[r]]
    BY <1>7 DEF SInv, TypeOK
  <2>3. Local("respond", call[r], at[r]) /\ "respond" \in Holding
    BY <1>2, <1>7 DEF Local, Holding
  <2>4. UNCHANGED <<mu, call, answer>> /\ nextID' \in Nat /\ made' \subseteq Nat
    BY <1>1, <1>7 DEF stored
  <2> HIDE DEF c
  <2> QED
    BY <1>1, <1>7, <2>1, <2>2, <2>3, <2>4, MovedKept
<1> QED
  BY <1>3, <1>5, <1>6, <1>7

LEMMA StoreKept ==
  ASSUME SInv, NEW r \in Requests, StoreWBS(r)
  PROVE  TypeOK' /\ Handler(r)'
<1>1. /\ pc[r] = "store" /\ pc[r] \in Holding /\ Handler(r)
      /\ wbs \in WBSType /\ nextID \in Nat /\ made \subseteq Nat
      /\ at[r] \in [n : Int, k : Int]
  BY DEF SInv, TypeOK, Holding, StoreWBS
<1>2. call[r].op = "generate" /\ at[r].n \in Nat
  BY <1>1 DEF Handler, Local
<1>3. at' = [at EXCEPT ![r] = at[r]]
  BY DEF SInv, TypeOK, StoreWBS
<1>4. Local("respond", call[r], at[r]) /\ "respond" \in Holding
  BY <1>2 DEF Local, Holding, ReadOps
<1>5. /\ Goto(r, "respond") /\ UNCHANGED <<wbs, mu, call, answer>>
      /\ nextID' = nextID + 1 /\ made' = made \cup {at[r].n}
  BY DEF StoreWBS
<1>6. wbs' \in WBSType /\ nextID' \in Nat
  BY <1>1, <1>5
<1>7. made' \subseteq Nat
  BY <1>1, <1>2, <1>5
<1> QED
  BY <1>1, <1>3, <1>4, <1>5, <1>6, <1>7, MovedKept

LEMMA RespondKept ==
  ASSUME SInv, NEW r \in Requests, Respond(r)
  PROVE  TypeOK' /\ Handler(r)'
<1>1. pc[r] = "respond" /\ Handler(r) /\ Finish(r, OK)
  BY DEF SInv, Respond
<1>2. call[r].op = "generate" => at[r].n \in Nat
  BY <1>1 DEF Handler, Local
<1>3. OK \in Results
  BY DEF Results
<1> QED
  BY <1>1, <1>2, <1>3, FinishKept

LEMMA ReturnKept ==
  ASSUME SInv, NEW r \in Requests, Return(r)
  PROVE  TypeOK' /\ Handler(r)'
<1>1. Nowhere \in [n : Int, k : Int] /\ NoAnswer \in Answers /\ NoCall \in CallSet
  BY NoAnswerType, NoCallType DEF Nowhere
<1>2. /\ pc' = [pc EXCEPT ![r] = "idle"] /\ call' = [call EXCEPT ![r] = NoCall]
      /\ at' = [at EXCEPT ![r] = Nowhere] /\ answer' = [answer EXCEPT ![r] = NoAnswer]
      /\ UNCHANGED <<wbs, nextID, made, mu>>
  BY DEF Return, Goto, stored
<1>3. answer' \in [Requests -> Answers]
  BY <1>1, <1>2 DEF SInv, TypeOK, Answers
<1>4. /\ pc' \in [Requests -> {"idle", "lock", "resolve", "body", "act", "provider",
                              "store", "respond", "done"}]
      /\ call' \in [Requests -> CallSet]
      /\ at' \in [Requests -> [n : Int, k : Int]]
  BY <1>1, <1>2 DEF SInv, TypeOK
<1>5. TypeOK'
  BY <1>2, <1>3, <1>4 DEF SInv, TypeOK, Answers
<1>6. pc'[r] = "idle"
  BY <1>2 DEF SInv, TypeOK
<1> QED
  BY <1>5, <1>6 DEF Handler, Local, Holding

LEMMA InitSInv == Init => SInv
<1> SUFFICES ASSUME Init PROVE SInv
  OBVIOUS
<1>1. wbs \in WBSType
  BY SurfacesAssumption, NewWBSType DEF Init
<1>2. NoAnswer \in Answers /\ NoCall \in CallSet
  BY NoAnswerType, NoCallType
<1>3. TypeOK
  <2>1. answer \in [Requests -> Answers]
    BY <1>2 DEF Init
  <2>2. mu \in [{"api", "ui"} -> Requests \cup {Free}]
    BY DEF Init
  <2>3. /\ pc \in [Requests -> {"idle", "lock", "resolve", "body", "act", "provider",
                               "store", "respond", "done"}]
        /\ call \in [Requests -> CallSet]
        /\ at \in [Requests -> [n : Int, k : Int]]
        /\ nextID \in Nat /\ made \subseteq Nat
    BY <1>2 DEF Init, Nowhere
  <2> QED
    BY <1>1, <2>1, <2>2, <2>3 DEF TypeOK, Answers
<1> QED
  BY <1>3 DEF SInv, Init, Handler, Local, Holding

LEMMA StepSInv ==
  ASSUME SInv, NEW r \in Requests, StepOf(r)
  PROVE  SInv'
<1>1. TypeOK' /\ Handler(r)'
  BY ArriveKept, LockKept, ResolveKept, ReadBodyKept, ActKept, ProvideKept, StoreKept,
     RespondKept, ReturnKept
     DEF StepOf, Handle
<1>2. \A q \in Requests : Handler(q)'
  BY <1>1, OthersKept
<1> QED
  BY <1>1, <1>2 DEF SInv

LEMMA NextSInv == SInv /\ [Next]_vars => SInv'
<1> SUFFICES ASSUME SInv, [Next]_vars PROVE SInv'
  OBVIOUS
<1>1. CASE UNCHANGED vars
  BY <1>1 DEF vars, SInv, TypeOK, Handler
<1>2. CASE Next
  BY <1>2, StepSInv DEF Next, StepOf
<1> QED
  BY <1>1, <1>2

\* Types, mutexes and the errors handlers end with, whatever the calls.
THEOREM SInvHolds == SafeSpec => []SInv
BY InitSInv, NextSInv, PTL DEF SafeSpec

\* Whatever requests arrive on the two surfaces, the WBS they share keeps its type
\* and so do the ids, the mutexes and the responses.
THEOREM SurfacesTypeCorrect == SafeSpec => []TypeOK
<1>1. SInv => TypeOK
  BY DEF SInv
<1> QED
  BY <1>1, SInvHolds, PTL

\* The table of statuses has a line for every error a handler can end with, but for
\* those of the providers, and none for those (server.go:672-705).
THEOREM OnlyProvidersAreInternal == SafeSpec => []InternalErrorsAreProviders
<1>1. SInv => InternalErrorsAreProviders
  <2> SUFFICES ASSUME SInv, NEW r \in Requests, pc[r] = "done"
               PROVE  Status(call[r], answer[r].err) = 500 <=> answer[r].err \in ProviderErrors
    BY DEF InternalErrorsAreProviders
  <2> DEFINE e == answer[r].err
  <2>1. e \in Results \cup {"invalid request body"}
    BY DEF SInv, Handler
  <2> HIDE DEF e
  <2>2. CASE e \in ProviderErrors
    <3>1. /\ e # OK /\ e \notin NotFound /\ e \notin BadRequest
          /\ e \notin Conflict /\ e \notin Unprocessable
      BY <2>2 DEF ProviderErrors, OK, NotFound, BadRequest, Conflict, Unprocessable
    <3> QED
      BY <2>2, <3>1 DEF Status, e
  <2>3. CASE e \notin ProviderErrors
    <3>1. e = OK \/ e \in NotFound \cup BadRequest \cup Conflict \cup Unprocessable
      BY <2>1, <2>3 DEF Results, DomainErrors, NotFound, BadRequest, Conflict, Unprocessable
    <3> QED
      BY <2>3, <3>1 DEF Status, e
  <2> QED
    BY <2>2, <2>3
<1> QED
  BY <1>1, SInvHolds, PTL

-----------------------------------------------------------------------------
(* One surface: between two steps of a handler nothing else changes the WBS, nor the *)
(* ids.                                                                              *)

LEMMA OneHolds ==
  ASSUME OneSurface, SInv, NEW r \in Requests, NEW q \in Requests,
         pc[r] \in Holding, pc[q] \in Holding
  PROVE  q = r
<1>1. call[r].surface = call[q].surface
  BY DEF OneSurface, SInv, TypeOK
<1>2. mu[call[r].surface] = r /\ mu[call[q].surface] = q
  BY DEF SInv, Handler
<1> QED
  BY <1>1, <1>2

LEMMA OutsideKeeps ==
  ASSUME NEW r \in Requests, StepOf(r), pc[r] \notin Holding
  PROVE  UNCHANGED <<wbs, nextID, made>>
BY DEF StepOf, Handle, Holding, Arrive, Lock, Return, ResolveIDs, ReadBody, Act, Provide,
       StoreWBS, Respond, stored

\* Steps that go to a step with nothing to know.
LEMMA OneStep ==
  ASSUME SInv, Knowledge, NEW r \in Requests, StepOf(r)
  PROVE  Knows(pc[r], call[r], at[r], wbs, nextID)'
<1> USE DEF Goto
<1>1. /\ pc \in [Requests -> {"idle", "lock", "resolve", "body", "act", "provider",
                             "store", "respond", "done"}]
      /\ at \in [Requests -> [n : Int, k : Int]]
      /\ Knows(pc[r], call[r], at[r], wbs, nextID)
  BY DEF SInv, TypeOK, Knowledge
<1>2. ASSUME pc'[r] \in {"idle", "lock", "resolve", "respond", "done"}
      PROVE  Knows(pc[r], call[r], at[r], wbs, nextID)'
  BY <1>2 DEF Knows
<1>3. ASSUME NEW e, Finish(r, e)
      PROVE  Knows(pc[r], call[r], at[r], wbs, nextID)'
  <2>1. pc'[r] = "done"
    BY <1>1, <1>3 DEF Finish
  <2> QED
    BY <1>2, <2>1
<1>4. CASE Arrive(r) \/ StoreWBS(r) \/ Return(r)
  <2>1. pc'[r] \in {"idle", "lock", "respond"}
    BY <1>1, <1>4 DEF Arrive, StoreWBS, Return
  <2> QED
    BY <1>2, <2>1
<1>5. CASE Lock(r)
  <2>1. CASE Resolves(call[r])
    <3>1. pc'[r] = "resolve"
      BY <1>1, <1>5, <2>1 DEF Lock
    <3> QED
      BY <1>2, <3>1
  <2>2. CASE ~Resolves(call[r])
    <3>1. /\ pc'[r] \in {"body", "act"} /\ call' = call
          /\ at'[r] = Place(wbs', call[r])
      BY <1>1, <1>5, <2>2 DEF Lock, AfterResolve, Place
    <3> QED
      BY <2>2, <3>1 DEF Knows
  <2> QED
    BY <2>1, <2>2
<1>6. CASE ResolveIDs(r)
  <2>1. CASE /\ ResolveError(wbs, call[r]) = OK
             /\ at' = [at EXCEPT ![r] = Resolve(wbs, call[r])]
             /\ Goto(r, AfterResolve(call[r]))
             /\ UNCHANGED <<wbs, stored, mu, call, answer>>
    <3>1. Resolves(call[r])
      BY <1>6 DEF SInv, Handler, Local, ResolveIDs
    <3>2. /\ pc'[r] \in {"body", "act"} /\ call' = call /\ wbs' = wbs
          /\ at'[r] = Place(wbs, call[r])
      BY <1>1, <2>1, <3>1 DEF AfterResolve, Place
    <3> QED
      BY <2>1, <3>2 DEF Knows
  <2> QED
    BY <1>3, <1>6, <2>1 DEF ResolveIDs
<1>7. CASE ReadBody(r)
  <2>1. CASE Goto(r, "act") /\ UNCHANGED <<wbs, call, at>>
    <3>1. pc[r] = "body" /\ pc'[r] = "act"
      BY <1>1, <1>7, <2>1 DEF ReadBody
    <3> QED
      BY <1>1, <2>1, <3>1 DEF Knows
  <2> QED
    BY <1>3, <1>7, <2>1 DEF ReadBody
<1>8. CASE Act(r)
  <2>1. CASE /\ CallError(wbs, call[r], at[r]) = OK
             /\ Goto(r, "provider") /\ UNCHANGED <<wbs, call, at>>
    <3>1. pc[r] = "act" /\ pc'[r] = "provider"
      BY <1>1, <1>8, <2>1 DEF Act
    <3> QED
      BY <1>1, <2>1, <3>1 DEF Knows
  <2>2. CASE Goto(r, "respond")
    BY <1>1, <1>2, <2>2
  <2> QED
    BY <1>3, <1>8, <2>1, <2>2 DEF Act
<1>9. CASE Provide(r)
  <2>1. CASE /\ at' = [at EXCEPT ![r].n = nextID]
             /\ Goto(r, "store") /\ UNCHANGED stored
    <3>1. pc'[r] = "store" /\ at'[r].n = nextID'
      BY <1>1, <2>1 DEF stored
    <3> QED
      BY <3>1 DEF Knows
  <2>2. CASE Goto(r, "respond")
    BY <1>1, <1>2, <2>2
  <2> QED
    BY <1>3, <1>9, <2>1, <2>2 DEF Provide
<1>10. CASE Respond(r)
  BY <1>3, <1>10 DEF Respond
<1> QED
  BY <1>4, <1>5, <1>6, <1>7, <1>8, <1>9, <1>10 DEF StepOf, Handle

LEMMA KnowledgeKept ==
  ASSUME OneSurface, SInv, Knowledge, NEW r \in Requests, StepOf(r)
  PROVE  Knowledge'
<1>1. ASSUME NEW q \in Requests, q # r
      PROVE  Knows(pc[q], call[q], at[q], wbs, nextID)'
  <2>1. pc'[q] = pc[q] /\ call'[q] = call[q] /\ at'[q] = at[q]
    BY <1>1, RowsKept DEF SInv
  <2>2. CASE pc[q] \notin Holding
    BY <2>1, <2>2 DEF Knows, Holding
  <2>3. CASE pc[q] \in Holding
    <3>1. UNCHANGED <<wbs, nextID, made>>
      BY <1>1, <2>3, OneHolds, OutsideKeeps
    <3> QED
      BY <2>1, <3>1 DEF Knowledge, Knows
  <2> QED
    BY <2>2, <2>3
<1> QED
  BY <1>1, OneStep DEF Knowledge

LEMMA StoredStep ==
  ASSUME NEW r \in Requests, StepOf(r)
  PROVE  \/ UNCHANGED <<nextID, made>>
         \/ /\ StoreWBS(r)
            /\ nextID' = nextID + 1 /\ made' = made \cup {at[r].n}
<1>1. \A e : Finish(r, e) => UNCHANGED <<nextID, made>>
  BY DEF Finish, stored
<1> QED
  BY <1>1 DEF StepOf, Handle, Arrive, Lock, Return, ResolveIDs, ReadBody, Act, Provide,
              StoreWBS, Respond, stored

LEMMA IDsBelowKept ==
  ASSUME Knowledge, IDsBelow, NEW r \in Requests, StepOf(r)
  PROVE  IDsBelow'
<1>1. CASE UNCHANGED <<nextID, made>>
  BY <1>1 DEF IDsBelow
<1>2. CASE /\ StoreWBS(r)
           /\ nextID' = nextID + 1 /\ made' = made \cup {at[r].n}
  <2>1. at[r].n = nextID
    BY <1>2 DEF Knowledge, Knows, StoreWBS
  <2> QED
    BY <1>2, <2>1 DEF IDsBelow
<1> QED
  BY <1>1, <1>2, StoredStep

LEMMA RoomKept ==
  ASSUME SInv, RoomLeft, NEW r \in Requests, StepOf(r)
  PROVE  RoomLeft'
<1>1. /\ IsFiniteSet(Requests) /\ MaxWBS \in Nat /\ nextID \in Nat
      /\ pc \in [Requests -> {"idle", "lock", "resolve", "body", "act", "provider",
                             "store", "respond", "done"}]
      /\ call \in [Requests -> CallSet]
  BY SurfacesAssumption DEF SInv, TypeOK
<1>2. IsFiniteSet(Generating) /\ Cardinality(Generating) \in Nat
  BY <1>1, FS_Subset, FS_CardinalityType DEF Generating
<1>3. \A q \in Requests \ {r} : q \in Generating' <=> q \in Generating
  BY RowsKept DEF SInv, Generating
<1>4. CASE r \in Generating' => r \in Generating
  <2>1. Generating' \subseteq Generating
    BY <1>3, <1>4 DEF Generating
  <2>2. /\ Cardinality(Generating') \in Nat
        /\ Cardinality(Generating') <= Cardinality(Generating)
    BY <1>2, <2>1, FS_Subset, FS_CardinalityType
  <2>3. CASE UNCHANGED <<nextID, made>>
    BY <1>1, <1>2, <2>2, <2>3 DEF RoomLeft
  <2>4. CASE StoreWBS(r) /\ nextID' = nextID + 1
    <3>1. r \in Generating
      BY <2>4 DEF Generating, StoreWBS, SInv, Handler, Local
    <3>2. r \notin Generating'
      BY <1>1, <2>4 DEF Generating, StoreWBS, Goto
    <3>3. Generating' = Generating \ {r}
      <4>1. Generating \subseteq Requests
        BY DEF Generating
      <4> QED
        BY <1>3, <2>1, <3>2, <4>1
    <3>4. Cardinality(Generating') = Cardinality(Generating) - 1
      BY <1>2, <3>1, <3>3, FS_RemoveElement
    <3> QED
      BY <1>1, <1>2, <2>4, <3>4 DEF RoomLeft
  <2> QED
    BY <2>3, <2>4, StoredStep
<1>5. CASE r \in Generating' /\ r \notin Generating
  <2>1. Arrive(r)
    <3>1. CASE Return(r)
      BY <1>1, <1>5, <3>1 DEF Return, Goto, Generating
    <3>2. CASE Lock(r) \/ Handle(r)
      <4>1. pc[r] \notin {"idle", "done"} /\ call' = call
        BY <3>2 DEF Lock, Handle, ResolveIDs, ReadBody, Act, Provide, StoreWBS, Respond, Finish
      <4>2. pc[r] # "respond"
        <5>1. CASE pc[r] = "respond"
          <6>1. Respond(r)
            BY <3>2, <5>1 DEF Lock, Handle, ResolveIDs, ReadBody, Act, Provide, StoreWBS
          <6>2. pc'[r] = "done"
            BY <1>1, <6>1 DEF Respond, Finish, Goto
          <6> QED
            BY <1>5, <6>2 DEF Generating
        <5> QED
          BY <5>1
      <4> QED
        BY <1>5, <4>1, <4>2 DEF Generating
    <3> QED
      BY <3>1, <3>2 DEF StepOf
  <2>2. PICK c \in CallSet : Room(c) /\ call' = [call EXCEPT ![r] = c]
    BY <2>1 DEF Arrive
  <2>3. c.op = "generate"
    BY <1>1, <1>5, <2>2 DEF Generating
  <2>4. nextID + Cardinality(InFlight({"generate"})) <= MaxWBS
    BY <2>2, <2>3 DEF Room
  <2> DEFINE flying == InFlight({"generate"})
  <2>5. flying \subseteq Requests
    BY DEF InFlight
  <2>6. IsFiniteSet(flying) /\ Cardinality(flying) \in Nat
    BY <1>1, <2>5, FS_Subset, FS_CardinalityType
  <2>7. Generating' \subseteq flying \cup {r}
    <3>1. Generating \subseteq flying
      BY DEF Generating, InFlight
    <3> QED
      BY <1>3, <3>1 DEF Generating
  <2>8. r \notin flying
    BY <2>1 DEF Arrive, InFlight
  <2> HIDE DEF flying
  <2>9. /\ IsFiniteSet(flying \cup {r})
        /\ Cardinality(flying \cup {r}) = Cardinality(flying) + 1
    BY <2>6, <2>8, FS_AddElement
  <2>10. /\ Cardinality(Generating') \in Nat
         /\ Cardinality(Generating') <= Cardinality(flying) + 1
    BY <2>7, <2>9, FS_Subset, FS_CardinalityType
  <2>11. nextID' = nextID
    BY <2>1 DEF Arrive, stored
  <2> QED
    BY <1>1, <2>4, <2>6, <2>10, <2>11 DEF RoomLeft, flying
<1> QED
  BY <1>4, <1>5

LEMMA InitOneInv == Init => OneInv
<1> SUFFICES ASSUME Init PROVE OneInv
  OBVIOUS
<1>1. SInv
  BY InitSInv
<1>2. Knowledge /\ IDsBelow
  BY DEF Init, Knowledge, Knows, IDsBelow
<1>3. Generating = {}
  BY DEF Init, Generating
<1>4. RoomLeft
  BY <1>3, FS_EmptySet, SurfacesAssumption DEF Init, RoomLeft
<1> QED
  BY <1>1, <1>2, <1>4 DEF OneInv

LEMMA NextOneInv ==
  ASSUME OneSurface, OneInv, [Next]_vars
  PROVE  OneInv'
<1>1. CASE UNCHANGED vars
  BY <1>1 DEF vars, OneInv, SInv, TypeOK, Handler, Knowledge, IDsBelow, RoomLeft, Generating
<1>2. CASE Next
  <2>1. PICK r \in Requests : StepOf(r)
    BY <1>2 DEF Next, StepOf
  <2> QED
    BY <2>1, StepSInv, KnowledgeKept, IDsBelowKept, RoomKept DEF OneInv
<1> QED
  BY <1>1, <1>2

\* One surface: what the steps of a handler know stays true until they are taken.
THEOREM OneInvHolds == ASSUME OneSurface PROVE SafeSpec => []OneInv
<1>1. Init => OneInv
  BY InitOneInv
<1>2. OneInv /\ [Next]_vars => OneInv'
  BY NextOneInv
<1> QED
  BY <1>1, <1>2, PTL DEF SafeSpec

\* With one surface, the number and the position an API handler resolved are still
\* those of the task and the note its request names when it acts on them, however long
\* it waits for the body (server.go:300-305, 329-339, 351-356, 421-431, 635-645).
THEOREM ResolutionsHold == ASSUME OneSurface PROVE SafeSpec => []ResolutionHolds
<1>1. OneInv => ResolutionHolds
  <2> SUFFICES ASSUME OneInv, NEW r \in Requests,
                      pc[r] \in {"body", "act"}, Resolves(call[r])
               PROVE  /\ at[r].n \in At(wbs.tasks, call[r].task)
                      /\ call[r].op \in NoteOps
                           => at[r].k \in At(wbs.tasks[at[r].n].riskNotes, call[r].note)
    BY DEF ResolutionHolds
  <2>1. wbs \in WBSType
    BY DEF OneInv, SInv, TypeOK
  <2>2. Knows(pc[r], call[r], at[r], wbs, nextID)
    BY DEF OneInv, Knowledge
  <2>3. ResolveError(wbs, call[r]) = OK /\ at[r] = Resolve(wbs, call[r])
    BY <2>2 DEF Knows, Place
  <2> QED
    BY <2>1, <2>3, ResolveType
<1> QED
  BY <1>1, OneInvHolds, PTL

\* With one surface, the breakdown a provider was asked about is still approved when
\* its output goes in (service.go:118-125 and 160-167).
THEOREM ProviderOutputsFit == ASSUME OneSurface PROVE SafeSpec => []ProviderOutputFits
<1>1. OneInv => ProviderOutputFits
  <2> SUFFICES ASSUME OneInv, NEW r \in Requests,
                      pc[r] = "provider", call[r].op # "generate"
               PROVE  wbs.approved
    BY DEF ProviderOutputFits
  <2>1. call[r].op \in {"flagRisks", "generateEstimates"}
    BY DEF OneInv, SInv, Handler, Local, ProviderOps
  <2>2. CallError(wbs, call[r], at[r]) = OK
    BY DEF OneInv, Knowledge, Knows
  <2>3. CASE call[r].op = "flagRisks"
    BY <2>2, <2>3 DEF CallError, OK
  <2>4. CASE call[r].op = "generateEstimates"
    BY <2>2, <2>4 DEF CallError, OK
  <2> QED
    BY <2>1, <2>3, <2>4
<1> QED
  BY <1>1, OneInvHolds, PTL

\* With one surface, no generation stores its WBS under an id that is taken
\* (service.go:69-71).
THEOREM GeneratedIDsStayFresh == ASSUME OneSurface PROVE SafeSpec => []GeneratedIDsFresh
<1>1. OneInv => GeneratedIDsFresh
  <2> SUFFICES ASSUME OneInv, NEW r \in Requests, pc[r] = "store"
               PROVE  at[r].n \notin made
    BY DEF GeneratedIDsFresh
  <2>1. at[r].n = nextID
    BY DEF OneInv, Knowledge, Knows
  <2> QED
    BY <2>1 DEF OneInv, IDsBelow
<1> QED
  BY <1>1, OneInvHolds, PTL

-----------------------------------------------------------------------------
(* One surface: each handler is one atomic call.                                     *)

\* The object, and the row of r, that clients see.
ObjectMap == [wbs |-> wbs, made |-> made]

PhaseOf(r) == IF pc[r] = "idle" THEN "idle"
              ELSE IF pc[r] \in {"respond", "done"} THEN "done" ELSE "pending"
PhaseMap   == [r \in Requests |-> PhaseOf(r)]

AnswerOf(r) == IF pc[r] = "respond" THEN Response(r, OK) ELSE answer[r]
AnswerMap   == [r \in Requests |-> AnswerOf(r)]

\* The outcomes of a call by their kind: it fails, it leaves a WBS, it makes one.
Failed(o, c, e)   == [object |-> o, answer |-> AnswerTo(c, e, o.wbs, 1)]
Leaving(o, c, w)  == [object |-> [o EXCEPT !.wbs = w], answer |-> AnswerTo(c, OK, w, 1)]
Making(o, c, id)  == [object |-> [o EXCEPT !.made = o.made \cup {id}],
                      answer |-> AnswerTo(c, OK, o.wbs, id)]

\* Only a generation answers with an id, and only success shows the WBS.
LEMMA AnswerShows ==
  ASSUME NEW c, NEW e, NEW w, NEW v, NEW i, NEW j,
         e # OK \/ (c.op # "generate" /\ w = v)
  PROVE  AnswerTo(c, e, w, i) = AnswerTo(c, e, v, j)
BY DEF AnswerTo

LEMMA ResolveOutcome ==
  ASSUME NEW ids, NEW o, NEW c, Resolves(c), ResolveError(o.wbs, c) # OK
  PROVE  Failed(o, c, ResolveError(o.wbs, c)) \in CallOutcomes(ids, o, c)
BY DEF CallOutcomes, Failed

LEMMA BodyOutcome ==
  ASSUME NEW ids, NEW o, NEW c, Resolves(c) => ResolveError(o.wbs, c) = OK, ~c.wellFormed
  PROVE  Failed(o, c, BodyError(c)) \in CallOutcomes(ids, o, c)
BY DEF CallOutcomes, Failed

LEMMA CheckOutcome ==
  ASSUME NEW ids, NEW o, NEW c, Resolves(c) => ResolveError(o.wbs, c) = OK, c.wellFormed,
         CallError(o.wbs, c, Place(o.wbs, c)) # OK
  PROVE  Failed(o, c, CallError(o.wbs, c, Place(o.wbs, c))) \in CallOutcomes(ids, o, c)
BY DEF CallOutcomes, Failed, Place

LEMMA ProvidedOutcomes ==
  ASSUME NEW ids, NEW o, NEW c, NEW p \in PortOutcomes(c),
         Resolves(c) => ResolveError(o.wbs, c) = OK, c.wellFormed,
         CallError(o.wbs, c, Place(o.wbs, c)) = OK
  PROVE  /\ p.err # OK => Failed(o, c, p.err) \in CallOutcomes(ids, o, c)
         /\ p.err = OK /\ c.op # "generate"
              => Leaving(o, c, CallResult(o.wbs, c, Place(o.wbs, c), p.out))
                   \in CallOutcomes(ids, o, c)
         /\ p.err = OK /\ c.op = "generate"
              => \A id \in ids \ o.made : Making(o, c, id) \in CallOutcomes(ids, o, c)
<1> DEFINE Provided(q) ==
             IF q.err # OK THEN {Failed(o, c, q.err)}
             ELSE IF c.op = "generate" THEN {Making(o, c, id) : id \in ids \ o.made}
             ELSE {Leaving(o, c, CallResult(o.wbs, c, Place(o.wbs, c), q.out))}
<1>1. CallOutcomes(ids, o, c) = UNION {Provided(q) : q \in PortOutcomes(c)}
  BY DEF CallOutcomes, Place, Failed, Leaving, Making
<1>2. Provided(p) \subseteq CallOutcomes(ids, o, c)
  BY <1>1
<1>3. CASE p.err # OK
  BY <1>2, <1>3
<1>4. CASE p.err = OK /\ c.op # "generate"
  BY <1>2, <1>4
<1>5. CASE p.err = OK /\ c.op = "generate"
  BY <1>2, <1>5
<1> QED
  BY <1>3, <1>4, <1>5

\* What clients see of the other requests does not change.
LEMMA OthersUnseen ==
  ASSUME OneSurface, OneInv, NEW r \in Requests, StepOf(r), NEW q \in Requests, q # r
  PROVE  PhaseOf(q)' = PhaseOf(q) /\ AnswerOf(q)' = AnswerOf(q)
<1>1. pc'[q] = pc[q] /\ call'[q] = call[q] /\ at'[q] = at[q] /\ answer'[q] = answer[q]
  BY RowsKept DEF OneInv, SInv
<1>2. CASE pc[q] # "respond"
  BY <1>1, <1>2 DEF PhaseOf, AnswerOf
<1>3. CASE pc[q] = "respond"
  <2>1. pc[q] \in Holding
    BY <1>3 DEF Holding
  <2>2. wbs' = wbs
    BY <2>1, OneHolds, OutsideKeeps DEF OneInv
  <2> QED
    BY <1>1, <1>3, <2>2 DEF PhaseOf, AnswerOf, Response
<1> QED
  BY <1>2, <1>3

LEMMA MapsStep ==
  ASSUME OneSurface, OneInv, NEW r \in Requests, StepOf(r)
  PROVE  /\ PhaseMap' = [PhaseMap EXCEPT ![r] = PhaseOf(r)']
         /\ AnswerMap' = [AnswerMap EXCEPT ![r] = AnswerOf(r)']
BY OthersUnseen DEF PhaseMap, AnswerMap

LEMMA StutterStep ==
  ASSUME OneSurface, OneInv, NEW r \in Requests, StepOf(r),
         ObjectMap' = ObjectMap, call' = call,
         PhaseOf(r)' = PhaseOf(r), AnswerOf(r)' = AnswerOf(r)
  PROVE  UNCHANGED <<ObjectMap, PhaseMap, call, AnswerMap>>
BY OthersUnseen DEF PhaseMap, AnswerMap

LEMMA DoStep ==
  ASSUME OneSurface, OneInv, NEW r \in Requests, StepOf(r),
         PhaseOf(r) = "pending", PhaseOf(r)' = "done", call' = call,
         NEW o \in CallOutcomes(1..MaxWBS, ObjectMap, call[r]),
         ObjectMap' = o.object, AnswerOf(r)' = o.answer
  PROVE  Atomic!Do(r)
<1>1. /\ PhaseMap' = [PhaseMap EXCEPT ![r] = "done"]
      /\ AnswerMap' = [AnswerMap EXCEPT ![r] = o.answer]
      /\ PhaseMap[r] = "pending"
  BY MapsStep DEF PhaseMap
<1> QED
  BY <1>1 DEF Atomic!Do, ObjectOutcomes, ObjectMap, PhaseMap, PhaseOf, AnswerMap, AnswerOf

\* What clients see of r when its handler ends.
LEMMA FinishSeen ==
  ASSUME OneInv, NEW r \in Requests, NEW e, Finish(r, e)
  PROVE  /\ PhaseOf(r)' = "done" /\ AnswerOf(r)' = Response(r, e)
         /\ ObjectMap' = ObjectMap /\ call' = call
<1>1. pc'[r] = "done" /\ answer'[r] = Response(r, e)
  BY DEF OneInv, SInv, TypeOK, Finish, Goto
<1>2. ObjectMap' = ObjectMap /\ call' = call
  BY DEF Finish, stored, ObjectMap
<1> QED
  BY <1>1, <1>2 DEF PhaseOf, AnswerOf

LEMMA FailDo ==
  ASSUME OneSurface, OneInv, NEW r \in Requests, StepOf(r), PhaseOf(r) = "pending",
         NEW e, Finish(r, e), e # OK,
         Failed(ObjectMap, call[r], e) \in CallOutcomes(1..MaxWBS, ObjectMap, call[r])
  PROVE  Atomic!Do(r)
<1> DEFINE o == Failed(ObjectMap, call[r], e)
<1>1. o.object = ObjectMap /\ o.answer = AnswerTo(call[r], e, wbs, 1)
  BY DEF Failed, ObjectMap
<1>2. Response(r, e) = AnswerTo(call[r], e, wbs, 1)
  BY AnswerShows DEF Response
<1>3. o \in CallOutcomes(1..MaxWBS, ObjectMap, call[r])
  OBVIOUS
<1> HIDE DEF o
<1> QED
  BY <1>1, <1>2, <1>3, FinishSeen, DoStep

\* A step that leaves a WBS and shows it.
LEMMA LeaveDo ==
  ASSUME OneSurface, OneInv, NEW r \in Requests, StepOf(r), PhaseOf(r) = "pending",
         PhaseOf(r)' = "done", call' = call, call[r].op # "generate",
         NEW v, Leaving(ObjectMap, call[r], v) \in CallOutcomes(1..MaxWBS, ObjectMap, call[r]),
         wbs' = v, made' = made,
         NEW id, AnswerOf(r)' = AnswerTo(call[r], OK, v, id)
  PROVE  Atomic!Do(r)
<1> DEFINE o == Leaving(ObjectMap, call[r], v)
<1>1. o.object = ObjectMap' /\ o.answer = AnswerTo(call[r], OK, v, 1)
  BY DEF Leaving, ObjectMap
<1>2. AnswerTo(call[r], OK, v, id) = AnswerTo(call[r], OK, v, 1)
  BY AnswerShows
<1>3. o \in CallOutcomes(1..MaxWBS, ObjectMap, call[r])
  OBVIOUS
<1> HIDE DEF o
<1> QED
  BY <1>1, <1>2, <1>3, DoStep

LEMMA ArriveSeen ==
  ASSUME OneSurface, OneInv, NEW r \in Requests, Arrive(r)
  PROVE  Atomic!Arrive(r)
<1>1. StepOf(r)
  BY DEF StepOf
<1>2. /\ pc'[r] = "lock" /\ pc[r] = "idle" /\ answer' = answer
      /\ ObjectMap' = ObjectMap
      /\ \E c \in CallSet : call' = [call EXCEPT ![r] = c]
  BY DEF OneInv, SInv, TypeOK, Arrive, Goto, stored, ObjectMap
<1>3. /\ PhaseOf(r) = "idle" /\ PhaseOf(r)' = "pending" /\ AnswerOf(r)' = AnswerOf(r)
  BY <1>2 DEF PhaseOf, AnswerOf
<1>4. /\ PhaseMap[r] = "idle" /\ PhaseMap' = [PhaseMap EXCEPT ![r] = "pending"]
      /\ AnswerMap' = AnswerMap
  <2>1. AnswerMap' = [AnswerMap EXCEPT ![r] = AnswerOf(r)]
    BY <1>1, <1>3, MapsStep
  <2> QED
    BY <1>1, <1>3, <2>1, MapsStep DEF PhaseMap, AnswerMap
<1> QED
  BY <1>2, <1>4
     DEF Atomic!Arrive, ObjectMap, PhaseMap, PhaseOf, AnswerMap, AnswerOf

LEMMA ReturnSeen ==
  ASSUME OneSurface, OneInv, NEW r \in Requests, Return(r)
  PROVE  Atomic!Return(r)
<1>1. StepOf(r)
  BY DEF StepOf
<1>2. /\ pc'[r] = "idle" /\ pc[r] = "done" /\ answer'[r] = NoAnswer
      /\ ObjectMap' = ObjectMap
      /\ call' = [call EXCEPT ![r] = NoCall]
  BY DEF OneInv, SInv, TypeOK, Return, Goto, stored, ObjectMap
<1>3. /\ PhaseOf(r) = "done" /\ PhaseOf(r)' = "idle" /\ AnswerOf(r)' = NoAnswer
  BY <1>2 DEF PhaseOf, AnswerOf
<1>4. /\ PhaseMap[r] = "done" /\ PhaseMap' = [PhaseMap EXCEPT ![r] = "idle"]
      /\ AnswerMap' = [AnswerMap EXCEPT ![r] = NoAnswer]
  BY <1>1, <1>3, MapsStep DEF PhaseMap
<1> QED
  BY <1>2, <1>4
     DEF Atomic!Return, Atomic!NoCall, NoCall, ObjectMap, PhaseMap, PhaseOf, AnswerMap, AnswerOf

LEMMA LockSeen ==
  ASSUME OneSurface, OneInv, NEW r \in Requests, Lock(r)
  PROVE  UNCHANGED <<ObjectMap, PhaseMap, call, AnswerMap>>
<1>1. StepOf(r)
  BY DEF StepOf
<1>2. /\ pc'[r] \in {"resolve", "body", "act"} /\ pc[r] = "lock" /\ answer' = answer
      /\ ObjectMap' = ObjectMap /\ call' = call
  BY DEF OneInv, SInv, TypeOK, Lock, Goto, stored, ObjectMap, AfterResolve
<1>3. PhaseOf(r)' = PhaseOf(r) /\ AnswerOf(r)' = AnswerOf(r)
  BY <1>2 DEF PhaseOf, AnswerOf
<1> QED
  BY <1>1, <1>2, <1>3, StutterStep

LEMMA ResolveSeen ==
  ASSUME OneSurface, OneInv, NEW r \in Requests, ResolveIDs(r)
  PROVE  Atomic!Do(r) \/ UNCHANGED <<ObjectMap, PhaseMap, call, AnswerMap>>
<1>1. StepOf(r) /\ pc[r] = "resolve" /\ Resolves(call[r]) /\ PhaseOf(r) = "pending"
  BY DEF StepOf, Handle, ResolveIDs, OneInv, SInv, Handler, Local, PhaseOf
<1>2. CASE /\ ResolveError(wbs, call[r]) # OK
           /\ Finish(r, ResolveError(wbs, call[r]))
  <2>1. ObjectMap.wbs = wbs
    BY DEF ObjectMap
  <2>2. Failed(ObjectMap, call[r], ResolveError(wbs, call[r]))
          \in CallOutcomes(1..MaxWBS, ObjectMap, call[r])
    BY <1>1, <1>2, <2>1, ResolveOutcome
  <2> QED
    BY <1>1, <1>2, <2>2, FailDo
<1>3. CASE /\ Goto(r, AfterResolve(call[r]))
           /\ UNCHANGED <<wbs, stored, mu, call, answer>>
  <2>1. /\ pc'[r] \in {"body", "act"} /\ answer' = answer
        /\ ObjectMap' = ObjectMap /\ call' = call
    BY <1>3 DEF OneInv, SInv, TypeOK, Goto, stored, ObjectMap, AfterResolve
  <2>2. PhaseOf(r)' = PhaseOf(r) /\ AnswerOf(r)' = AnswerOf(r)
    BY <1>1, <2>1 DEF PhaseOf, AnswerOf
  <2> QED
    BY <1>1, <2>1, <2>2, StutterStep
<1> QED
  BY <1>2, <1>3 DEF ResolveIDs

LEMMA ReadBodySeen ==
  ASSUME OneSurface, OneInv, NEW r \in Requests, ReadBody(r)
  PROVE  Atomic!Do(r) \/ UNCHANGED <<ObjectMap, PhaseMap, call, AnswerMap>>
<1>1. /\ StepOf(r) /\ pc[r] = "body" /\ PhaseOf(r) = "pending"
      /\ Knows(pc[r], call[r], at[r], wbs, nextID)
  BY DEF StepOf, Handle, ReadBody, OneInv, Knowledge, PhaseOf
<1>2. CASE ~call[r].wellFormed /\ Finish(r, BodyError(call[r]))
  <2>1. Resolves(call[r]) => ResolveError(ObjectMap.wbs, call[r]) = OK
    BY <1>1 DEF ObjectMap, Knows
  <2>2. Failed(ObjectMap, call[r], BodyError(call[r]))
          \in CallOutcomes(1..MaxWBS, ObjectMap, call[r])
    BY <1>2, <2>1, BodyOutcome
  <2>3. BodyError(call[r]) # OK
    BY DEF BodyError, OK
  <2> QED
    BY <1>1, <1>2, <2>2, <2>3, FailDo
<1>3. CASE /\ Goto(r, "act")
           /\ UNCHANGED <<wbs, stored, mu, call, at, answer>>
  <2>1. /\ pc'[r] = "act" /\ answer' = answer
        /\ ObjectMap' = ObjectMap /\ call' = call
    BY <1>3 DEF OneInv, SInv, TypeOK, Goto, stored, ObjectMap
  <2>2. PhaseOf(r)' = PhaseOf(r) /\ AnswerOf(r)' = AnswerOf(r)
    BY <1>1, <2>1 DEF PhaseOf, AnswerOf
  <2> QED
    BY <1>1, <2>1, <2>2, StutterStep
<1> QED
  BY <1>2, <1>3 DEF ReadBody

LEMMA ActSeen ==
  ASSUME OneSurface, OneInv, NEW r \in Requests, Act(r)
  PROVE  Atomic!Do(r) \/ UNCHANGED <<ObjectMap, PhaseMap, call, AnswerMap>>
<1> DEFINE c == call[r]
           e == CallError(wbs, c, at[r])
<1>1. /\ StepOf(r) /\ pc[r] = "act" /\ PhaseOf(r) = "pending"
      /\ Knows(pc[r], c, at[r], wbs, nextID) /\ Local(pc[r], c, at[r])
  BY DEF StepOf, Handle, Act, OneInv, SInv, Handler, Knowledge, PhaseOf
<1>2. /\ at[r] = Place(wbs, c) /\ ObjectMap.wbs = wbs /\ c.wellFormed
      /\ Resolves(c) => ResolveError(ObjectMap.wbs, c) = OK
  BY <1>1 DEF ObjectMap, Knows, Local
<1>3. CASE e # OK /\ Finish(r, e)
  <2>1. Failed(ObjectMap, call[r], e) \in CallOutcomes(1..MaxWBS, ObjectMap, call[r])
    <3> HIDE DEF c
    <3> QED
      BY <1>2, <1>3, CheckOutcome DEF c
  <2> HIDE DEF e
  <2> QED
    BY <1>1, <1>3, <2>1, FailDo
<1>4. ASSUME e = OK, c.op \notin ProviderOps
      PROVE  Leaving(ObjectMap, call[r], CallResult(wbs, c, at[r], << >>))
               \in CallOutcomes(1..MaxWBS, ObjectMap, call[r])
  <2>1. Outcome(OK, << >>) \in PortOutcomes(c) /\ c.op # "generate"
    BY <1>4 DEF PortOutcomes, ProviderOps
  <2>2. Outcome(OK, << >>).err = OK /\ Outcome(OK, << >>).out = << >>
    BY DEF Outcome
  <2>3. CallError(ObjectMap.wbs, c, Place(ObjectMap.wbs, c)) = OK
    BY <1>2, <1>4
  <2> HIDE DEF c
  <2>4. Leaving(ObjectMap, c, CallResult(ObjectMap.wbs, c, Place(ObjectMap.wbs, c), Outcome(OK, << >>).out))
          \in CallOutcomes(1..MaxWBS, ObjectMap, c)
    BY <1>2, <2>1, <2>2, <2>3, ProvidedOutcomes
  <2> QED
    BY <1>2, <2>2, <2>4 DEF c
<1>5. CASE e = OK /\ c.op \in ReadOps /\ Finish(r, e)
  <2>1. /\ c.op \notin ProviderOps /\ c.op # "generate"
        /\ CallResult(wbs, c, at[r], << >>) = wbs
    BY <1>5 DEF ReadOps, ProviderOps, CallResult
  <2>2. Leaving(ObjectMap, call[r], wbs) \in CallOutcomes(1..MaxWBS, ObjectMap, call[r])
    BY <1>4, <1>5, <2>1
  <2>3. /\ PhaseOf(r)' = "done" /\ AnswerOf(r)' = AnswerTo(call[r], OK, wbs, at[r].n)
        /\ ObjectMap' = ObjectMap /\ call' = call
    BY <1>5, FinishSeen DEF Response
  <2>4. wbs' = wbs /\ made' = made
    BY <1>5 DEF Finish, stored
  <2> QED
    BY <1>1, <2>1, <2>2, <2>3, <2>4, LeaveDo
<1>6. CASE Goto(r, "provider") /\ UNCHANGED <<wbs, stored, mu, call, at, answer>>
  <2>1. /\ pc'[r] = "provider" /\ answer' = answer
        /\ ObjectMap' = ObjectMap /\ call' = call
    BY <1>6 DEF OneInv, SInv, TypeOK, Goto, stored, ObjectMap
  <2>2. PhaseOf(r)' = PhaseOf(r) /\ AnswerOf(r)' = AnswerOf(r)
    BY <1>1, <2>1 DEF PhaseOf, AnswerOf
  <2> QED
    BY <1>1, <2>1, <2>2, StutterStep
<1>7. CASE /\ e = OK /\ c.op \notin ReadOps \cup ProviderOps
           /\ wbs' = CallResult(wbs, c, at[r], << >>)
           /\ Goto(r, "respond")
           /\ UNCHANGED <<stored, mu, call, at, answer>>
  <2>1. /\ pc'[r] = "respond" /\ made' = made /\ call' = call /\ at' = at
        /\ c.op # "generate"
    BY <1>7 DEF OneInv, SInv, TypeOK, Goto, stored, ProviderOps
  <2>2. /\ PhaseOf(r)' = "done"
        /\ AnswerOf(r)' = AnswerTo(call[r], OK, wbs', at[r].n)
    BY <2>1 DEF PhaseOf, AnswerOf, Response
  <2>3. Leaving(ObjectMap, call[r], wbs') \in CallOutcomes(1..MaxWBS, ObjectMap, call[r])
    BY <1>4, <1>7
  <2> QED
    BY <1>1, <2>1, <2>2, <2>3, LeaveDo
<1> QED
  BY <1>3, <1>5, <1>6, <1>7 DEF Act

LEMMA ProvideSeen ==
  ASSUME OneSurface, OneInv, NEW r \in Requests, Provide(r)
  PROVE  Atomic!Do(r) \/ UNCHANGED <<ObjectMap, PhaseMap, call, AnswerMap>>
<1> DEFINE c == call[r]
<1>1. /\ StepOf(r) /\ pc[r] = "provider" /\ PhaseOf(r) = "pending"
      /\ Knows(pc[r], c, at[r], wbs, nextID) /\ Local(pc[r], c, at[r])
  BY DEF StepOf, Handle, Provide, OneInv, SInv, Handler, Knowledge, PhaseOf
<1>2. /\ at[r] = Place(wbs, c) /\ ObjectMap.wbs = wbs /\ c.wellFormed
      /\ Resolves(c) => ResolveError(ObjectMap.wbs, c) = OK
      /\ CallError(ObjectMap.wbs, c, Place(ObjectMap.wbs, c)) = OK
  BY <1>1 DEF ObjectMap, Knows, Local
<1>3. PICK p \in PortOutcomes(c) :
        \/ p.err # OK /\ Finish(r, p.err)
        \/ /\ p.err = OK /\ c.op = "generate"
           /\ at' = [at EXCEPT ![r].n = nextID]
           /\ Goto(r, "store")
           /\ UNCHANGED <<wbs, stored, mu, call, answer>>
        \/ /\ p.err = OK /\ c.op # "generate"
           /\ wbs' = CallResult(wbs, c, at[r], p.out)
           /\ Goto(r, "respond")
           /\ UNCHANGED <<stored, mu, call, at, answer>>
  BY DEF Provide
<1>4. CASE p.err # OK /\ Finish(r, p.err)
  <2>1. Failed(ObjectMap, call[r], p.err) \in CallOutcomes(1..MaxWBS, ObjectMap, call[r])
    <3> HIDE DEF c
    <3> QED
      BY <1>2, <1>4, ProvidedOutcomes DEF c
  <2> QED
    BY <1>1, <1>4, <2>1, FailDo
<1>5. CASE Goto(r, "store") /\ UNCHANGED <<wbs, stored, mu, call, answer>>
  <2>1. /\ pc'[r] = "store" /\ answer' = answer
        /\ ObjectMap' = ObjectMap /\ call' = call
    BY <1>5 DEF OneInv, SInv, TypeOK, Goto, stored, ObjectMap
  <2>2. PhaseOf(r)' = PhaseOf(r) /\ AnswerOf(r)' = AnswerOf(r)
    BY <1>1, <2>1 DEF PhaseOf, AnswerOf
  <2> QED
    BY <1>1, <2>1, <2>2, StutterStep
<1>6. CASE /\ p.err = OK /\ c.op # "generate"
           /\ wbs' = CallResult(wbs, c, at[r], p.out)
           /\ Goto(r, "respond")
           /\ UNCHANGED <<stored, mu, call, at, answer>>
  <2>1. pc'[r] = "respond" /\ made' = made /\ call' = call /\ at' = at
    BY <1>6 DEF OneInv, SInv, TypeOK, Goto, stored
  <2>2. /\ PhaseOf(r)' = "done"
        /\ AnswerOf(r)' = AnswerTo(call[r], OK, wbs', at[r].n)
    BY <2>1 DEF PhaseOf, AnswerOf, Response
  <2>3. Leaving(ObjectMap, call[r], wbs') \in CallOutcomes(1..MaxWBS, ObjectMap, call[r])
    <3> HIDE DEF c
    <3>1. Leaving(ObjectMap, c, CallResult(ObjectMap.wbs, c, Place(ObjectMap.wbs, c), p.out))
            \in CallOutcomes(1..MaxWBS, ObjectMap, c)
      BY <1>2, <1>6, ProvidedOutcomes
    <3> QED
      BY <1>2, <1>6, <3>1 DEF c
  <2> QED
    BY <1>1, <1>6, <2>1, <2>2, <2>3, LeaveDo
<1> QED
  BY <1>3, <1>4, <1>5, <1>6

LEMMA StoreSeen ==
  ASSUME OneSurface, OneInv, NEW r \in Requests, StoreWBS(r)
  PROVE  Atomic!Do(r)
<1> DEFINE c == call[r]
           id == at[r].n
           o == Making(ObjectMap, c, id)
<1>1. /\ StepOf(r) /\ pc[r] = "store" /\ PhaseOf(r) = "pending"
      /\ Knows(pc[r], c, at[r], wbs, nextID) /\ Local(pc[r], c, at[r])
  BY DEF StepOf, Handle, StoreWBS, OneInv, SInv, Handler, Knowledge, PhaseOf
<1>2. /\ c.wellFormed /\ c.op = "generate" /\ Trim[c.text] # Blank
      /\ \E p \in PortOutcomes(c) : p.err = OK
  BY <1>1 DEF Local
<1>3. ~Resolves(c) /\ CallError(ObjectMap.wbs, c, Place(ObjectMap.wbs, c)) = OK
  BY <1>2 DEF Resolves, TaskOps, CallError
<1>4. id \in (1..MaxWBS) \ ObjectMap.made
  <2>1. id = nextID /\ nextID \in Nat \ {0, 1} /\ made \subseteq 1..(nextID - 1)
    BY <1>1 DEF Knows, OneInv, IDsBelow
  <2>2. r \in Generating /\ IsFiniteSet(Generating) /\ Cardinality(Generating) \in Nat
    BY <1>1, <1>2, FS_Subset, FS_CardinalityType, SurfacesAssumption DEF Generating
  <2>3. Cardinality(Generating) # 0
    BY <2>2, FS_EmptySet
  <2>4. nextID <= MaxWBS
    BY <2>1, <2>2, <2>3, SurfacesAssumption DEF OneInv, RoomLeft
  <2> QED
    BY <2>1, <2>4, SurfacesAssumption DEF ObjectMap
<1>5. o \in CallOutcomes(1..MaxWBS, ObjectMap, call[r])
  <2>1. PICK p \in PortOutcomes(c) : p.err = OK
    BY <1>2
  <2> HIDE DEF c, id
  <2>2. Making(ObjectMap, c, id) \in CallOutcomes(1..MaxWBS, ObjectMap, c)
    BY <1>2, <1>3, <1>4, <2>1, ProvidedOutcomes
  <2> QED
    BY <2>2 DEF c
<1>6. /\ pc'[r] = "respond" /\ made' = made \cup {id} /\ call' = call /\ at' = at /\ wbs' = wbs
  BY DEF OneInv, SInv, TypeOK, Goto, StoreWBS
<1>7. o.object = ObjectMap' /\ o.answer = AnswerTo(c, OK, wbs, id)
  BY <1>6 DEF Making, ObjectMap
<1>8. /\ PhaseOf(r)' = "done" /\ AnswerOf(r)' = AnswerTo(c, OK, wbs, id)
  BY <1>6 DEF PhaseOf, AnswerOf, Response
<1> HIDE DEF o, c, id
<1> QED
  BY <1>1, <1>5, <1>6, <1>7, <1>8, DoStep

LEMMA RespondSeen ==
  ASSUME OneSurface, OneInv, NEW r \in Requests, Respond(r)
  PROVE  UNCHANGED <<ObjectMap, PhaseMap, call, AnswerMap>>
<1>1. StepOf(r) /\ pc[r] = "respond" /\ Finish(r, OK)
  BY DEF StepOf, Handle, Respond
<1>2. PhaseOf(r) = "done" /\ AnswerOf(r) = Response(r, OK)
  BY <1>1 DEF PhaseOf, AnswerOf
<1> QED
  BY <1>1, <1>2, FinishSeen, StutterStep

LEMMA NextSeen ==
  ASSUME OneSurface, OneInv, [Next]_vars
  PROVE  Atomic!Next \/ UNCHANGED <<ObjectMap, PhaseMap, call, AnswerMap>>
<1>1. CASE UNCHANGED vars
  BY <1>1 DEF vars, ObjectMap, PhaseMap, PhaseOf, AnswerMap, AnswerOf, Response
<1>2. CASE Next
  <2>1. PICK r \in Requests : StepOf(r)
    BY <1>2 DEF Next, StepOf
  <2> QED
    BY <2>1, ArriveSeen, LockSeen, ResolveSeen, ReadBodySeen, ActSeen, ProvideSeen,
       StoreSeen, RespondSeen, ReturnSeen
       DEF StepOf, Handle, Atomic!Next
<1> QED
  BY <1>1, <1>2

LEMMA InitSeen == Init => Atomic!Init
BY DEF Init, Atomic!Init, Atomic!NoCall, NoCall

\* With one surface each handler looks to the clients like one indivisible call, which
\* takes effect in its act or provider step, or where a new WBS is stored, and answers
\* what that step came to, with the WBS as it left it (server.go:1-4 and 652-658).
THEOREM HandlersAreAtomic == ASSUME OneSurface PROVE SafeSpec => CallsAreAtomic
<1>1. Init => OneInv /\ Atomic!Init
  BY InitOneInv, InitSeen
<1>2. OneInv /\ [Next]_vars => OneInv'
  BY NextOneInv
<1>3. OneInv /\ [Next]_vars => [Atomic!Next]_(Atomic!vars)
  BY NextSeen DEF Atomic!vars, ObjectMap, PhaseMap, PhaseOf, AnswerMap, AnswerOf
<1> QED
  BY <1>1, <1>2, <1>3, PTL DEF SafeSpec, CallsAreAtomic, Atomic!Spec

=============================================================================
