------------------------------ MODULE Surfaces ------------------------------
(***************************************************************************)
(* The process of src/cmd/estimationd: the JSON API (internal/httpapi) and *)
(* the UI (internal/webui) handling concurrent requests, each under a      *)
(* mutex of its own, on one shared service without locks.  The requests    *)
(* are about one WBS, which is there from the start, of id 1, or generate  *)
(* another, which only has an id here.                                     *)
(*                                                                         *)
(* A handler is a sequence of steps; between two of them any handler the   *)
(* mutexes let run may take its own:                                       *)
(*                                                                         *)
(*   idle -Arrive-> lock -Lock-> resolve -> body -> act -> provider        *)
(*        -> store -> respond -> done -Return-> idle                       *)
(*                                                                         *)
(* where a handler leaves out what its call does not need, and an error    *)
(* leads from any step to done.  The deferred unlock comes with the step   *)
(* into done.  A call of a service method is one step, except where it     *)
(* waits for a provider in the middle.                                     *)
(***************************************************************************)
EXTENDS Calls

CONSTANTS
  Requests,      \* the requests that can be in flight at the same time
  CallSet,       \* the calls clients make
  Tasks0,        \* the descriptions the WBS was generated with
  MaxWBS,        \* bound: the largest WBS id
  MaxTaskID,     \* bound: the largest task id handed out
  MaxNoteID,     \* bound: the largest note id handed out
  Free           \* no request: the holder of an unlocked mutex

ASSUME SurfacesAssumption ==
  /\ CallSet \subseteq Call /\ CallSet # {}
  /\ \A c \in CallSet :     \* only a body, through the API, fails to decode, and
       /\ ~c.wellFormed => c.surface = "api" /\ c.op \in BodyOps
       /\ c.op = "overrideEstimate" => c.estimate \in Estimate   \* decodes to numbers
  /\ Tasks0 \in Seq(Text)
  /\ IsFiniteSet(Requests)
  /\ MaxWBS \in Nat \ {0} /\ MaxTaskID \in Nat /\ MaxNoteID \in Nat
  /\ Free \notin Requests
  /\ \A list \in RiskLists : Len(list) <= 1    \* bound, see Room

VARIABLES
  wbs,           \* the WBS of id 1
  nextID,        \* the next WBS id
  made,          \* the ids of the WBSs in the store
  mu,            \* per surface: the request that holds its mutex
  pc,            \* per request: the step it takes next
  call,          \* per request: its call
  at,            \* per request: the task number and note position it acts on,
                 \* or the id of the WBS it is about to store
  answer         \* per request: its response, once done

vars == <<wbs, nextID, made, mu, pc, call, at, answer>>

NoCall  == CHOOSE c \in CallSet : TRUE
Nowhere == [n |-> 0, k |-> 0]

stored == <<nextID, made>>

Init ==
  /\ wbs = NewWBS(Tasks0)
  /\ nextID = 2
  /\ made = {1}
  /\ mu = [s \in {"api", "ui"} |-> Free]
  /\ pc = [r \in Requests |-> "idle"]
  /\ call = [r \in Requests |-> NoCall]
  /\ at = [r \in Requests |-> Nowhere]
  /\ answer = [r \in Requests |-> NoAnswer]

-----------------------------------------------------------------------------
(* Building blocks. *)

\* Requests in flight whose operation is one of ops.
InFlight(ops) == {r \in Requests : pc[r] # "idle" /\ call[r].op \in ops}

\* The bounds leave room for what the requests in flight, and c, may add.
Room(c) ==
  LET Fits(next, ops, max) ==
        c.op \in ops => next + Cardinality(InFlight(ops)) <= max
  IN /\ Fits(nextID, {"generate"}, MaxWBS)
     /\ Fits(wbs.nextSeq, {"addTask"}, MaxTaskID)
     /\ Fits(wbs.nextNote, {"addRiskNote", "flagRisks"}, MaxNoteID)

Response(r, e) == AnswerTo(call[r], e, wbs, at[r].n)

Goto(r, step) == pc' = [pc EXCEPT ![r] = step]

\* Mutant of Finish: an early return without the deferred unlock.
FinishLocked(r, e) ==
  /\ answer' = [answer EXCEPT ![r] = Response(r, e)]
  /\ Goto(r, "done")
  /\ UNCHANGED <<wbs, stored, mu, call, at>>

\* Write the response and return: the deferred unlock runs.
Finish(r, e) ==
  /\ answer' = [answer EXCEPT ![r] = Response(r, e)]
  /\ mu' = [mu EXCEPT ![call[r].surface] = Free]
  /\ Goto(r, "done")
  /\ UNCHANGED <<wbs, stored, call, at>>

\* The UI's task numbers come in the form.
HasBody(c) == c.op \in BodyOps \/ (c.surface = "ui" /\ c.op \in TaskOps)

AfterResolve(c) == IF HasBody(c) THEN "body" ELSE "act"

-----------------------------------------------------------------------------
(* The steps. *)

Arrive(r) ==
  /\ pc[r] = "idle"
  /\ \E c \in CallSet : Room(c) /\ call' = [call EXCEPT ![r] = c]
  /\ Goto(r, "lock")
  /\ UNCHANGED <<wbs, stored, mu, at, answer>>

\* Mutant of Lock: a mutex several requests may hold, as with RLock.
LockShared(r) ==
  /\ pc[r] = "lock"
  /\ mu' = [mu EXCEPT ![call[r].surface] = r]
  /\ IF Resolves(call[r])
     THEN Goto(r, "resolve") /\ UNCHANGED at
     ELSE Goto(r, AfterResolve(call[r])) /\ at' = [at EXCEPT ![r] = AsGiven(call[r])]
  /\ UNCHANGED <<wbs, stored, call, answer>>

Lock(r) ==
  /\ pc[r] = "lock"
  /\ mu[call[r].surface] = Free
  /\ mu' = [mu EXCEPT ![call[r].surface] = r]
  /\ IF Resolves(call[r])
     THEN Goto(r, "resolve") /\ UNCHANGED at
     ELSE Goto(r, AfterResolve(call[r])) /\ at' = [at EXCEPT ![r] = AsGiven(call[r])]
  /\ UNCHANGED <<wbs, stored, call, answer>>

ResolveIDs(r) ==
  /\ pc[r] = "resolve"
  /\ \/ ResolveError(wbs, call[r]) # OK /\ Finish(r, ResolveError(wbs, call[r]))
     \/ /\ ResolveError(wbs, call[r]) = OK
        /\ at' = [at EXCEPT ![r] = Resolve(wbs, call[r])]
        /\ Goto(r, AfterResolve(call[r]))
        /\ UNCHANGED <<wbs, stored, mu, call, answer>>

\* Reading the body waits for the client to send it.
ReadBody(r) ==
  /\ pc[r] = "body"
  /\ \/ ~call[r].wellFormed /\ Finish(r, BodyError(call[r]))
     \/ /\ call[r].wellFormed
        /\ Goto(r, "act")
        /\ UNCHANGED <<wbs, stored, mu, call, at, answer>>

\* Mutant of Act: the mutex is released before the WBS is read for the response.
ActUnlocking(r) ==
  LET c == call[r]
      e == CallError(wbs, c, at[r])
  IN /\ pc[r] = "act"
     /\ \/ (e # OK \/ c.op \in ReadOps) /\ Finish(r, e)
        \/ /\ e = OK /\ c.op \in ProviderOps
           /\ Goto(r, "provider")
           /\ UNCHANGED <<wbs, stored, mu, call, at, answer>>
        \/ /\ e = OK /\ c.op \notin ReadOps \cup ProviderOps
           /\ wbs' = CallResult(wbs, c, at[r], << >>)
           /\ mu' = [mu EXCEPT ![c.surface] = Free]
           /\ Goto(r, "respond")
           /\ UNCHANGED <<stored, call, at, answer>>

\* The service call; a read is answered from what it returns, a change by
\* reading the WBS again, and one that needs a provider asks it first.
Act(r) ==
  LET c == call[r]
      e == CallError(wbs, c, at[r])
  IN /\ pc[r] = "act"
     /\ \/ (e # OK \/ c.op \in ReadOps) /\ Finish(r, e)
        \/ /\ e = OK /\ c.op \in ProviderOps
           /\ Goto(r, "provider")
           /\ UNCHANGED <<wbs, stored, mu, call, at, answer>>
        \/ /\ e = OK /\ c.op \notin ReadOps \cup ProviderOps
           /\ wbs' = CallResult(wbs, c, at[r], << >>)
           /\ Goto(r, "respond")
           /\ UNCHANGED <<stored, mu, call, at, answer>>

\* The provider answers and its output goes in, at once where the WBS is there.
\* Where it is to come, the id is read off the counter.
Provide(r) ==
  /\ pc[r] = "provider"
  /\ \E o \in PortOutcomes(call[r]) :
       \/ o.err # OK /\ Finish(r, o.err)
       \/ /\ o.err = OK /\ call[r].op = "generate"
          /\ at' = [at EXCEPT ![r].n = nextID]
          /\ Goto(r, "store")
          /\ UNCHANGED <<wbs, stored, mu, call, answer>>
       \/ /\ o.err = OK /\ call[r].op # "generate"
          /\ wbs' = CallResult(wbs, call[r], at[r], o.out)
          /\ Goto(r, "respond")
          /\ UNCHANGED <<stored, mu, call, at, answer>>

\* The counter moves on and the WBS is stored under the id that was read.
StoreWBS(r) ==
  /\ pc[r] = "store"
  /\ nextID' = nextID + 1
  /\ made' = made \cup {at[r].n}
  /\ Goto(r, "respond")
  /\ UNCHANGED <<wbs, mu, call, at, answer>>

\* writeCurrentWBS: the WBS is read again.
Respond(r) == pc[r] = "respond" /\ Finish(r, OK)

\* The response is out; the request is forgotten.
Return(r) ==
  /\ pc[r] = "done"
  /\ Goto(r, "idle")
  /\ call' = [call EXCEPT ![r] = NoCall]
  /\ at' = [at EXCEPT ![r] = Nowhere]
  /\ answer' = [answer EXCEPT ![r] = NoAnswer]
  /\ UNCHANGED <<wbs, stored, mu>>

\* What a handler does once it holds the mutex.
Handle(r) ==
  ResolveIDs(r) \/ ReadBody(r) \/ Act(r) \/ Provide(r) \/ StoreWBS(r) \/ Respond(r)

Next == \E r \in Requests : Arrive(r) \/ Lock(r) \/ Handle(r) \/ Return(r)

\* A goroutine runs on; a client sends the body it announced; a provider answers
\* or fails; sync.Mutex hands itself to a waiter that starves.
Fairness == \A r \in Requests :
  /\ WF_vars(Handle(r)) /\ WF_vars(Return(r))
  /\ SF_vars(Lock(r))

SafeSpec == Init /\ [][Next]_vars

Spec == SafeSpec /\ Fairness

-----------------------------------------------------------------------------
(* Properties. *)

TypeOK ==
  /\ wbs \in WBSType
  /\ mu \in [{"api", "ui"} -> Requests \cup {Free}]
  /\ pc \in [Requests -> {"idle", "lock", "resolve", "body", "act", "provider",
                          "store", "respond", "done"}]
  /\ call \in [Requests -> CallSet]
  /\ at \in [Requests -> [n : Int, k : Int]]
  /\ answer \in [Requests -> [err : Results \cup {"none", "invalid request body"},
                            wbs : WBSView, id : Nat]]
  /\ nextID \in Nat /\ made \subseteq Nat

\* The number an API handler resolved still is that of the task its request
\* names when the handler acts on it, however long reading the body takes, and
\* the position that of the note it names (server.go:300-305, 329-339, 351-356,
\* 421-431, 635-645: resolve, then act by number).
ResolutionHolds ==
  \A r \in Requests :
    (pc[r] \in {"body", "act"} /\ Resolves(call[r]))
      => /\ at[r].n \in At(wbs.tasks, call[r].task)
         /\ call[r].op \in NoteOps
              => at[r].k \in At(wbs.tasks[at[r].n].riskNotes, call[r].note)

\* The provider is asked about an approved breakdown, and its output goes into
\* that same approved breakdown: no edit comes in between the check and the
\* change (service.go:118-125 and 160-167).
ProviderOutputFits ==
  \A r \in Requests :
    pc[r] = "provider" /\ call[r].op # "generate" => wbs.approved

\* No two WBSs get one id: the id a generation has read is not in the store when
\* it stores its WBS under it, so that none is overwritten (service.go:69-71).
GeneratedIDsFresh ==
  \A r \in Requests : pc[r] = "store" => at[r].n \notin made

\* The API blames itself for a provider's failure only: every error a call can
\* meet, in any state and order, has a line in the table of statuses, and no
\* provider's error hits one (server.go:672-705).
InternalErrorsAreProviders ==
  \A r \in Requests : pc[r] = "done" =>
    (Status(call[r], answer[r].err) = 500 <=> answer[r].err \in ProviderErrors)

\* Every request is answered in the end, whatever the others do, unless a client
\* or a provider never answers: no handler keeps a mutex it no longer needs, and
\* no waiting request is passed over for ever.
EveryRequestAnswered ==
  \A r \in Requests : pc[r] = "lock" ~> pc[r] = "done"

\* The calls on the WBS and the ids as one object.
ObjectOutcomes(o, c) == CallOutcomes(1..MaxWBS, o, c)

Atomic == INSTANCE AtomicCalls WITH
  Object0  <- [wbs |-> NewWBS(Tasks0), made |-> {1}],
  Outcomes <- ObjectOutcomes,
  object <- [wbs |-> wbs, made |-> made],
  phase  <- [r \in Requests |->
               IF pc[r] = "idle" THEN "idle"
               ELSE IF pc[r] \in {"respond", "done"} THEN "done" ELSE "pending"],
  answer <- [r \in Requests |->
               IF pc[r] = "respond" THEN Response(r, OK) ELSE answer[r]]

\* Each handler looks to the clients like one indivisible call: it takes effect
\* in its act or provider step, and what it answers is that step's outcome, with
\* the WBS as that very step left it (server.go:1-4 and 652-658).
CallsAreAtomic == Atomic!Spec

=============================================================================
