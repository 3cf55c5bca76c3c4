---------------------------- MODULE AtomicCalls ----------------------------
(***************************************************************************)
(* What a client of the HTTP surfaces is promised: each call takes effect  *)
(* at one instant between its arrival and its response, and the response   *)
(* is what that instant gave it.                                           *)
(*                                                                         *)
(* What a call does to the object, and what it may answer, is a parameter: *)
(* this module says only that it does so in one step.                      *)
(***************************************************************************)
CONSTANTS
  Requests,        \* the requests that can be in flight at the same time
  CallSet,         \* the calls clients make
  Object0,         \* the object they are made on, at the start
  NoAnswer,        \* the answer to no call
  Outcomes(_, _)   \* what a call may make of the object: records of the
                   \* object it leaves and the answer it gives

VARIABLES
  object,          \* the object
  phase,           \* per request: "idle", "pending" or "done"
  call,            \* per request: its call
  answer           \* per request: its response, once done

vars == <<object, phase, call, answer>>

NoCall == CHOOSE c \in CallSet : TRUE

Init ==
  /\ object = Object0
  /\ phase = [r \in Requests |-> "idle"]
  /\ call = [r \in Requests |-> NoCall]
  /\ answer = [r \in Requests |-> NoAnswer]

Arrive(r) ==
  /\ phase[r] = "idle"
  /\ phase' = [phase EXCEPT ![r] = "pending"]
  /\ \E c \in CallSet : call' = [call EXCEPT ![r] = c]
  /\ UNCHANGED <<object, answer>>

Do(r) ==
  /\ phase[r] = "pending"
  /\ phase' = [phase EXCEPT ![r] = "done"]
  /\ \E o \in Outcomes(object, call[r]) :
       /\ object' = o.object
       /\ answer' = [answer EXCEPT ![r] = o.answer]
  /\ UNCHANGED call

Return(r) ==
  /\ phase[r] = "done"
  /\ phase' = [phase EXCEPT ![r] = "idle"]
  /\ answer' = [answer EXCEPT ![r] = NoAnswer]
  /\ call' = [call EXCEPT ![r] = NoCall]
  /\ UNCHANGED object

Next == \E r \in Requests : Arrive(r) \/ Do(r) \/ Return(r)

Spec == Init /\ [][Next]_vars

=============================================================================
