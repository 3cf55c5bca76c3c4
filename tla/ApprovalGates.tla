--------------------------- MODULE ApprovalGates ---------------------------
(***************************************************************************)
(* What the estimation service promises about its approvals, whatever the  *)
(* descriptions, notes and values are: per WBS, the number of tasks, the   *)
(* gate of the breakdown and the gate of the estimate set.                 *)
(*                                                                         *)
(*   breakdown  draft -Approve-> approved -EditBreakdown-> draft           *)
(*   estimates  none -Estimate-> generated -ApproveEstimates-> approved    *)
(*              approved -Override or Estimate-> generated                 *)
(*                                                                         *)
(* A breakdown is only approved with tasks in it; estimates only come in,  *)
(* or are replaced as a set, while the breakdown is approved; whatever     *)
(* changes an estimate takes the set back to generated; an edit of the     *)
(* breakdown leaves the gate of the estimates where it is.                 *)
(***************************************************************************)
EXTENDS Integers

CONSTANTS
  IDs,      \* the ids WBSs get
  Sizes     \* how many tasks a WBS can have

VARIABLE gates    \* a function from the ids of the WBSs to their gates

Init == gates = << >>

Create(id, size) ==
  /\ id \notin DOMAIN gates
  /\ gates' = [i \in DOMAIN gates \cup {id} |->
                 IF i = id
                 THEN [size |-> size, breakdown |-> "draft", estimates |-> "none"]
                 ELSE gates[i]]

\* An edit adds a task, rewords one or deletes one.
EditBreakdown(id, change) ==
  /\ gates[id].size + change \in Sizes
  /\ gates' = [gates EXCEPT ![id].size = @ + change,
                            ![id].breakdown = "draft"]

Approve(id) ==
  /\ gates[id].size > 0
  /\ gates' = [gates EXCEPT ![id].breakdown = "approved"]

Estimate(id) ==
  /\ gates[id].breakdown = "approved"
  /\ gates' = [gates EXCEPT ![id].estimates = "generated"]

Override(id) ==
  /\ gates[id].estimates # "none"
  /\ gates[id].size > 0
  /\ gates' = [gates EXCEPT ![id].estimates = "generated"]

ApproveEstimates(id) ==
  /\ gates[id].estimates # "none"
  /\ gates' = [gates EXCEPT ![id].estimates = "approved"]

Next ==
  \/ \E id \in IDs, size \in Sizes : Create(id, size)
  \/ \E id \in DOMAIN gates :
       \/ \E change \in {-1, 0, 1} : EditBreakdown(id, change)
       \/ Approve(id)
       \/ Estimate(id)
       \/ Override(id)
       \/ ApproveEstimates(id)

Spec == Init /\ [][Next]_gates

=============================================================================
