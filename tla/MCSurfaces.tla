----------------------------- MODULE MCSurfaces -----------------------------
(***************************************************************************)
(* Instances of Surfaces for TLC: a few requests in flight on a WBS          *)
(* generated with one task, through the API only and through both.         *)
(***************************************************************************)
EXTENDS Surfaces, TLC

MCText == {"", "a"}
MCTrim == [s \in MCText |-> s]
MCTasks0 == <<"a">>

Estimate1 == [o |-> 1, m |-> 2, p |-> 3, reasoning |-> "a"]

MCTaskLists     == {<<"a">>}
MCRiskLists     == {<<[task |-> 2, description |-> "a"]>>}
MCEstimateLists == {<<[task |-> 2, estimate |-> Estimate1]>>}

C(surface, op, task, note) ==
  [surface |-> surface, op |-> op, task |-> task, note |-> note, text |-> "a",
   estimate |-> Estimate1, wellFormed |-> TRUE,
   inputs |-> [velocity |-> 1, capacity |-> 1, rate |-> 1]]

\* Every route of the API; the tasks that are there from the start, and in one
\* call one that may come.  One body does not decode.
APICalls ==
  {C("api", op, 0, 0) : op \in {"get", "addTask", "approve", "flagRisks",
                                "generateEstimates", "approveEstimates", "proposal"}}
    \cup {C("api", "deleteTask", t, 0) : t \in {1, 2}}
    \cup {C("api", "overrideEstimate", 2, 0), C("api", "addRiskNote", 2, 0),
          C("api", "editTask", 3, 0)}
    \cup {C("api", op, 2, 1) : op \in {"editRiskNote", "deleteRiskNote"}}
    \cup {[C("api", "editTask", 1, 0) EXCEPT !.wellFormed = FALSE],
          C("api", "generate", 0, 0), [C("api", "generate", 0, 0) EXCEPT !.wellFormed = FALSE]}

\* The UI next to it.
UICalls ==
  {C("ui", op, 0, 0) : op \in {"get", "approve", "addTask", "generateEstimates"}}
    \cup {C("ui", "deleteTask", 1, 0)}

BothCalls == {c \in APICalls : c.op \in {"deleteTask", "editTask", "addRiskNote", "generateEstimates"}}
               \cup UICalls

\* For the waiting: a body, a provider, and neither.
WaitingCalls == {c \in APICalls : c.op \in {"generateEstimates", "approve"}}
                  \cup {C("api", "editTask", 1, 0)}

RequestSymmetry == Permutations(Requests)

=============================================================================
