-------------------------------- MODULE Pert --------------------------------
(***************************************************************************)
(* The PERT values of src/internal/wbs/metrics.go in exact arithmetic: the *)
(* expected value in sixths of a point and the variance in thirty-sixths.  *)
(***************************************************************************)
EXTENDS WBS

\* (O + 4M + P)/6, and ((P - O)/6)^2.
EstimatePert(e) ==
  [sixths |-> e.o + 4 * e.m + e.p, variance |-> (e.p - e.o) * (e.p - e.o)]

Estimated(w) == {i \in DOMAIN w.tasks : w.tasks[i].estimate # NoEstimate}

\* Expected values sum and variances add over the tasks that have an estimate;
\* with no such task both are zero, and the code's ok is false.
ProjectPert(w) ==
  LET pert(i) == EstimatePert(w.tasks[i].estimate)
  IN [sixths   |-> SumFunction([i \in Estimated(w) |-> pert(i).sixths]),
      variance |-> SumFunction([i \in Estimated(w) |-> pert(i).variance])]

=============================================================================
