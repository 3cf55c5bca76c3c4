------------------------------ MODULE MCQuotes ------------------------------
(***************************************************************************)
(* Instances of ServiceQuotes for TLC: three tasks whose estimates vary,   *)
(* and a task whose estimate is a tie.                                     *)
(***************************************************************************)
EXTENDS ServiceQuotes

MCText == {"", "a"}
MCTrim == [s \in MCText |-> s]
MCDocuments == {[kind |-> "text", wellFormed |-> TRUE, body |-> "a"]}

Triple(o, m, p) == [o |-> o, m |-> m, p |-> p, reasoning |-> "a"]
Est(n, o, m, p) == [task |-> n, estimate |-> Triple(o, m, p)]
All(n, o, m, p) == [i \in 1..n |-> Est(i, o, m, p)]

\* Estimates of little, some and much spread: three of a kind are green, yellow
\* at its lower edge, and red.
MCOverrides == {Triple(8, 13, 20), Triple(1, 2, 3), Triple(2, 5, 13), Triple(0, 1, 8)}
MCTaskLists == {<<"a", "a", "a">>}
MCEstimateLists == {All(3, 2, 3, 5), All(2, 1, 2, 3)}
MCTeamInputs ==
  {[velocity |-> 3, capacity |-> 3, rate |-> 4],
   [velocity |-> 5, capacity |-> 1, rate |-> 1],
   [velocity |-> 3, capacity |-> 1, rate |-> 0]}

\* One estimate with a relative deviation of exactly 57.5 percent.
TieTaskLists == {<<"a">>}
TieEstimateLists == {<<Est(1, 8, 13, 100)>>}

View == <<store, nextID, primed>>

=============================================================================
