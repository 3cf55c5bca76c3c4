----------------------------- MODULE MCSession -----------------------------
(***************************************************************************)
(* An instance of Session and Pages for TLC: two WBSs of a task or two,    *)
(* which the UI and another client work on.                                *)
(***************************************************************************)
EXTENDS Pages

MCText == {"", "a"}
MCTrim == [s \in MCText |-> s]
MCDocuments ==
  {[kind |-> "text", wellFormed |-> TRUE, body |-> "a"],
   [kind |-> "text", wellFormed |-> TRUE, body |-> ""]}

Triple(o, m, p) == [o |-> o, m |-> m, p |-> p, reasoning |-> "a"]
Est(n, o, m, p) == [task |-> n, estimate |-> Triple(o, m, p)]

MCTaskLists == {<<"a">>}
MCRiskLists == {<< >>, <<[task |-> 1, description |-> "a"]>>}
MCEstimateLists == {<<Est(1, 2, 3, 5)>>}
MCOverrides == {Triple(2, 3, 5)}
MCTeamInputs ==
  {[velocity |-> 3, capacity |-> 2, rate |-> 1],
   [velocity |-> 0, capacity |-> 1, rate |-> 1]}

\* What the last call returned bears on no later step, nor do the queues, which the
\* live providers do not have.  A WBS that is not the active one never becomes it
\* again, so that nothing the browser gets to see ever depends on it: states that
\* differ in nothing else are one state too.
PagesView ==
  <<{store[id] : id \in {active} \cap DOMAIN store}, nextID, session, browser>>

=============================================================================
