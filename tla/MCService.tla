----------------------------- MODULE MCService -----------------------------
(***************************************************************************)
(* Instances of EstimationService for TLC: one WBS in depth with the live  *)
(* providers, two small ones with the primed providers.                    *)
(***************************************************************************)
EXTENDS EstimationService

\* Two descriptions, one of them also untrimmed, and nothing.
MCText == {"", "a", " a ", "b"}
MCTrim == [s \in MCText |-> IF s = " a " THEN "a" ELSE s]

MCDocuments ==
  {[kind |-> "text", wellFormed |-> TRUE,  body |-> "a"],
   [kind |-> "text", wellFormed |-> TRUE,  body |-> ""],
   [kind |-> "pdf",  wellFormed |-> TRUE,  body |-> "a"],
   [kind |-> "pdf",  wellFormed |-> TRUE,  body |-> ""],
   [kind |-> "pdf",  wellFormed |-> FALSE, body |-> "a"]}

Triple(o, m, p, why) == [o |-> o, m |-> m, p |-> p, reasoning |-> why]
Risk(n, d) == [task |-> n, description |-> d]
Est(n, e)  == [task |-> n, estimate |-> e]

Small  == Triple(1, 2, 3, "a")
Large  == Triple(5, 8, 13, "a")

\* One that is fine, and one that breaks each rule of an estimate.
MCOverrides ==
  {Large, Triple(1, 2, 4, "a"), Triple(3, 2, 5, "a"), Triple(1, 2, 3, "")}

MCTeamInputs ==
  {[velocity |-> 10, capacity |-> 1, rate |-> 100],
   [velocity |-> 0,  capacity |-> 1, rate |-> 100]}

\* Live: what the model may submit.  A list of one task and of two, one of
\* blanks only; risks and estimates for the first task, the second, one that
\* is not there, and one the adapter drops.
LiveTaskLists == {<<"a", "", " a ">>, <<"b">>, <<"">>}
LiveRiskLists == {<< >>, <<Risk(0, "b"), Risk(1, "")>>,
                  <<Risk(2, " a "), Risk(1, "")>>, <<Risk(4, "a"), Risk(1, "b")>>}
LiveEstimateLists == {<<Est(1, Small), Est(0, Small)>>,
                      <<Est(2, Small), Est(1, Large), Est(1, Small), Est(4, Small)>>}

\* What the model may also submit: values off the scale and out of order.
UncheckedEstimateLists == {<<Est(1, Triple(3, 4, 2, ""))>>}

\* Primings of two WBSs, told apart by what they put where; stored as they come.
FewText      == {"", "a"}
FewTrim      == [s \in FewText |-> s]
FewDocuments == {d \in MCDocuments : d.kind = "text"}
PrimedTaskLists     == {<<"a">>, <<"">>}
PrimedRiskLists     == {<<Risk(1, "a")>>}
PrimedEstimateLists == {<<Est(1, Large), Est(1, Small)>>}

\* What the last call returned bears on no later step: states that differ in
\* nothing else are one state.
View == <<store, nextID, primed>>

=============================================================================
