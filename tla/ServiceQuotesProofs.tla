------------------------ MODULE ServiceQuotesProofs ------------------------
(***************************************************************************)
(* Theorems about what the service quotes, for every value of its          *)
(* constants: any number of WBSs, tasks, estimates and teams.              *)
(*                                                                         *)
(* That the quote follows the pricing panel, and that the bands are cut at *)
(* halves, holds of whatever estimates a WBS has.  That the ranges are in  *)
(* order needs some spread in the project, so some in each estimate: the   *)
(* domain sees to that for a Tech Lead's, and nothing does for a model's   *)
(* (EstimatesValid does not hold), so it is a hypothesis there.            *)
(***************************************************************************)
EXTENDS ServiceQuotes, EstimationServiceProofs, QuoteProofs

-----------------------------------------------------------------------------
(* What a quotable WBS and a team that passes the checks are like. *)

LEMMA QuotableParts ==
  ASSUME TypeOK, NEW id \in DOMAIN store, NEW inputs \in TeamInputSet, Quotable(id, inputs)
  PROVE  /\ ProjectPert(store[id]).sixths \in Nat \ {0}
         /\ ProjectPert(store[id]).variance \in Nat
         /\ store[id] \in WBSType
         /\ Positive(inputs)
<1>1. store[id] \in WBSType
  BY DEF TypeOK
<1>2. ProjectPert(store[id]).sixths \in Int /\ ProjectPert(store[id]).variance \in Nat
  BY <1>1, ProjectPertValues
<1>3. ProjectPert(store[id]).sixths > 0 /\ ProposalError(store[id], inputs) = OK
  BY DEF Quotable
<1>4. inputs \in TeamInputs
  BY ServiceAssumption
<1>5. Positive(inputs)
  BY <1>3, <1>4 DEF ProposalError, OK, Positive, TeamInputs
<1> QED
  BY <1>1, <1>2, <1>3, <1>5

\* The band a proposal was computed from.
LEMMA ProposalBand ==
  ASSUME NEW w, NEW inputs, NEW p \in Proposals(w, inputs)
  PROVE  \E b \in Bands(w) : /\ p.contract = b.contract
                             /\ p.cost.low \in Cost(LowPoints(w, b), inputs)
BY DEF Proposals

-----------------------------------------------------------------------------
(* The bands. *)

\* A price is fixed without a buffer exactly below 9.5 percent of deviation and
\* refused exactly above 20.5, for any estimates: rounding the percentage first
\* opens no gap between the bands (pricing.go:30-42).
THEOREM BandsAreCutAtHalves == Spec => []BandsCutAtHalves
<1>1. ASSUME TypeOK  PROVE BandsCutAtHalves
  <2> SUFFICES ASSUME NEW id \in DOMAIN store, NEW inputs \in TeamInputSet,
                      Quotable(id, inputs), NEW p \in Proposals(store[id], inputs)
               PROVE  LET v == ProjectPert(store[id])
                          deviation  == 40000 * v.variance
                          percent(h) == h * h * v.sixths * v.sixths
                      IN /\ deviation < percent(19) => p.contract = "fixed-price"
                         /\ percent(19) < deviation /\ deviation < percent(41)
                              => p.contract = "fixed-price-with-buffer"
                         /\ percent(41) < deviation => p.contract = "time-and-materials"
    BY DEF BandsCutAtHalves, EveryQuote
  <2> DEFINE e == ProjectPert(store[id]).sixths
             d == 40000 * ProjectPert(store[id]).variance
  <2>1. /\ e \in Nat \ {0} /\ ProjectPert(store[id]).variance \in Nat
    BY <1>1, QuotableParts
  <2>2. PICK b \in Bands(store[id]) : p.contract = b.contract
    BY ProposalBand
  <2>3. /\ d < (19 * e) * (19 * e) => b = Green
        /\ (19 * e) * (19 * e) < d /\ d < (41 * e) * (41 * e) => b = Yellow
        /\ (41 * e) * (41 * e) < d => b = Red
    BY <2>1, BandCut
  <2>4. (19 * e) * (19 * e) = 19 * 19 * e * e /\ (41 * e) * (41 * e) = 41 * 41 * e * e
    BY <2>1, SMT
  <2>5. /\ Green.contract = "fixed-price" /\ Yellow.contract = "fixed-price-with-buffer"
        /\ Red.contract = "time-and-materials"
    BY DEF Green, Yellow, Red
  <2> QED
    BY <2>2, <2>3, <2>4, <2>5
<1> QED
  BY <1>1, TypeCorrect, PTL

-----------------------------------------------------------------------------
(* The quote and the pricing panel. *)

LEMMA BasisExists ==
  ASSUME NEW w, ProjectPert(w).sixths \in Nat, ProjectPert(w).variance \in Nat,
         NEW b \in {Green, Yellow, Red}
  PROVE  /\ b = Red => Basis(w, b) = {NoBasis}
         /\ b # Red => /\ Basis(w, b) = Rounded(LowPoints(w, b))
                       /\ \E k \in Nat : k \in Basis(w, b)
<1>1. b = Red => Basis(w, b) = {NoBasis}
  BY DEF Basis, Red
<1>2. ASSUME b # Red
      PROVE  Basis(w, b) = Rounded(LowPoints(w, b))
  BY <1>2 DEF Basis, Green, Yellow
<1>3. b.lowSDMultiplier \in Nat
  BY DEF Green, Yellow, Red
<1>4. LowPoints(w, b)
        = Surd(ProjectPert(w).sixths, b.lowSDMultiplier, ProjectPert(w).variance, 6)
  BY DEF LowPoints, Points
<1>5. \E k \in Nat : k \in Rounded(LowPoints(w, b))
  <2> DEFINE a == ProjectPert(w).sixths
             d == ProjectPert(w).variance
             m == b.lowSDMultiplier
             c == 6
  <2>1. a \in Nat /\ d \in Nat /\ m \in Nat /\ c \in Nat \ {0}
    BY <1>3
  <2>2. LowPoints(w, b) = Surd(a, m, d, c)
    BY <1>4
  <2> HIDE DEF a, d, m, c
  <2> QED
    BY <2>1, <2>2, RoundedExists
<1> QED
  BY <1>1, <1>2, <1>5

\* The client is offered what the Tech Lead was advised, wherever each rounding
\* falls: the same contract, at the lower end the price of the recommended basis but
\* for half a point and half a dollar, and no basis for a contract that fixes no
\* price (pricing.go:14-16, proposal.go:67-77).
THEOREM QuotesFollowPricing == Spec => []QuoteFollowsPricing
<1>1. ASSUME TypeOK  PROVE QuoteFollowsPricing
  <2> SUFFICES ASSUME NEW id \in DOMAIN store, NEW inputs \in TeamInputSet,
                      Quotable(id, inputs), NEW p \in Proposals(store[id], inputs)
               PROVE  \E s \in PricingStrategies(store[id]) :
                        LET f == inputs.capacity * inputs.rate
                            v == inputs.velocity
                        IN /\ s.contract = p.contract
                           /\ s.basis = NoBasis <=> p.contract = "time-and-materials"
                           /\ s.basis # NoBasis
                                => 2 * Distance(v * p.cost.low, f * s.basis) <= f + v
    BY DEF QuoteFollowsPricing, EveryQuote
  <2> DEFINE w == store[id]
             f == inputs.capacity * inputs.rate
             v == inputs.velocity
  <2>1. /\ ProjectPert(w).sixths \in Nat \ {0} /\ ProjectPert(w).variance \in Nat
        /\ Positive(inputs)
    BY <1>1, QuotableParts
  <2>2. f \in Nat \ {0} /\ v \in Nat \ {0}
    BY <2>1, SMT DEF Positive, TeamInputs
  <2>3. PICK b \in Bands(w) : /\ p.contract = b.contract
                              /\ p.cost.low \in Cost(LowPoints(w, b), inputs)
    BY ProposalBand
  <2>4. b \in {Green, Yellow, Red}
    BY BandKinds
  <2>5. b = Red <=> b.contract = "time-and-materials"
    BY <2>4 DEF Green, Yellow, Red
  <2>6. ASSUME NEW k \in Basis(w, b)
        PROVE  \E s \in PricingStrategies(w) : s.contract = b.contract /\ s.basis = k
    <3> DEFINE s == [contract |-> b.contract, riskLevel |-> b.riskLevel, basis |-> k]
    <3>1. s \in PricingStrategies(w)
      BY <2>6 DEF PricingStrategies
    <3> QED
      BY <3>1
  <2>7. CASE b = Red
    <3>1. NoBasis \in Basis(w, b)
      BY <2>1, <2>4, <2>7, BasisExists
    <3>2. PICK s \in PricingStrategies(w) : s.contract = b.contract /\ s.basis = NoBasis
      BY <2>6, <3>1
    <3> QED
      BY <2>3, <2>5, <2>7, <3>2
  <2>8. CASE b # Red
    <3>1. PICK k \in Nat : k \in Basis(w, b)
      BY <2>1, <2>4, <2>8, BasisExists
    <3>2. k \in Rounded(LowPoints(w, b))
      BY <2>1, <2>4, <2>8, <3>1, BasisExists
    <3>3. PICK s \in PricingStrategies(w) : s.contract = b.contract /\ s.basis = k
      BY <2>6, <3>1
    <3> DEFINE a == ProjectPert(w).sixths
               m == b.lowSDMultiplier
               d == ProjectPert(w).variance
               c == p.cost.low
    <3>4. m \in Nat
      BY <2>4 DEF Green, Yellow, Red
    <3>5. k \in Rounded(Surd(a, m, d, 6))
      BY <3>2 DEF LowPoints, Points
    <3>6. c \in Rounded(Surd(a * f, m * f, d, 6 * v))
      BY <2>3 DEF Cost, LowPoints, Points, Surd
    <3>7. c \in Int
      BY <3>6 DEF Rounded, Around
    <3>8. 2 * (v * c - f * k) <= f + v /\ 2 * (f * k - v * c) <= f + v
      <4>1. a \in Nat /\ d \in Nat
        BY <2>1
      <4> HIDE DEF a, m, d, c, f, v
      <4> QED
        BY <2>2, <3>4, <3>5, <3>6, <4>1, CostFollowsBasis
    <3>9. 2 * Distance(v * c, f * k) <= f + v
      BY <3>8 DEF Distance
    <3>10. k # NoBasis
      BY DEF NoBasis
    <3> QED
      BY <2>3, <2>5, <2>8, <3>3, <3>9, <3>10
  <2> QED
    BY <2>7, <2>8
<1> QED
  BY <1>1, TypeCorrect, PTL

-----------------------------------------------------------------------------
(* The ranges. *)

\* An estimate, if it is one, has a least and a most that differ.
SpreadEstimate(e) == e # NoEstimate => e.o # e.p

SpreadTasks(w) == \A i \in 1..Len(w.tasks) : SpreadEstimate(w.tasks[i].estimate)

AllSpread == \A id \in DOMAIN store : SpreadTasks(store[id])

LEMMA OneReplacedSpread ==
  ASSUME NEW w, NEW v, NEW n \in 1..Len(w.tasks), NEW t, SpreadTasks(w),
         OneReplaced(w, v, n, t), t.estimate = w.tasks[n].estimate \/ SpreadEstimate(t.estimate)
  PROVE  SpreadTasks(v)
BY DEF SpreadTasks, OneReplaced

\* A generation leaves a task without an estimate, or with one of the list.
LEMMA GivenEstimates ==
  ASSUME NEW w \in WBSType, NEW list \in Seq(EstimateAssignment), NEW v,
         v = SetEstimates(w, list), NEW i \in 1..Len(w.tasks)
  PROVE  \/ v.tasks[i].estimate = NoEstimate
         \/ \E k \in 1..Len(list) : v.tasks[i].estimate = list[k].estimate
<1> DEFINE For    == {k \in DOMAIN list : list[k].task = i}
           Latest == CHOOSE k \in For : \A j \in For : j <= k
<1>1. DOMAIN list = 1..Len(list) /\ Len(list) \in Nat
  BY LenProperties
<1>2. w.tasks[i] \in Task /\ DOMAIN w.tasks = 1..Len(w.tasks)
  BY ElementOfSeq, LenProperties DEF WBSType
<1>3. v.tasks[i] = [w.tasks[i] EXCEPT !.estimate =
                      IF For = {} THEN NoEstimate ELSE list[Latest].estimate]
  BY <1>2 DEF SetEstimates, WBSType
<1>4. ASSUME For # {}
      PROVE  Latest \in 1..Len(list)
  <2>1. For \in SUBSET (0..Len(list)) /\ For \in SUBSET (1..Len(list))
    BY <1>1
  <2> HIDE DEF For
  <2>2. \E k \in For : \A j \in For : j <= k
    BY <1>1, <1>4, <2>1, GreatestNatural
  <2> QED
    BY <2>1, <2>2
<1> HIDE DEF For, Latest
<1>5. v.tasks[i].estimate = IF For = {} THEN NoEstimate ELSE list[Latest].estimate
  BY <1>2, <1>3 DEF Task
<1> QED
  BY <1>4, <1>5

LEMMA MethodKeepsSpread ==
  ASSUME ListsSpread, NEW w \in WBSType, SpreadTasks(w), NEW v, Method(w, v)
  PROVE  SpreadTasks(v)
<1>1. \A i \in 1..Len(w.tasks) : w.tasks[i] \in Task
  BY ElementOfSeq DEF WBSType
<1>2. Len(w.tasks) \in Nat
  BY LenProperties DEF WBSType
<1>3. ASSUME NEW d \in Text, v = AddTask(w, d)
      PROVE  SpreadTasks(v)
  <2>1. /\ Len(v.tasks) = Len(w.tasks) + 1
        /\ \A i \in 1..Len(w.tasks) : v.tasks[i] = w.tasks[i]
        /\ v.tasks[Len(w.tasks) + 1] = NewTask(w.nextSeq, Trim[d])
    BY <1>3, AddTaskEffect
  <2>2. NewTask(w.nextSeq, Trim[d]).estimate = NoEstimate
    BY DEF NewTask
  <2> QED
    BY <1>2, <2>1, <2>2 DEF SpreadTasks, SpreadEstimate
<1>4. ASSUME NEW n \in 1..Len(w.tasks), NEW d \in Text, v = EditTask(w, n, d)
      PROVE  SpreadTasks(v)
  <2>1. OneReplaced(w, v, n, WithDescription(w.tasks[n], Trim[d]))
    BY <1>4, EditTaskEffect
  <2>2. WithDescription(w.tasks[n], Trim[d]).estimate = w.tasks[n].estimate
    BY <1>1, WithFields
  <2> QED
    BY <2>1, <2>2, OneReplacedSpread
<1>5. ASSUME NEW n \in 1..Len(w.tasks), v = DeleteTask(w, n)
      PROVE  SpreadTasks(v)
  <2>1. /\ Len(v.tasks) = Len(w.tasks) - 1
        /\ \A j \in 1..(Len(w.tasks) - 1) :
             v.tasks[j] = IF j < n THEN w.tasks[j] ELSE w.tasks[j + 1]
    BY <1>5, DeleteTaskEffect
  <2> QED
    BY <1>2, <2>1 DEF SpreadTasks
<1>6. ASSUME v = Approve(w) \/ v = ApproveEstimates(w)
      PROVE  SpreadTasks(v)
  BY <1>6, ApproveEffect, ApproveEstimatesEffect DEF SpreadTasks
<1>7. ASSUME NEW list \in RiskOutputs, v = ReplaceRiskNotes(w, list)
      PROVE  SpreadTasks(v)
  <2>1. list \in Seq(RiskAssignment)
    BY DEF RiskOutputs
  <2>2. Len(v.tasks) = Len(w.tasks)
    BY <1>7, <2>1, ReplaceRiskNotesEffect
  <2>3. ASSUME NEW i \in 1..Len(w.tasks)
        PROVE  v.tasks[i].estimate = w.tasks[i].estimate
    <3>1. PICK notes : v.tasks[i] = WithNotes(w.tasks[i], notes)
      BY <1>7, <2>1, ReplaceRiskNotesEffect
    <3> QED
      BY <1>1, <3>1, WithFields
  <2> QED
    BY <2>2, <2>3 DEF SpreadTasks
<1>8. ASSUME NEW n \in 1..Len(w.tasks), NEW notes,
             OneReplaced(w, v, n, WithNotes(w.tasks[n], notes))
      PROVE  SpreadTasks(v)
  <2>1. WithNotes(w.tasks[n], notes).estimate = w.tasks[n].estimate
    BY <1>1, WithFields
  <2> QED
    BY <1>8, <2>1, OneReplacedSpread
<1>9. ASSUME NEW n \in 1..Len(w.tasks), NEW d \in Text, v = AddRiskNote(w, n, d)
      PROVE  SpreadTasks(v)
  BY <1>8, <1>9, AddRiskNoteEffect
<1>10. ASSUME NEW n \in 1..Len(w.tasks), NEW k, NEW d \in Text, v = EditRiskNote(w, n, k, d)
      PROVE  SpreadTasks(v)
  BY <1>8, <1>10, EditRiskNoteEffect
<1>11. ASSUME NEW n \in 1..Len(w.tasks), NEW k, v = DeleteRiskNote(w, n, k)
       PROVE  SpreadTasks(v)
  BY <1>8, <1>11, DeleteRiskNoteEffect
<1>12. ASSUME NEW list \in EstimateOutputs, v = SetEstimates(w, list)
       PROVE  SpreadTasks(v)
  <2>1. list \in Seq(EstimateAssignment) /\ SpreadList(list)
    BY DEF EstimateOutputs
  <2>2. Len(v.tasks) = Len(w.tasks)
    BY <1>12, <2>1, SetEstimatesEffect
  <2>3. \A i \in 1..Len(w.tasks) : SpreadEstimate(v.tasks[i].estimate)
    BY <1>12, <2>1, GivenEstimates DEF SpreadList, SpreadEstimate
  <2> QED
    BY <2>2, <2>3 DEF SpreadTasks
<1>13. ASSUME NEW n \in 1..Len(w.tasks), NEW e \in Estimate, e.o < e.p,
              v = OverrideEstimate(w, n, e)
       PROVE  SpreadTasks(v)
  <2> DEFINE trimmed == [e EXCEPT !.reasoning = Trim[e.reasoning]]
  <2>1. trimmed.o = e.o /\ trimmed.p = e.p
    BY DEF Estimate
  <2>2. e.o \in Int /\ e.p \in Int /\ e.o # e.p
    BY <1>13 DEF Estimate
  <2>3. SpreadEstimate(trimmed)
    BY <2>1, <2>2 DEF SpreadEstimate
  <2>4. OneReplaced(w, v, n, WithEstimate(w.tasks[n], trimmed))
    BY <1>13, OverrideEstimateEffect
  <2> HIDE DEF trimmed
  <2>5. WithEstimate(w.tasks[n], trimmed).estimate = trimmed
    BY <1>1, WithFields
  <2> QED
    BY <2>3, <2>4, <2>5, OneReplacedSpread
<1> QED
  BY <1>3, <1>4, <1>5, <1>6, <1>7, <1>9, <1>10, <1>11, <1>12, <1>13 DEF Method

LEMMA StepKeepsSpread == ListsSpread /\ TypeOK /\ AllSpread /\ [Next]_vars => AllSpread'
<1> SUFFICES ASSUME ListsSpread, TypeOK, AllSpread, [Next]_vars
             PROVE  AllSpread'
  OBVIOUS
<1>1. CASE store' = store
  BY <1>1 DEF AllSpread
<1>2. ASSUME NEW ds \in TaskOutputs,
             store' = [id \in DOMAIN store \cup {nextID} |->
                         IF id = nextID THEN NewWBS(ds) ELSE store[id]]
      PROVE  AllSpread'
  <2>1. SpreadTasks(NewWBS(ds))
    <3>1. ds \in Seq(Text) /\ DOMAIN ds = 1..Len(ds)
      BY LenProperties DEF TaskOutputs
    <3>2. NewWBS(ds).tasks \in Seq(Task)
      BY <3>1, NewWBSType DEF WBSType
    <3>3. DOMAIN NewWBS(ds).tasks = 1..Len(NewWBS(ds).tasks)
      BY <3>2, LenProperties
    <3>4. \A i \in DOMAIN NewWBS(ds).tasks : NewWBS(ds).tasks[i].estimate = NoEstimate
      BY DEF NewWBS, NewTask
    <3> QED
      BY <3>3, <3>4 DEF SpreadTasks, SpreadEstimate
  <2>2. \A id \in DOMAIN store' :
          store'[id] = NewWBS(ds) \/ (id \in DOMAIN store /\ store'[id] = store[id])
    BY <1>2
  <2> QED
    BY <2>1, <2>2 DEF AllSpread
<1>3. ASSUME NEW id \in DOMAIN store, NEW v \in WBSType,
             Method(store[id], v), store' = [store EXCEPT ![id] = v]
      PROVE  AllSpread'
  <2>1. store[id] \in WBSType
    BY DEF TypeOK
  <2>2. SpreadTasks(v)
    BY <1>3, <2>1, MethodKeepsSpread DEF AllSpread
  <2>3. \A i \in DOMAIN store' : i \in DOMAIN store /\ store'[i] = IF i = id THEN v ELSE store[i]
    BY <1>3
  <2> QED
    BY <2>2, <2>3 DEF AllSpread
<1>4. store' = store \/ StoreStep
  BY NextStep DEF vars
<1> QED
  BY <1>1, <1>2, <1>3, <1>4 DEF StoreStep

\* Whatever the band and wherever a rounding falls, the lower end of a range is not
\* above the upper end, in dollars, weeks and percent, for any number of tasks and any
\* sequence of generations, overrides and edits, as long as no estimate the model
\* submits has its least equal to its most (proposal.go:67-85, metrics.go:98-100).
THEOREM RangesStayOrdered ==
  ASSUME ListsSpread
  PROVE  Spec => []RangesOrdered
<1>1. Init => AllSpread
  BY DEF Init, AllSpread
<1>2. ASSUME TypeOK, AllSpread  PROVE RangesOrdered
  <2> SUFFICES ASSUME NEW id \in DOMAIN store, NEW inputs \in TeamInputSet,
                      Quotable(id, inputs), NEW p \in Proposals(store[id], inputs)
               PROVE  Ordered(p)
    BY DEF RangesOrdered, EveryQuote
  <2> DEFINE w == store[id]
  <2>1. /\ ProjectPert(w).sixths \in Nat \ {0} /\ w \in WBSType /\ Positive(inputs)
    BY <1>2, QuotableParts
  <2>2. \A i \in Estimated(w) : w.tasks[i].estimate.o # w.tasks[i].estimate.p
    <3>1. DOMAIN w.tasks = 1..Len(w.tasks)
      BY <2>1, LenProperties DEF WBSType
    <3> QED
      BY <1>2, <3>1 DEF AllSpread, SpreadTasks, SpreadEstimate, Estimated
  <2>3. ProjectPert(w).variance \in Nat \ {0}
    BY <2>1, <2>2, ProjectPertValues
  <2> QED
    BY <2>1, <2>3, ProposalsOrdered
<1> QED
  BY <1>1, <1>2, StepKeepsSpread, TypeCorrect, PTL DEF Spec

=============================================================================
