------------------------------- MODULE Quote -------------------------------
(***************************************************************************)
(* What is computed from the estimates: the metrics, the pricing strategy  *)
(* and the proposal (metrics.go, pricing.go and proposal.go of             *)
(* src/internal/wbs), for estimates that keep the rules of an estimate.    *)
(*                                                                         *)
(* The code computes on float64.  Here the same values are exact, as surds *)
(* (a + b * sqrt(d)) / c with naturals b, d and c > 0, and only turning    *)
(* them into whole numbers is loose: where the exact value lies on the     *)
(* boundary between two whole numbers, the computed one may have come out  *)
(* on either side of it, so the operators that round return a set.         *)
(***************************************************************************)
EXTENDS Pert

Surd(a, b, d, c) == [a |-> a, b |-> b, d |-> d, c |-> c]

\* m / n <= x and x <= m / n, for n > 0.
FractionAtMost(m, n, x) ==
  LET y == m * x.c - n * x.a IN y <= 0 \/ y * y <= n * n * x.b * x.b * x.d

AtMostFraction(x, m, n) ==
  LET y == m * x.c - n * x.a IN y >= 0 /\ y * y >= n * n * x.b * x.b * x.d

\* The least natural not below sqrt(d).
UpperRoot(d) == CHOOSE r \in 0..d : r * r >= d /\ \A q \in 0..(r - 1) : q * q < d

\* A range that holds x, its nearest whole number and the one above.
Around(x) == (x.a \div x.c)..((x.a + x.b * UpperRoot(x.d)) \div x.c + 1)

\* roundHalfUp: the nearest whole numbers, two of them at a tie.
Rounded(x) ==
  {k \in Around(x) : FractionAtMost(2 * k - 1, 2, x) /\ AtMostFraction(x, 2 * k + 1, 2)}

\* math.Ceil: the least whole number not below x, and the next when x is whole;
\* but nothing divided is nothing.
RoundedUp(x) ==
  IF x.a = 0 /\ x.b * x.d = 0 THEN {0}
  ELSE {k \in Around(x) : FractionAtMost(k - 1, 1, x) /\ AtMostFraction(x, k, 1)}

\* The sixths are an exact int, and the code divides ints.
RoundSixthsHalfUp(n) == (2 * n + 6) \div 12

-----------------------------------------------------------------------------
(* Metrics: v is a result of EstimatePert or ProjectPert. *)

StdDev(v) == Surd(0, 1, v.variance, 6)

\* (SD / E) * 100, of a positive expected value.
RSD(v) == Surd(0, 100, v.variance, v.sixths)

Metrics(v) ==
  [expected : {RoundSixthsHalfUp(v.sixths)},
   standardDeviation : Rounded(StdDev(v)),
   relativeStandardDeviation : Rounded(RSD(v))]

-----------------------------------------------------------------------------
(* The risk band. *)

Green  == [riskLevel |-> "low", contract |-> "fixed-price",
           confidence |-> "high", invitesRenegotiation |-> FALSE,
           lowSDMultiplier |-> 0, hasFixedBasis |-> TRUE]
Yellow == [riskLevel |-> "medium", contract |-> "fixed-price-with-buffer",
           confidence |-> "medium", invitesRenegotiation |-> FALSE,
           lowSDMultiplier |-> 1, hasFixedBasis |-> TRUE]
Red    == [riskLevel |-> "high", contract |-> "time-and-materials",
           confidence |-> "lower", invitesRenegotiation |-> TRUE,
           lowSDMultiplier |-> 1, hasFixedBasis |-> FALSE]

\* Mutant of BandForRSD: the yellow band excludes its lower edge.
BandForRSDPastEdge(rsd) == IF rsd <= 10 THEN Green ELSE IF rsd <= 20 THEN Yellow ELSE Red

BandForRSD(rsd) == IF rsd < 10 THEN Green ELSE IF rsd <= 20 THEN Yellow ELSE Red

\* With no estimate at all the ratio is NaN; what Go's int conversion makes of
\* it is platform dependent, 0 or the least int, and green either way.
Bands(w) ==
  LET v == ProjectPert(w)
  IN IF v.sixths = 0 THEN {Green}
     ELSE {BandForRSD(m.relativeStandardDeviation) : m \in Metrics(v)}

\* E + k * SD, in points.
Points(w, k) == LET v == ProjectPert(w) IN Surd(v.sixths, k, v.variance, 6)

\* A red project has none: a nil *int.
NoBasis == -1

\* The points a quote is built on, at least.
LowPoints(w, b) == Points(w, b.lowSDMultiplier)

\* Mutant of Basis: the mean, without the buffer of the yellow band.
BasisUnbuffered(w, b) == IF b.hasFixedBasis THEN Rounded(Points(w, 0)) ELSE {NoBasis}

Basis(w, b) == IF b.hasFixedBasis THEN Rounded(LowPoints(w, b)) ELSE {NoBasis}

\* The pricing strategy, of a WBS with an estimate.
PricingStrategies(w) ==
  UNION {[contract : {b.contract}, riskLevel : {b.riskLevel}, basis : Basis(w, b)] :
         b \in Bands(w)}

-----------------------------------------------------------------------------
(* The proposal. *)

\* Points at capacity / velocity hours each, for rate dollars an hour.
Cost(x, inputs) ==
  LET f == inputs.capacity * inputs.rate
  IN Rounded(Surd(x.a * f, x.b * f, x.d, x.c * inputs.velocity))

WeeksFor(x, inputs) == RoundedUp(Surd(x.a, x.b, x.d, x.c * inputs.velocity))

\* The normal curve's probability up to the mean + k * SD, in whole percent.
NormalCDFPercent(k) == CASE k = 0 -> 50 [] k = 1 -> 84 [] k = 2 -> 98

Scope(w) == [i \in DOMAIN w.tasks |->
               [id |-> w.tasks[i].id, description |-> w.tasks[i].description]]

\* Every task's notes, in task and note order.
Assumptions(w) ==
  FlattenSeq([i \in DOMAIN w.tasks |->
    [k \in DOMAIN w.tasks[i].riskNotes |-> w.tasks[i].riskNotes[k].description]])

\* Mutant of HighPoints: the buffer is left out.
HighPointsUnbuffered(w) == Points(w, 0)

HighPoints(w) == Points(w, 2)

\* What a proposal may look like once the checks have let the request through.
Proposals(w, inputs) ==
  UNION {[confidence : {b.confidence}, contract : {b.contract},
          invitesRenegotiation : {b.invitesRenegotiation},
          cost  : [low  : Cost(LowPoints(w, b), inputs),
                   high : Cost(HighPoints(w), inputs)],
          weeks : [low  : WeeksFor(LowPoints(w, b), inputs),
                   high : WeeksFor(HighPoints(w), inputs)],
          atLow : {NormalCDFPercent(b.lowSDMultiplier)},
          atHigh : {NormalCDFPercent(2)},
          scope : {Scope(w)}, assumptions : {Assumptions(w)}] :
         b \in Bands(w)}

\* The lower ends of a proposal's ranges are not above the upper ends.
Ordered(p) ==
  /\ p.cost.low <= p.cost.high
  /\ p.weeks.low <= p.weeks.high
  /\ p.atLow < p.atHigh

=============================================================================
