--------------------------- MODULE ServiceQuotes ---------------------------
(***************************************************************************)
(* What the service quotes for the WBSs it holds: the metrics and the      *)
(* pricing strategy of handler and screen, and the proposal, each computed *)
(* anew from the estimates a WBS has at that moment.                       *)
(***************************************************************************)
EXTENDS EstimationService, Quote

\* A proposal can be asked for, and there is an estimate to compute it from.
\* (Without one it is computed all the same: see ProposalMetricsPositive.)
Quotable(id, inputs) ==
  /\ ProposalError(store[id], inputs) = OK
  /\ ProjectPert(store[id]).sixths > 0

\* P holds of every proposal that can be asked for.
EveryQuote(P(_, _, _)) ==
  \A id \in DOMAIN store, inputs \in TeamInputSet :
    Quotable(id, inputs) => \A p \in Proposals(store[id], inputs) : P(id, inputs, p)

\* Whatever the band and wherever a rounding falls, the lower end of a range is
\* not above the upper end, in dollars, weeks and percent (proposal.go:67-85).
RangesOrdered == EveryQuote(LAMBDA id, inputs, p : Ordered(p))

Distance(m, n) == IF m < n THEN n - m ELSE m - n

\* The client is offered what the Tech Lead was advised: the same contract, and
\* at the lower end the price of the recommended basis, but for half a point and
\* half a dollar of rounding; no basis is recommended for a contract that fixes
\* no price (pricing.go:14-16 "share one source of truth", proposal.go:67-77).
QuoteFollowsPricing ==
  EveryQuote(LAMBDA id, inputs, p :
    \E s \in PricingStrategies(store[id]) :
      LET f == inputs.capacity * inputs.rate
          v == inputs.velocity
      IN /\ s.contract = p.contract
         /\ s.basis = NoBasis <=> p.contract = "time-and-materials"
         /\ s.basis # NoBasis
              => 2 * Distance(v * p.cost.low, f * s.basis) <= f + v)

\* A price is fixed without a buffer exactly below 9.5 percent of deviation, and
\* refused exactly above 20.5: the bands are cut on the rounded percentage, and
\* no estimate falls between them (pricing.go:30-42).
BandsCutAtHalves ==
  EveryQuote(LAMBDA id, inputs, p :
    LET v == ProjectPert(store[id])
        deviation  == 40000 * v.variance              \* (200 * SD)^2
        percent(h) == h * h * v.sixths * v.sixths     \* (h * E)^2, both times 36
    IN /\ deviation < percent(19) => p.contract = "fixed-price"
       /\ percent(19) < deviation /\ deviation < percent(41)
            => p.contract = "fixed-price-with-buffer"
       /\ percent(41) < deviation => p.contract = "time-and-materials")

-----------------------------------------------------------------------------
(* What the documents say and the code does not do. *)

\* Metrics are rounded half-up: at a tie, up.
\* (qa/metrics_qa_suite.md:27 "Every emitted value is a whole number, rounded
\* half-up"; the quotients rounded in metrics.go:45-46 are floats, and 57.5
\* comes out a little less.)
MetricsRoundHalfUp ==
  \A id \in DOMAIN store :
    LET v == ProjectPert(store[id])
    IN v.sixths > 0 =>
         \A m \in Metrics(v) :
           /\ ~FractionAtMost(2 * m.standardDeviation + 1, 2, StdDev(v))
           /\ ~FractionAtMost(2 * m.relativeStandardDeviation + 1, 2, RSD(v))

=============================================================================
