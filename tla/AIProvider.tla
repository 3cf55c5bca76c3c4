----------------------------- MODULE AIProvider -----------------------------
(***************************************************************************)
(* The live adapters of src/internal/aiprovider: what a provider port      *)
(* returns for what the model submitted.  The Messages API and its SDK are *)
(* external; a call of theirs may fail, come back without the forced tool  *)
(* call, with an input that does not decode, or with one that does: a list *)
(* of items the adapter cleans.                                            *)
(*                                                                         *)
(* An outcome of a port is a record of the error it returns (OK for nil)   *)
(* and its output.                                                         *)
(***************************************************************************)
EXTENDS WBS

ProviderErrors ==
  {"anthropic", "aiprovider.ErrNoTasks", "ErrNoRiskSubmission", "ErrNoEstimateSubmission"}

\* What a service call may return.
Results == {OK} \cup DomainErrors \cup ProviderErrors

Outcome(e, out) == [err |-> e, out |-> out]

\* The request failed or its tool input did not decode ("anthropic"), or the
\* forced tool call is missing, whose error each adapter names itself.
Failures(missing) == {Outcome("anthropic", << >>), Outcome(missing, << >>)}

\* Mutant of ParseTasks: the blank ones stay.
ParseTasksBlanks(items) == [i \in DOMAIN items |-> Trim[items[i]]]

\* Descriptions are trimmed and the blank ones dropped.
ParseTasks(items) ==
  LET trimmed == [i \in DOMAIN items |-> Trim[items[i]]]
  IN Subsequence(trimmed, {i \in DOMAIN items : trimmed[i] # Blank})

\* A submission with no usable task is no submission.
TasksSubmitted(items) ==
  IF ParseTasks(items) = << >> THEN Outcome("aiprovider.ErrNoTasks", << >>)
  ELSE Outcome(OK, ParseTasks(items))

\* Risks without a description or with a task number below one are dropped.
ParseRisks(items) ==
  LET trimmed == [i \in DOMAIN items |->
                    [items[i] EXCEPT !.description = Trim[@]]]
  IN Subsequence(trimmed, {i \in DOMAIN items :
                             trimmed[i].description # Blank /\ trimmed[i].task >= 1})

\* Estimates with a task number below one are dropped; nothing else is checked.
ParseEstimates(items) ==
  LET trimmed == [i \in DOMAIN items |->
                    [items[i] EXCEPT !.estimate.reasoning = Trim[@]]]
  IN Subsequence(trimmed, {i \in DOMAIN items : items[i].task >= 1})

\* What each port may return when the model submits one of the given lists.
GenerateOutcomes(lists) ==
  Failures("aiprovider.ErrNoTasks") \cup {TasksSubmitted(items) : items \in lists}

FlagRisksOutcomes(lists) ==
  Failures("ErrNoRiskSubmission")
    \cup {Outcome(OK, ParseRisks(items)) : items \in lists}

EstimateOutcomes(lists) ==
  Failures("ErrNoEstimateSubmission")
    \cup {Outcome(OK, ParseEstimates(items)) : items \in lists}

=============================================================================
