-------------------------------- MODULE WBS --------------------------------
(***************************************************************************)
(* The Work Breakdown Structure aggregate of src/internal/wbs (wbs.go,     *)
(* risk.go, estimate.go and the gates of proposal.go) as a value: a record *)
(* and, for every method, two operators.  XxxError gives the error the     *)
(* method returns (OK for nil), with its checks in the order of the code;  *)
(* Xxx gives the aggregate the method leaves behind when it returns nil.   *)
(* No method of the aggregate both returns an error and changes a field.   *)
(*                                                                         *)
(* Task and note ids are their counter values ("t3" is 3, "r2" is 2).      *)
(* Descriptions and reasonings are members of Text; Trim is what           *)
(* strings.TrimSpace does to them and Blank is the empty string.           *)
(***************************************************************************)
EXTENDS Integers, Sequences, FiniteSets, SequencesExt

CONSTANTS
  Text,        \* the strings callers and AI providers supply
  Blank,       \* the empty string
  Trim,        \* strings.TrimSpace, as a function on Text
  NoEstimate   \* the nil *Estimate

ASSUME TextAssumption ==
  /\ Blank \in Text
  /\ Trim \in [Text -> Text]
  /\ Trim[Blank] = Blank
  /\ \A s \in Text : Trim[Trim[s]] = Trim[s]

-----------------------------------------------------------------------------
(* The types. *)

Estimate == [o : Int, m : Int, p : Int, reasoning : Text]
RiskNote == [id : Nat, description : Text]
Task     == [id : Nat, description : Text, riskNotes : Seq(RiskNote),
             estimate : Estimate \cup {NoEstimate}]
WBSType  == [tasks : Seq(Task), approved : BOOLEAN, nextSeq : Nat,
             nextNote : Nat, estimatesGenerated : BOOLEAN,
             estimatesApproved : BOOLEAN]

RiskAssignment     == [task : Int, description : Text]
EstimateAssignment == [task : Int, estimate : Estimate]
TeamInputs         == [velocity : Int, capacity : Int, rate : Int]

OK == "ok"

DomainErrors ==
  {"ErrEmptyDescription", "ErrTaskNotFound", "ErrNoTasks", "ErrWBSNotFound",
   "ErrEmptyRequirement", "ErrUnreadableDocument", "ErrWBSNotApproved",
   "ErrRiskNoteNotFound", "ErrWBSNotApprovedForEstimation", "ErrNoEstimate",
   "ErrEstimatesNotGenerated", "ErrOffFibonacciScale", "ErrEstimatesNotIncreasing",
   "ErrEmptyReasoning", "ErrEstimatesNotApprovedForProposal", "ErrNonPositiveTeamInputs"}

-----------------------------------------------------------------------------
(* Tasks: generation, editing and approval of the breakdown. *)

NewTask(id, description) ==
  [id |-> id, description |-> description, riskNotes |-> << >>,
   estimate |-> NoEstimate]

\* The generated descriptions are stored as they come, neither trimmed nor
\* checked: that is the provider's business.
NewWBS(descriptions) ==
  [tasks    |-> [i \in 1..Len(descriptions) |-> NewTask(i, descriptions[i])],
   approved |-> FALSE,
   nextSeq  |-> Len(descriptions) + 1,
   nextNote |-> 1,
   estimatesGenerated |-> FALSE,
   estimatesApproved  |-> FALSE]

TaskExists(w, n) == n \in 1..Len(w.tasks)

AddTaskError(d) == IF Trim[d] = Blank THEN "ErrEmptyDescription" ELSE OK

\* Mutant of AddTask: ids from the length of the list, not from the counter.
AddTaskByLength(w, d) ==
  [w EXCEPT !.tasks    = Append(@, NewTask(Len(w.tasks) + 1, Trim[d])),
            !.nextSeq  = @ + 1,
            !.approved = FALSE]

AddTask(w, d) ==
  [w EXCEPT !.tasks    = Append(@, NewTask(w.nextSeq, Trim[d])),
            !.nextSeq  = @ + 1,
            !.approved = FALSE]

EditTaskError(w, n, d) ==
  IF TaskExists(w, n) THEN AddTaskError(d) ELSE "ErrTaskNotFound"

\* Mutant of EditTask: the approval stays.
EditTaskApproved(w, n, d) == [w EXCEPT !.tasks[n].description = Trim[d]]

EditTask(w, n, d) ==
  [w EXCEPT !.tasks[n].description = Trim[d], !.approved = FALSE]

DeleteTaskError(w, n) == IF TaskExists(w, n) THEN OK ELSE "ErrTaskNotFound"

\* Mutants of DeleteTask: a hole in the list, a forgotten unapproval, and notes
\* that stay at their number instead of moving with their task.
DeleteTaskHole(w, n) == [w EXCEPT !.tasks[n] = NoEstimate, !.approved = FALSE]

DeleteTaskApproved(w, n) == [w EXCEPT !.tasks = RemoveAt(@, n)]

DeleteTaskNotesStay(w, n) ==
  [w EXCEPT !.tasks = [i \in 1..(Len(@) - 1) |->
                         [RemoveAt(@, n)[i] EXCEPT !.riskNotes = w.tasks[i].riskNotes]],
            !.approved = FALSE]

DeleteTask(w, n) ==
  [w EXCEPT !.tasks = RemoveAt(@, n), !.approved = FALSE]

ApproveError(w) == IF w.tasks = << >> THEN "ErrNoTasks" ELSE OK

Approve(w) == [w EXCEPT !.approved = TRUE]

-----------------------------------------------------------------------------
(* Risk notes. *)

\* The members of a finite set of integers in ascending order, each at its rank, and
\* the subsequence of s at the positions P.
Ascending(S) ==
  [q \in 1..Cardinality(S) |-> CHOOSE x \in S : Cardinality({y \in S : y <= x}) = q]

Subsequence(s, P) == LET at == Ascending(P) IN [q \in DOMAIN at |-> s[at[q]]]

\* Mutant of ReplaceRiskNotes: the counter starts again with every flagging.
ReplaceRiskNotesFromOne(w, assignments) ==
  LET addressed == Subsequence(assignments, {k \in DOMAIN assignments :
                                               TaskExists(w, assignments[k].task)})
      notes == [q \in DOMAIN addressed |->
                  [id |-> q, description |-> addressed[q].description]]
  IN [w EXCEPT !.tasks = [i \in DOMAIN @ |->
                            [@[i] EXCEPT !.riskNotes =
                               Subsequence(notes, {q \in DOMAIN notes :
                                                     addressed[q].task = i})]],
               !.nextNote = Len(addressed) + 1]

\* All notes go; the assignments that address an existing task come in, in
\* order, each with the next note id, at the end of its task's list.  The note
\* counter is not reset and the approvals stay as they are.
ReplaceRiskNotes(w, assignments) ==
  LET addressed == Subsequence(assignments, {k \in DOMAIN assignments :
                                               TaskExists(w, assignments[k].task)})
      notes == [q \in DOMAIN addressed |->
                  [id |-> w.nextNote + q - 1,
                   description |-> addressed[q].description]]
  IN [w EXCEPT !.tasks = [i \in DOMAIN @ |->
                            [@[i] EXCEPT !.riskNotes =
                               Subsequence(notes, {q \in DOMAIN notes :
                                                     addressed[q].task = i})]],
               !.nextNote = @ + Len(addressed)]

AddRiskNoteError(w, n, d) == EditTaskError(w, n, d)

\* Mutant of AddRiskNote: ids by position within the task.
AddRiskNoteByPosition(w, n, d) ==
  [w EXCEPT !.tasks[n].riskNotes =
              Append(@, [id |-> Len(@) + 1, description |-> Trim[d]]),
            !.nextNote = @ + 1]

AddRiskNote(w, n, d) ==
  [w EXCEPT !.tasks[n].riskNotes =
              Append(@, [id |-> w.nextNote, description |-> Trim[d]]),
            !.nextNote = @ + 1]

DeleteRiskNoteError(w, n, k) ==
  IF ~TaskExists(w, n) THEN "ErrTaskNotFound"
  ELSE IF k \in 1..Len(w.tasks[n].riskNotes) THEN OK
  ELSE "ErrRiskNoteNotFound"

EditRiskNoteError(w, n, k, d) ==
  IF DeleteRiskNoteError(w, n, k) = OK THEN AddTaskError(d)
  ELSE DeleteRiskNoteError(w, n, k)

EditRiskNote(w, n, k, d) ==
  [w EXCEPT !.tasks[n].riskNotes[k].description = Trim[d]]

DeleteRiskNote(w, n, k) == [w EXCEPT !.tasks[n].riskNotes = RemoveAt(@, k)]

-----------------------------------------------------------------------------
(* Estimates. *)

FibonacciScale == {0, 1, 2, 3, 5, 8, 13, 20, 40, 100}

ValidateError(e) ==
  IF ~({e.o, e.m, e.p} \subseteq FibonacciScale) THEN "ErrOffFibonacciScale"
  ELSE IF ~(e.o < e.m /\ e.m < e.p) THEN "ErrEstimatesNotIncreasing"
  ELSE IF Trim[e.reasoning] = Blank THEN "ErrEmptyReasoning"
  ELSE OK

\* Every estimate goes; a task gets the last assignment that names it, as it
\* comes: the assignments are not validated.
SetEstimates(w, assignments) ==
  LET For(i) == {k \in DOMAIN assignments : assignments[k].task = i}
      Latest(i) == CHOOSE k \in For(i) : \A j \in For(i) : j <= k
  IN [w EXCEPT !.tasks = [i \in DOMAIN @ |->
                            [@[i] EXCEPT !.estimate =
                               IF For(i) = {} THEN NoEstimate
                               ELSE assignments[Latest(i)].estimate]],
               !.estimatesGenerated = TRUE,
               !.estimatesApproved  = FALSE]

OverrideEstimateError(w, n, e) ==
  IF ~TaskExists(w, n) THEN "ErrTaskNotFound"
  ELSE IF w.tasks[n].estimate = NoEstimate THEN "ErrNoEstimate"
  ELSE ValidateError(e)

\* Mutant of OverrideEstimate: the estimates stay approved.
OverrideEstimateApproved(w, n, e) ==
  [w EXCEPT !.tasks[n].estimate = [e EXCEPT !.reasoning = Trim[@]]]

OverrideEstimate(w, n, e) ==
  [w EXCEPT !.tasks[n].estimate = [e EXCEPT !.reasoning = Trim[@]],
            !.estimatesApproved = FALSE]

\* Mutant of ApproveEstimatesError: estimates need not have been generated.
ApproveEstimatesAnyway(w) == OK

ApproveEstimatesError(w) ==
  IF w.estimatesGenerated THEN OK ELSE "ErrEstimatesNotGenerated"

ApproveEstimates(w) == [w EXCEPT !.estimatesApproved = TRUE]

-----------------------------------------------------------------------------
(* What the proposal is gated on and what it is computed from. *)

ProposalError(w, inputs) ==
  IF ~w.estimatesApproved THEN "ErrEstimatesNotApprovedForProposal"
  ELSE IF inputs.velocity <= 0 \/ inputs.capacity <= 0 \/ inputs.rate <= 0
       THEN "ErrNonPositiveTeamInputs"
  ELSE OK

=============================================================================
