----------------------------- MODULE Acceptance -----------------------------
(***************************************************************************)
(* The acceptance suite as a program: scripts/acceptance.sh, which turns   *)
(* the feature files into generated entry points (acceptance/generator)    *)
(* and runs them (acceptance/generated, acceptance/runtime), and the       *)
(* worker that runs mutated features for a mutator                         *)
(* (acceptance/mutationrunner).  Both run executions the same way, one     *)
(* sentence after the other, on the service and the session themselves.    *)
(*                                                                         *)
(* A feature goes by the identifier of its file; the parser that turns the *)
(* file into an IR and the mutator are external.                           *)
(***************************************************************************)
EXTENDS Steps

CONSTANTS
  Features,     \* the features, by identifier: those in files, and mutated ones
  InOrder,      \* the identifiers in the order of their file names
  Shipped,      \* the features of the repository
  Mutated,      \* features with one value of an example changed
  Dirs,         \* what features/ may hold when the script is started
  Streams,      \* what the mutator may send a worker
  NoFeature,    \* the feature of a file that holds no IR
  NoExecution

\* The id of what does not decode.
NoID == ""

\* A slice of the code.
IsSlice(s) == Len(s) \in Nat /\ DOMAIN s = 1..Len(s)

Place == [feature : DOMAIN Features, scenario : Nat, example : Nat]

ASSUME AcceptanceAssumption ==
  /\ Shipped \cup Mutated \subseteq DOMAIN Features
  /\ \A id \in DOMAIN Features :
       LET scenarios == Features[id].scenarios
       IN /\ IsSlice(scenarios)
          /\ \A s \in DOMAIN scenarios : IsSlice(scenarios[s].examples)
  /\ NoExecution \notin Place
  /\ \A d \in Dirs : d \subseteq Range(InOrder) \cap DOMAIN Features
  /\ InOrder \in Seq(Range(InOrder)) /\ IsInjective(InOrder)
  /\ \A lines \in Streams :
       /\ lines \in Seq(Range(lines))
       /\ \A line \in Range(lines) :
            IF line.kind = "job" THEN line.feature \in DOMAIN Features \cup {NoFeature}
            ELSE line.id = NoID

VARIABLES
  dir,          \* the features in features/
  todo,         \* those the script still has to generate
  gen,          \* those acceptance/generated has a *_gen.go of
  meta,         \* and those it has metadata of
  phase,        \* "idle", "generate", "run" (the script) or "serve" (a worker)
  exit,         \* how the last script ended: 0, 1, or -1 for not yet
  left,         \* the executions still to run
  execution,    \* the one that runs
  sentences,    \* what is left of it
  columns,      \* its example
  passed, failed,
  stream,       \* the worker's input, as lines
  read,         \* how many of them it has read
  evaluating,   \* is the last of these a job under way?
  out           \* the worker's answers

script == <<dir, todo, gen, meta, exit>>
current == <<execution, sentences, columns>>
runner == <<left, current, passed, failed>>
worker == <<stream, read, evaluating, out>>
system == <<service, session, world>>
everything == <<system, browser, script, runner, worker, phase>>

-----------------------------------------------------------------------------
(* Features and their executions. *)

\* What an outline without examples runs with.
NoColumns == [column \in {} |-> Blank]

Examples(scenario) ==
  IF scenario.examples = << >> THEN <<NoColumns>> ELSE scenario.examples

\* One for every example of every scenario, in order.
ExecutionsOf(id, scenarios) ==
  FlattenSeq([s \in DOMAIN scenarios |->
    [e \in DOMAIN Examples(scenarios[s]) |->
      [feature |-> id, scenario |-> s, example |-> e]]])

Executions(id) == ExecutionsOf(id, Features[id].scenarios)

AllExecutions(ids) ==
  FlattenSeq([k \in DOMAIN ids |-> Executions(ids[k])])

InFileOrder(ids) == Subsequence(InOrder, {k \in DOMAIN InOrder : InOrder[k] \in ids})

-----------------------------------------------------------------------------
(* One execution. *)

\* The background comes first.
Begins(x, feature) ==
  LET scenario == feature.scenarios[x.scenario]
      steps == feature.background \o scenario.steps
  IN /\ execution' = x
     /\ sentences' = FlattenSeq([k \in DOMAIN steps |-> Parts(steps[k])])
     /\ columns' = Examples(scenario)[x.example]

Begin ==
  /\ execution = NoExecution /\ left # << >>
  /\ Begins(Head(left), Features[Head(left).feature])
  /\ left' = Tail(left)
  /\ UNCHANGED <<system, passed, failed>>

\* It is over, and its world is gone: the next one finds a new one.
Over ==
  /\ execution' = NoExecution
  /\ sentences' = << >> /\ columns' = NoColumns
  /\ NewWorld
  /\ UNCHANGED left

\* The next sentence is refused, which ends the execution, or performed.
RunSentence ==
  /\ execution # NoExecution /\ sentences # << >>
  /\ LET said == Expand(Head(sentences), columns)
     IN IF Complete(Head(sentences), columns) /\ ~Refused(said)
        THEN /\ Perform(said)
             /\ sentences' = Tail(sentences)
             /\ UNCHANGED <<left, execution, columns, passed, failed>>
        ELSE /\ failed' = Append(failed, execution)
             /\ Over
             /\ UNCHANGED passed

Pass ==
  /\ execution # NoExecution /\ sentences = << >>
  /\ passed' = Append(passed, execution)
  /\ Over
  /\ UNCHANGED failed

Run ==
  /\ phase = "run" \/ evaluating
  /\ Begin \/ RunSentence \/ Pass
  /\ UNCHANGED <<script, worker, phase>>

Ran == execution = NoExecution /\ left = << >>

-----------------------------------------------------------------------------
(* The script. *)

AcceptanceInit ==
  /\ Init /\ active = 0 /\ inline = "" /\ proposal = NoProposal /\ proposalErr = ""
  /\ page = OldPage /\ going = ""
  /\ ui = FALSE /\ wbsID = 0 /\ lastErr = OK /\ lastProposal = ZeroProposal
  /\ dir = {} /\ todo = << >> /\ gen = {} /\ meta = {} /\ exit = -1
  /\ phase = "idle"
  /\ left = << >> /\ execution = NoExecution
  /\ sentences = << >> /\ columns = NoColumns
  /\ passed = << >> /\ failed = << >>
  /\ stream = << >> /\ read = 0 /\ evaluating = FALSE /\ out = << >>

\* Mutant of Clean: the entry points of the time before are not removed.
CleanMetadata == gen' = gen /\ meta' = {}

Clean == gen' = {} /\ meta' = {}

\* The features have changed since; what was generated goes.
Start(d) ==
  /\ phase = "idle"
  /\ dir' = d
  /\ Clean
  /\ todo' = InFileOrder(d)
  /\ exit' = IF d = {} THEN 1 ELSE -1
  /\ phase' = IF d = {} THEN "idle" ELSE "generate"
  /\ passed' = << >> /\ failed' = << >>
  /\ UNCHANGED <<system, left, current, worker>>

\* A command fails, and set -e ends the script.
Abort == exit' = 1 /\ phase' = "idle" /\ todo' = << >>

\* The parser writes the IR of a file and the generator its entry point and then
\* its metadata; either may fail, the generator also in between.
ParseAndGenerate ==
  /\ phase = "generate" /\ todo # << >>
  /\ \/ /\ gen' = gen \cup {Head(todo)}
        /\ meta' = meta \cup {Head(todo)}
        /\ todo' = Tail(todo)
        /\ UNCHANGED <<exit, phase>>
     \/ /\ gen' \in {gen, gen \cup {Head(todo)}}
        /\ UNCHANGED meta
        /\ Abort
  /\ UNCHANGED <<dir, system, runner, worker>>

\* go run builds every *_gen.go there is, a raw string literal each, which a
\* backquote in the IR ends.
StartRun ==
  /\ phase = "generate" /\ todo = << >>
  /\ IF \E id \in gen : Features[id].backquote
     THEN Abort /\ UNCHANGED left
     ELSE /\ left' = AllExecutions(InFileOrder(gen))
          /\ phase' = "run"
          /\ UNCHANGED <<todo, exit>>
  /\ UNCHANGED <<dir, gen, meta, system, current, passed, failed, worker>>

\* main.go: not all passed is an error.
Conclude ==
  /\ phase = "run" /\ Ran
  /\ exit' = IF failed = << >> THEN 0 ELSE 1
  /\ phase' = "idle"
  /\ UNCHANGED <<dir, todo, gen, meta, system, runner, worker>>

-----------------------------------------------------------------------------
(* The worker.  A line is blank, garbage, or a job: an id and the file of the IR *)
(* of a feature.                                                                *)

\* The worker shares nothing with the script; here it is started before the first
\* script is (a bound).
StartWorker(lines) ==
  /\ phase = "idle" /\ exit = -1
  /\ stream' = lines
  /\ phase' = "serve"
  /\ passed' = << >> /\ failed' = << >>
  /\ UNCHANGED <<script, system, left, current, read, evaluating, out>>

Answer(id, outcome) == out' = Append(out, [id |-> id, outcome |-> outcome])

\* Mutant of NotEvaluated: what does not decode is skipped like a blank line.
NotEvaluatedSilently(line) ==
  IF line.kind = "job" THEN Answer(line.id, "infrastructure_error")
  ELSE UNCHANGED out

\* What does not decode has no id.
NotEvaluated(line) ==
  Answer(IF line.kind = "job" THEN line.id ELSE NoID, "infrastructure_error")

Evaluable(line) == line.kind = "job" /\ line.feature # NoFeature

ReadLine ==
  /\ phase = "serve" /\ ~evaluating /\ read < Len(stream)
  /\ read' = read + 1
  /\ LET line == stream[read + 1]
     IN \/ line.kind = "blank" /\ UNCHANGED <<left, evaluating, out>>
        \/ line.kind # "blank" /\ ~Evaluable(line)
             /\ NotEvaluated(line) /\ UNCHANGED <<left, evaluating>>
        \/ Evaluable(line)
             /\ left' = Executions(line.feature) /\ evaluating' = TRUE
             /\ UNCHANGED out
  /\ UNCHANGED <<script, system, current, passed, failed, stream, phase>>

Evaluated ==
  /\ evaluating /\ Ran
  /\ Answer(stream[read].id,
            IF failed # << >> THEN "test_failure" ELSE "test_success")
  /\ evaluating' = FALSE
  /\ passed' = << >> /\ failed' = << >>
  /\ UNCHANGED <<script, system, left, current, stream, read, phase>>

\* The end of the input ends the worker.
EndOfInput ==
  /\ phase = "serve" /\ ~evaluating /\ read = Len(stream)
  /\ phase' = "idle"
  /\ stream' = << >> /\ read' = 0 /\ out' = << >>
  /\ UNCHANGED <<script, system, runner, evaluating>>

-----------------------------------------------------------------------------

AcceptanceNext ==
  /\ \/ \E d \in Dirs : Start(d)
     \/ ParseAndGenerate \/ StartRun \/ Run \/ Conclude
     \/ \E lines \in Streams : StartWorker(lines)
     \/ ReadLine \/ Evaluated \/ EndOfInput
  /\ UNCHANGED browser

AcceptanceSpec == AcceptanceInit /\ [][AcceptanceNext]_everything

-----------------------------------------------------------------------------
(* Properties. *)

\* No execution of the repository's own features ever fails: the service, the
\* session and the handlers, put together sentence by sentence, do what the
\* features say, and a sentence about a screen reaches the screen although a
\* pattern for the service matches it as well (steps.go:40-44).
ScenariosPass == \A x \in Range(failed) : x.feature \notin Shipped

\* A script that ends well has run every execution of every feature that is in the
\* directory, in order, and of no other, and left metadata for exactly these,
\* whatever an earlier script left behind, also one that was aborted half-way
\* (acceptance.sh:25-29; main.go:17-29).
ExitMeansAllPassed ==
  phase = "idle" /\ exit = 0 =>
    /\ dir # {} /\ passed = AllExecutions(InFileOrder(dir))
    /\ meta = dir

\* What the worker was asked by the lines at ks: blank ones ask nothing.
Asked(ks) == Subsequence(stream, {k \in ks : stream[k].kind # "blank"})

\* A worker's answers are one for every line that is not blank, in the order of the
\* lines and under their ids, whatever lines are not jobs or name no IR
\* (runner.go:83-85 "one JSON job per input line, one JSON response per output
\* line").
AnswersInOrder ==
  LET asked == Asked(1..read)
  IN /\ Len(out) = Len(asked) - (IF evaluating THEN 1 ELSE 0)
     /\ \A k \in DOMAIN out :
          /\ out[k].id = asked[k].id
          /\ (out[k].outcome = "infrastructure_error") <=> ~Evaluable(asked[k])

\* The same feature always gets the same answer from a worker, whatever was evaluated
\* before it: nothing of one execution is left for the next (run.go:83, a world of its
\* own for each).
AnswersRepeat ==
  LET asked == Asked(DOMAIN stream)
  IN \A j, k \in DOMAIN out :
       Evaluable(asked[j]) /\ Evaluable(asked[k]) /\ asked[j].feature = asked[k].feature
         => out[j].outcome = out[k].outcome

\* Every changed value of an example is found out: some check of its scenario tells
\* the mutated feature from the one that was shipped (the manifests at the head of
\* the feature files: features/wbs_editing.feature:3 "Survived":0).
MutationsKilled ==
  LET asked == Asked(DOMAIN stream)
  IN \A k \in DOMAIN out :
       asked[k].kind = "job" /\ asked[k].feature \in Mutated
         => out[k].outcome = "test_failure"

=============================================================================
