-------------------------- MODULE AcceptanceProofs --------------------------
(***************************************************************************)
(* Theorems about Acceptance, for every set of features, whatever their    *)
(* sentences do: what the script's exit and the worker's answers say of    *)
(* the executions that ran.  Nothing of the service is used here; what a   *)
(* sentence does to it (Perform) stays closed.                             *)
(***************************************************************************)
EXTENDS Acceptance, WBSProofs

-----------------------------------------------------------------------------
(* The inductive invariant. *)

\* The execution under way, as the sequence of one or none.
Executing == IF execution = NoExecution THEN << >> ELSE <<execution>>

RunnerTyped ==
  /\ left \in Seq(Place) /\ passed \in Seq(Place) /\ failed \in Seq(Place)
  /\ execution \in Place \cup {NoExecution}

\* Executions run only in a run of the script or for a job of the worker.
OnlyThen ==
  /\ phase \in {"idle", "generate", "run", "serve"}
  /\ evaluating => phase = "serve"
  /\ phase # "run" /\ ~evaluating => Ran

\* While it generates, what is generated and what is still to do make up the
\* directory.
Generating ==
  phase = "generate" =>
    /\ dir \in Dirs /\ dir # {}
    /\ gen = meta
    /\ todo \in Seq(Range(InOrder)) /\ gen \cup Range(todo) = dir
    /\ passed = << >> /\ failed = << >>

\* While it runs and nothing has failed, what passed, what runs and what is left
\* are all that was scheduled.
Running ==
  phase = "run" =>
    /\ dir # {} /\ meta = dir
    /\ failed = << >> => (passed \o Executing) \o left = AllExecutions(InFileOrder(dir))

ScriptInv ==
  /\ RunnerTyped
  /\ OnlyThen
  /\ Generating
  /\ Running
  /\ phase = "serve" => exit = -1
  /\ ExitMeansAllPassed

\* The lines a worker may read, and the answers it may give.
Lines == UNION {Range(lines) : lines \in Streams}

Answers ==
  [id : {NoID} \cup {line.id : line \in Lines},
   outcome : {"infrastructure_error", "test_failure", "test_success"}]

WorkerInv ==
  /\ stream \in Streams \cup {<< >>}
  /\ read \in 0..Len(stream)
  /\ out \in Seq(Answers)
  /\ evaluating => read > 0 /\ Evaluable(stream[read])
  /\ phase # "serve" => stream = << >> /\ read = 0 /\ out = << >>
  /\ AnswersInOrder

AInv == ScriptInv /\ WorkerInv

-----------------------------------------------------------------------------
(* Executions. *)

LEMMA ExamplesSlice ==
  ASSUME NEW scenario, IsSlice(scenario.examples)
  PROVE  IsSlice(Examples(scenario))
<1>1. Len(<<NoColumns>>) = 1 /\ DOMAIN <<NoColumns>> = 1..1
  OBVIOUS
<1> QED
  BY <1>1 DEF IsSlice, Examples

LEMMA ExecutionsPlaces ==
  ASSUME NEW id \in DOMAIN Features
  PROVE  Executions(id) \in Seq(Place)
<1> DEFINE scenarios == Features[id].scenarios
           Of(s) == [e \in DOMAIN Examples(scenarios[s]) |->
                       [feature |-> id, scenario |-> s, example |-> e]]
           lists == [s \in DOMAIN scenarios |-> Of(s)]
<1>1. /\ Len(scenarios) \in Nat /\ DOMAIN scenarios = 1..Len(scenarios)
      /\ \A s \in DOMAIN scenarios : IsSlice(scenarios[s].examples)
  BY AcceptanceAssumption DEF IsSlice
<1> HIDE DEF scenarios
<1>2. ASSUME NEW s \in DOMAIN scenarios
      PROVE  Of(s) \in Seq(Place)
  <2> DEFINE n == Len(Examples(scenarios[s]))
  <2>1. n \in Nat /\ DOMAIN Examples(scenarios[s]) = 1..n
    BY <1>1, ExamplesSlice DEF IsSlice
  <2> HIDE DEF n
  <2>2. s \in Nat
    BY <1>1
  <2>3. \A e \in 1..n : [feature |-> id, scenario |-> s, example |-> e] \in Place
    BY <2>1, <2>2 DEF Place
  <2>4. Of(s) = [e \in 1..n |-> [feature |-> id, scenario |-> s, example |-> e]]
    BY <2>1
  <2>5. [e \in 1..n |-> [feature |-> id, scenario |-> s, example |-> e]] \in Seq(Place)
    BY <2>1, <2>3
  <2> QED
    BY <2>4, <2>5
<1> HIDE DEF Of
<1>3. lists \in Seq(Seq(Place))
  <2>1. lists = [s \in 1..Len(scenarios) |-> Of(s)]
    BY <1>1
  <2>2. \A s \in 1..Len(scenarios) : Of(s) \in Seq(Place)
    BY <1>1, <1>2
  <2> QED
    BY <1>1, <2>1, <2>2
<1>4. Executions(id) = FlattenSeq(lists)
  BY DEF Executions, ExecutionsOf, Of, scenarios
<1> HIDE DEF lists
<1> QED
  BY <1>3, <1>4, FlattenSeqIn

LEMMA AllExecutionsPlaces ==
  ASSUME NEW ids \in Seq(DOMAIN Features)
  PROVE  AllExecutions(ids) \in Seq(Place)
<1> DEFINE lists == [k \in 1..Len(ids) |-> Executions(ids[k])]
<1>1. Len(ids) \in Nat /\ DOMAIN ids = 1..Len(ids)
        /\ \A k \in 1..Len(ids) : ids[k] \in DOMAIN Features
  BY ElementOfSeq, LenProperties
<1>2. \A k \in 1..Len(ids) : Executions(ids[k]) \in Seq(Place)
  BY <1>1, ExecutionsPlaces
<1>3. lists \in Seq(Seq(Place))
  BY <1>1, <1>2
<1>4. AllExecutions(ids) = FlattenSeq(lists)
  BY <1>1 DEF AllExecutions
<1> HIDE DEF lists
<1> QED
  BY <1>3, <1>4, FlattenSeqIn

\* The features of a directory, in order, are those of the directory.
LEMMA InFileOrderOf ==
  ASSUME NEW d \in Dirs
  PROVE  /\ InFileOrder(d) \in Seq(Range(InOrder))
         /\ InFileOrder(d) \in Seq(DOMAIN Features)
         /\ Range(InFileOrder(d)) = d
<1> DEFINE P == {k \in DOMAIN InOrder : InOrder[k] \in d}
           ids == Subsequence(InOrder, P)
<1>1. /\ InOrder \in Seq(Range(InOrder))
      /\ d \subseteq Range(InOrder) /\ d \subseteq DOMAIN Features
  BY AcceptanceAssumption
<1>2. InFileOrder(d) = ids
  BY DEF InFileOrder
<1>3. P \in SUBSET DOMAIN InOrder
  OBVIOUS
<1> HIDE DEF ids, P
<1>4. /\ ids \in Seq(Range(InOrder))
      /\ \A q \in 1..Len(ids) : \E i \in P : ids[q] = InOrder[i]
      /\ \A i \in P : \E q \in 1..Len(ids) : ids[q] = InOrder[i]
  BY <1>1, <1>3, SubsequenceProperties, SubsequenceElements, SubsequenceOnto DEF ids
<1>5. Len(ids) \in Nat /\ DOMAIN ids = 1..Len(ids)
  BY <1>4, LenProperties
<1>6. \A q \in 1..Len(ids) : ids[q] \in d
  BY <1>4 DEF P
<1>7. ASSUME NEW x \in d
      PROVE  \E q \in 1..Len(ids) : ids[q] = x
  <2>1. PICK i \in DOMAIN InOrder : InOrder[i] = x
    BY <1>1 DEF Range
  <2> QED
    BY <1>4, <2>1 DEF P
<1>8. Range(ids) = d
  BY <1>5, <1>6, <1>7 DEF Range
<1>9. ids \in Seq(DOMAIN Features)
  <2>1. ids = [q \in 1..Len(ids) |-> ids[q]]
    BY <1>4, LenProperties, <1>5
  <2>2. \A q \in 1..Len(ids) : ids[q] \in DOMAIN Features
    BY <1>1, <1>6
  <2> QED
    BY <1>5, <2>1, <2>2
<1> QED
  BY <1>2, <1>4, <1>8, <1>9

-----------------------------------------------------------------------------
(* The runner. *)

LEMMA RangeHeadTail ==
  ASSUME NEW S, NEW s \in Seq(S), s # << >>
  PROVE  Range(s) = {Head(s)} \cup Range(Tail(s))
<1>1. /\ Tail(s) \in Seq(S) /\ Len(Tail(s)) = Len(s) - 1
      /\ \A i \in 1..Len(Tail(s)) : Tail(s)[i] = s[i + 1]
      /\ Len(s) \in Nat \ {0} /\ DOMAIN s = 1..Len(s) /\ Head(s) = s[1]
  BY HeadTailProperties, EmptySeq, LenProperties
<1>2. DOMAIN Tail(s) = 1..(Len(s) - 1)
  BY <1>1, LenProperties
<1> DEFINE t == Tail(s)
<1> HIDE DEF t
<1>3. \A i \in 1..(Len(s) - 1) : t[i] = s[i + 1]
  BY <1>1 DEF t
<1>4. \A i \in 1..Len(s) : i # 1 => i - 1 \in 1..(Len(s) - 1) /\ t[i - 1] = s[i]
  BY <1>1, <1>3
<1>5. DOMAIN t = 1..(Len(s) - 1)
  BY <1>2 DEF t
<1>6. Range(s) \subseteq {s[1]} \cup Range(t)
  BY <1>1, <1>4, <1>5 DEF Range
<1>7. {s[1]} \cup Range(t) \subseteq Range(s)
  BY <1>1, <1>3, <1>5 DEF Range
<1> QED
  BY <1>1, <1>6, <1>7 DEF t

\* What passed, what runs and what is left, when the next one begins and when the
\* one that runs passes.
LEMMA OneBegins ==
  ASSUME NEW S, NEW p \in Seq(S), NEW l \in Seq(S), l # << >>
  PROVE  (p \o <<Head(l)>>) \o Tail(l) = (p \o << >>) \o l
<1>1. Head(l) \in S /\ Tail(l) \in Seq(S)
  BY HeadTailProperties
<1> DEFINE x == Head(l)
           t == Tail(l)
<1>2. l = <<x>> \o t
  OBVIOUS
<1> HIDE DEF x, t
<1>3. <<x>> \in Seq(S)
  BY <1>1 DEF x
<1>4. (p \o <<x>>) \o t = p \o (<<x>> \o t)
  BY <1>1, <1>3, ConcatAssociative DEF t
<1>5. p \o << >> = p
  BY ConcatEmptySeq
<1> QED
  BY <1>2, <1>4, <1>5 DEF x, t

LEMMA OnePasses ==
  ASSUME NEW S, NEW p \in Seq(S), NEW x \in S
  PROVE  Append(p, x) \o << >> = p \o <<x>>
<1>1. Append(p, x) \in Seq(S) /\ Append(p, x) = p \o <<x>>
  BY AppendProperties, AppendIsConcat
<1> QED
  BY <1>1, ConcatEmptySeq

\* The three steps of the runner keep the order, and failures stay.
LEMMA RunEffect ==
  ASSUME RunnerTyped, Run
  PROVE  /\ RunnerTyped'
         /\ failed' = << >> =>
              /\ failed = << >>
              /\ (passed' \o Executing') \o left' = (passed \o Executing) \o left
<1> DEFINE Kept == (passed' \o Executing') \o left' = (passed \o Executing) \o left
<1>1. /\ left \in Seq(Place) /\ passed \in Seq(Place) /\ failed \in Seq(Place)
      /\ execution \in Place \cup {NoExecution}
  BY DEF RunnerTyped
<1>2. NoExecution \notin Place
  BY AcceptanceAssumption
<1>3. CASE Begin
  <2>1. /\ execution = NoExecution /\ left # << >>
        /\ execution' = Head(left) /\ left' = Tail(left)
        /\ passed' = passed /\ failed' = failed
    BY <1>3, Zenon DEF Begin, Begins
  <2>2. Head(left) \in Place /\ Tail(left) \in Seq(Place)
    BY <1>1, <2>1, HeadTailProperties
  <2>3. Executing = << >> /\ Executing' = <<Head(left)>>
    BY <1>2, <2>1, <2>2 DEF Executing
  <2>4. Kept
    BY <1>1, <2>1, <2>3, OneBegins
  <2>5. RunnerTyped'
    BY <1>1, <2>1, <2>2 DEF RunnerTyped
  <2> QED
    BY <2>1, <2>4, <2>5
<1>4. CASE RunSentence
  <2>1. CASE UNCHANGED <<left, execution, columns, passed, failed>>
    BY <1>1, <2>1 DEF RunnerTyped, Executing
  <2>2. CASE failed' = Append(failed, execution) /\ Over /\ UNCHANGED passed
    <3>1. /\ execution' = NoExecution /\ left' = left /\ passed' = passed
          /\ execution # NoExecution
      BY <1>4, <2>2, Zenon DEF Over, RunSentence
    <3>2. execution \in Place
      BY <1>1, <3>1
    <3>3. failed' \in Seq(Place) /\ failed' # << >>
      BY <1>1, <2>2, <3>2, AppendProperties
    <3> QED
      BY <1>1, <3>1, <3>3 DEF RunnerTyped
  <2> QED
    BY <1>4, <2>1, <2>2, Zenon DEF RunSentence
<1>5. CASE Pass
  <2>1. /\ execution # NoExecution
        /\ execution' = NoExecution /\ left' = left
        /\ passed' = Append(passed, execution) /\ failed' = failed
    BY <1>5, Zenon DEF Pass, Over
  <2>2. execution \in Place /\ passed' \in Seq(Place)
    BY <1>1, <2>1, AppendProperties
  <2>3. Executing = <<execution>> /\ Executing' = << >>
    BY <2>1 DEF Executing
  <2>4. Kept
    BY <1>1, <2>1, <2>2, <2>3, OnePasses
  <2>5. RunnerTyped'
    BY <1>1, <2>1, <2>2 DEF RunnerTyped
  <2> QED
    BY <2>1, <2>4, <2>5
<1> QED
  BY <1>3, <1>4, <1>5, Zenon DEF Run

-----------------------------------------------------------------------------
(* The worker. *)

\* What is not asked of the worker changes nothing of it.
LEMMA WorkerUnchanged ==
  ASSUME WorkerInv, UNCHANGED worker,
         phase' = phase \/ "serve" \notin {phase, phase'}
  PROVE  WorkerInv'
<1>1. stream' = stream /\ read' = read /\ evaluating' = evaluating /\ out' = out
  BY DEF worker
<1>2. AnswersInOrder' = AnswersInOrder
  BY <1>1 DEF AnswersInOrder, Asked
<1> QED
  BY <1>1, <1>2 DEF WorkerInv, Evaluable

\* The positions of the lines that ask something.
Asking(n) == {k \in 1..n : stream[k].kind # "blank"}

LEMMA StreamTyped ==
  ASSUME stream \in Streams \cup {<< >>}
  PROVE  /\ stream \in Seq(Lines)
         /\ DOMAIN stream = 1..Len(stream) /\ Len(stream) \in Nat
         /\ \A k \in 1..Len(stream) : stream[k] \in Lines
<1>1. stream \in Seq(Lines)
  <2>1. CASE stream = << >>
    BY <2>1
  <2>2. CASE stream \in Streams
    <3>1. stream \in Seq(Range(stream))
      BY <2>2, AcceptanceAssumption
    <3>2. Range(stream) \subseteq Lines
      BY <2>2 DEF Lines
    <3> QED
      BY <3>1, <3>2, SeqMonotonic
  <2> QED
    BY <2>1, <2>2
<1> QED
  BY <1>1, LenProperties, ElementOfSeq

LEMMA LineKinds ==
  ASSUME NEW line \in Lines
  PROVE  IF line.kind = "job" THEN line.feature \in DOMAIN Features \cup {NoFeature}
         ELSE line.id = NoID
BY AcceptanceAssumption DEF Lines

\* The next line asks nothing, or is the last that is asked.
LEMMA AskedNext ==
  ASSUME stream \in Streams \cup {<< >>}, NEW n \in 1..Len(stream)
  PROVE  /\ Asked(1..(n - 1)) \in Seq(Lines)
         /\ Asked(1..n) = IF stream[n].kind = "blank" THEN Asked(1..(n - 1))
                          ELSE Append(Asked(1..(n - 1)), stream[n])
<1>1. /\ stream \in Seq(Lines)
      /\ DOMAIN stream = 1..Len(stream) /\ Len(stream) \in Nat
  BY StreamTyped
<1>2. Asking(n - 1) \subseteq DOMAIN stream /\ \A k \in Asking(n - 1) : k < n
  BY <1>1 DEF Asking
<1>3. /\ Asked(1..(n - 1)) = Subsequence(stream, Asking(n - 1))
      /\ Asked(1..n) = Subsequence(stream, Asking(n))
  BY DEF Asked, Asking
<1>4. Asked(1..(n - 1)) \in Seq(Lines)
  BY <1>1, <1>2, <1>3, SubsequenceProperties
<1>5. CASE stream[n].kind = "blank"
  <2>1. Asking(n) = Asking(n - 1)
    BY <1>1, <1>5 DEF Asking
  <2> QED
    BY <1>3, <1>4, <1>5, <2>1
<1>6. CASE stream[n].kind # "blank"
  <2>1. Asking(n) = Asking(n - 1) \cup {n}
    BY <1>1, <1>6 DEF Asking
  <2>2. Subsequence(stream, Asking(n - 1) \cup {n})
          = Append(Subsequence(stream, Asking(n - 1)), stream[n])
    BY <1>1, <1>2, SubsequenceGrows
  <2> QED
    BY <1>3, <1>4, <1>6, <2>1, <2>2
<1> QED
  BY <1>5, <1>6

\* Every answer is to the line at its place.
Answering(answers, asked) ==
  \A k \in DOMAIN answers :
    /\ answers[k].id = asked[k].id
    /\ (answers[k].outcome = "infrastructure_error") <=> ~Evaluable(asked[k])

LEMMA AnswersInOrderIs ==
  AnswersInOrder <=>
    /\ Len(out) = Len(Asked(1..read)) - (IF evaluating THEN 1 ELSE 0)
    /\ Answering(out, Asked(1..read))
BY DEF AnswersInOrder, Answering

LEMMA StillAnswering ==
  ASSUME NEW answers \in Seq(Answers), NEW asked \in Seq(Lines),
         Len(answers) <= Len(asked), Answering(answers, asked), NEW line \in Lines
  PROVE  Answering(answers, Append(asked, line))
<1>1. /\ DOMAIN answers = 1..Len(answers)
      /\ Len(answers) \in Nat /\ Len(asked) \in Nat
      /\ \A k \in 1..Len(asked) : Append(asked, line)[k] = asked[k]
  BY LenProperties, AppendProperties
<1>2. \A k \in DOMAIN answers : Append(asked, line)[k] = asked[k]
  BY <1>1
<1> QED
  BY <1>2 DEF Answering

LEMMA OneMoreAnswer ==
  ASSUME NEW answers \in Seq(Answers), NEW asked \in Seq(Lines),
         Len(asked) = Len(answers) + 1, Answering(answers, asked),
         NEW answer \in Answers,
         answer.id = asked[Len(asked)].id,
         (answer.outcome = "infrastructure_error") <=> ~Evaluable(asked[Len(asked)])
  PROVE  /\ Append(answers, answer) \in Seq(Answers)
         /\ Len(Append(answers, answer)) = Len(asked)
         /\ Answering(Append(answers, answer), asked)
<1> DEFINE longer == Append(answers, answer)
<1>1. /\ DOMAIN answers = 1..Len(answers) /\ Len(answers) \in Nat
      /\ longer \in Seq(Answers) /\ Len(longer) = Len(answers) + 1
      /\ \A k \in 1..Len(answers) : longer[k] = answers[k]
      /\ longer[Len(answers) + 1] = answer
  BY LenProperties, AppendProperties
<1>2. DOMAIN longer = 1..(Len(answers) + 1)
  BY <1>1, LenProperties
<1> HIDE DEF longer
<1>3. ASSUME NEW k \in DOMAIN longer
      PROVE  /\ longer[k].id = asked[k].id
             /\ (longer[k].outcome = "infrastructure_error") <=> ~Evaluable(asked[k])
  <2>1. CASE k = Len(asked)
    BY <1>1, <2>1
  <2>2. CASE k # Len(asked)
    <3>1. k \in DOMAIN answers /\ longer[k] = answers[k]
      BY <1>1, <1>2, <2>2
    <3> QED
      BY <3>1 DEF Answering
  <2> QED
    BY <2>1, <2>2
<1>4. Answering(longer, asked)
  BY <1>3 DEF Answering
<1> QED
  BY <1>1, <1>4 DEF longer

\* A line that is read is one of them, and what it asks for is known.
LEMMA ReadLineEffect ==
  ASSUME WorkerInv, ReadLine
  PROVE  /\ WorkerInv'
         /\ left' # left => evaluating' /\ left' \in Seq(Place)
<1> DEFINE line == stream[read + 1]
           before == Asked(1..read)
           after == Asked(1..(read + 1))
<1>1. /\ phase = "serve" /\ ~evaluating /\ read < Len(stream)
      /\ read' = read + 1 /\ stream' = stream /\ phase' = phase
      /\ \/ line.kind = "blank" /\ UNCHANGED <<left, evaluating, out>>
         \/ line.kind # "blank" /\ ~Evaluable(line)
              /\ NotEvaluated(line) /\ UNCHANGED <<left, evaluating>>
         \/ Evaluable(line)
              /\ left' = Executions(line.feature) /\ evaluating' = TRUE
              /\ UNCHANGED out
  BY DEF ReadLine
<1>2. /\ stream \in Streams \cup {<< >>} /\ read \in 0..Len(stream)
      /\ out \in Seq(Answers)
      /\ Len(out) = Len(before) /\ Answering(out, before)
  BY <1>1, AnswersInOrderIs DEF WorkerInv
<1>3. Len(stream) \in Nat /\ \A k \in 1..Len(stream) : stream[k] \in Lines
  BY <1>2, StreamTyped
<1>4. /\ read + 1 \in 1..Len(stream) /\ (read + 1) - 1 = read
      /\ line \in Lines
  BY <1>1, <1>2, <1>3
<1>5. /\ before \in Seq(Lines)
      /\ after = IF line.kind = "blank" THEN before ELSE Append(before, line)
  BY <1>2, <1>4, AskedNext
<1>6. IF line.kind = "job" THEN line.feature \in DOMAIN Features \cup {NoFeature}
      ELSE line.id = NoID
  BY <1>4, LineKinds
<1>7. AnswersInOrder' <=>
        /\ Len(out') = Len(after) - (IF evaluating' THEN 1 ELSE 0)
        /\ Answering(out', after)
  BY <1>1 DEF AnswersInOrder, Answering, Asked
<1> HIDE DEF line, before, after
<1>8. /\ Len(before) \in Nat /\ Append(before, line) \in Seq(Lines)
      /\ Len(Append(before, line)) = Len(before) + 1
      /\ Append(before, line)[Len(before) + 1] = line
      /\ Answering(out, Append(before, line))
  BY <1>2, <1>4, <1>5, LenProperties, AppendProperties, StillAnswering
<1>9. SUFFICES /\ out' \in Seq(Answers)
               /\ AnswersInOrder'
               /\ evaluating' => Evaluable(line)
               /\ left' # left => evaluating' /\ left' \in Seq(Place)
  <2>1. read' \in 0..Len(stream) /\ read' > 0
    BY <1>1, <1>2, <1>4
  <2>2. evaluating' => Evaluable(line) /\ line = stream[read'] /\ stream' = stream
    BY <1>1, <1>9 DEF line
  <2> QED
    BY <1>1, <1>2, <1>9, <2>1, <2>2 DEF WorkerInv, Evaluable
<1>10. CASE line.kind = "blank" /\ UNCHANGED <<left, evaluating, out>>
  BY <1>1, <1>2, <1>5, <1>7, <1>8, <1>10
<1>11. CASE line.kind # "blank" /\ ~Evaluable(line)
              /\ NotEvaluated(line) /\ UNCHANGED <<left, evaluating>>
  <2> DEFINE id == IF line.kind = "job" THEN line.id ELSE NoID
             answer == [id |-> id, outcome |-> "infrastructure_error"]
  <2>1. out' = Append(out, answer)
    BY <1>11 DEF NotEvaluated, Answer
  <2>2. answer \in Answers /\ answer.id = line.id
          /\ answer.outcome = "infrastructure_error"
    BY <1>4, <1>6 DEF Answers
  <2> HIDE DEF answer
  <2>3. /\ out' \in Seq(Answers)
        /\ Len(out') = Len(Append(before, line))
        /\ Answering(out', Append(before, line))
    BY <1>2, <1>8, <1>11, <2>1, <2>2, OneMoreAnswer
  <2> QED
    BY <1>1, <1>2, <1>5, <1>7, <1>8, <1>11, <2>3
<1>12. CASE Evaluable(line) /\ left' = Executions(line.feature) /\ evaluating' = TRUE
              /\ UNCHANGED out
  <2>1. line.kind # "blank" /\ line.feature \in DOMAIN Features
    BY <1>6, <1>12 DEF Evaluable
  <2>2. left' \in Seq(Place)
    BY <1>12, <2>1, ExecutionsPlaces
  <2> QED
    BY <1>2, <1>5, <1>7, <1>8, <1>12, <2>1, <2>2
<1> QED
  BY <1>1, <1>10, <1>11, <1>12

LEMMA EvaluatedEffect ==
  ASSUME WorkerInv, Evaluated
  PROVE  WorkerInv'
<1> DEFINE line == stream[read]
           asked == Asked(1..read)
           answer == [id |-> line.id,
                      outcome |-> IF failed # << >> THEN "test_failure"
                                  ELSE "test_success"]
<1>1. /\ evaluating /\ ~evaluating'
      /\ out' = Append(out, answer)
      /\ stream' = stream /\ read' = read /\ phase' = phase
  BY DEF Evaluated, Answer
<1>2. /\ stream \in Streams \cup {<< >>} /\ read \in 0..Len(stream) /\ read > 0
      /\ out \in Seq(Answers) /\ Evaluable(line) /\ phase = "serve"
      /\ Len(out) = Len(asked) - 1 /\ Answering(out, asked)
  BY <1>1, AnswersInOrderIs DEF WorkerInv
<1>3. Len(stream) \in Nat /\ \A k \in 1..Len(stream) : stream[k] \in Lines
  BY <1>2, StreamTyped
<1>4. read \in 1..Len(stream) /\ line \in Lines
  BY <1>2, <1>3
<1>5. /\ Asked(1..(read - 1)) \in Seq(Lines)
      /\ asked = Append(Asked(1..(read - 1)), line)
  <2>1. line.kind # "blank"
    BY <1>2 DEF Evaluable
  <2> QED
    BY <1>2, <1>4, <2>1, AskedNext
<1>6. /\ asked \in Seq(Lines) /\ Len(asked) \in Nat
      /\ asked[Len(asked)] = line
  BY <1>4, <1>5, AppendProperties, LenProperties
<1>7. AnswersInOrder' <=>
        /\ Len(out') = Len(asked) - (IF evaluating' THEN 1 ELSE 0)
        /\ Answering(out', asked)
  BY <1>1 DEF AnswersInOrder, Answering, Asked
<1>8. /\ answer \in Answers /\ answer.id = line.id
      /\ answer.outcome # "infrastructure_error"
  BY <1>4 DEF Answers
<1> HIDE DEF line, asked, answer
<1>9. Len(asked) = Len(out) + 1
  BY <1>2, <1>6, LenProperties
<1>10. /\ out' \in Seq(Answers) /\ Len(out') = Len(asked)
       /\ Answering(out', asked)
  BY <1>1, <1>2, <1>6, <1>8, <1>9, OneMoreAnswer
<1>11. AnswersInOrder'
  BY <1>1, <1>6, <1>7, <1>10
<1> QED
  BY <1>1, <1>2, <1>10, <1>11 DEF WorkerInv

\* A worker that starts or ends has answered nothing.
LEMMA NothingAnswered ==
  ASSUME stream' \in Streams \cup {<< >>}, read' = 0, out' = << >>, ~evaluating'
  PROVE  read' \in 0..Len(stream') /\ out' \in Seq(Answers) /\ AnswersInOrder'
<1> DEFINE lines == stream'
           positions == {k \in 1..0 : lines[k].kind # "blank"}
<1>1. \E S : lines \in Seq(S)
  <2>1. lines \in Streams => lines \in Seq(Range(lines))
    BY AcceptanceAssumption
  <2>2. lines = << >> => lines \in Seq({})
    OBVIOUS
  <2> QED
    BY <2>1, <2>2
<1>2. positions = {}
  OBVIOUS
<1>3. Subsequence(lines, positions) = << >>
  BY <1>1, <1>2, SubsequenceEmpty
<1>4. Asked(1..read)' = << >>
  BY <1>3 DEF Asked
<1>5. Len(out') = 0 /\ DOMAIN out' = {} /\ out' \in Seq(Answers)
  OBVIOUS
<1>6. AnswersInOrder'
  <2>1. Len(Asked(1..read)') = 0
    BY <1>4
  <2> QED
    BY <1>5, <2>1 DEF AnswersInOrder
<1>7. Len(lines) \in Nat
  BY <1>1, LenProperties
<1> QED
  BY <1>5, <1>6, <1>7

-----------------------------------------------------------------------------
(* The steps of the script. *)

LEMMA StartStep ==
  ASSUME AInv, NEW d \in Dirs, Start(d)
  PROVE  AInv'
<1>1. /\ phase = "idle" /\ dir' = d /\ gen' = {} /\ meta' = {}
      /\ todo' = InFileOrder(d)
      /\ exit' = IF d = {} THEN 1 ELSE -1
      /\ phase' = IF d = {} THEN "idle" ELSE "generate"
      /\ passed' = << >> /\ failed' = << >>
      /\ left' = left /\ execution' = execution /\ UNCHANGED worker
  BY Zenon DEF Start, Clean, current
<1>2. evaluating' = evaluating
  BY <1>1, Zenon DEF worker
<1>3. /\ left = << >> /\ execution = NoExecution /\ ~evaluating
      /\ left \in Seq(Place)
  BY <1>1 DEF AInv, ScriptInv, OnlyThen, RunnerTyped, Ran
<1>4. RunnerTyped' /\ OnlyThen'
  <2>1. << >> \in Seq(Place)
    BY EmptySeq
  <2> QED
    BY <1>1, <1>2, <1>3, <2>1 DEF RunnerTyped, OnlyThen, Ran
<1>5. Generating'
  BY <1>1, InFileOrderOf DEF Generating
<1>6. ScriptInv'
  BY <1>1, <1>4, <1>5 DEF ScriptInv, Running, ExitMeansAllPassed
<1>7. WorkerInv'
  BY <1>1, WorkerUnchanged DEF AInv
<1> QED
  BY <1>6, <1>7 DEF AInv

LEMMA ParseAndGenerateStep ==
  ASSUME AInv, ParseAndGenerate
  PROVE  AInv'
<1>1. /\ phase = "generate" /\ todo # << >>
      /\ \/ /\ gen' = gen \cup {Head(todo)}
            /\ meta' = meta \cup {Head(todo)}
            /\ todo' = Tail(todo)
            /\ UNCHANGED <<exit, phase>>
         \/ exit' = 1 /\ phase' = "idle"
      /\ dir' = dir /\ left' = left /\ execution' = execution
      /\ passed' = passed /\ failed' = failed
      /\ UNCHANGED worker
  BY Zenon DEF ParseAndGenerate, Abort, runner, current
<1>2. evaluating' = evaluating
  BY <1>1, Zenon DEF worker
<1>3. RunnerTyped /\ OnlyThen /\ Generating /\ WorkerInv
  BY DEF AInv, ScriptInv
<1>4. RunnerTyped' /\ OnlyThen'
  BY <1>1, <1>2, <1>3 DEF RunnerTyped, OnlyThen, Ran
<1>5. Generating'
  <2>1. CASE exit' = 1 /\ phase' = "idle"
    BY <2>1 DEF Generating
  <2>2. CASE /\ gen' = gen \cup {Head(todo)}
             /\ meta' = meta \cup {Head(todo)}
             /\ todo' = Tail(todo)
    <3>1. /\ dir \in Dirs /\ dir # {} /\ gen = meta
          /\ todo \in Seq(Range(InOrder)) /\ gen \cup Range(todo) = dir
          /\ passed = << >> /\ failed = << >>
      BY <1>1, <1>3 DEF Generating
    <3>2. Tail(todo) \in Seq(Range(InOrder))
      BY <1>1, <3>1, HeadTailProperties
    <3>3. Range(todo) = {Head(todo)} \cup Range(Tail(todo))
      BY <1>1, <3>1, RangeHeadTail
    <3> HIDE DEF Generating
    <3> QED
      BY <1>1, <2>2, <3>1, <3>2, <3>3 DEF Generating
  <2> QED
    BY <1>1, <2>1, <2>2
<1>6. ScriptInv'
  BY <1>1, <1>4, <1>5 DEF ScriptInv, Running, ExitMeansAllPassed
<1>7. WorkerInv'
  BY <1>1, <1>3, WorkerUnchanged
<1> QED
  BY <1>6, <1>7 DEF AInv

LEMMA StartRunStep ==
  ASSUME AInv, StartRun
  PROVE  AInv'
<1>1. /\ phase = "generate" /\ todo = << >>
      /\ \/ exit' = 1 /\ phase' = "idle" /\ left' = left
         \/ left' = AllExecutions(InFileOrder(gen)) /\ phase' = "run"
      /\ dir' = dir /\ gen' = gen /\ meta' = meta /\ execution' = execution
      /\ passed' = passed /\ failed' = failed
      /\ UNCHANGED worker
  BY Zenon DEF StartRun, Abort, current
<1>2. evaluating' = evaluating
  BY <1>1, Zenon DEF worker
<1>3. RunnerTyped /\ OnlyThen /\ Generating /\ WorkerInv
  BY DEF AInv, ScriptInv
<1>4. /\ dir \in Dirs /\ dir # {} /\ gen = meta /\ gen = dir
      /\ passed = << >> /\ failed = << >>
      /\ execution = NoExecution /\ left = << >> /\ ~evaluating
  <2>1. Range(<< >>) = {}
    BY DEF Range
  <2> QED
    BY <1>1, <1>3, <2>1 DEF Generating, OnlyThen, Ran
<1>5. AllExecutions(InFileOrder(dir)) \in Seq(Place)
  BY <1>4, InFileOrderOf, AllExecutionsPlaces
<1>6. RunnerTyped'
  BY <1>1, <1>3, <1>4, <1>5 DEF RunnerTyped
<1>7. OnlyThen' /\ Generating'
  BY <1>1, <1>2, <1>4 DEF OnlyThen, Ran, Generating
<1>8. Running'
  <2>1. CASE phase' = "idle"
    BY <2>1 DEF Running
  <2>2. CASE left' = AllExecutions(InFileOrder(gen))
    <3>1. Executing' = << >> /\ passed' = << >>
      BY <1>1, <1>4 DEF Executing
    <3>2. (<< >> \o << >>) \o left' = left'
      BY <1>4, <1>5, <2>2, EmptySeq, ConcatEmptySeq
    <3> QED
      BY <1>1, <1>4, <2>2, <3>1, <3>2 DEF Running
  <2> QED
    BY <1>1, <2>1, <2>2
<1>9. ScriptInv'
  BY <1>1, <1>6, <1>7, <1>8 DEF ScriptInv, ExitMeansAllPassed
<1>10. WorkerInv'
  BY <1>1, <1>3, WorkerUnchanged
<1> QED
  BY <1>9, <1>10 DEF AInv

LEMMA RunStep ==
  ASSUME AInv, Run
  PROVE  AInv'
<1>1. /\ phase = "run" \/ evaluating
      /\ dir' = dir /\ todo' = todo /\ gen' = gen /\ meta' = meta /\ exit' = exit
      /\ phase' = phase /\ UNCHANGED worker
  BY Zenon DEF Run, script
<1>2. evaluating' = evaluating
  BY <1>1, Zenon DEF worker
<1>3. RunnerTyped /\ OnlyThen /\ Running /\ WorkerInv /\ (phase = "serve" => exit = -1)
  BY DEF AInv, ScriptInv
<1>4. /\ RunnerTyped'
      /\ failed' = << >> =>
           /\ failed = << >>
           /\ (passed' \o Executing') \o left' = (passed \o Executing) \o left
  BY <1>3, RunEffect
<1>5. phase' \in {"run", "serve"} /\ OnlyThen'
  BY <1>1, <1>2, <1>3 DEF OnlyThen
<1>6. Running'
  BY <1>1, <1>3, <1>4 DEF Running
<1>7. ScriptInv'
  BY <1>1, <1>3, <1>4, <1>5, <1>6 DEF ScriptInv, Generating, ExitMeansAllPassed
<1>8. WorkerInv'
  BY <1>1, <1>3, WorkerUnchanged
<1> QED
  BY <1>7, <1>8 DEF AInv

LEMMA ConcludeStep ==
  ASSUME AInv, Conclude
  PROVE  AInv'
<1>1. /\ phase = "run" /\ execution = NoExecution /\ left = << >>
      /\ exit' = IF failed = << >> THEN 0 ELSE 1
      /\ phase' = "idle" /\ dir' = dir /\ meta' = meta
      /\ execution' = execution /\ left' = left
      /\ passed' = passed /\ failed' = failed
      /\ UNCHANGED worker
  BY Zenon DEF Conclude, Ran, runner, current
<1>2. evaluating' = evaluating
  BY <1>1, Zenon DEF worker
<1>3. RunnerTyped /\ OnlyThen /\ Running /\ WorkerInv
  BY DEF AInv, ScriptInv
<1>4. RunnerTyped' /\ OnlyThen' /\ Generating' /\ Running'
  BY <1>1, <1>2, <1>3 DEF RunnerTyped, OnlyThen, Ran, Generating, Running
<1>5. failed = << >> => passed = AllExecutions(InFileOrder(dir))
  <2>1. passed \in Seq(Place) /\ Executing = << >>
    BY <1>1, <1>3 DEF RunnerTyped, Executing
  <2>2. (passed \o << >>) \o << >> = passed
    BY <2>1, ConcatEmptySeq
  <2> QED
    BY <1>1, <1>3, <2>1, <2>2 DEF Running
<1>6. ExitMeansAllPassed'
  BY <1>1, <1>3, <1>5 DEF ExitMeansAllPassed, Running
<1>7. ScriptInv'
  BY <1>1, <1>4, <1>6 DEF ScriptInv
<1>8. WorkerInv'
  BY <1>1, <1>3, WorkerUnchanged
<1> QED
  BY <1>7, <1>8 DEF AInv

-----------------------------------------------------------------------------
(* The steps of the worker. *)

LEMMA StartWorkerStep ==
  ASSUME AInv, NEW lines \in Streams, StartWorker(lines)
  PROVE  AInv'
<1>1. /\ phase = "idle" /\ exit = -1 /\ stream' = lines /\ phase' = "serve"
      /\ passed' = << >> /\ failed' = << >> /\ exit' = exit
      /\ left' = left /\ execution' = execution
      /\ read' = read /\ evaluating' = evaluating /\ out' = out
  BY Zenon DEF StartWorker, script, current
<1>2. /\ left = << >> /\ execution = NoExecution /\ ~evaluating
      /\ RunnerTyped /\ read = 0 /\ out = << >>
  BY <1>1 DEF AInv, ScriptInv, OnlyThen, Ran, WorkerInv
<1>3. RunnerTyped' /\ OnlyThen'
  <2>1. << >> \in Seq(Place)
    BY EmptySeq
  <2> QED
    BY <1>1, <1>2, <2>1 DEF RunnerTyped, OnlyThen, Ran
<1>4. ScriptInv'
  BY <1>1, <1>3 DEF ScriptInv, Generating, Running, ExitMeansAllPassed
<1>5. read' \in 0..Len(stream') /\ out' \in Seq(Answers) /\ AnswersInOrder'
  BY <1>1, <1>2, NothingAnswered
<1>6. WorkerInv'
  BY <1>1, <1>2, <1>5 DEF WorkerInv
<1> QED
  BY <1>4, <1>6 DEF AInv

LEMMA ReadLineStep ==
  ASSUME AInv, ReadLine
  PROVE  AInv'
<1>1. /\ phase = "serve" /\ ~evaluating /\ phase' = phase /\ exit' = exit
      /\ execution' = execution /\ passed' = passed /\ failed' = failed
  BY Zenon DEF ReadLine, script, current
<1>2. RunnerTyped /\ OnlyThen /\ WorkerInv /\ exit = -1
  BY <1>1 DEF AInv, ScriptInv
<1>3. WorkerInv' /\ (left' # left => evaluating' /\ left' \in Seq(Place))
  BY <1>2, ReadLineEffect
<1>4. RunnerTyped' /\ OnlyThen'
  BY <1>1, <1>2, <1>3 DEF RunnerTyped, OnlyThen, Ran
<1>5. ScriptInv'
  BY <1>1, <1>2, <1>4 DEF ScriptInv, Generating, Running, ExitMeansAllPassed
<1> QED
  BY <1>3, <1>5 DEF AInv

LEMMA EvaluatedStep ==
  ASSUME AInv, Evaluated
  PROVE  AInv'
<1>1. /\ evaluating /\ ~evaluating' /\ execution = NoExecution /\ left = << >>
      /\ phase' = phase /\ exit' = exit
      /\ execution' = execution /\ left' = left
      /\ passed' = << >> /\ failed' = << >>
  BY Zenon DEF Evaluated, Ran, script, current
<1>2. RunnerTyped /\ OnlyThen /\ WorkerInv /\ phase = "serve" /\ exit = -1
  BY <1>1 DEF AInv, ScriptInv, OnlyThen
<1>3. WorkerInv'
  BY <1>2, EvaluatedEffect
<1>4. RunnerTyped' /\ OnlyThen'
  <2>1. << >> \in Seq(Place)
    BY EmptySeq
  <2> QED
    BY <1>1, <1>2, <2>1 DEF RunnerTyped, OnlyThen, Ran
<1>5. ScriptInv'
  BY <1>1, <1>2, <1>4 DEF ScriptInv, Generating, Running, ExitMeansAllPassed
<1> QED
  BY <1>3, <1>5 DEF AInv

LEMMA EndOfInputStep ==
  ASSUME AInv, EndOfInput
  PROVE  AInv'
<1>1. /\ phase = "serve" /\ ~evaluating /\ evaluating' = evaluating
      /\ phase' = "idle" /\ exit' = exit
      /\ left' = left /\ execution' = execution
      /\ passed' = passed /\ failed' = failed
      /\ stream' = << >> /\ read' = 0 /\ out' = << >>
  BY Zenon DEF EndOfInput, script, runner, current
<1>2. RunnerTyped /\ OnlyThen /\ exit = -1
  BY <1>1 DEF AInv, ScriptInv
<1>3. RunnerTyped' /\ OnlyThen'
  BY <1>1, <1>2 DEF RunnerTyped, OnlyThen, Ran
<1>4. ScriptInv'
  BY <1>1, <1>2, <1>3 DEF ScriptInv, Generating, Running, ExitMeansAllPassed
<1>5. read' \in 0..Len(stream') /\ out' \in Seq(Answers) /\ AnswersInOrder'
  BY <1>1, NothingAnswered
<1>6. WorkerInv'
  BY <1>1, <1>5 DEF WorkerInv
<1> QED
  BY <1>4, <1>6 DEF AInv

-----------------------------------------------------------------------------
(* The invariant and what follows. *)

LEMMA AInvInit == AcceptanceInit => AInv
<1> SUFFICES ASSUME AcceptanceInit PROVE AInv
  OBVIOUS
<1>1. /\ exit = -1 /\ phase = "idle"
      /\ left = << >> /\ execution = NoExecution
      /\ passed = << >> /\ failed = << >>
      /\ stream = << >> /\ read = 0 /\ evaluating = FALSE /\ out = << >>
  BY Zenon DEF AcceptanceInit
<1>2. << >> \in Seq(Place) /\ << >> \in Seq(Answers) /\ Len(<< >>) = 0
  BY EmptySeq
<1>3. ScriptInv
  BY <1>1, <1>2
  DEF ScriptInv, RunnerTyped, OnlyThen, Ran, Generating, Running, ExitMeansAllPassed
<1>4. AnswersInOrder
  <2>1. {k \in 1..0 : stream[k].kind # "blank"} = {} /\ DOMAIN out = {}
    BY <1>1
  <2>2. Asked(1..read) = << >>
    BY <1>1, <1>2, <2>1, SubsequenceEmpty DEF Asked
  <2>3. Len(Asked(1..read)) = 0
    BY <2>2
  <2> QED
    BY <1>1, <2>1, <2>3 DEF AnswersInOrder
<1>5. WorkerInv
  BY <1>1, <1>2, <1>4 DEF WorkerInv
<1> QED
  BY <1>3, <1>5 DEF AInv

LEMMA AInvNext == AInv /\ [AcceptanceNext]_everything => AInv'
<1> SUFFICES ASSUME AInv, [AcceptanceNext]_everything PROVE AInv'
  OBVIOUS
<1>1. CASE UNCHANGED everything
  <2>1. /\ dir' = dir /\ todo' = todo /\ gen' = gen /\ meta' = meta
        /\ exit' = exit /\ phase' = phase
        /\ left' = left /\ execution' = execution
        /\ passed' = passed /\ failed' = failed /\ UNCHANGED worker
    BY <1>1, Zenon DEF everything, script, runner, current
  <2>2. evaluating' = evaluating
    BY <2>1, Zenon DEF worker
  <2>3. ScriptInv'
    BY <2>1, <2>2 DEF AInv, ScriptInv, RunnerTyped, OnlyThen, Ran, Generating, Running,
      Executing, ExitMeansAllPassed
  <2>4. WorkerInv'
    BY <2>1, WorkerUnchanged DEF AInv
  <2> QED
    BY <2>3, <2>4 DEF AInv
<1>2. ASSUME NEW d \in Dirs, Start(d)  PROVE AInv'
  BY <1>2, StartStep
<1>3. CASE ParseAndGenerate
  BY <1>3, ParseAndGenerateStep
<1>4. CASE StartRun
  BY <1>4, StartRunStep
<1>5. CASE Run
  BY <1>5, RunStep
<1>6. CASE Conclude
  BY <1>6, ConcludeStep
<1>7. ASSUME NEW lines \in Streams, StartWorker(lines)  PROVE AInv'
  BY <1>7, StartWorkerStep
<1>8. CASE ReadLine
  BY <1>8, ReadLineStep
<1>9. CASE Evaluated
  BY <1>9, EvaluatedStep
<1>10. CASE EndOfInput
  BY <1>10, EndOfInputStep
<1> QED
  BY <1>1, <1>2, <1>3, <1>4, <1>5, <1>6, <1>7, <1>8, <1>9, <1>10, Zenon
  DEF AcceptanceNext

\* Script and worker keep the invariant whatever the features are.
THEOREM AInvHolds == AcceptanceSpec => []AInv
<1>1. AcceptanceInit => AInv
  BY AInvInit
<1>2. AInv /\ [AcceptanceNext]_everything => AInv'
  BY AInvNext
<1> QED
  BY <1>1, <1>2, PTL DEF AcceptanceSpec

\* A script that ends with 0 has run every execution of every feature of the
\* directory, in order and none else, and left metadata for just these, whatever
\* the scripts before it left (scripts/acceptance.sh:25-29; main.go:17-29).
THEOREM ExitsMeanAllPassed == AcceptanceSpec => []ExitMeansAllPassed
<1>1. AInv => ExitMeansAllPassed
  BY DEF AInv, ScriptInv
<1> QED
  BY <1>1, AInvHolds, PTL

\* A worker answers the lines that are not blank one by one, in order, under their
\* ids, and says infrastructure_error of just those that are no job or name no IR
\* (acceptance/mutationrunner/runner.go:83-85).
THEOREM AnswersStayInOrder == AcceptanceSpec => []AnswersInOrder
<1>1. AInv => AnswersInOrder
  BY DEF AInv, WorkerInv
<1> QED
  BY <1>1, AInvHolds, PTL

-----------------------------------------------------------------------------
(* The world of an execution. *)

NewlyMade ==
  /\ store = << >> /\ nextID = 1 /\ err = OK
  /\ primed = [tasks |-> << >>, risks |-> << >>, estimates |-> << >>]
  /\ active = 0 /\ inline = "" /\ proposal = NoProposal /\ proposalErr = ""
  /\ ui = FALSE /\ wbsID = 0 /\ lastErr = OK /\ lastProposal = ZeroProposal

\* Between two executions nothing is there.
NothingLeft == execution = NoExecution => NewlyMade

LEMMA StillNew ==
  ASSUME NewlyMade, UNCHANGED system
  PROVE  NewlyMade'
BY Zenon DEF NewlyMade, system, service, session, world

LEMMA NewWorldIsNew ==
  ASSUME NewWorld
  PROVE  NewlyMade'
BY Zenon DEF NewWorld, NewService, NewSession, NewlyMade

LEMMA RunLeavesNothing ==
  ASSUME RunnerTyped, Run
  PROVE  NothingLeft'
<1>1. CASE Begin
  <2>1. left # << >> /\ execution' = Head(left)
    BY <1>1, Zenon DEF Begin, Begins
  <2>2. execution' \in Place
    BY <2>1, HeadTailProperties DEF RunnerTyped
  <2>3. execution' # NoExecution
    BY <2>2, AcceptanceAssumption
  <2> QED
    BY <2>3 DEF NothingLeft
<1>2. CASE RunSentence
  <2>1. (execution # NoExecution /\ execution' = execution) \/ NewWorld
    BY <1>2, Zenon DEF RunSentence, Over
  <2> QED
    BY <2>1, NewWorldIsNew, Zenon DEF NothingLeft
<1>3. CASE Pass
  BY <1>3, NewWorldIsNew, Zenon DEF Pass, Over, NothingLeft
<1> QED
  BY <1>1, <1>2, <1>3, Zenon DEF Run

LEMMA NothingLeftNext ==
  ASSUME AInv, NothingLeft, [AcceptanceNext]_everything
  PROVE  NothingLeft'
<1>1. CASE Run
  BY <1>1, RunLeavesNothing DEF AInv, ScriptInv
<1>2. CASE ~Run
  <2>1. UNCHANGED system /\ execution' = execution
    BY <1>2, Zenon DEF AcceptanceNext, Start, ParseAndGenerate, StartRun, Conclude,
      StartWorker, ReadLine, Evaluated, EndOfInput, everything, runner, current
  <2> QED
    BY <2>1, StillNew, Zenon DEF NothingLeft
<1> QED
  BY <1>1, <1>2

\* Every execution, of the script or of a worker and whatever became of those before
\* it, begins with a service, a session and a world newly made (run.go:83).
THEOREM ExecutionsBeginAnew ==
  AcceptanceSpec => [][execution' # execution /\ execution' # NoExecution
                         => NewlyMade]_everything
<1>1. AcceptanceInit => NothingLeft
  BY Zenon DEF AcceptanceInit, Init, NothingLeft, NewlyMade
<1>2. AInv /\ NothingLeft /\ [AcceptanceNext]_everything => NothingLeft'
  BY NothingLeftNext
<1>3. AInv /\ NothingLeft /\ [AcceptanceNext]_everything
        => (execution' # execution /\ execution' # NoExecution => NewlyMade)
  <2> SUFFICES ASSUME AInv, NothingLeft, [AcceptanceNext]_everything,
                      execution' # execution, execution' # NoExecution
               PROVE  execution = NoExecution
    BY Zenon DEF NothingLeft
  <2>1. CASE Run
    BY <2>1, Zenon DEF Run, Begin, RunSentence, Pass, Over
  <2>2. CASE ~Run
    BY <2>2, Zenon DEF AcceptanceNext, Start, ParseAndGenerate, StartRun, Conclude,
      StartWorker, ReadLine, Evaluated, EndOfInput, everything, runner, current
  <2> QED
    BY <2>1, <2>2
<1> QED
  BY <1>1, <1>2, <1>3, AInvHolds, PTL DEF AcceptanceSpec

=============================================================================
