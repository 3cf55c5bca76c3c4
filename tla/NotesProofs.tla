---------------------------- MODULE NotesProofs ----------------------------
(***************************************************************************)
(* Theorems about the risk notes and the texts of EstimationService: note  *)
(* ids are unique in their WBS and never handed out twice, and with live   *)
(* providers no blank or untrimmed text is stored.                         *)
(*                                                                         *)
(* For each method one asks where the notes of the result come from: each  *)
(* is a note the same task had before, or has an id the counter gave.      *)
(***************************************************************************)
EXTENDS EstimationServiceProofs

-----------------------------------------------------------------------------
(* The properties of one WBS. *)

\* Note ids are below the counter and name one place.
UniqueNotes(w) ==
  /\ \A i \in 1..Len(w.tasks) : \A k \in 1..NoteCount(w, i) :
       NoteID(w, i, k) < w.nextNote
  /\ \A i, j \in 1..Len(w.tasks) :
       \A k \in 1..NoteCount(w, i), l \in 1..NoteCount(w, j) :
         NoteID(w, i, k) = NoteID(w, j, l) => i = j /\ k = l

\* Every note of v has an id the counter gave in between, or w has it at the same task.
NotesFrom(w, v) ==
  \A i \in 1..Len(v.tasks) : \A k \in 1..NoteCount(v, i) :
    \/ NoteID(v, i, k) \in w.nextNote..(v.nextNote - 1)
    \/ \E j \in 1..Len(w.tasks) : \E l \in 1..NoteCount(w, j) :
         /\ v.tasks[i].id = w.tasks[j].id
         /\ NoteID(v, i, k) = NoteID(w, j, l)

\* Every text of v is clean, or w has it in the same place or another.
TextsFrom(w, v) ==
  \A i \in 1..Len(v.tasks) :
    /\ \/ CleanText(v.tasks[i].description)
       \/ \E j \in 1..Len(w.tasks) : v.tasks[i].description = w.tasks[j].description
    /\ \A k \in 1..NoteCount(v, i) :
         \/ CleanText(NoteText(v, i, k))
         \/ \E j \in 1..Len(w.tasks) : \E l \in 1..NoteCount(w, j) :
              NoteText(v, i, k) = NoteText(w, j, l)

CleanTexts(w) ==
  \A i \in 1..Len(w.tasks) :
    /\ CleanText(w.tasks[i].description)
    /\ \A k \in 1..NoteCount(w, i) :
         CleanText(NoteText(w, i, k))

LEMMA CleanFrom ==
  ASSUME NEW w, NEW v, CleanTexts(w), TextsFrom(w, v)
  PROVE  CleanTexts(v)
BY DEF CleanTexts, TextsFrom

\* What a method keeps.
Carries(w, v) == UniqueNotes(v) /\ NotesFrom(w, v) /\ (Mock \/ TextsFrom(w, v))

LEMMA NoteTypes ==
  ASSUME NEW w \in WBSType
  PROVE  /\ DOMAIN w.tasks = 1..Len(w.tasks) /\ Len(w.tasks) \in Nat /\ w.nextNote \in Nat
         /\ \A i \in 1..Len(w.tasks) :
              /\ w.tasks[i] \in Task
              /\ w.tasks[i].riskNotes \in Seq(RiskNote)
              /\ DOMAIN w.tasks[i].riskNotes = 1..NoteCount(w, i)
              /\ NoteCount(w, i) \in Nat
              /\ \A k \in 1..NoteCount(w, i) : NoteID(w, i, k) \in Nat
<1>1. DOMAIN w.tasks = 1..Len(w.tasks) /\ Len(w.tasks) \in Nat /\ w.nextNote \in Nat
  BY LenProperties DEF WBSType
<1>2. ASSUME NEW i \in 1..Len(w.tasks)
      PROVE  w.tasks[i] \in Task /\ w.tasks[i].riskNotes \in Seq(RiskNote)
  <2>1. w.tasks[i] \in Task
    BY ElementOfSeq DEF WBSType
  <2> QED
    BY <2>1 DEF Task
<1>3. \A s \in Seq(RiskNote) :
        /\ DOMAIN s = 1..Len(s) /\ Len(s) \in Nat
        /\ \A k \in 1..Len(s) : s[k].id \in Nat
  <2>1. \A s \in Seq(RiskNote) : \A k \in 1..Len(s) : s[k] \in RiskNote
    BY ElementOfSeq
  <2>2. \A t \in RiskNote : t.id \in Nat
    BY DEF RiskNote
  <2> QED
    BY <2>1, <2>2, LenProperties
<1> QED
  BY <1>1, <1>2, <1>3 DEF NoteCount, NoteID

\* v has the tasks of w with their notes, but for task n, whose notes are the given.
OtherNotesAt(w, v, n, notes) ==
  /\ Len(v.tasks) = Len(w.tasks)
  /\ \A i \in 1..Len(w.tasks) : /\ v.tasks[i].id = w.tasks[i].id
                               /\ v.tasks[i].description = w.tasks[i].description
  /\ \A i \in 1..Len(w.tasks) :
       i # n => /\ NoteCount(v, i) = NoteCount(w, i)
                /\ \A k : /\ NoteID(v, i, k) = NoteID(w, i, k)
                          /\ NoteText(v, i, k) = NoteText(w, i, k)
  /\ NoteCount(v, n) = Len(notes)
  /\ \A k : NoteID(v, n, k) = notes[k].id /\ NoteText(v, n, k) = notes[k].description

LEMMA OneTaskNotes ==
  ASSUME NEW w \in WBSType, NEW v, NEW n \in 1..Len(w.tasks), NEW notes,
         OneReplaced(w, v, n, WithNotes(w.tasks[n], notes))
  PROVE  OtherNotesAt(w, v, n, notes)
<1>1. w.tasks[n] \in Task
  BY NoteTypes
<1>2. /\ Len(v.tasks) = Len(w.tasks)
      /\ v.tasks[n] = WithNotes(w.tasks[n], notes)
      /\ \A i \in 1..Len(w.tasks) : i # n => v.tasks[i] = w.tasks[i]
  BY DEF OneReplaced
<1>3. /\ v.tasks[n].id = w.tasks[n].id
      /\ v.tasks[n].description = w.tasks[n].description
      /\ v.tasks[n].riskNotes = notes
  BY <1>1, <1>2, WithFields
<1> QED
  BY <1>2, <1>3 DEF OtherNotesAt, NoteCount, NoteID, NoteText

-----------------------------------------------------------------------------
(* The ways in which the methods treat notes. *)

\* The tasks stay in their places with their notes, though some may be reworded.
LEMMA NotesStay ==
  ASSUME NEW w \in WBSType, NEW v \in WBSType, UniqueNotes(w),
         Len(v.tasks) = Len(w.tasks), v.nextNote = w.nextNote,
         \A i \in 1..Len(w.tasks) :
           /\ v.tasks[i].id = w.tasks[i].id
           /\ CleanText(v.tasks[i].description)
                \/ v.tasks[i].description = w.tasks[i].description
           /\ NoteCount(v, i) = NoteCount(w, i)
           /\ \A k \in 1..NoteCount(w, i) :
                /\ NoteID(v, i, k) = NoteID(w, i, k)
                /\ CleanText(NoteText(v, i, k)) \/ NoteText(v, i, k) = NoteText(w, i, k)
  PROVE  Carries(w, v)
<1>1. UniqueNotes(v)
  BY DEF UniqueNotes
<1>2. NotesFrom(w, v)
  BY DEF NotesFrom
<1>3. TextsFrom(w, v)
  BY DEF TextsFrom
<1> QED
  BY <1>1, <1>2, <1>3 DEF Carries

LEMMA AddTaskNotes ==
  ASSUME NEW w \in WBSType, NEW v \in WBSType, UniqueNotes(w),
         NEW d \in Text, Trim[d] # Blank, v = AddTask(w, d)
  PROVE  Carries(w, v)
<1> DEFINE n == Len(w.tasks)
<1>1. /\ n \in Nat /\ Len(v.tasks) = n + 1 /\ v.nextNote = w.nextNote
      /\ \A i \in 1..n : v.tasks[i] = w.tasks[i]
      /\ v.tasks[n + 1] = NewTask(w.nextSeq, Trim[d])
  <2>1. Len(w.tasks) \in Nat
    BY NoteTypes
  <2>2. Len(v.tasks) = Len(w.tasks) + 1 /\ v.nextNote = w.nextNote
    BY AddTaskEffect
  <2>3. v.tasks[Len(w.tasks) + 1] = NewTask(w.nextSeq, Trim[d])
    BY AddTaskEffect
  <2>4. ASSUME NEW i \in 1..Len(w.tasks)
        PROVE  v.tasks[i] = w.tasks[i]
    BY AddTaskEffect
  <2> QED
    BY <2>1, <2>2, <2>3, <2>4
<1>2. v.tasks[n + 1].riskNotes = << >> /\ v.tasks[n + 1].description = Trim[d]
  BY <1>1 DEF NewTask
<1>3. CleanText(Trim[d])
  BY TextAssumption DEF CleanText
<1>4. \A i \in 1..n : /\ NoteCount(v, i) = NoteCount(w, i)
                      /\ \A k : /\ NoteID(v, i, k) = NoteID(w, i, k)
                                /\ NoteText(v, i, k) = NoteText(w, i, k)
  BY <1>1 DEF NoteCount, NoteID, NoteText
<1>5. NoteCount(v, n + 1) = 0
  BY <1>2, EmptySeq DEF NoteCount
<1>6. \A i \in 1..Len(v.tasks) : i \in 1..n \/ i = n + 1
  BY <1>1
<1> HIDE DEF n
<1>7. \A i \in 1..Len(v.tasks) : \A k \in 1..NoteCount(v, i) : i \in 1..n
  BY <1>5, <1>6
<1>8. UniqueNotes(v)
  BY <1>1, <1>4, <1>7 DEF UniqueNotes, n
<1>9. NotesFrom(w, v)
  BY <1>1, <1>4, <1>7 DEF NotesFrom, n
<1>10. TextsFrom(w, v)
  BY <1>1, <1>2, <1>3, <1>4, <1>6, <1>7 DEF TextsFrom, n
<1> QED
  BY <1>8, <1>9, <1>10 DEF Carries

LEMMA DeleteTaskNotes ==
  ASSUME NEW w \in WBSType, NEW v \in WBSType, UniqueNotes(w),
         NEW n \in 1..Len(w.tasks), v = DeleteTask(w, n)
  PROVE  Carries(w, v)
<1> DEFINE Old(j) == IF j < n THEN j ELSE j + 1
<1>1. /\ Len(w.tasks) \in Nat /\ Len(v.tasks) = Len(w.tasks) - 1
      /\ v.nextNote = w.nextNote
      /\ \A j \in 1..(Len(w.tasks) - 1) :
           v.tasks[j] = IF j < n THEN w.tasks[j] ELSE w.tasks[j + 1]
  BY DeleteTaskEffect, NoteTypes DEF SameCounters
<1>2. \A j \in 1..Len(v.tasks) : Old(j) \in 1..Len(w.tasks) /\ v.tasks[j] = w.tasks[Old(j)]
  BY <1>1
<1>3. \A i, j \in 1..Len(v.tasks) : Old(i) = Old(j) => i = j
  BY <1>1
<1> HIDE DEF Old
<1>4. \A j \in 1..Len(v.tasks) :
        /\ NoteCount(v, j) = NoteCount(w, Old(j))
        /\ \A k : /\ NoteID(v, j, k) = NoteID(w, Old(j), k)
                  /\ NoteText(v, j, k) = NoteText(w, Old(j), k)
  BY <1>2 DEF NoteCount, NoteID, NoteText
<1>5. UniqueNotes(v)
  <2>1. \A i \in 1..Len(v.tasks) : \A k \in 1..NoteCount(v, i) : NoteID(v, i, k) < v.nextNote
    BY <1>1, <1>2, <1>4 DEF UniqueNotes
  <2>2. ASSUME NEW i \in 1..Len(v.tasks), NEW j \in 1..Len(v.tasks),
               NEW k \in 1..NoteCount(v, i), NEW l \in 1..NoteCount(v, j),
               NoteID(v, i, k) = NoteID(v, j, l)
        PROVE  i = j /\ k = l
    <3>1. Old(i) = Old(j) /\ k = l
      BY <1>2, <1>4, <2>2 DEF UniqueNotes
    <3> QED
      BY <1>3, <3>1
  <2> QED
    BY <2>1, <2>2 DEF UniqueNotes
<1>6. NotesFrom(w, v)
  BY <1>2, <1>4 DEF NotesFrom
<1>7. TextsFrom(w, v)
  BY <1>2, <1>4 DEF TextsFrom
<1> QED
  BY <1>5, <1>6, <1>7 DEF Carries

LEMMA AddRiskNoteNotes ==
  ASSUME NEW w \in WBSType, NEW v \in WBSType, UniqueNotes(w), NEW n \in 1..Len(w.tasks),
         NEW d \in Text, Trim[d] # Blank, v = AddRiskNote(w, n, d)
  PROVE  Carries(w, v)
<1> DEFINE old  == w.tasks[n].riskNotes
           note == [id |-> w.nextNote, description |-> Trim[d]]
           new  == Append(old, note)
           m    == NoteCount(w, n)
           IsNew(i, k) == i = n /\ k = m + 1
<1>1. /\ old \in Seq(RiskNote) /\ m = Len(old) /\ m \in Nat /\ w.nextNote \in Nat
      /\ \A i \in 1..Len(w.tasks) : \A k \in 1..NoteCount(w, i) : NoteID(w, i, k) \in Nat
  BY NoteTypes DEF NoteCount
<1>2. note \in RiskNote /\ note.id = w.nextNote /\ CleanText(note.description)
  BY <1>1, TextAssumption DEF RiskNote, CleanText
<1>3. OneReplaced(w, v, n, WithNotes(w.tasks[n], new)) /\ v.nextNote = w.nextNote + 1
  BY AddRiskNoteEffect
<1> HIDE DEF note
<1>4. /\ Len(new) = m + 1
      /\ \A k \in 1..m : new[k] = old[k]
      /\ new[m + 1] = note
  BY <1>1, <1>2, AppendProperties
<1> HIDE DEF new
<1>5. /\ Len(v.tasks) = Len(w.tasks)
      /\ \A i \in 1..Len(w.tasks) : /\ v.tasks[i].id = w.tasks[i].id
                                   /\ v.tasks[i].description = w.tasks[i].description
      /\ \A i \in 1..Len(w.tasks) :
           i # n => /\ NoteCount(v, i) = NoteCount(w, i)
                    /\ \A k : /\ NoteID(v, i, k) = NoteID(w, i, k)
                              /\ NoteText(v, i, k) = NoteText(w, i, k)
      /\ NoteCount(v, n) = m + 1
      /\ \A k : NoteID(v, n, k) = new[k].id /\ NoteText(v, n, k) = new[k].description
  <2>1. OtherNotesAt(w, v, n, new)
    BY <1>3, OneTaskNotes
  <2> QED
    BY <1>4, <2>1 DEF OtherNotesAt
<1>6. \A k \in 1..m : /\ NoteID(w, n, k) = new[k].id
                      /\ NoteText(w, n, k) = new[k].description
  BY <1>4 DEF NoteID, NoteText
<1> HIDE DEF m, old
<1>7. \A i \in 1..Len(w.tasks) : \A k \in 1..NoteCount(v, i) :
        ~IsNew(i, k) => /\ k \in 1..NoteCount(w, i)
                        /\ NoteID(v, i, k) = NoteID(w, i, k)
                        /\ NoteText(v, i, k) = NoteText(w, i, k)
  <2>1. ASSUME NEW k \in 1..(m + 1), k # m + 1
        PROVE  k \in 1..m
    BY <1>1, <2>1
  <2>2. m = NoteCount(w, n)
    BY DEF m
  <2> QED
    BY <1>5, <1>6, <2>1, <2>2
<1>8. NoteID(v, n, m + 1) = w.nextNote /\ CleanText(NoteText(v, n, m + 1))
  BY <1>2, <1>4, <1>5
<1>9. \A i \in 1..Len(w.tasks) : \A k \in 1..NoteCount(v, i) :
        ~IsNew(i, k) => NoteID(v, i, k) \in Nat /\ NoteID(v, i, k) < w.nextNote
  BY <1>1, <1>7 DEF UniqueNotes
<1>10. \A i \in 1..Len(w.tasks) : \A k : IsNew(i, k) => NoteID(v, i, k) = w.nextNote
  BY <1>8
<1>11. UniqueNotes(v)
  <2>1. \A i \in 1..Len(w.tasks) : \A k \in 1..NoteCount(v, i) :
          NoteID(v, i, k) < v.nextNote
    BY <1>1, <1>3, <1>9, <1>10
  <2>2. ASSUME NEW i \in 1..Len(w.tasks), NEW j \in 1..Len(w.tasks),
               NEW k \in 1..NoteCount(v, i), NEW l \in 1..NoteCount(v, j),
               NoteID(v, i, k) = NoteID(v, j, l)
        PROVE  i = j /\ k = l
    <3>1. IsNew(i, k) <=> IsNew(j, l)
      BY <1>1, <1>9, <1>10, <2>2
    <3>2. CASE IsNew(i, k)
      BY <3>1, <3>2
    <3>3. CASE ~IsNew(i, k)
      <4>1. /\ k \in 1..NoteCount(w, i) /\ l \in 1..NoteCount(w, j)
            /\ NoteID(w, i, k) = NoteID(w, j, l)
        BY <1>7, <2>2, <3>1, <3>3
      <4> QED
        BY <4>1 DEF UniqueNotes
    <3> QED
      BY <3>2, <3>3
  <2> QED
    BY <1>5, <2>1, <2>2 DEF UniqueNotes
<1>12. NotesFrom(w, v)
  <2>1. w.nextNote \in w.nextNote..(v.nextNote - 1)
    BY <1>1, <1>3
  <2> QED
    BY <1>5, <1>7, <1>10, <2>1 DEF NotesFrom
<1>13. TextsFrom(w, v)
  BY <1>5, <1>7, <1>8 DEF TextsFrom
<1> QED
  BY <1>11, <1>12, <1>13 DEF Carries

LEMMA EditRiskNoteNotes ==
  ASSUME NEW w \in WBSType, NEW v \in WBSType, UniqueNotes(w), NEW n \in 1..Len(w.tasks),
         NEW k \in 1..Len(w.tasks[n].riskNotes),
         NEW d \in Text, Trim[d] # Blank, v = EditRiskNote(w, n, k, d)
  PROVE  Carries(w, v)
<1> DEFINE old == w.tasks[n].riskNotes
           new == Reworded(old, k, d)
<1>1. /\ old \in Seq(RiskNote) /\ Len(old) \in Nat /\ DOMAIN old = 1..Len(old)
      /\ \A l \in 1..Len(old) : old[l] \in RiskNote
  BY NoteTypes, ElementOfSeq, LenProperties
<1>2. CleanText(Trim[d])
  BY TextAssumption DEF CleanText
<1>3. OneReplaced(w, v, n, WithNotes(w.tasks[n], new)) /\ v.nextNote = w.nextNote
  BY EditRiskNoteEffect DEF SameCounters
<1>4. new = [l \in 1..Len(old) |-> IF l = k THEN [old[k] EXCEPT !.description = Trim[d]]
                                   ELSE old[l]]
  BY <1>1 DEF Reworded
<1>5. Len(new) = Len(old)
  BY <1>1, <1>4
<1>6. \A l \in 1..Len(old) :
        /\ new[l].id = old[l].id
        /\ CleanText(new[l].description) \/ new[l].description = old[l].description
  BY <1>1, <1>2, <1>4 DEF RiskNote
<1> HIDE DEF new
<1>7. /\ Len(v.tasks) = Len(w.tasks)
      /\ \A i \in 1..Len(w.tasks) : /\ v.tasks[i].id = w.tasks[i].id
                                   /\ v.tasks[i].description = w.tasks[i].description
      /\ \A i \in 1..Len(w.tasks) :
           i # n => /\ NoteCount(v, i) = NoteCount(w, i)
                    /\ \A l : /\ NoteID(v, i, l) = NoteID(w, i, l)
                              /\ NoteText(v, i, l) = NoteText(w, i, l)
      /\ NoteCount(v, n) = Len(new)
      /\ \A l : NoteID(v, n, l) = new[l].id /\ NoteText(v, n, l) = new[l].description
  <2>1. OtherNotesAt(w, v, n, new)
    BY <1>3, OneTaskNotes
  <2> QED
    BY <2>1 DEF OtherNotesAt
<1>8. /\ NoteCount(w, n) = Len(old)
      /\ \A l : NoteID(w, n, l) = old[l].id /\ NoteText(w, n, l) = old[l].description
  BY DEF NoteCount, NoteID, NoteText
<1> HIDE DEF old
<1>9. \A i \in 1..Len(w.tasks) :
        /\ NoteCount(v, i) = NoteCount(w, i)
        /\ \A l \in 1..NoteCount(w, i) :
             /\ NoteID(v, i, l) = NoteID(w, i, l)
             /\ CleanText(NoteText(v, i, l)) \/ NoteText(v, i, l) = NoteText(w, i, l)
  <2>1. ASSUME NEW i \in 1..Len(w.tasks), NEW l \in 1..NoteCount(w, i), i = n
        PROVE  /\ NoteID(v, i, l) = NoteID(w, i, l)
               /\ CleanText(NoteText(v, i, l)) \/ NoteText(v, i, l) = NoteText(w, i, l)
    BY <1>6, <1>7, <1>8, <2>1
  <2>2. \A i \in 1..Len(w.tasks) : NoteCount(v, i) = NoteCount(w, i)
    BY <1>5, <1>7, <1>8
  <2> QED
    BY <1>7, <2>1, <2>2
<1> QED
  BY <1>3, <1>7, <1>9, NotesStay

LEMMA DeleteRiskNoteNotes ==
  ASSUME NEW w \in WBSType, NEW v \in WBSType, UniqueNotes(w), NEW n \in 1..Len(w.tasks),
         NEW k \in 1..Len(w.tasks[n].riskNotes), v = DeleteRiskNote(w, n, k)
  PROVE  Carries(w, v)
<1> DEFINE old == w.tasks[n].riskNotes
           new == RemoveAt(old, k)
           Old(i, l) == IF i = n /\ l >= k THEN l + 1 ELSE l
<1>1. /\ old \in Seq(RiskNote) /\ Len(old) \in Nat
      /\ \A i \in 1..Len(w.tasks) : NoteCount(w, i) \in Nat
      /\ \A l : NoteID(w, n, l) = old[l].id /\ NoteText(w, n, l) = old[l].description
      /\ NoteCount(w, n) = Len(old)
  BY NoteTypes DEF NoteCount, NoteID, NoteText
<1>2. /\ Len(new) = Len(old) - 1
      /\ \A l \in 1..(Len(old) - 1) : new[l] = IF l < k THEN old[l] ELSE old[l + 1]
  BY <1>1, RemoveAtProperties
<1>3. OneReplaced(w, v, n, WithNotes(w.tasks[n], new)) /\ v.nextNote = w.nextNote
  BY DeleteRiskNoteEffect DEF SameCounters
<1> HIDE DEF new
<1>4. /\ Len(v.tasks) = Len(w.tasks)
      /\ \A i \in 1..Len(w.tasks) : /\ v.tasks[i].id = w.tasks[i].id
                                   /\ v.tasks[i].description = w.tasks[i].description
      /\ \A i \in 1..Len(w.tasks) :
           i # n => /\ NoteCount(v, i) = NoteCount(w, i)
                    /\ \A l : /\ NoteID(v, i, l) = NoteID(w, i, l)
                              /\ NoteText(v, i, l) = NoteText(w, i, l)
      /\ NoteCount(v, n) = Len(new)
      /\ \A l : NoteID(v, n, l) = new[l].id /\ NoteText(v, n, l) = new[l].description
  <2>1. OtherNotesAt(w, v, n, new)
    BY <1>3, OneTaskNotes
  <2> QED
    BY <2>1 DEF OtherNotesAt
<1>5. k \in 1..Len(old)
  OBVIOUS
<1> HIDE DEF old
<1>6. ASSUME NEW i \in 1..Len(w.tasks), NEW l \in 1..NoteCount(v, i)
      PROVE  /\ Old(i, l) \in 1..NoteCount(w, i)
             /\ NoteID(v, i, l) = NoteID(w, i, Old(i, l))
             /\ NoteText(v, i, l) = NoteText(w, i, Old(i, l))
             /\ l \in Nat
  <2>1. CASE i = n
    <3>1. l \in 1..(Len(old) - 1)
      BY <1>2, <1>4, <2>1
    <3>2. new[l] = IF l < k THEN old[l] ELSE old[l + 1]
      BY <1>2, <3>1
    <3>3. new[l] = old[Old(i, l)] /\ Old(i, l) \in 1..Len(old)
      BY <1>1, <1>5, <2>1, <3>1, <3>2
    <3> HIDE DEF Old
    <3> QED
      BY <1>1, <1>4, <2>1, <3>1, <3>3
  <2>2. CASE i # n
    BY <1>1, <1>4, <2>2
  <2> QED
    BY <2>1, <2>2
<1>7. \A i, l, m : l \in Nat /\ m \in Nat /\ Old(i, l) = Old(i, m) => l = m
  BY <1>1, <1>5
<1> HIDE DEF Old
<1>8. UniqueNotes(v)
  <2>1. \A i \in 1..Len(w.tasks) : \A l \in 1..NoteCount(v, i) : NoteID(v, i, l) < v.nextNote
    BY <1>3, <1>6 DEF UniqueNotes
  <2>2. ASSUME NEW i \in 1..Len(w.tasks), NEW j \in 1..Len(w.tasks),
               NEW l \in 1..NoteCount(v, i), NEW m \in 1..NoteCount(v, j),
               NoteID(v, i, l) = NoteID(v, j, m)
        PROVE  i = j /\ l = m
    <3>1. i = j /\ Old(i, l) = Old(j, m)
      BY <1>6, <2>2 DEF UniqueNotes
    <3> QED
      BY <1>6, <1>7, <3>1
  <2> QED
    BY <1>4, <2>1, <2>2 DEF UniqueNotes
<1>9. NotesFrom(w, v)
  BY <1>4, <1>6 DEF NotesFrom
<1>10. TextsFrom(w, v)
  BY <1>4, <1>6 DEF TextsFrom
<1> QED
  BY <1>8, <1>9, <1>10 DEF Carries

LEMMA ReplaceRiskNotesNotes ==
  ASSUME NEW w \in WBSType, NEW v \in WBSType, UniqueNotes(w),
         NEW list \in RiskOutputs, v = ReplaceRiskNotes(w, list)
  PROVE  Carries(w, v)
<1>1. list \in Seq(RiskAssignment)
  BY DEF RiskOutputs
<1>2. /\ Len(v.tasks) = Len(w.tasks)
      /\ \A i \in 1..Len(w.tasks) :
           \E notes : v.tasks[i] = WithNotes(w.tasks[i], notes)
  BY <1>1, ReplaceRiskNotesEffect
<1>3. /\ \A i \in 1..Len(w.tasks) : \A k \in 1..NoteCount(v, i) :
           /\ NoteID(v, i, k) \in w.nextNote..(v.nextNote - 1)
           /\ \E j \in 1..Len(list) : NoteText(v, i, k) = list[j].description
      /\ \A i, j \in 1..Len(w.tasks) :
           \A k \in 1..NoteCount(v, i), l \in 1..NoteCount(v, j) :
             NoteID(v, i, k) = NoteID(v, j, l) => i = j /\ k = l
  BY <1>1, ReplacedNotes
<1>4. w.nextNote \in Nat /\ v.nextNote \in Nat
  BY NoteTypes
<1>5. UniqueNotes(v)
  <2>1. \A q \in w.nextNote..(v.nextNote - 1) : q < v.nextNote
    BY <1>4
  <2> QED
    BY <1>2, <1>3, <2>1 DEF UniqueNotes
<1>6. NotesFrom(w, v)
  BY <1>2, <1>3 DEF NotesFrom
<1>7. ASSUME ~Mock
      PROVE  TextsFrom(w, v)
  <2>1. \A j \in 1..Len(list) : CleanText(list[j].description)
    BY <1>7 DEF RiskOutputs
  <2>2. ASSUME NEW i \in 1..Len(w.tasks)
        PROVE  v.tasks[i].description = w.tasks[i].description
    <3>1. PICK notes : v.tasks[i] = WithNotes(w.tasks[i], notes)
      BY <1>2
    <3>2. w.tasks[i] \in Task
      BY NoteTypes
    <3> QED
      BY <3>1, <3>2, WithFields
  <2> QED
    BY <1>2, <1>3, <2>1, <2>2 DEF TextsFrom
<1> QED
  BY <1>5, <1>6, <1>7 DEF Carries

\* A task with the notes and the id of another, and its description or a clean one.
SameNotes(t, u) ==
  /\ t.id = u.id
  /\ CleanText(t.description) \/ t.description = u.description
  /\ t.riskNotes = u.riskNotes

LEMMA SameNotesCarried ==
  ASSUME NEW w \in WBSType, NEW v \in WBSType, UniqueNotes(w),
         Len(v.tasks) = Len(w.tasks), v.nextNote = w.nextNote,
         \A i \in 1..Len(w.tasks) : SameNotes(v.tasks[i], w.tasks[i])
  PROVE  Carries(w, v)
<1>1. \A i \in 1..Len(w.tasks) :
        /\ NoteCount(v, i) = NoteCount(w, i)
        /\ \A k : NoteID(v, i, k) = NoteID(w, i, k) /\ NoteText(v, i, k) = NoteText(w, i, k)
  BY DEF SameNotes, NoteCount, NoteID, NoteText
<1> QED
  BY <1>1, NotesStay DEF SameNotes

\* The methods that have nothing to do with notes.
LEMMA EditTaskNotes ==
  ASSUME NEW w \in WBSType, NEW v \in WBSType, UniqueNotes(w), NEW n \in 1..Len(w.tasks),
         NEW d \in Text, Trim[d] # Blank, v = EditTask(w, n, d)
  PROVE  Carries(w, v)
<1> DEFINE t == WithDescription(w.tasks[n], Trim[d])
<1>1. \A i \in 1..Len(w.tasks) : w.tasks[i] \in Task
  BY NoteTypes
<1>2. OneReplaced(w, v, n, t) /\ v.nextNote = w.nextNote
  <2>1. OneReplaced(w, v, n, WithDescription(w.tasks[n], Trim[d])) /\ SameCounters(w, v)
    BY EditTaskEffect
  <2> QED
    BY <2>1 DEF SameCounters
<1>3. CleanText(Trim[d])
  BY TextAssumption DEF CleanText
<1>4. SameNotes(t, w.tasks[n])
  BY <1>1, <1>3, WithFields DEF SameNotes
<1> HIDE DEF t
<1>5. Len(v.tasks) = Len(w.tasks)
  BY <1>2 DEF OneReplaced
<1>6. \A i \in 1..Len(w.tasks) : SameNotes(v.tasks[i], w.tasks[i])
  BY <1>2, <1>4 DEF OneReplaced, SameNotes
<1> QED
  BY <1>2, <1>5, <1>6, SameNotesCarried

LEMMA ApproveNotes ==
  ASSUME NEW w \in WBSType, NEW v \in WBSType, UniqueNotes(w),
         v = Approve(w) \/ v = ApproveEstimates(w)
  PROVE  Carries(w, v)
<1>1. v.tasks = w.tasks /\ v.nextNote = w.nextNote
  BY ApproveEffect, ApproveEstimatesEffect DEF SameCounters
<1>2. \A i \in 1..Len(w.tasks) : SameNotes(v.tasks[i], w.tasks[i])
  BY <1>1 DEF SameNotes
<1>3. Len(v.tasks) = Len(w.tasks)
  BY <1>1
<1> QED
  BY <1>1, <1>2, <1>3, SameNotesCarried

LEMMA SetEstimatesNotes ==
  ASSUME NEW w \in WBSType, NEW v \in WBSType, UniqueNotes(w),
         NEW list \in Seq(EstimateAssignment), v = SetEstimates(w, list)
  PROVE  Carries(w, v)
<1>1. /\ Len(v.tasks) = Len(w.tasks) /\ v.nextNote = w.nextNote
      /\ \A i \in 1..Len(w.tasks) : v.tasks[i] = WithEstimate(w.tasks[i], v.tasks[i].estimate)
  <2>1. /\ Len(v.tasks) = Len(w.tasks)
        /\ \A i \in 1..Len(w.tasks) : v.tasks[i] = WithEstimate(w.tasks[i], v.tasks[i].estimate)
        /\ SameCounters(w, v) /\ v.approved = w.approved
        /\ v.estimatesGenerated = TRUE /\ v.estimatesApproved = FALSE
    BY SetEstimatesEffect
  <2> QED
    BY <2>1 DEF SameCounters
<1>2. ASSUME NEW i \in 1..Len(w.tasks)
      PROVE  SameNotes(v.tasks[i], w.tasks[i])
  <2>1. v.tasks[i] = WithEstimate(w.tasks[i], v.tasks[i].estimate)
    BY <1>1
  <2>2. w.tasks[i] \in Task
    BY NoteTypes
  <2> QED
    BY <2>1, <2>2, WithFields DEF SameNotes
<1> QED
  BY <1>1, <1>2, SameNotesCarried

LEMMA OverrideNotes ==
  ASSUME NEW w \in WBSType, NEW v \in WBSType, UniqueNotes(w), NEW n \in 1..Len(w.tasks),
         NEW e, v = OverrideEstimate(w, n, e)
  PROVE  Carries(w, v)
<1> DEFINE t == WithEstimate(w.tasks[n], [e EXCEPT !.reasoning = Trim[e.reasoning]])
<1>1. \A i \in 1..Len(w.tasks) : w.tasks[i] \in Task
  BY NoteTypes
<1>2. OneReplaced(w, v, n, t) /\ v.nextNote = w.nextNote
  <2>1. /\ OneReplaced(w, v, n,
             WithEstimate(w.tasks[n], [e EXCEPT !.reasoning = Trim[e.reasoning]]))
        /\ SameCounters(w, v)
    BY OverrideEstimateEffect
  <2> QED
    BY <2>1 DEF SameCounters
<1>3. SameNotes(t, w.tasks[n])
  BY <1>1, WithFields DEF SameNotes
<1> HIDE DEF t
<1>4. Len(v.tasks) = Len(w.tasks)
  BY <1>2 DEF OneReplaced
<1>5. \A i \in 1..Len(w.tasks) : SameNotes(v.tasks[i], w.tasks[i])
  BY <1>2, <1>3 DEF OneReplaced, SameNotes
<1> QED
  BY <1>2, <1>4, <1>5, SameNotesCarried

LEMMA MethodCarries ==
  ASSUME NEW w \in WBSType, NEW v, Method(w, v), UniqueNotes(w)
  PROVE  v \in WBSType /\ Carries(w, v)
<1>1. v \in WBSType
  BY MethodType
<1> QED
  BY <1>1, AddTaskNotes, DeleteTaskNotes, AddRiskNoteNotes, EditRiskNoteNotes,
     DeleteRiskNoteNotes, ReplaceRiskNotesNotes, EditTaskNotes, ApproveNotes,
     SetEstimatesNotes, OverrideNotes DEF Method, EstimateOutputs

-----------------------------------------------------------------------------
(* The inductive invariant and the theorems. *)

\* The invariants by places are what NoteIDsUnique and TextsClean say of one WBS.
LEMMA Places ==
  ASSUME NEW w \in WBSType
  PROVE  /\ \A a \in NotePlaces(w) :
              \E i \in 1..Len(w.tasks) : \E k \in 1..NoteCount(w, i) : a = <<i, k>>
         /\ \A i \in 1..Len(w.tasks) : \A k \in 1..NoteCount(w, i) : <<i, k>> \in NotePlaces(w)
         /\ \A i, k : NoteAt(w, <<i, k>>).id = NoteID(w, i, k)
<1>1. /\ DOMAIN w.tasks = 1..Len(w.tasks)
      /\ \A i \in 1..Len(w.tasks) : DOMAIN w.tasks[i].riskNotes = 1..NoteCount(w, i)
  BY NoteTypes
<1>2. ASSUME NEW a \in NotePlaces(w)
      PROVE  \E i \in 1..Len(w.tasks) : \E k \in 1..NoteCount(w, i) : a = <<i, k>>
  <2>1. PICK i \in DOMAIN w.tasks : a \in {i} \X DOMAIN w.tasks[i].riskNotes
    BY DEF NotePlaces
  <2>2. PICK k \in DOMAIN w.tasks[i].riskNotes : a = <<i, k>>
    BY <2>1
  <2>3. i \in 1..Len(w.tasks) /\ k \in 1..NoteCount(w, i)
    BY <1>1
  <2> QED
    BY <2>2, <2>3
<1>3. ASSUME NEW i \in 1..Len(w.tasks), NEW k \in 1..NoteCount(w, i)
      PROVE  <<i, k>> \in NotePlaces(w)
  <2>1. <<i, k>> \in {i} \X DOMAIN w.tasks[i].riskNotes
    BY <1>1
  <2> QED
    BY <1>1, <2>1 DEF NotePlaces
<1>4. \A i, k : NoteAt(w, <<i, k>>).id = NoteID(w, i, k)
  BY DEF NoteAt, NoteID
<1> QED
  BY <1>2, <1>3, <1>4

LEMMA UniqueAt ==
  ASSUME NEW w \in WBSType, UniqueNotes(w)
  PROVE  /\ \A a \in NotePlaces(w) : NoteAt(w, a).id < w.nextNote
         /\ \A a, b \in NotePlaces(w) : NoteAt(w, a).id = NoteAt(w, b).id => a = b
<1>1. ASSUME NEW a \in NotePlaces(w)
      PROVE  NoteAt(w, a).id < w.nextNote
  <2>1. PICK i \in 1..Len(w.tasks) : \E k \in 1..NoteCount(w, i) : a = <<i, k>>
    BY Places
  <2>2. PICK k \in 1..NoteCount(w, i) : a = <<i, k>>
    BY <2>1
  <2>3. NoteAt(w, a).id = NoteID(w, i, k)
    BY <2>2, Places
  <2> QED
    BY <2>3 DEF UniqueNotes
<1>2. ASSUME NEW a \in NotePlaces(w), NEW b \in NotePlaces(w),
             NoteAt(w, a).id = NoteAt(w, b).id
      PROVE  a = b
  <2>1. PICK i \in 1..Len(w.tasks) : \E k \in 1..NoteCount(w, i) : a = <<i, k>>
    BY Places
  <2>2. PICK k \in 1..NoteCount(w, i) : a = <<i, k>>
    BY <2>1
  <2>3. PICK j \in 1..Len(w.tasks) : \E l \in 1..NoteCount(w, j) : b = <<j, l>>
    BY Places
  <2>4. PICK l \in 1..NoteCount(w, j) : b = <<j, l>>
    BY <2>3
  <2>5. NoteAt(w, a).id = NoteID(w, i, k) /\ NoteAt(w, b).id = NoteID(w, j, l)
    BY <2>2, <2>4, Places
  <2>6. i = j /\ k = l
    BY <1>2, <2>5 DEF UniqueNotes
  <2> QED
    BY <2>2, <2>4, <2>6
<1> QED
  BY <1>1, <1>2

LEMMA NewWBSNotes ==
  ASSUME NEW ds \in TaskOutputs
  PROVE  UniqueNotes(NewWBS(ds)) /\ (Mock \/ CleanTexts(NewWBS(ds)))
<1>1. Len(ds) \in Nat /\ ds \in Seq(Text)
  BY LenProperties DEF TaskOutputs
<1>2. /\ Len(NewWBS(ds).tasks) = Len(ds)
      /\ \A i \in 1..Len(ds) : NewWBS(ds).tasks[i] = NewTask(i, ds[i])
  BY <1>1 DEF NewWBS
<1>3. \A i \in 1..Len(ds) : /\ NoteCount(NewWBS(ds), i) = 0
                            /\ NewWBS(ds).tasks[i].description = ds[i]
  <2>1. \A i, d : NewTask(i, d).riskNotes = << >> /\ NewTask(i, d).description = d
    BY DEF NewTask
  <2>2. Len(<< >>) = 0
    OBVIOUS
  <2> QED
    BY <1>2, <2>1, <2>2 DEF NoteCount
<1>4. UniqueNotes(NewWBS(ds))
  BY <1>2, <1>3 DEF UniqueNotes
<1>5. Mock \/ CleanTexts(NewWBS(ds))
  BY <1>2, <1>3 DEF CleanTexts, TaskOutputs
<1> QED
  BY <1>4, <1>5

\* What one asks of a WBS: its note ids are unique, and with live providers its
\* texts are clean.
Noted(w) == UniqueNotes(w) /\ (Mock \/ CleanTexts(w))

\* The invariant.
NInv == IInv /\ \A id \in DOMAIN store : Noted(store[id])

LEMMA MethodNoted ==
  ASSUME NEW w \in WBSType, NEW v, Method(w, v), Noted(w)
  PROVE  Noted(v)
BY MethodCarries, CleanFrom DEF Noted, Carries

LEMMA NInvInductive == NInv /\ [Next]_vars => NInv'
<1>1. SUFFICES ASSUME NInv, Next
               PROVE  (\A id \in DOMAIN store : Noted(store[id]))'
  BY IInvInductive DEF NInv, vars
<1>2. StoreStep
  BY <1>1, NextStep DEF NInv, IInv
<1>3. CASE store' = store
  BY <1>1, <1>3 DEF NInv
<1>4. ASSUME NEW ds \in TaskOutputs,
             store' = [id \in DOMAIN store \cup {nextID} |->
                         IF id = nextID THEN NewWBS(ds) ELSE store[id]]
      PROVE  \A id \in DOMAIN store' : Noted(store'[id])
  <2>1. \A id \in DOMAIN store' :
          store'[id] = NewWBS(ds) \/ (id \in DOMAIN store /\ store'[id] = store[id])
    BY <1>4
  <2>2. Noted(NewWBS(ds))
    BY NewWBSNotes DEF Noted
  <2> QED
    BY <1>1, <2>1, <2>2 DEF NInv
<1>5. ASSUME NEW id \in DOMAIN store, NEW v \in WBSType,
             Method(store[id], v), store' = [store EXCEPT ![id] = v]
      PROVE  \A i \in DOMAIN store' : Noted(store'[i])
  <2>1. store[id] \in WBSType /\ Noted(store[id])
    BY <1>1 DEF NInv, IInv, TypeOK
  <2>2. Noted(v)
    BY <1>5, <2>1, MethodNoted
  <2>3. \A i \in DOMAIN store' : i \in DOMAIN store /\ store'[i] = IF i = id THEN v ELSE store[i]
    BY <1>5
  <2> QED
    BY <1>1, <2>2, <2>3 DEF NInv
<1> QED
  BY <1>2, <1>3, <1>4, <1>5 DEF StoreStep

\* NInv holds in every state: besides IInv, every WBS has unique note ids below its
\* counter and, with live providers, clean texts.
THEOREM NInvHolds == Spec => []NInv
<1>1. Init => IInv
  BY InitTyped DEF IInv, Init, TaskIDsOrdered, ApprovedNotEmpty
<1>2. Init => NInv
  BY <1>1 DEF Init, NInv
<1> QED
  BY <1>2, NInvInductive, PTL DEF Spec

\* A note id names one note of its WBS and is below the counter, through re-flagging,
\* added, edited and deleted notes and deleted tasks, with any number of tasks and
\* notes (risk.go:3-5 and 18-78).
THEOREM NoteIDsStayUnique == Spec => []NoteIDsUnique
<1>1. NInv => NoteIDsUnique
  <2>1. SUFFICES ASSUME NInv, NEW id \in DOMAIN store
                 PROVE  /\ \A a \in NotePlaces(store[id]) :
                             NoteAt(store[id], a).id < store[id].nextNote
                        /\ \A a, b \in NotePlaces(store[id]) :
                             NoteAt(store[id], a).id = NoteAt(store[id], b).id => a = b
    BY DEF NoteIDsUnique
  <2>2. store[id] \in WBSType /\ UniqueNotes(store[id])
    BY <2>1 DEF NInv, IInv, TypeOK, Noted
  <2> QED
    BY <2>2, UniqueAt
<1> QED
  BY <1>1, NInvHolds, PTL

\* With the live providers no blank or untrimmed text is ever stored: the adapters
\* clean what the model submits and the domain what a caller enters
\* (aiprovider.go, wbs.go:104-127, risk.go:36-67).
THEOREM TextsStayClean == Spec => []TextsClean
<1>1. NInv => TextsClean
  <2>1. SUFFICES ASSUME NInv, ~Mock, NEW id \in DOMAIN store
                 PROVE  LET w == store[id]
                        IN \A i \in DOMAIN w.tasks :
                             /\ CleanText(w.tasks[i].description)
                             /\ \A k \in DOMAIN w.tasks[i].riskNotes :
                                  CleanText(w.tasks[i].riskNotes[k].description)
    BY DEF TextsClean, CleanText
  <2>2. store[id] \in WBSType /\ CleanTexts(store[id])
    BY <2>1 DEF NInv, IInv, TypeOK, Noted
  <2>3. /\ DOMAIN store[id].tasks = 1..Len(store[id].tasks)
        /\ \A i \in 1..Len(store[id].tasks) :
             DOMAIN store[id].tasks[i].riskNotes = 1..NoteCount(store[id], i)
    BY <2>2, NoteTypes
  <2> QED
    BY <2>2, <2>3 DEF CleanTexts, NoteText
<1> QED
  BY <1>1, NInvHolds, PTL

\* The task ids and note ids of w, paired.
NotePairs(w) == {<<w.tasks[a[1]].id, NoteAt(w, a).id>> : a \in NotePlaces(w)}

LEMMA NewPairs ==
  ASSUME NEW w \in WBSType, NEW v \in WBSType, NotesFrom(w, v),
         NEW n \in NotePairs(v), n \notin NotePairs(w)
  PROVE  n[2] \in w.nextNote..(v.nextNote - 1)
<1>1. PICK a \in NotePlaces(v) : n = <<v.tasks[a[1]].id, NoteAt(v, a).id>>
  BY DEF NotePairs
<1>2. PICK i \in 1..Len(v.tasks) : \E k \in 1..NoteCount(v, i) : a = <<i, k>>
  BY Places
<1>3. PICK k \in 1..NoteCount(v, i) : a = <<i, k>>
  BY <1>2
<1>4. n = <<v.tasks[i].id, NoteID(v, i, k)>>
  BY <1>1, <1>3, Places
<1>5. ASSUME NEW j \in 1..Len(w.tasks), NEW l \in 1..NoteCount(w, j),
             v.tasks[i].id = w.tasks[j].id, NoteID(v, i, k) = NoteID(w, j, l)
      PROVE  FALSE
  <2>1. <<j, l>> \in NotePlaces(w) /\ NoteAt(w, <<j, l>>).id = NoteID(w, j, l)
    BY Places
  <2> QED
    BY <1>4, <1>5, <2>1 DEF NotePairs
<1>6. NoteID(v, i, k) \in w.nextNote..(v.nextNote - 1)
  BY <1>5 DEF NotesFrom
<1> QED
  BY <1>4, <1>6

\* A note a step brings has an id the counter had not passed: no note moves to
\* another task, and no deleted or replaced id comes back (risk.go:18-78).
THEOREM NewNotesHaveNewIDs == Spec => NewNotesNewIDs
<1> DEFINE NewIDs == \A id \in DOMAIN store :
                       \A n \in NotePairs(store'[id]) \ NotePairs(store[id]) :
                         n[2] \in store[id].nextNote..(store'[id].nextNote - 1)
<1>1. NInv /\ [Next]_vars => NewIDs
  <2>1. SUFFICES ASSUME NInv, [Next]_vars, NEW id \in DOMAIN store,
                        NEW n \in NotePairs(store'[id]), n \notin NotePairs(store[id])
                 PROVE  n[2] \in store[id].nextNote..(store'[id].nextNote - 1)
    OBVIOUS
  <2> DEFINE w == store[id]
             v == store'[id]
  <2>2. w \in WBSType /\ v \in WBSType /\ Method(w, v)
    BY <2>1, OneWBS DEF NInv
  <2>3. Noted(w)
    BY <2>1 DEF NInv
  <2> HIDE DEF w, v
  <2>4. NotesFrom(w, v)
    BY <2>2, <2>3, MethodCarries DEF Noted, Carries
  <2> QED
    BY <2>1, <2>2, <2>4, NewPairs DEF w, v
<1> QED
  BY <1>1, NInvHolds, PTL DEF Spec, NewNotesNewIDs, NotePairs

=============================================================================
