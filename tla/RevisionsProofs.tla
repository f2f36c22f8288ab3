--------------------------- MODULE RevisionsProofs ---------------------------
(***************************************************************************)
(* Proofs about RevisionHistory and Revisions.  The safety properties are  *)
(* proved of the abstract history; Revisions inherits them because each of *)
(* its steps is a step of the history or leaves it alone.                  *)
(***************************************************************************)
EXTENDS Revisions, TLAPS

HIInv == HistoryTypeOK /\ IdsNeverReused /\ NothingOverwritten

(***************************************************************************)
(* One edit.                                                               *)
(***************************************************************************)

\* An edited revision is a set of events.
LEMMA EditedType ==
  ASSUME NEW batch \in Batches, NEW events \in SUBSET Event, NEW number \in Nat
  PROVE  Edited(batch, events, number) \in SUBSET Event
<1>1. batch \in Batch
  BY HistoryAssumption
<1>2. QED
  BY <1>1 DEF Edited, Batch, Event, Ids

\* The ids of an edited revision are ids of the one before it or new ones.
LEMMA EditedIds ==
  ASSUME NEW batch \in Batches, NEW events \in SUBSET Event, NEW used,
         NEW number \in Nat, Accepted(batch, events, used)
  PROVE  /\ IdsOf(Edited(batch, events, number)) \subseteq IdsOf(events) \cup batch.add
         /\ batch.add \cap used = {}
<1>1. batch \in Batch
  BY HistoryAssumption
<1>2. IdsOf(Edited(batch, events, number)) \subseteq IdsOf(events) \cup batch.add
  BY <1>1 DEF Edited, IdsOf, Accepted, Batch
<1>3. batch.add \cap used = {}
  BY DEF Accepted
<1>4. QED
  BY <1>2, <1>3

\* What an edit did not write itself it takes over, and ids stay unique.
LEMMA EditedEvents ==
  ASSUME NEW batch \in Batches, NEW events \in SUBSET Event, NEW used,
         NEW number \in Nat, Accepted(batch, events, used),
         \A d, e \in events : d.id = e.id => d = e
  PROVE  /\ \A e \in Edited(batch, events, number) : e.wrote = number \/ e \in events
         /\ \A d, e \in Edited(batch, events, number) : d.id = e.id => d = e
<1>1. batch \in Batch
  BY HistoryAssumption
<1>2. \A e \in Edited(batch, events, number) : e.wrote = number \/ e \in events
  BY DEF Edited
<1>3. ASSUME NEW d \in Edited(batch, events, number),
             NEW e \in Edited(batch, events, number), d.id = e.id
      PROVE  d = e
  <2>1. CASE d.id \in batch.update \cup batch.add
    <3>1. \A f \in events : f.id \in batch.add => FALSE
      BY DEF Accepted, IdsOf
    <3>2. \A f \in Edited(batch, events, number) :
            f.id \in batch.update \cup batch.add => f = [id |-> f.id, wrote |-> number]
      BY <3>1 DEF Edited
    <3>3. QED
      BY <1>3, <2>1, <3>2
  <2>2. CASE d.id \notin batch.update \cup batch.add
    BY <1>3, <2>2 DEF Edited
  <2>3. QED
    BY <2>1, <2>2
<1>4. QED
  BY <1>2, <1>3

\* Every id of a revision is a historical one.
LEMMA HistoricalIdsContain ==
  ASSUME NEW revisions \in Seq(SUBSET Event), NEW k \in 1..Len(revisions)
  PROVE  IdsOf(revisions[k]) \subseteq HistoricalIds(revisions)
BY DEF HistoricalIds

(***************************************************************************)
(* The history: HIInv is inductive.                                        *)
(***************************************************************************)

LEMMA HistoryInitInv == HistoryInit => HIInv
BY DEF HistoryInit, HIInv, HistoryTypeOK, IdsNeverReused, NothingOverwritten

LEMMA OpenPreserves ==
  ASSUME HIInv, NEW j \in Jobs, Open(j)
  PROVE  HIInv'
<1>1. PICK ids \in SUBSET ModelIds :
        history' = [history EXCEPT ![j] = <<RevisionZero(ids)>>]
  BY DEF Open
<1>2. RevisionZero(ids) \in SUBSET Event
  BY DEF RevisionZero, Event, Ids
<1>3. HistoryTypeOK'
  BY <1>1, <1>2 DEF HIInv, HistoryTypeOK
<1>4. \A i \in Jobs : i # j => history'[i] = history[i]
  BY <1>1 DEF HIInv, HistoryTypeOK
<1>5. history'[j] = <<RevisionZero(ids)>>
  BY <1>1 DEF HIInv, HistoryTypeOK
<1>6. IdsNeverReused'
  <2>1. Len(history'[j]) = 1
    BY <1>5
  <2>2. ~ \E a, b \in 1..Len(history'[j]) : a < b
    BY <2>1
  <2>3. QED
    BY <1>4, <2>2 DEF HIInv, IdsNeverReused
<1>7. NothingOverwritten'
  <2>1. \A n \in 1..Len(history'[j]) :
          /\ \A e \in history'[j][n] : e.wrote = n - 1
          /\ \A d, e \in history'[j][n] : d.id = e.id => d = e
    BY <1>5 DEF RevisionZero
  <2>2. QED
    BY <1>4, <2>1 DEF HIInv, NothingOverwritten
<1>8. QED
  BY <1>3, <1>6, <1>7 DEF HIInv

LEMMA EditPreserves ==
  ASSUME HIInv, NEW j \in Jobs, Edit(j)
  PROVE  HIInv'
<1> DEFINE old == history[j]
           last == Latest(old)
<1>1. old \in Seq(SUBSET Event) /\ Len(old) \in Nat \ {0}
  BY DEF HIInv, HistoryTypeOK, Edit
<1>2. PICK batch \in Batches :
        /\ Accepted(batch, last, HistoricalIds(old))
        /\ history' = [history EXCEPT ![j] = Append(@, Edited(batch, Latest(@), Len(@)))]
  BY DEF Edit
<1> DEFINE new == Edited(batch, last, Len(old))
<1>3. last \in SUBSET Event /\ last = old[Len(old)]
  BY <1>1 DEF Latest
<1>4. /\ new \in SUBSET Event
      /\ IdsOf(new) \subseteq IdsOf(last) \cup batch.add
      /\ batch.add \cap HistoricalIds(old) = {}
  BY <1>1, <1>2, <1>3, EditedType, EditedIds
<1>5. history'[j] = Append(old, new) /\ \A i \in Jobs : i # j => history'[i] = history[i]
  BY <1>2 DEF HIInv, HistoryTypeOK
<1> HIDE DEF new, last
<1>6. /\ Len(history'[j]) = Len(old) + 1
      /\ history'[j][Len(old) + 1] = new
      /\ \A k \in 1..Len(old) : history'[j][k] = old[k]
  BY <1>1, <1>4, <1>5
<1>7. HistoryTypeOK'
  <2>1. Append(old, new) \in Seq(SUBSET Event)
    BY <1>1, <1>4
  <2>2. QED
    BY <1>2, <2>1 DEF HIInv, HistoryTypeOK, new, last
<1>8. IdsNeverReused'
  <2> SUFFICES ASSUME NEW a \in 1..Len(history'[j]), NEW b \in 1..Len(history'[j]),
                      NEW c \in 1..Len(history'[j]), a < b, b < c,
                      NEW i \in IdsOf(history'[j][a]) \cap IdsOf(history'[j][c])
               PROVE  i \in IdsOf(history'[j][b])
    BY <1>5 DEF HIInv, IdsNeverReused
  <2>1. a \in 1..Len(old) /\ b \in 1..Len(old)
    BY <1>1, <1>6
  <2>2. CASE c \in 1..Len(old)
    BY <1>6, <2>1, <2>2 DEF HIInv, IdsNeverReused
  <2>3. CASE c = Len(old) + 1
    <3>1. i \in HistoricalIds(old)
      BY <1>1, <1>6, <2>1, HistoricalIdsContain
    <3>2. i \in IdsOf(old[Len(old)])
      BY <1>3, <1>4, <1>6, <2>3, <3>1
    <3>3. CASE b = Len(old)
      BY <1>6, <2>1, <3>2, <3>3
    <3>4. CASE b < Len(old)
      <4>1. IdsOf(old[a]) \cap IdsOf(old[Len(old)]) \subseteq IdsOf(old[b])
        <5>1. Len(old) \in 1..Len(old)
          BY <1>1
        <5>2. \A x, y, z \in 1..Len(old) : x < y /\ y < z =>
                IdsOf(old[x]) \cap IdsOf(old[z]) \subseteq IdsOf(old[y])
          BY DEF HIInv, IdsNeverReused
        <5>3. QED
          BY <2>1, <3>4, <5>1, <5>2
      <4>2. QED
        BY <1>6, <2>1, <3>2, <4>1
    <3>5. QED
      BY <1>1, <2>1, <3>3, <3>4
  <2>4. QED
    BY <1>1, <1>6, <2>2, <2>3
<1>9. NothingOverwritten'
  <2>1. \A d, e \in last : d.id = e.id => d = e
    BY <1>1, <1>3 DEF HIInv, NothingOverwritten
  <2>2. /\ \A e \in new : e.wrote = Len(old) \/ e \in last
        /\ \A d, e \in new : d.id = e.id => d = e
    BY <1>1, <1>2, <1>3, <2>1, EditedEvents DEF new
  <2> SUFFICES ASSUME NEW n \in 1..Len(history'[j])
               PROVE  /\ \A e \in history'[j][n] :
                           e.wrote = n - 1 \/ (n > 1 /\ e \in history'[j][n - 1])
                      /\ \A d, e \in history'[j][n] : d.id = e.id => d = e
    BY <1>5 DEF HIInv, NothingOverwritten
  <2>3. CASE n \in 1..Len(old)
    <3>1. n > 1 => history'[j][n - 1] = old[n - 1]
      BY <1>1, <1>6, <2>3
    <3>2. QED
      BY <1>6, <2>3, <3>1 DEF HIInv, NothingOverwritten
  <2>4. CASE n = Len(old) + 1
    <3>1. n > 1 /\ n - 1 = Len(old) /\ history'[j][n - 1] = last
      BY <1>1, <1>3, <1>6, <2>4
    <3>2. QED
      BY <1>6, <2>2, <2>4, <3>1
  <2>5. QED
    BY <1>1, <1>6, <2>3, <2>4
<1>10. QED
  BY <1>7, <1>8, <1>9 DEF HIInv

LEMMA HistoryInvariance == HistorySpec => []HIInv
<1>1. HIInv /\ [HistoryNext]_history => HIInv'
  <2> SUFFICES ASSUME HIInv, [HistoryNext]_history PROVE HIInv'
    OBVIOUS
  <2>1. CASE UNCHANGED history
    <3>1. HistoryTypeOK'
      BY <2>1 DEF HIInv, HistoryTypeOK
    <3>2. IdsNeverReused'
      <4>1. IdsNeverReused
        BY DEF HIInv
      <4>2. \A j \in Jobs : history'[j] = history[j]
        BY <2>1
      <4>3. QED
        BY <4>1, <4>2 DEF IdsNeverReused
    <3>3. NothingOverwritten'
      BY <2>1 DEF HIInv, NothingOverwritten
    <3>4. QED
      BY <3>1, <3>2, <3>3 DEF HIInv
  <2>2. CASE HistoryNext
    BY <2>2, OpenPreserves, EditPreserves DEF HistoryNext
  <2>3. QED
    BY <2>1, <2>2
<1>2. QED
  BY <1>1, HistoryInitInv, PTL DEF HistorySpec

\* A step of the history only appends.
LEMMA HistoryGrows ==
  ASSUME HistoryTypeOK, [HistoryNext]_history, NEW j \in Jobs
  PROVE  /\ Len(history'[j]) >= Len(history[j])
         /\ \A n \in 1..Len(history[j]) : history'[j][n] = history[j][n]
<1>1. CASE UNCHANGED history
  BY <1>1 DEF HistoryTypeOK
<1>2. ASSUME NEW i \in Jobs, Open(i)
      PROVE  /\ Len(history'[j]) >= Len(history[j])
             /\ \A n \in 1..Len(history[j]) : history'[j][n] = history[j][n]
  BY <1>2 DEF HistoryTypeOK, Open
<1>3. ASSUME NEW i \in Jobs, Edit(i)
      PROVE  /\ Len(history'[j]) >= Len(history[j])
             /\ \A n \in 1..Len(history[j]) : history'[j][n] = history[j][n]
  <2>1. PICK new : history' = [history EXCEPT ![i] = Append(@, new)]
    BY <1>3 DEF Edit
  <2>2. QED
    BY <2>1 DEF HistoryTypeOK
<1>4. QED
  BY <1>1, <1>2, <1>3 DEF HistoryNext

(***************************************************************************)
(* The steps of Revisions.                                                 *)
(***************************************************************************)

\* What a thread holds while it works on an edit: its working copy is the
\* revision it was read with, and unless the history has grown since, its ids
\* are all the historical ones.
EditHeld(t) ==
  LET revisions == history[edit[t].job]
      number == working[t].number
  IN /\ pc[t] \in {"latest", "list", "append"} => edit[t] \in EditRequest
     /\ pc[t] \in {"list", "append"} =>
          /\ working[t] \in Working
          /\ number < Len(revisions)
          /\ working[t].events = revisions[number + 1]
     /\ pc[t] = "append" /\ Len(revisions) = number + 1 =>
          taken[t] = HistoricalIds(revisions)

\* ... and while it works on a regeneration.
WantedHeld(t) ==
  /\ pc[t] \in {"look_up", "save", "store"} =>
       wanted[t] \in [job: Jobs, number: 0..MaxRevisions, id: RequestIds \cup {None}]
  /\ pc[t] \in {"save", "store"} => wanted[t].id \in RequestIds

Held == \A t \in Threads : EditHeld(t) /\ WantedHeld(t)

\* Every answer is about a revision that requests has an entry for.
AnswersKnown ==
  \A a \in answers : a.job \in Jobs /\ a.number \in 0..MaxRevisions

RInv ==
  /\ TypeOK
  /\ Held
  /\ ReviewIsRevisionZero
  /\ AnswersKnown /\ AnsweredIsRequested

LEMMA InitInv == Init => RInv
<1> SUFFICES ASSUME Init PROVE RInv
  OBVIOUS
<1>1. TypeOK
  <2>1. HistoryTypeOK
    BY DEF Init, HistoryInit, HistoryTypeOK
  <2>2. QED
    BY <2>1 DEF Init, TypeOK, Label
<1>2. Held
  BY DEF Init, Held, EditHeld, WantedHeld
<1>3. ReviewIsRevisionZero
  BY DEF Init, HistoryInit, ReviewIsRevisionZero
<1>4. AnswersKnown /\ AnsweredIsRequested
  BY DEF Init, AnswersKnown, AnsweredIsRequested
<1>5. QED
  BY <1>1, <1>2, <1>3, <1>4 DEF RInv

\* A thread whose locals stay as they are, in a history that only grows.
LEMMA HeldStays ==
  ASSUME RInv, NEW t \in Threads,
         pc'[t] = pc[t], edit'[t] = edit[t], working'[t] = working[t],
         taken'[t] = taken[t], wanted'[t] = wanted[t],
         \A j \in Jobs :
           \/ history'[j] = history[j]
           \/ /\ Len(history'[j]) = Len(history[j]) + 1
              /\ \A n \in 1..Len(history[j]) : history'[j][n] = history[j][n]
  PROVE  EditHeld(t)' /\ WantedHeld(t)'
<1>1. EditHeld(t) /\ WantedHeld(t)
  BY DEF RInv, Held
<1>2. WantedHeld(t)'
  BY <1>1 DEF WantedHeld
<1>3. CASE pc[t] \in {"list", "append"}
  <2> DEFINE j == edit[t].job
             n == working[t].number
  <2>1. j \in Jobs /\ n \in Nat /\ n < Len(history[j]) /\ Len(history[j]) \in Nat
    BY <1>1, <1>3 DEF EditHeld, EditRequest, Working, RInv, TypeOK, HistoryTypeOK
  <2>2. CASE history'[j] = history[j]
    BY <1>1, <1>2, <1>3, <2>2 DEF EditHeld
  <2>3. CASE /\ Len(history'[j]) = Len(history[j]) + 1
             /\ \A k \in 1..Len(history[j]) : history'[j][k] = history[j][k]
    <3>1. n + 1 \in 1..Len(history[j])
      BY <2>1
    <3>2. n < Len(history'[j]) /\ Len(history'[j]) # n + 1
      BY <2>1, <2>3
    <3>3. QED
      BY <1>1, <1>2, <1>3, <2>1, <2>3, <3>1, <3>2 DEF EditHeld
  <2>4. QED
    BY <2>1, <2>2, <2>3
<1>4. CASE pc[t] \notin {"list", "append"}
  BY <1>1, <1>2, <1>4 DEF EditHeld
<1>5. QED
  BY <1>3, <1>4

\* One revision more keeps what is known of the history and of its review.
LEMMA AppendGrows ==
  ASSUME RInv, NEW j \in Jobs, NEW new \in SUBSET Event,
         history' = [history EXCEPT ![j] = Append(@, new)]
  PROVE  /\ HistoryTypeOK'
         /\ \A i \in Jobs : i # j => history'[i] = history[i]
         /\ Len(history'[j]) = Len(history[j]) + 1
         /\ \A n \in 1..Len(history[j]) : history'[j][n] = history[j][n]
<1>1. history[j] \in Seq(SUBSET Event)
  BY DEF RInv, TypeOK, HistoryTypeOK
<1>2. Append(history[j], new) \in Seq(SUBSET Event)
  BY <1>1
<1>3. history'[j] = Append(history[j], new)
  BY DEF RInv, TypeOK, HistoryTypeOK
<1>4. QED
  BY <1>1, <1>2, <1>3 DEF RInv, TypeOK, HistoryTypeOK

LEMMA RegisterPreserves ==
  ASSUME RInv, NEW j \in Jobs, NEW r \in Results, Register(j, r)
  PROVE  RInv'
<1>1. RevisionZero(EventsOf[r]) \in SUBSET Event
  BY RevisionsAssumption DEF RevisionZero, Event, Ids
<1>2. \/ history' = history
      \/ history[j] = <<>> /\ history' = [history EXCEPT ![j] = <<RevisionZero(EventsOf[r])>>]
  BY DEF Register
<1>3. HistoryTypeOK'
  <2>1. <<RevisionZero(EventsOf[r])>> \in Seq(SUBSET Event)
    BY <1>1
  <2>2. QED
    BY <1>2, <2>1 DEF RInv, TypeOK, HistoryTypeOK
<1>4. TypeOK'
  BY <1>3 DEF RInv, TypeOK, Register, threadVars
<1>5. \A i \in Jobs :
        \/ history'[i] = history[i]
        \/ /\ Len(history'[i]) = Len(history[i]) + 1
           /\ \A n \in 1..Len(history[i]) : history'[i][n] = history[i][n]
  <2> TAKE i \in Jobs
  <2>1. CASE history'[i] = history[i]
    BY <2>1
  <2>2. CASE history'[i] # history[i]
    <3>1. history[i] = <<>> /\ history'[i] = <<RevisionZero(EventsOf[r])>>
      BY <1>2, <2>2 DEF RInv, TypeOK, HistoryTypeOK
    <3>2. QED
      BY <3>1
  <2>3. QED
    BY <2>1, <2>2
<1>6. Held'
  BY <1>5, HeldStays DEF Register, threadVars, Held
<1>7. ReviewIsRevisionZero'
  <2>1. \A i \in Jobs : i # j => history'[i] = history[i] /\ reviews'[i] = reviews[i]
    BY DEF RInv, TypeOK, HistoryTypeOK, Register
  <2>2. reviews'[j] = r /\ r # None
    BY RevisionsAssumption DEF RInv, TypeOK, Register
  <2>3. history'[j] # <<>> /\ history'[j][1] = RevisionZero(EventsOf[r])
    BY DEF RInv, TypeOK, HistoryTypeOK, Register
  <2>4. QED
    BY <2>1, <2>2, <2>3 DEF RInv, ReviewIsRevisionZero
<1>8. AnswersKnown' /\ AnsweredIsRequested'
  BY DEF RInv, AnswersKnown, AnsweredIsRequested, Register
<1>9. QED
  BY <1>4, <1>6, <1>7, <1>8 DEF RInv

\* A step that changes the locals of one thread and nothing else.
LEMMA LocalStep ==
  ASSUME RInv, NEW t \in Threads, UNCHANGED <<store, requests, answers>>,
         \A s \in Threads : s # t =>
           /\ pc'[s] = pc[s] /\ edit'[s] = edit[s] /\ working'[s] = working[s]
           /\ taken'[s] = taken[s] /\ wanted'[s] = wanted[s],
         EditHeld(t)', WantedHeld(t)', TypeOK'
  PROVE  RInv'
<1>1. Held'
  BY HeldStays DEF Held, store
<1>2. ReviewIsRevisionZero'
  BY DEF RInv, ReviewIsRevisionZero, store
<1>3. AnswersKnown' /\ AnsweredIsRequested'
  BY DEF RInv, AnswersKnown, AnsweredIsRequested
<1>4. QED
  BY <1>1, <1>2, <1>3 DEF RInv

LEMMA ReceiveEditPreserves ==
  ASSUME RInv, NEW t \in Threads, NEW j \in Jobs, ReceiveEdit(t, j)
  PROVE  RInv'
<1>1. PICK base \in 0..(MaxRevisions - 1), batch \in Batches :
        edit' = [edit EXCEPT ![t] = [job |-> j, base |-> base, batch |-> batch]]
  BY DEF ReceiveEdit
<1>2. [job |-> j, base |-> base, batch |-> batch] \in EditRequest
  BY HistoryAssumption DEF EditRequest
<1>3. TypeOK'
  BY <1>1, <1>2 DEF RInv, TypeOK, HistoryTypeOK, ReceiveEdit, Goto, store, Label
<1>4. pc'[t] = "latest" /\ edit'[t] \in EditRequest
  BY <1>1, <1>2 DEF RInv, TypeOK, ReceiveEdit, Goto
<1>5. EditHeld(t)' /\ WantedHeld(t)'
  BY <1>4 DEF EditHeld, WantedHeld
<1>6. QED
  BY <1>3, <1>5, LocalStep DEF RInv, TypeOK, ReceiveEdit, Goto

\* A request that has been answered.
LEMMA AnswerLocals ==
  ASSUME RInv, NEW t \in Threads, Answer(t)
  PROVE  /\ pc' \in [Threads -> Label] /\ edit' \in [Threads -> EditRequest \cup {None}]
         /\ working' \in [Threads -> Working \cup {None}]
         /\ taken' \in [Threads -> SUBSET Ids]
         /\ wanted' \in [Threads -> Wanted \cup {None}]
         /\ EditHeld(t)' /\ WantedHeld(t)'
         /\ \A s \in Threads : s # t =>
              /\ pc'[s] = pc[s] /\ edit'[s] = edit[s] /\ working'[s] = working[s]
              /\ taken'[s] = taken[s] /\ wanted'[s] = wanted[s]
<1>1. pc'[t] = "idle"
  BY DEF RInv, TypeOK, Answer
<1>2. EditHeld(t)' /\ WantedHeld(t)'
  BY <1>1 DEF EditHeld, WantedHeld
<1>3. QED
  BY <1>2 DEF RInv, TypeOK, Answer, Label

LEMMA ReadLatestPreserves ==
  ASSUME RInv, NEW t \in Threads, ReadLatest(t)
  PROVE  RInv'
<1> DEFINE revisions == history[edit[t].job]
<1>1. UNCHANGED <<store, requests, answers>>
  BY DEF ReadLatest
<1>2. CASE Answer(t)
  <2>1. TypeOK'
    BY <1>1, <1>2, AnswerLocals DEF RInv, TypeOK, HistoryTypeOK, store
  <2>2. QED
    BY <1>1, <1>2, <2>1, AnswerLocals, LocalStep
<1>3. CASE ~Answer(t)
  <2>1. /\ revisions # <<>> /\ edit[t].base = Len(revisions) - 1
        /\ pc' = [pc EXCEPT ![t] = "list"]
        /\ working' = [working EXCEPT ![t] =
             [number |-> edit[t].base, events |-> Latest(revisions)]]
        /\ UNCHANGED <<edit, taken, wanted>>
    BY <1>3 DEF ReadLatest, Goto
  <2>2. edit[t] \in EditRequest
    BY DEF RInv, Held, EditHeld, ReadLatest
  <2>3. revisions \in Seq(SUBSET Event) /\ edit[t].base \in Nat
    BY <2>2 DEF RInv, TypeOK, HistoryTypeOK, EditRequest
  <2>4. Len(revisions) \in 1..Len(revisions) /\ Latest(revisions) = revisions[Len(revisions)]
    BY <2>1, <2>3 DEF Latest
  <2>5. [number |-> edit[t].base, events |-> Latest(revisions)] \in Working
    BY <2>3, <2>4 DEF Working
  <2>6. TypeOK'
    BY <1>1, <2>1, <2>5 DEF RInv, TypeOK, HistoryTypeOK, store, Label
  <2>7. /\ pc'[t] = "list" /\ edit'[t] = edit[t] /\ history' = history
        /\ working'[t] = [number |-> edit[t].base, events |-> Latest(revisions)]
    BY <1>1, <2>1 DEF RInv, TypeOK, store
  <2>8. EditHeld(t)'
    BY <2>1, <2>2, <2>3, <2>4, <2>5, <2>7 DEF EditHeld
  <2>9. WantedHeld(t)'
    BY <2>7 DEF WantedHeld
  <2>10. QED
    BY <1>1, <2>1, <2>6, <2>8, <2>9, LocalStep DEF RInv, TypeOK
<1>4. QED
  BY <1>2, <1>3

LEMMA ReadHistoryPreserves ==
  ASSUME RInv, NEW t \in Threads, ReadHistory(t)
  PROVE  RInv'
<1> DEFINE revisions == history[edit[t].job]
<1>1. EditHeld(t) /\ pc[t] = "list"
  BY DEF RInv, Held, ReadHistory, Goto
<1>2. revisions \in Seq(SUBSET Event)
  BY <1>1 DEF EditHeld, RInv, TypeOK, HistoryTypeOK, EditRequest
<1>3. HistoricalIds(revisions) \subseteq Ids
  BY <1>2 DEF HistoricalIds, IdsOf, Event
<1>4. TypeOK'
  BY <1>3 DEF RInv, TypeOK, HistoryTypeOK, ReadHistory, Goto, store, Label
<1>5. /\ pc'[t] = "append" /\ taken'[t] = HistoricalIds(revisions)
      /\ history' = history /\ edit' = edit /\ working' = working
  BY DEF RInv, TypeOK, ReadHistory, Goto, store
<1>6. EditHeld(t)'
  BY <1>1, <1>5 DEF EditHeld
<1>7. WantedHeld(t)'
  BY <1>5 DEF WantedHeld
<1>8. QED
  BY <1>4, <1>6, <1>7, LocalStep DEF RInv, TypeOK, ReadHistory, Goto

\* What append() adds, seen from the history: the edit of its latest revision.
LEMMA AppendIsEdit ==
  ASSUME RInv, NEW t \in Threads, AppendRevision(t), history' # history
  PROVE  LET j == edit[t].job
             batch == edit[t].batch
         IN /\ j \in Jobs /\ batch \in Batches
            /\ Len(history[j]) \in 1..(MaxRevisions - 1)
            /\ Latest(history[j]) \in SUBSET Event
            /\ Accepted(batch, Latest(history[j]), HistoricalIds(history[j]))
            /\ history' = [history EXCEPT ![j] =
                 Append(@, Edited(batch, Latest(@), Len(@)))]
<1> DEFINE j == edit[t].job
           batch == edit[t].batch
           number == working[t].number + 1
<1>1. EditHeld(t) /\ pc[t] = "append"
  BY DEF RInv, Held, AppendRevision
<1>2. j \in Jobs /\ batch \in Batches /\ working[t] \in Working
  BY <1>1 DEF EditHeld, EditRequest
<1>3. history[j] \in Seq(SUBSET Event)
  BY <1>2 DEF RInv, TypeOK, HistoryTypeOK
<1>4. /\ Accepted(batch, working[t].events, taken[t])
      /\ history[j] # <<>> /\ Len(history[j]) = number
      /\ Len(history[j]) < MaxRevisions
      /\ history' = [history EXCEPT ![j] = Append(@, Edited(batch, working[t].events, number))]
  BY DEF AppendRevision
<1>5. Len(history[j]) \in 1..(MaxRevisions - 1)
  BY <1>3, <1>4, HistoryAssumption
<1>6. working[t].events = Latest(history[j]) /\ taken[t] = HistoricalIds(history[j])
  BY <1>1, <1>4 DEF EditHeld, Latest
<1>7. working[t].events \in SUBSET Event
  BY <1>2 DEF Working
<1>8. QED
  BY <1>2, <1>4, <1>5, <1>6, <1>7

LEMMA AppendRevisionPreserves ==
  ASSUME RInv, NEW t \in Threads, AppendRevision(t)
  PROVE  RInv'
<1> DEFINE j == edit[t].job
           new == Edited(edit[t].batch, Latest(history[j]), Len(history[j]))
<1>1. Answer(t) /\ UNCHANGED <<reviews, requests, answers>>
  BY DEF AppendRevision
<1>2. CASE history' = history
  <2>1. TypeOK'
    BY <1>1, <1>2, AnswerLocals DEF RInv, TypeOK, HistoryTypeOK
  <2>2. QED
    BY <1>1, <1>2, <2>1, AnswerLocals, LocalStep DEF store
<1>3. CASE history' # history
  <2>1. /\ j \in Jobs /\ edit[t].batch \in Batches
        /\ Len(history[j]) \in 1..(MaxRevisions - 1)
        /\ Latest(history[j]) \in SUBSET Event
        /\ Accepted(edit[t].batch, Latest(history[j]), HistoricalIds(history[j]))
        /\ history' = [history EXCEPT ![j] = Append(@, Edited(edit[t].batch, Latest(@), Len(@)))]
    BY <1>3, AppendIsEdit
  <2>2. new \in SUBSET Event
    <3>1. Len(history[j]) \in Nat
      BY <2>1, HistoryAssumption
    <3>2. QED
      BY <2>1, <3>1, EditedType
  <2>3. history' = [history EXCEPT ![j] = Append(@, new)]
    BY <2>1 DEF RInv, TypeOK, HistoryTypeOK
  <2> HIDE DEF new, j
  <2>4. /\ HistoryTypeOK'
        /\ \A i \in Jobs : i # j => history'[i] = history[i]
        /\ Len(history'[j]) = Len(history[j]) + 1
        /\ \A n \in 1..Len(history[j]) : history'[j][n] = history[j][n]
    BY <2>1, <2>2, <2>3, AppendGrows DEF j
  <2>5. TypeOK'
    BY <1>1, <2>4, AnswerLocals DEF RInv, TypeOK
  <2>6. Held'
    BY <1>1, <2>4, AnswerLocals, HeldStays DEF Held
  <2>7. ReviewIsRevisionZero'
    <3>1. /\ history[j] # <<>> /\ history'[j] # <<>>
          /\ history'[j][1] = history[j][1]
      BY <2>1, <2>4 DEF j
    <3>2. QED
      BY <1>1, <2>4, <3>1 DEF RInv, ReviewIsRevisionZero
  <2>8. AnswersKnown' /\ AnsweredIsRequested'
    BY <1>1 DEF RInv, AnswersKnown, AnsweredIsRequested
  <2>9. QED
    BY <2>5, <2>6, <2>7, <2>8 DEF RInv
<1>4. QED
  BY <1>2, <1>3

LEMMA ReceiveRegenerationPreserves ==
  ASSUME RInv, NEW t \in Threads, NEW j \in Jobs, ReceiveRegeneration(t, j)
  PROVE  RInv'
<1>1. PICK n \in 0..(MaxRegenerated - 1) :
        wanted' = [wanted EXCEPT ![t] = [job |-> j, number |-> n, id |-> None]]
  BY DEF ReceiveRegeneration
<1>2. n \in 0..MaxRevisions
  BY HistoryAssumption, RevisionsAssumption
<1>3. [job |-> j, number |-> n, id |-> None] \in Wanted
  BY <1>2 DEF Wanted
<1>4. TypeOK'
  BY <1>1, <1>3 DEF RInv, TypeOK, HistoryTypeOK, ReceiveRegeneration, Goto, store, Label
<1>5. pc'[t] = "look_up" /\ wanted'[t] = [job |-> j, number |-> n, id |-> None]
  BY <1>1 DEF RInv, TypeOK, ReceiveRegeneration, Goto
<1>6. EditHeld(t)'
  BY <1>5 DEF EditHeld
<1>7. WantedHeld(t)'
  BY <1>2, <1>5 DEF WantedHeld
<1>8. QED
  BY <1>4, <1>6, <1>7, LocalStep DEF RInv, TypeOK, ReceiveRegeneration, Goto

\* A request that is returned, once it is in the dictionary.
LEMMA ReturnPreserves ==
  ASSUME RInv, NEW t \in Threads, pc[t] \in {"look_up", "save", "store"},
         NEW id \in RequestIds, Return(t, id), UNCHANGED store,
         requests' \in [Jobs -> [0..MaxRevisions -> RequestIds \cup {None}]],
         requests'[wanted[t].job][wanted[t].number] # None,
         \A j \in Jobs, n \in 0..MaxRevisions :
           requests[j][n] # None => requests'[j][n] # None
  PROVE  RInv'
<1>1. wanted[t].job \in Jobs /\ wanted[t].number \in 0..MaxRevisions
  BY DEF RInv, Held, WantedHeld
<1>2. /\ Answer(t)
      /\ answers' = answers \cup {[job |-> wanted[t].job, number |-> wanted[t].number, id |-> id]}
  BY DEF Return
<1>3. TypeOK'
  <2>1. wanted[t].number \in Nat
    BY <1>1, HistoryAssumption
  <2>2. answers' \subseteq [job: Jobs, number: Nat, id: RequestIds]
    BY <1>1, <1>2, <2>1 DEF RInv, TypeOK
  <2>3. QED
    BY <1>2, <2>2, AnswerLocals DEF RInv, TypeOK, HistoryTypeOK, store
<1>4. Held'
  BY <1>2, AnswerLocals, HeldStays DEF Held, store
<1>5. ReviewIsRevisionZero'
  BY DEF RInv, ReviewIsRevisionZero, store
<1>6. AnswersKnown'
  BY <1>1, <1>2 DEF RInv, AnswersKnown
<1>7. AnsweredIsRequested'
  BY <1>2 DEF RInv, AnswersKnown, AnsweredIsRequested
<1>8. QED
  BY <1>3, <1>4, <1>5, <1>6, <1>7 DEF RInv

\* A request that is found is one of the requests.
LEMMA FoundIsRequest ==
  ASSUME RInv, NEW t \in Threads, pc[t] \in {"look_up", "save", "store"}, Found(t) # None
  PROVE  Found(t) \in RequestIds
<1>1. wanted[t].job \in Jobs /\ wanted[t].number \in 0..MaxRevisions
  BY DEF RInv, Held, WantedHeld
<1>2. requests[wanted[t].job] \in [0..MaxRevisions -> RequestIds \cup {None}]
  BY <1>1 DEF RInv, TypeOK
<1>3. QED
  BY <1>1, <1>2 DEF Found

LEMMA LookUpPreserves ==
  ASSUME RInv, NEW t \in Threads, LookUp(t)
  PROVE  RInv'
<1>1. pc[t] = "look_up" /\ UNCHANGED <<store, requests>>
  BY DEF LookUp
<1>2. CASE Found(t) # None
  <2>1. Return(t, Found(t)) /\ Found(t) \in RequestIds
    BY <1>1, <1>2, FoundIsRequest DEF LookUp
  <2>2. requests' \in [Jobs -> [0..MaxRevisions -> RequestIds \cup {None}]]
    BY <1>1 DEF RInv, TypeOK
  <2>3. QED
    BY <1>1, <1>2, <2>1, <2>2, ReturnPreserves DEF Found
<1>3. CASE Found(t) = None
  <2>1. PICK id \in RequestIds : wanted' = [wanted EXCEPT ![t].id = id]
    BY <1>3 DEF LookUp
  <2>2. pc' = [pc EXCEPT ![t] = "save"] /\ UNCHANGED <<edit, working, taken, answers>>
    BY <1>3 DEF LookUp, Goto
  <2>3. wanted[t] \in [job: Jobs, number: 0..MaxRevisions, id: RequestIds \cup {None}]
    BY <1>1 DEF RInv, Held, WantedHeld
  <2>4. /\ wanted'[t] \in [job: Jobs, number: 0..MaxRevisions, id: RequestIds \cup {None}]
        /\ wanted'[t].id \in RequestIds /\ pc'[t] = "save"
    BY <2>1, <2>2, <2>3 DEF RInv, TypeOK
  <2>5. wanted'[t] \in Wanted
    BY <2>4, HistoryAssumption DEF Wanted
  <2>6. wanted' \in [Threads -> Wanted \cup {None}]
    BY <2>1, <2>5 DEF RInv, TypeOK
  <2>7. TypeOK'
    BY <1>1, <2>2, <2>6 DEF RInv, TypeOK, HistoryTypeOK, store, Label
  <2>8. EditHeld(t)'
    BY <2>4 DEF EditHeld
  <2>9. WantedHeld(t)'
    BY <2>4 DEF WantedHeld
  <2>10. QED
    BY <1>1, <2>1, <2>2, <2>7, <2>8, <2>9, LocalStep DEF RInv, TypeOK
<1>4. QED
  BY <1>2, <1>3

LEMMA SaveLooksPreserves ==
  ASSUME RInv, NEW t \in Threads, SaveLooks(t)
  PROVE  RInv'
<1>1. pc[t] = "save" /\ UNCHANGED <<store, requests>>
  BY DEF SaveLooks
<1>2. CASE Found(t) # None
  <2>1. Return(t, Found(t)) /\ Found(t) \in RequestIds
    BY <1>1, <1>2, FoundIsRequest DEF SaveLooks
  <2>2. requests' \in [Jobs -> [0..MaxRevisions -> RequestIds \cup {None}]]
    BY <1>1 DEF RInv, TypeOK
  <2>3. QED
    BY <1>1, <1>2, <2>1, <2>2, ReturnPreserves DEF Found
<1>3. CASE Found(t) = None
  <2>1. pc' = [pc EXCEPT ![t] = "store"] /\ UNCHANGED <<edit, working, taken, wanted, answers>>
    BY <1>3 DEF SaveLooks, Goto
  <2>2. TypeOK'
    BY <1>1, <2>1 DEF RInv, TypeOK, HistoryTypeOK, store, Label
  <2>3. pc'[t] = "store"
    BY <2>1 DEF RInv, TypeOK
  <2>4. EditHeld(t)'
    BY <2>3 DEF EditHeld
  <2>5. WantedHeld(t)'
    BY <1>1, <2>1 DEF RInv, Held, WantedHeld
  <2>6. QED
    BY <1>1, <2>1, <2>2, <2>4, <2>5, LocalStep DEF RInv, TypeOK
<1>4. QED
  BY <1>2, <1>3

LEMMA SaveStoresPreserves ==
  ASSUME RInv, NEW t \in Threads, SaveStores(t)
  PROVE  RInv'
<1>1. /\ pc[t] = "store" /\ UNCHANGED store /\ Return(t, wanted[t].id)
      /\ requests' = [requests EXCEPT ![wanted[t].job][wanted[t].number] = wanted[t].id]
  BY DEF SaveStores
<1>2. /\ wanted[t].job \in Jobs /\ wanted[t].number \in 0..MaxRevisions
      /\ wanted[t].id \in RequestIds
  BY <1>1 DEF RInv, Held, WantedHeld
<1>3. /\ requests' \in [Jobs -> [0..MaxRevisions -> RequestIds \cup {None}]]
      /\ requests'[wanted[t].job][wanted[t].number] = wanted[t].id
      /\ \A j \in Jobs, n \in 0..MaxRevisions :
           requests'[j][n] = wanted[t].id \/ requests'[j][n] = requests[j][n]
  BY <1>1, <1>2 DEF RInv, TypeOK
<1>4. wanted[t].id # None
  BY <1>2, RevisionsAssumption
<1>5. QED
  BY <1>1, <1>2, <1>3, <1>4, ReturnPreserves

LEMMA NextPreserves == RInv /\ [Next]_vars => RInv'
<1> SUFFICES ASSUME RInv, [Next]_vars PROVE RInv'
  OBVIOUS
<1>1. ASSUME NEW j \in Jobs, NEW r \in Results, Register(j, r) PROVE RInv'
  BY <1>1, RegisterPreserves
<1>2. ASSUME NEW t \in Threads, NEW j \in Jobs, ReceiveEdit(t, j) \/ ReceiveRegeneration(t, j)
      PROVE  RInv'
  BY <1>2, ReceiveEditPreserves, ReceiveRegenerationPreserves
<1>3. ASSUME NEW t \in Threads, ReadLatest(t) \/ ReadHistory(t) \/ AppendRevision(t)
      PROVE  RInv'
  BY <1>3, ReadLatestPreserves, ReadHistoryPreserves, AppendRevisionPreserves
<1>4. ASSUME NEW t \in Threads, LookUp(t) \/ SaveLooks(t) \/ SaveStores(t)
      PROVE  RInv'
  BY <1>4, LookUpPreserves, SaveLooksPreserves, SaveStoresPreserves
<1>5. CASE UNCHANGED vars
  <2>1. UNCHANGED <<store, requests, answers>> /\ UNCHANGED threadVars
    BY <1>5 DEF vars
  <2>2. TypeOK'
    BY <2>1 DEF RInv, TypeOK, HistoryTypeOK, store, threadVars
  <2>3. Held'
    BY <2>1, HeldStays DEF Held, store, threadVars
  <2>4. ReviewIsRevisionZero'
    BY <2>1 DEF RInv, ReviewIsRevisionZero, store
  <2>5. AnswersKnown' /\ AnsweredIsRequested'
    BY <2>1 DEF RInv, AnswersKnown, AnsweredIsRequested
  <2>6. QED
    BY <2>2, <2>3, <2>4, <2>5 DEF RInv
<1>6. QED
  BY <1>1, <1>2, <1>3, <1>4, <1>5 DEF Next

LEMMA Invariance == Spec => []RInv
BY InitInv, NextPreserves, PTL DEF Spec

(***************************************************************************)
(* The theorems.                                                           *)
(***************************************************************************)

\* The repositories and the locals of every thread keep their types.
THEOREM TypeCorrect == Spec => []TypeOK
<1>1. RInv => TypeOK
  BY DEF RInv
<1>2. QED
  BY <1>1, Invariance, PTL

\* A review and the revision zero built of it appear together and stay together.
THEOREM ReviewMatches == Spec => []ReviewIsRevisionZero
<1>1. RInv => ReviewIsRevisionZero
  BY DEF RInv
<1>2. QED
  BY <1>1, Invariance, PTL

\* An answered regeneration stays requested, whatever overwrites the request.
THEOREM AnswerKept == Spec => []AnsweredIsRequested
<1>1. RInv => AnsweredIsRequested
  BY DEF RInv
<1>2. QED
  BY <1>1, Invariance, PTL

\* Each step of Revisions opens a history, edits its latest revision, or leaves
\* it alone: the reads of several steps make up an atomic edit.
LEMMA StepRefines == RInv /\ [Next]_vars => [HistoryNext]_history
<1> SUFFICES ASSUME RInv, [Next]_vars, history' # history PROVE HistoryNext
  OBVIOUS
<1>1. ASSUME NEW j \in Jobs, NEW r \in Results, Register(j, r)
      PROVE  HistoryNext
  <2>1. history[j] = <<>> /\ history' = [history EXCEPT ![j] = <<RevisionZero(EventsOf[r])>>]
    BY <1>1 DEF Register
  <2>2. EventsOf[r] \in SUBSET ModelIds
    BY RevisionsAssumption
  <2>3. QED
    BY <2>1, <2>2 DEF HistoryNext, Open
<1>2. ASSUME NEW t \in Threads, AppendRevision(t)
      PROVE  HistoryNext
  <2> DEFINE j == edit[t].job
  <2>1. /\ j \in Jobs /\ edit[t].batch \in Batches
        /\ Len(history[j]) \in 1..(MaxRevisions - 1)
        /\ Accepted(edit[t].batch, Latest(history[j]), HistoricalIds(history[j]))
        /\ history' = [history EXCEPT ![j] = Append(@, Edited(edit[t].batch, Latest(@), Len(@)))]
    BY <1>2, AppendIsEdit
  <2>2. Edit(j)
    BY <2>1 DEF Edit
  <2>3. QED
    BY <2>1, <2>2 DEF HistoryNext
<1>3. ASSUME NEW t \in Threads, NEW j \in Jobs, ReceiveEdit(t, j) \/ ReceiveRegeneration(t, j)
      PROVE  FALSE
  BY <1>3 DEF ReceiveEdit, ReceiveRegeneration, store
<1>4. ASSUME NEW t \in Threads,
             ReadLatest(t) \/ ReadHistory(t) \/ LookUp(t) \/ SaveLooks(t) \/ SaveStores(t)
      PROVE  FALSE
  BY <1>4 DEF ReadLatest, ReadHistory, LookUp, SaveLooks, SaveStores, store
<1>5. ~ UNCHANGED vars
  BY DEF vars, store
<1>6. QED
  BY <1>1, <1>2, <1>3, <1>4, <1>5 DEF Next

\* Concurrent edits behave as edits one after the other.
THEOREM Refinement == Spec => ImplementsHistory
<1>1. Init => HistoryInit
  BY DEF Init
<1>2. QED
  BY <1>1, StepRefines, Invariance, PTL DEF Spec, ImplementsHistory, HistorySpec

\* No event id ever comes back for another event.
THEOREM IdsStayUnique == Spec => []IdsNeverReused
<1>1. HIInv => IdsNeverReused
  BY DEF HIInv
<1>2. QED
  BY <1>1, Refinement, HistoryInvariance, PTL DEF ImplementsHistory

\* No edit silently overwrites what another edit wrote.
THEOREM EditsKept == Spec => []NothingOverwritten
<1>1. HIInv => NothingOverwritten
  BY DEF HIInv
<1>2. QED
  BY <1>1, Refinement, HistoryInvariance, PTL DEF ImplementsHistory

\* Revisions are never changed or removed.
THEOREM HistoryKept == Spec => OnlyAppended
<1>1. HIInv /\ [HistoryNext]_history =>
        [\A j \in Jobs :
           /\ Len(history'[j]) >= Len(history[j])
           /\ \A n \in 1..Len(history[j]) : history'[j][n] = history[j][n]]_history
  BY HistoryGrows DEF HIInv
<1>2. QED
  BY <1>1, Refinement, HistoryInvariance, PTL
     DEF ImplementsHistory, HistorySpec, OnlyAppended
=============================================================================
