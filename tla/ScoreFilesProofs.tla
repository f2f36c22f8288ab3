-------------------------- MODULE ScoreFilesProofs --------------------------
(* Proofs about the files that leave the note pipeline: what the MusicXML document *)
(* and the MIDI file of a revision say, and that no value of the pipeline makes a   *)
(* stage raise.                                                                      *)
EXTENDS ScorePipelineProofs

-----------------------------------------------------------------------------
(* Measures. The notes and rests are cut at the bar lines.                           *)

\* The bar lines.
AreBars(bar, capacity) ==
  /\ bar \in [Nat -> Nat] /\ bar[0] = 0
  /\ \A j \in Nat : bar[j] = j * capacity /\ bar[j + 1] = bar[j] + capacity
  /\ \A i, j \in Nat : i < j => bar[i + 1] <= bar[j]
  /\ \A t \in Nat : /\ t \div capacity \in Nat
                    /\ bar[t \div capacity] <= t /\ t < bar[t \div capacity + 1]

LEMMA ProductGrows ==
  ASSUME NEW i \in Nat, NEW j \in Nat, NEW c \in Nat, i <= j
  PROVE  i * c <= j * c
<1>1. PICK d \in Nat : j = i + d
  <2>1. j - i \in Nat /\ j = i + (j - i)
    OBVIOUS
  <2> QED BY <2>1
<1>2. j * c = i * c + d * c
  BY <1>1
<1> DEFINE x == i * c
           y == d * c
<1>3. x \in Nat /\ y \in Nat
  BY <1>1, ProductsOfNaturals
<1> HIDE DEF x, y
<1>4. x <= x + y
  BY <1>3
<1> QED BY <1>2, <1>4 DEF x, y

LEMMA BarsExist ==
  ASSUME NEW capacity \in Nat \ {0}
  PROVE  \E bar : AreBars(bar, capacity)
<1> DEFINE bar == [j \in Nat |-> j * capacity]
<1>1. \A j \in Nat : j * capacity \in Nat
  BY ProductsOfNaturals
<1>2. bar \in [Nat -> Nat] /\ \A j \in Nat : bar[j] = j * capacity
  BY <1>1
<1>3. bar[0] = 0
  BY <1>2
<1>4. \A j \in Nat : (j + 1) * capacity = j * capacity + capacity
  OBVIOUS
<1> HIDE DEF bar
<1>5. \A j \in Nat : bar[j + 1] = bar[j] + capacity
  <2> TAKE j \in Nat
  <2>1. j + 1 \in Nat
    OBVIOUS
  <2>2. bar[j + 1] = (j + 1) * capacity /\ bar[j] = j * capacity
    BY <1>2, <2>1
  <2> QED BY <1>4, <2>2
<1>6. \A i, j \in Nat : i < j => bar[i + 1] <= bar[j]
  <2> TAKE i, j \in Nat
  <2> HAVE i < j
  <2>1. i + 1 \in Nat /\ i + 1 <= j
    OBVIOUS
  <2>2. (i + 1) * capacity <= j * capacity
    BY <2>1, ProductGrows
  <2>3. bar[i + 1] = (i + 1) * capacity /\ bar[j] = j * capacity
    BY <1>2, <2>1
  <2> QED BY <2>2, <2>3
<1>7. ASSUME NEW t \in Nat
      PROVE  /\ t \div capacity \in Nat
             /\ bar[t \div capacity] <= t /\ t < bar[t \div capacity + 1]
  <2> DEFINE q == t \div capacity
  <2>1. q \in Nat
    BY QuotientOfNaturals
  <2>2. q * capacity <= t /\ t < q * capacity + capacity
    OBVIOUS
  <2> HIDE DEF q
  <2>3. bar[q] = q * capacity /\ bar[q + 1] = bar[q] + capacity
    BY <1>2, <1>5, <2>1
  <2> QED BY <2>1, <2>2, <2>3 DEF q
<1> QED BY <1>2, <1>3, <1>5, <1>6, <1>7 DEF AreBars

LEMMA BarsGrow ==
  ASSUME NEW capacity \in Nat \ {0}, NEW bar, AreBars(bar, capacity), NEW j \in Nat
  PROVE  /\ bar[j] \in Nat /\ bar[j + 1] \in Nat
         /\ bar[j + 1] = bar[j] + capacity /\ bar[j] < bar[j + 1]
<1>1. bar \in [Nat -> Nat] /\ bar[j + 1] = bar[j] + capacity
  BY DEF AreBars
<1>2. bar[j] \in Nat
  BY <1>1
<1> QED BY <1>1, <1>2

\* A time lies in the measure of the bar lines around it.
LEMMA InMeasure ==
  ASSUME NEW capacity \in Nat \ {0}, NEW bar, AreBars(bar, capacity), NEW t \in Nat, NEW j \in Nat,
         bar[j] <= t, t < bar[j + 1]
  PROVE  t \div capacity = j
<1> DEFINE q == t \div capacity
<1>1. q \in Nat /\ bar[q] <= t /\ t < bar[q + 1]
  BY DEF AreBars
<1> HIDE DEF q
<1>2. bar[q] \in Nat /\ bar[q + 1] \in Nat /\ bar[j] \in Nat /\ bar[j + 1] \in Nat
  <2>1. q + 1 \in Nat /\ j + 1 \in Nat
    BY <1>1
  <2> QED BY <1>1, <2>1 DEF AreBars
<1>3. ~(q < j)
  <2>1. q < j => bar[q + 1] <= bar[j]
    BY <1>1 DEF AreBars
  <2> QED BY <1>1, <1>2, <2>1
<1>4. ~(j < q)
  <2>1. j < q => bar[j + 1] <= bar[q]
    BY <1>1 DEF AreBars
  <2> QED BY <1>1, <1>2, <2>1
<1>5. q = j
  BY <1>1, <1>3, <1>4
<1> QED BY <1>5 DEF q

\* The pieces from cursor to end: the measure and the length of each.
Drafts(bar, capacity, cursor, end) ==
  LET first == cursor \div capacity
      last == (end - 1) \div capacity
  IN IF cursor >= end THEN <<>>
     ELSE [k \in 1..(last - first + 1) |->
             [measure |-> first + k,
              duration |-> Min({end, bar[first + k]}) - Max({cursor, bar[first + k - 1]})]]

\* Where the piece that begins at cursor ends, and the piece.
DraftEnd(capacity, cursor, end) == Min({end, ((cursor \div capacity) + 1) * capacity})

FirstDraft(capacity, cursor, end) ==
  <<[measure |-> (cursor \div capacity) + 1, duration |-> DraftEnd(capacity, cursor, end) - cursor]>>

LEMMA DraftsRecur ==
  ASSUME NEW capacity \in Nat \ {0}, NEW bar, AreBars(bar, capacity), NEW cursor \in Nat,
         NEW end \in Nat, cursor < end
  PROVE  LET to == DraftEnd(capacity, cursor, end)
         IN /\ to \in Nat /\ cursor < to /\ to <= end
            /\ Drafts(bar, capacity, cursor, end) =
                 FirstDraft(capacity, cursor, end) \o Drafts(bar, capacity, to, end)
<1> DEFINE first == cursor \div capacity
           last == (end - 1) \div capacity
           measure == first + 1
           bound == bar[measure]
           to == Min({end, measure * capacity})
<1>1. /\ first \in Nat /\ bar[first] <= cursor /\ cursor < bar[first + 1]
      /\ last \in Nat /\ bar[last] <= end - 1 /\ end - 1 < bar[last + 1]
  <2>1. end - 1 \in Nat
    OBVIOUS
  <2> QED BY <2>1 DEF AreBars
<1> HIDE DEF first, last
<1>2. measure \in Nat /\ bound \in Nat /\ measure * capacity = bound /\ bar[first] \in Nat
  BY <1>1 DEF AreBars
<1>3. to = IF end <= bound THEN end ELSE bound
  BY <1>2, MinOfTwo
<1> HIDE DEF to, bound
<1>4. to \in Nat /\ cursor < to /\ to <= end
  BY <1>1, <1>2, <1>3 DEF bound
<1> DEFINE piece(k) == [measure |-> first + k,
                        duration |-> Min({end, bar[first + k]}) - Max({cursor, bar[first + k - 1]})]
           whole == Drafts(bar, capacity, cursor, end)
           head == <<[measure |-> measure, duration |-> to - cursor]>>
           rest == Drafts(bar, capacity, to, end)
           V == {piece(k) : k \in 1..(last - first + 1)}
<1>5. whole = [k \in 1..(last - first + 1) |-> piece(k)]
  BY DEF Drafts, first, last
<1>6. piece(1) = [measure |-> measure, duration |-> to - cursor]
  <2>1. Min({end, bar[first + 1]}) = to
    BY <1>2 DEF to, bound
  <2>2. first + 1 - 1 = first
    BY <1>1
  <2>3. Max({cursor, bar[first]}) = cursor
    BY <1>1, <1>2, MaxOfTwo
  <2> QED BY <2>1, <2>2, <2>3
<1>7. CASE end <= bound
  <2>1. to = end
    BY <1>2, <1>3, <1>7
  <2>2. last = first
    <3>1. bar[first] <= end - 1 /\ end - 1 < bar[first + 1] /\ end - 1 \in Nat
      BY <1>1, <1>2, <1>7 DEF bound
    <3> QED BY <1>1, <3>1, InMeasure DEF last
  <2>3. rest = <<>>
    BY <2>1 DEF Drafts
  <2>4. whole = <<piece(1)>>
    <3>1. 1..(last - first + 1) = {1}
      BY <1>1, <2>2
    <3> HIDE DEF piece
    <3> QED BY <1>5, <3>1
  <2>5. <<piece(1)>> \o <<>> = <<piece(1)>>
    <3> HIDE DEF piece
    <3> QED OBVIOUS
  <2>6. whole = head \o rest
    BY <1>6, <2>3, <2>4, <2>5
  <2> QED BY <1>4, <2>6 DEF to, first, bound, DraftEnd, FirstDraft
<1>8. CASE ~(end <= bound)
  <2>1. to = bound
    BY <1>3, <1>8
  <2>2. to < end /\ bound \in Nat
    BY <1>2, <1>8, <2>1
  <2>3. to \div capacity = measure
    <3>1. bar[measure] <= to /\ to < bar[measure + 1]
      <4>1. bar[measure] < bar[measure + 1]
        BY <1>2, BarsGrow
      <4> QED BY <1>2, <2>1, <2>2, <4>1 DEF bound
    <3> QED BY <1>2, <1>4, <3>1, InMeasure
  <2>4. measure <= last
    <3>1. measure + 1 \in Nat /\ last + 1 \in Nat
      BY <1>1, <1>2
    <3>2. last < measure => bar[last + 1] <= bound
      BY <1>1, <1>2, <3>1 DEF bound, AreBars
    <3>3. bar[last + 1] \in Nat
      BY <1>1, BarsGrow
    <3> QED BY <1>1, <1>2, <1>8, <3>2, <3>3
  <2> DEFINE n == last - measure + 1
             then(k) == [measure |-> measure + k,
                         duration |-> Min({end, bar[measure + k]}) - Max({to, bar[measure + k - 1]})]
  <2>5. rest = [k \in 1..n |-> then(k)]
    <3>1. ~(to >= end)
      BY <1>4, <2>2
    <3> QED BY <2>3, <3>1 DEF Drafts, last
  <2>6. n \in Nat /\ last - first + 1 = n + 1
    BY <1>1, <1>2, <2>4
  <2>7. \A k \in 1..n : then(k) = piece(k + 1)
    <3> TAKE k \in 1..n
    <3>1. measure + k = first + (k + 1) /\ measure + k - 1 = first + (k + 1) - 1
      BY <1>1
    <3> DEFINE line == bar[measure + k - 1]
    <3>2. line \in Nat /\ bound <= line
      <4> DEFINE j == measure + k - 1
      <4>1. j \in Nat /\ (j = measure \/ measure < j)
        BY <1>2
      <4>2. first \in Nat /\ first < j => bar[first + 1] <= bar[j]
        BY <4>1 DEF AreBars
      <4>3. first < j
        BY <1>1, <4>1
      <4> HIDE DEF j
      <4>4. bar[j] \in Nat /\ bound <= bar[j]
        BY <1>1, <4>1, <4>2, <4>3 DEF bound, AreBars
      <4> QED BY <4>4 DEF j
    <3> HIDE DEF line
    <3>3. Max({to, line}) = line /\ Max({cursor, line}) = line
      BY <1>4, <2>1, <3>2, MaxOfTwo
    <3> QED BY <3>1, <3>3 DEF line
  <2> HIDE DEF piece, then, n
  <2> DEFINE W == {piece(k) : k \in 1..(n + 1)}
  <2>8. head \in Seq(W) /\ Len(head) = 1 /\ head[1] = piece(1)
    <3>1. piece(1) \in W
      BY <2>6
    <3> QED BY <1>6, <3>1
  <2>9. rest \in Seq(W) /\ Len(rest) = n /\ \A k \in 1..n : rest[k] = piece(k + 1)
    <3>1. \A k \in 1..n : k + 1 \in 1..(n + 1)
      BY <2>6
    <3>2. \A k \in 1..n : then(k) \in W
      BY <2>7, <3>1
    <3> HIDE DEF W
    <3> QED BY <2>5, <2>6, <2>7, <3>2
  <2>10. whole \in Seq(W) /\ Len(whole) = n + 1 /\ \A k \in 1..(n + 1) : whole[k] = piece(k)
    BY <1>5, <2>6
  <2> HIDE DEF W, head, rest, whole
  <2>11. /\ head \o rest \in Seq(W) /\ Len(head \o rest) = n + 1
         /\ \A k \in 1..(n + 1) : (head \o rest)[k] = piece(k)
    <3>1. /\ head \o rest \in Seq(W) /\ Len(head \o rest) = 1 + n
          /\ (head \o rest)[1] = piece(1)
          /\ \A k \in 1..n : (head \o rest)[1 + k] = piece(k + 1)
      <4>1. /\ head \o rest \in Seq(W) /\ Len(head \o rest) = Len(head) + Len(rest)
            /\ \A i \in 1..Len(head) : (head \o rest)[i] = head[i]
            /\ \A i \in 1..Len(rest) : (head \o rest)[Len(head) + i] = rest[i]
        <5>1. head \in Seq(W) /\ rest \in Seq(W)
          BY <2>8, <2>9
        <5> QED BY ONLY <5>1, Joined
      <4>2. 1 \in 1..Len(head)
        BY <2>8
      <4> QED BY <2>8, <2>9, <4>1, <4>2, Zenon
    <3>2. ASSUME NEW k \in 1..(n + 1) PROVE (head \o rest)[k] = piece(k)
      <4>1. CASE k = 1
        BY <3>1, <4>1
      <4>2. CASE k # 1
        <5> DEFINE h == k - 1
        <5>1. h \in 1..n /\ 1 + h = k /\ h + 1 = k
          BY <2>6, <4>2
        <5> HIDE DEF h
        <5> QED BY <3>1, <5>1
      <4> QED BY <4>1, <4>2
    <3> QED BY <2>6, <3>1, <3>2
  <2>12. whole = head \o rest
    BY <2>10, <2>11
  <2> QED BY <1>4, <2>12 DEF whole, head, rest, to, first, bound, DraftEnd, FirstDraft
<1> QED BY <1>7, <1>8

ScorePieces ==
  [measure : Nat \ {0}, duration : Nat \ {0}, item : Items, sequence : Nat, index : Nat \ {0},
   count : Nat \ {0}]

\* The pieces follow each other in time, each within its measure.
Lasting(pieces, at, bar) ==
  /\ at \in [1..(Len(pieces) + 1) -> Nat]
  /\ \A k \in 1..Len(pieces) :
       /\ at[k] < at[k + 1] /\ pieces[k].duration = at[k + 1] - at[k]
       /\ bar[pieces[k].measure - 1] <= at[k] /\ at[k + 1] <= bar[pieces[k].measure]

\* The k-th piece of an item that is cut into count pieces.
IsPiece(piece, item, sequence, k, count) ==
  piece.item = item /\ piece.sequence = sequence /\ piece.index = k /\ piece.count = count

\* The recursion of Segments.
IsDrafts(g, capacity, end) ==
  g = [cursor \in Nat |->
         IF cursor >= end THEN <<>>
         ELSE FirstDraft(capacity, cursor, end) \o g[DraftEnd(capacity, cursor, end)]]

LEMMA DraftsComputed ==
  ASSUME NEW capacity \in Nat \ {0}, NEW bar, AreBars(bar, capacity), NEW end \in Nat,
         NEW drafts, drafts = CHOOSE g : IsDrafts(g, capacity, end)
  PROVE  \A cursor \in Nat : drafts[cursor] = Drafts(bar, capacity, cursor, end)
<1> DEFINE to(cursor) == DraftEnd(capacity, cursor, end)
           head(cursor) == FirstDraft(capacity, cursor, end)
           Is(g) == IsDrafts(g, capacity, end)
           f == [cursor \in Nat |-> Drafts(bar, capacity, cursor, end)]
<1>1. ASSUME NEW cursor \in Nat, ~(cursor >= end)
      PROVE  /\ to(cursor) \in Nat /\ cursor < to(cursor) /\ to(cursor) <= end
             /\ Drafts(bar, capacity, cursor, end) =
                  head(cursor) \o Drafts(bar, capacity, to(cursor), end)
  <2>1. cursor < end
    BY <1>1
  <2> QED BY <2>1, DraftsRecur
<1>2. Is(f)
  <2>1. ASSUME NEW cursor \in Nat
        PROVE  f[cursor] = IF cursor >= end THEN <<>> ELSE head(cursor) \o f[to(cursor)]
    <3>1. CASE cursor >= end
      BY <3>1 DEF Drafts
    <3>2. CASE ~(cursor >= end)
      BY <1>1, <3>2
    <3> QED BY <3>1, <3>2
  <2> HIDE DEF f
  <2>2. f = [cursor \in Nat |-> f[cursor]]
    BY DEF f
  <2> QED BY <2>1, <2>2 DEF IsDrafts
<1>3. drafts = CHOOSE g : Is(g)
  OBVIOUS
<1>4. Is(drafts)
  <2> HIDE DEF Is, f
  <2> QED BY <1>2, <1>3
<1>5. \A cursor \in Nat :
        drafts[cursor] = IF cursor >= end THEN <<>> ELSE head(cursor) \o drafts[to(cursor)]
  BY <1>4 DEF IsDrafts
<1> HIDE DEF to, head
<1> DEFINE S == Nat
           stop == {cursor \in Nat : cursor >= end}
           next == [cursor \in Nat |-> IF cursor >= end THEN cursor ELSE to(cursor)]
           measure == [cursor \in Nat |-> IF cursor >= end THEN 0 ELSE end - cursor]
           G == {cursor \in Nat : drafts[cursor] = Drafts(bar, capacity, cursor, end)}
<1>6. IsMeasured(S, stop, next, measure)
  <2>1. next \in [Nat -> Nat]
    BY <1>1
  <2>2. measure \in [Nat -> Nat]
    OBVIOUS
  <2>3. \A x \in Nat : x \in stop \/ measure[next[x]] < measure[x]
    <3> TAKE x \in Nat
    <3>1. CASE x >= end
      BY <3>1
    <3>2. CASE ~(x >= end)
      <4> DEFINE y == to(x)
      <4>1. next[x] = y /\ y \in Nat /\ x < y /\ y <= end
        BY <1>1, <3>2
      <4> HIDE DEF y, next
      <4>2. measure[y] < measure[x]
        BY <3>2, <4>1
      <4> QED BY <4>1, <4>2
    <3> QED BY <3>1, <3>2
  <2> QED BY <2>1, <2>2, <2>3 DEF IsMeasured
<1>7. ASSUME NEW x \in S, x \in stop \/ next[x] \in G PROVE x \in G
  <2>1. CASE x >= end
    <3>1. drafts[x] = <<>> /\ Drafts(bar, capacity, x, end) = <<>>
      BY <1>5, <2>1 DEF Drafts
    <3> QED BY <3>1
  <2>2. CASE ~(x >= end)
    <3>1. next[x] = to(x) /\ to(x) \in G
      BY <1>7, <2>2
    <3>2. drafts[to(x)] = Drafts(bar, capacity, to(x), end)
      BY <3>1
    <3>3. drafts[x] = head(x) \o drafts[to(x)]
      BY <1>5, <2>2
    <3>4. Drafts(bar, capacity, x, end) = head(x) \o Drafts(bar, capacity, to(x), end)
      BY <1>1, <2>2
    <3> QED BY <3>2, <3>3, <3>4
  <2> QED BY <2>1, <2>2
<1> HIDE DEF stop, next, measure, G, S
<1>8. \A x \in S : x \in G
  BY <1>6, <1>7, MeasuredInduction
<1> QED BY <1>8 DEF G, S

LEMMA SegmentsOf ==
  ASSUME NEW capacity \in Nat \ {0}, NEW bar, AreBars(bar, capacity), NEW item \in Items,
         item.onset < item.offset, NEW sequence \in Nat
  PROVE  LET s == Segments(item, sequence, capacity)
         IN /\ s \in Seq(ScorePieces) /\ Len(s) \in Nat \ {0}
            /\ \A k \in 1..Len(s) : IsPiece(s[k], item, sequence, k, Len(s))
            /\ \E at : /\ Lasting(s, at, bar)
                       /\ at[1] = item.onset /\ at[Len(s) + 1] = item.offset
<1> DEFINE s == Segments(item, sequence, capacity)
           onset == item.onset
           end == item.offset
           first == onset \div capacity
           last == (end - 1) \div capacity
           n == last - first + 1
           drafts == CHOOSE g : IsDrafts(g, capacity, end)
           cut == drafts[onset]
<1>1. onset \in Nat /\ end \in Nat /\ onset < end
  BY DEF Items
<1>2. s = [k \in DOMAIN cut |->
            [measure |-> cut[k].measure, duration |-> cut[k].duration, item |-> item,
             sequence |-> sequence, index |-> k, count |-> Len(cut)]]
  BY DEF Segments, IsDrafts, FirstDraft, DraftEnd
<1>3. cut = Drafts(bar, capacity, onset, end)
  <2>1. drafts = CHOOSE g : IsDrafts(g, capacity, end)
    OBVIOUS
  <2> HIDE DEF drafts, end, onset
  <2> QED BY <1>1, <2>1, DraftsComputed
<1> HIDE DEF cut, s, onset, end
<1>4. /\ first \in Nat /\ bar[first] <= onset /\ onset < bar[first + 1]
      /\ last \in Nat /\ bar[last] <= end - 1 /\ end - 1 < bar[last + 1]
  <2>1. end - 1 \in Nat
    BY <1>1
  <2> QED BY <1>1, <2>1 DEF AreBars
<1> HIDE DEF first, last
<1>5. \A j \in Nat : bar[j] \in Nat /\ bar[j + 1] \in Nat
  BY BarsGrow
<1>6. first <= last
  <2>1. last < first => bar[last + 1] <= bar[first]
    BY <1>4 DEF AreBars
  <2>2. bar[last + 1] \in Nat /\ bar[first] \in Nat
    BY <1>4, <1>5
  <2> QED BY <1>1, <1>4, <2>1, <2>2
<1>7. n \in Nat \ {0} /\ first + n = last + 1
  BY <1>4, <1>6
<1> DEFINE at == [k \in 1..(n + 1) |-> IF k = 1 THEN onset ELSE IF k = n + 1 THEN end
                                       ELSE bar[first + k - 1]]
<1>8. \A k \in 1..n : bar[first + k] \in Nat /\ bar[first + k - 1] \in Nat
                      /\ first + k \in Nat \ {0}
  <2> TAKE k \in 1..n
  <2>1. first + k \in Nat /\ first + k - 1 \in Nat /\ first + k # 0
    BY <1>4
  <2> QED BY <1>5, <2>1
<1>9. ASSUME NEW k \in 1..n
      PROVE  /\ at[k] = Max({onset, bar[first + k - 1]})
             /\ at[k + 1] = Min({end, bar[first + k]})
             /\ bar[first + k - 1] <= at[k] /\ at[k] < at[k + 1] /\ at[k + 1] <= bar[first + k]
             /\ at[k] \in Nat /\ at[k + 1] \in Nat
  <2> DEFINE low == bar[first + k - 1]
             high == bar[first + k]
  <2>1. low \in Nat /\ high \in Nat
    BY <1>8
  <2>2. low < high
    <3> DEFINE j == first + k - 1
    <3>1. j \in Nat /\ j + 1 = first + k
      BY <1>4
    <3> HIDE DEF j
    <3>2. bar[j] < bar[j + 1]
      BY <3>1, BarsGrow
    <3> QED BY <3>1, <3>2 DEF j
  <2>3. k = 1 => low <= onset /\ onset < high
    <3>1. k = 1 => first + k - 1 = first /\ first + k = first + 1
      BY <1>4
    <3> QED BY <1>4, <3>1
  <2>4. k # 1 => onset < low
    <3> DEFINE j == first + k - 1
    <3>1. k # 1 => j \in Nat /\ (j = first + 1 \/ first + 1 < j)
      BY <1>4
    <3>2. k # 1 => first \in Nat /\ first < j
      BY <1>4
    <3>3. k # 1 => bar[first + 1] <= bar[j]
      BY <3>1, <3>2 DEF AreBars
    <3>4. bar[first + 1] \in Nat
      BY <1>4, <1>5
    <3> HIDE DEF j
    <3>5. k # 1 => onset < bar[j]
      <4>1. k # 1 => bar[j] \in Nat
        BY <1>5, <3>1
      <4> QED BY <1>1, <1>4, <3>3, <3>4, <4>1
    <3> QED BY <3>5 DEF j
  <2>5. k = n => end <= high /\ low < end
    <3>1. k = n => first + k = last + 1 /\ first + k - 1 = last
      BY <1>4, <1>7
    <3>2. bar[last] \in Nat /\ bar[last + 1] \in Nat
      BY <1>4, <1>5
    <3>3. bar[last] < end /\ end <= bar[last + 1]
      BY <1>1, <1>4, <3>2
    <3> QED BY <3>1, <3>3
  <2>6. k # n => high < end
    <3> DEFINE j == first + k
    <3>1. k # n => j \in Nat /\ j <= last
      BY <1>4, <1>7
    <3>2. k # n => bar[j] <= bar[last]
      <4>1. j < last => bar[j + 1] <= bar[last]
        BY <1>4, <1>8 DEF AreBars
      <4>2. k # n => bar[j] < bar[j + 1] /\ bar[j] \in Nat /\ bar[j + 1] \in Nat
        BY <3>1, BarsGrow
      <4>3. bar[last] \in Nat
        BY <1>4, <1>5
      <4> HIDE DEF j
      <4>4. k # n => j = last \/ j < last
        BY <1>4, <3>1
      <4> QED BY <4>1, <4>2, <4>3, <4>4
    <3>3. bar[last] \in Nat
      BY <1>4, <1>5
    <3>4. bar[last] < end
      BY <1>1, <1>4, <3>3
    <3> QED BY <1>1, <2>1, <3>2, <3>3, <3>4
  <2>7. at[k] = IF k = 1 THEN onset ELSE low
    BY <1>7
  <2>8. at[k + 1] = IF k = n THEN end ELSE high
    <3>1. k + 1 \in 1..(n + 1) /\ k + 1 # 1 /\ (k + 1 = n + 1 <=> k = n) /\ first + (k + 1) - 1 = first + k
      BY <1>4, <1>7
    <3> QED BY <3>1
  <2>9. Max({onset, low}) = IF onset >= low THEN onset ELSE low
    BY <1>1, <2>1, MaxOfTwo
  <2>10. Min({end, high}) = IF end <= high THEN end ELSE high
    BY <1>1, <2>1, MinOfTwo
  <2> HIDE DEF at, low, high, n
  <2>11. at[k] = Max({onset, low}) /\ low <= at[k] /\ at[k] \in Nat
    BY <1>1, <2>1, <2>3, <2>4, <2>7, <2>9
  <2>12. at[k + 1] = Min({end, high}) /\ at[k + 1] <= high /\ at[k + 1] \in Nat
    BY <1>1, <2>1, <2>5, <2>6, <2>8, <2>10
  <2>13. at[k] < at[k + 1]
    BY <1>1, <2>1, <2>2, <2>3, <2>5, <2>7, <2>8
  <2> QED BY <2>11, <2>12, <2>13 DEF low, high
<1>a. \A k \in 1..n :
        /\ bar[first + k - 1] <= at[k] /\ at[k] < at[k + 1] /\ at[k + 1] <= bar[first + k]
        /\ at[k] \in Nat /\ at[k + 1] \in Nat
  <2> HIDE DEF at, n
  <2> QED BY <1>9
<1>10. cut = [k \in 1..n |-> [measure |-> first + k,
                             duration |-> Min({end, bar[first + k]}) - Max({onset, bar[first + k - 1]})]]
  <2>1. ~(onset >= end)
    BY <1>1
  <2> QED BY <1>3, <2>1 DEF Drafts, first, last
<1>11. DOMAIN cut = 1..n /\ Len(cut) = n
       /\ \A k \in 1..n : cut[k].measure = first + k
                          /\ cut[k].duration = Min({end, bar[first + k]}) - Max({onset, bar[first + k - 1]})
  BY <1>7, <1>10
<1>12. at \in [1..(n + 1) -> Nat]
  <2>1. \A k \in 1..(n + 1) : k \in 1..n \/ k = n + 1
    BY <1>7
  <2>2. at[n + 1] = end
    BY <1>7
  <2>3. \A k \in 1..(n + 1) : at[k] \in Nat
    <3> HIDE DEF at, n
    <3> QED BY <1>1, <1>9, <2>1, <2>2
  <2> QED BY <2>3
<1>13. at[1] = onset /\ at[n + 1] = end
  BY <1>7
<1> HIDE DEF at, n
<1>14. \A k \in 1..n :
         s[k] = [measure |-> first + k, duration |-> at[k + 1] - at[k], item |-> item,
                 sequence |-> sequence, index |-> k, count |-> n]
  <2> TAKE k \in 1..n
  <2>1. cut[k].measure = first + k /\ cut[k].duration = at[k + 1] - at[k]
    BY <1>9, <1>11
  <2> QED BY <1>2, <1>11, <2>1
<1>15. ASSUME NEW k \in 1..n PROVE s[k] \in ScorePieces
  <2> DEFINE duration == at[k + 1] - at[k]
             measure == first + k
  <2>1. duration \in Nat \ {0}
    <3> DEFINE x == at[k]
               y == at[k + 1]
    <3>1. x \in Nat /\ y \in Nat /\ x < y
      BY <1>a
    <3> HIDE DEF x, y
    <3>2. y - x \in Nat \ {0}
      BY <3>1
    <3> QED BY <3>2 DEF x, y
  <2>2. measure \in Nat \ {0} /\ k \in Nat \ {0}
    BY <1>8
  <2>3. s[k] = [measure |-> measure, duration |-> duration, item |-> item,
                sequence |-> sequence, index |-> k, count |-> n]
    BY <1>14
  <2> HIDE DEF duration, measure
  <2> QED BY <1>7, <2>1, <2>2, <2>3 DEF ScorePieces
<1>16. ASSUME NEW k \in 1..n
       PROVE  /\ s[k].measure = first + k /\ s[k].duration = at[k + 1] - at[k]
              /\ IsPiece(s[k], item, sequence, k, n)
  <2> DEFINE duration == at[k + 1] - at[k]
             measure == first + k
  <2>1. s[k] = [measure |-> measure, duration |-> duration, item |-> item,
                sequence |-> sequence, index |-> k, count |-> n]
    BY <1>14
  <2> HIDE DEF duration, measure
  <2>2. s[k].measure = measure /\ s[k].duration = duration /\ s[k].item = item
        /\ s[k].sequence = sequence /\ s[k].index = k /\ s[k].count = n
    BY <2>1
  <2> QED BY <2>2 DEF IsPiece, duration, measure
<1>17. s = [k \in 1..n |-> s[k]]
  BY <1>2, <1>11
<1>18. s \in Seq(ScorePieces) /\ Len(s) = n
  <2>1. \A k \in 1..n : s[k] \in ScorePieces
    BY <1>15
  <2> QED BY <1>7, <1>17, <2>1
<1>19. \A k \in 1..n : IsPiece(s[k], item, sequence, k, n)
  BY <1>16
<1>20. Lasting(s, at, bar)
  <2>1. ASSUME NEW k \in 1..n
        PROVE  /\ at[k] < at[k + 1] /\ s[k].duration = at[k + 1] - at[k]
               /\ bar[s[k].measure - 1] <= at[k] /\ at[k + 1] <= bar[s[k].measure]
    <3>1. s[k].measure = first + k /\ s[k].duration = at[k + 1] - at[k]
      BY <1>16
    <3>2. /\ bar[first + k - 1] <= at[k] /\ at[k] < at[k + 1] /\ at[k + 1] <= bar[first + k]
      BY <1>a
    <3>3. first + k - 1 = (first + k) - 1
      BY <1>4
    <3> QED BY <3>1, <3>2, <3>3
  <2> QED BY <1>12, <1>18, <2>1 DEF Lasting
<1> QED BY <1>7, <1>13, <1>18, <1>19, <1>20 DEF s, onset, end

LEMMA LastingJoined ==
  ASSUME NEW s \in Seq(ScorePieces), NEW t \in Seq(ScorePieces), NEW bar, NEW a, NEW b,
         Lasting(s, a, bar), Lasting(t, b, bar), a[Len(s) + 1] = b[1]
  PROVE  LET at == [k \in 1..(Len(s) + Len(t) + 1) |-> IF k <= Len(s) THEN a[k] ELSE b[k - Len(s)]]
         IN /\ Lasting(s \o t, at, bar)
            /\ \A k \in 1..(Len(s) + 1) : at[k] = a[k]
            /\ \A k \in 1..(Len(t) + 1) : at[Len(s) + k] = b[k]
<1> DEFINE m == Len(s)
           n == Len(t)
           u == s \o t
           at == [k \in 1..(m + n + 1) |-> IF k <= m THEN a[k] ELSE b[k - m]]
<1>1. /\ m \in Nat /\ n \in Nat /\ Len(u) = m + n
      /\ \A k \in 1..m : u[k] = s[k]
      /\ \A k \in 1..n : u[m + k] = t[k]
  BY Joined
<1>2. /\ a \in [1..(m + 1) -> Nat] /\ b \in [1..(n + 1) -> Nat] /\ a[m + 1] = b[1]
      /\ \A k \in 1..m :
           /\ a[k] < a[k + 1] /\ s[k].duration = a[k + 1] - a[k]
           /\ bar[s[k].measure - 1] <= a[k] /\ a[k + 1] <= bar[s[k].measure]
      /\ \A k \in 1..n :
           /\ b[k] < b[k + 1] /\ t[k].duration = b[k + 1] - b[k]
           /\ bar[t[k].measure - 1] <= b[k] /\ b[k + 1] <= bar[t[k].measure]
  BY DEF Lasting
<1> HIDE DEF m, n, u
<1>3. \A k \in 1..(m + 1) : at[k] = a[k]
  <2> TAKE k \in 1..(m + 1)
  <2>1. k \in 1..(m + n + 1) /\ (k <= m \/ (k = m + 1 /\ ~(k <= m) /\ k - m = 1))
    BY <1>1
  <2> QED BY <1>2, <2>1
<1>4. \A k \in 1..(n + 1) : at[m + k] = b[k]
  <2> TAKE k \in 1..(n + 1)
  <2>1. m + k \in 1..(m + n + 1) /\ ~(m + k <= m) /\ (m + k) - m = k
    BY <1>1
  <2> QED BY <2>1
<1>5. at \in [1..(m + n + 1) -> Nat]
  <2>1. ASSUME NEW k \in 1..(m + n + 1) PROVE at[k] \in Nat
    <3>1. (k <= m /\ k \in 1..(m + 1)) \/ (~(k <= m) /\ k - m \in 1..(n + 1))
      BY <1>1
    <3> QED BY <1>2, <3>1
  <2> QED BY <2>1
<1> HIDE DEF at
<1>6. ASSUME NEW k \in 1..(m + n)
      PROVE  /\ at[k] < at[k + 1] /\ u[k].duration = at[k + 1] - at[k]
             /\ bar[u[k].measure - 1] <= at[k] /\ at[k + 1] <= bar[u[k].measure]
  <2>1. CASE k <= m
    <3>1. k \in 1..m /\ k \in 1..(m + 1) /\ k + 1 \in 1..(m + 1)
      BY <1>1, <2>1
    <3>2. u[k] = s[k] /\ at[k] = a[k] /\ at[k + 1] = a[k + 1]
      BY <1>1, <1>3, <3>1
    <3> QED BY <1>2, <3>1, <3>2
  <2>2. CASE ~(k <= m)
    <3> DEFINE h == k - m
    <3>1. h \in 1..n /\ k = m + h /\ h \in 1..(n + 1) /\ h + 1 \in 1..(n + 1) /\ k + 1 = m + (h + 1)
      BY ONLY <1>1, <2>2, k \in 1..(m + n)
    <3> HIDE DEF h
    <3>2. u[k] = t[h] /\ at[k] = b[h] /\ at[k + 1] = b[h + 1]
      BY <1>1, <1>4, <3>1
    <3> QED BY <1>2, <3>1, <3>2
  <2> QED BY <2>1, <2>2
<1>7. Lasting(u, at, bar)
  <2>1. Len(u) = m + n
    BY <1>1
  <2> HIDE DEF u, m, n
  <2> QED BY <1>5, <1>6, <2>1 DEF Lasting
<1> QED BY <1>3, <1>4, <1>7 DEF at, m, n, u

\* The pieces of the first n items of the timeline; the pieces of the i-th end at ends[i].
IsCutting(timeline, pieces, at, ends, bar, n) ==
  /\ pieces \in Seq(ScorePieces) /\ Lasting(pieces, at, bar) /\ at[1] = 0
  /\ ends \in [0..n -> Nat] /\ ends[0] = 0 /\ ends[n] = Len(pieces)
  /\ \A i \in 1..n :
       /\ ends[i - 1] < ends[i]
       /\ at[ends[i - 1] + 1] = timeline[i].onset /\ at[ends[i] + 1] = timeline[i].offset
       /\ \A k \in 1..(ends[i] - ends[i - 1]) :
            IsPiece(pieces[ends[i - 1] + k], timeline[i], i, k, ends[i] - ends[i - 1])

LEMMA CuttingStep ==
  ASSUME NEW timeline \in Seq(Items), Contiguous(timeline), NEW n \in 1..Len(timeline),
         NEW capacity \in Nat \ {0}, NEW bar, AreBars(bar, capacity),
         NEW pieces, NEW at, NEW ends, IsCutting(timeline, pieces, at, ends, bar, n - 1),
         NEW s, s = Segments(timeline[n], n, capacity)
  PROVE  \E new, to : IsCutting(timeline, pieces \o s, new, to, bar, n)
<1> DEFINE h == n - 1
           item == timeline[n]
           p == Len(pieces)
           l == Len(s)
           all == pieces \o s
<1>1. h \in Nat /\ n = h + 1 /\ n \in Nat /\ item \in Items /\ item.onset < item.offset
  <2>1. h \in Nat /\ n = h + 1 /\ n \in Nat
    BY ONLY n \in 1..Len(timeline)
  <2>2. item \in Items
    BY ONLY timeline \in Seq(Items), n \in 1..Len(timeline)
  <2>3. item.onset < item.offset
    BY DEF Contiguous
  <2> QED BY <2>1, <2>2, <2>3
<1>2. /\ s \in Seq(ScorePieces) /\ l \in Nat \ {0}
      /\ \A k \in 1..l : IsPiece(s[k], item, n, k, l)
      /\ \E b : Lasting(s, b, bar) /\ b[1] = item.onset /\ b[l + 1] = item.offset
  <2>1. s = Segments(item, n, capacity)
    OBVIOUS
  <2> HIDE DEF item
  <2>2. /\ s \in Seq(ScorePieces) /\ Len(s) \in Nat \ {0}
        /\ \A k \in 1..Len(s) : IsPiece(s[k], item, n, k, Len(s))
        /\ \E b : Lasting(s, b, bar) /\ b[1] = item.onset /\ b[Len(s) + 1] = item.offset
    BY ONLY capacity \in Nat \ {0}, AreBars(bar, capacity), <1>1, <2>1, SegmentsOf
  <2> QED BY <2>2
<1>3. PICK b : Lasting(s, b, bar) /\ b[1] = item.onset /\ b[l + 1] = item.offset
  BY <1>2
<1>4. /\ pieces \in Seq(ScorePieces) /\ Lasting(pieces, at, bar) /\ at[1] = 0
      /\ ends \in [0..h -> Nat] /\ ends[0] = 0 /\ ends[h] = p
      /\ \A i \in 1..h :
           /\ ends[i - 1] < ends[i]
           /\ at[ends[i - 1] + 1] = timeline[i].onset /\ at[ends[i] + 1] = timeline[i].offset
           /\ \A k \in 1..(ends[i] - ends[i - 1]) :
                IsPiece(pieces[ends[i - 1] + k], timeline[i], i, k, ends[i] - ends[i - 1])
  BY DEF IsCutting
<1>5. p \in Nat /\ all \in Seq(ScorePieces) /\ Len(all) = p + l
      /\ (\A k \in 1..p : all[k] = pieces[k]) /\ \A k \in 1..l : all[p + k] = s[k]
  BY <1>2, <1>4, Joined
<1>6. at[p + 1] = item.onset
  <2>1. CASE h = 0
    <3>1. p = 0
      BY <1>4, <2>1
    <3>2. item.onset = 0
      BY <1>1, <2>1 DEF Contiguous
    <3> QED BY <1>4, <3>1, <3>2
  <2>2. CASE h # 0
    <3>1. h \in 1..h /\ h \in 1..(Len(timeline) - 1)
      BY <1>1, <2>2
    <3>2. at[p + 1] = timeline[h].offset
      BY <1>4, <3>1
    <3>3. timeline[h].offset = timeline[h + 1].onset
      BY <3>1 DEF Contiguous
    <3> QED BY <1>1, <3>2, <3>3
  <2> QED BY <2>1, <2>2
<1> DEFINE new == [k \in 1..(p + l + 1) |-> IF k <= p THEN at[k] ELSE b[k - p]]
           to == [i \in 0..n |-> IF i = n THEN p + l ELSE ends[i]]
<1>7. /\ Lasting(all, new, bar)
      /\ \A k \in 1..(p + 1) : new[k] = at[k]
      /\ \A k \in 1..(l + 1) : new[p + k] = b[k]
  <2>1. /\ pieces \in Seq(ScorePieces) /\ s \in Seq(ScorePieces)
        /\ Lasting(pieces, at, bar) /\ Lasting(s, b, bar) /\ at[Len(pieces) + 1] = b[1]
    BY <1>2, <1>3, <1>4, <1>6
  <2> QED BY ONLY <2>1, LastingJoined, SMTT(30)
<1> HIDE DEF h, item, p, l, all, new
<1>8. \A i \in 0..n : i = n \/ (i \in 0..h /\ i # n)
  BY <1>1
<1>9. to[n] = p + l /\ \A i \in 0..h : to[i] = ends[i] /\ ends[i] \in Nat
  BY <1>1, <1>4
<1>10. to \in [0..n -> Nat]
  BY <1>2, <1>4, <1>5, <1>8
<1> HIDE DEF to
<1>11. new[1] = 0 /\ to[0] = 0
  <2>1. 1 \in 1..(p + 1) /\ 0 \in 0..h
    BY <1>1, <1>5
  <2> QED BY <1>4, <1>7, <1>9, <2>1
<1>12. \A i, j \in 0..h : i <= j => ends[i] <= ends[j]
  <2> DEFINE G == {j \in 0..h : \A i \in 0..j : ends[i] <= ends[j]}
  <2>1. 0 \in G
    BY <1>1, <1>4
  <2>2. ASSUME NEW j \in 1..h, j - 1 \in G PROVE j \in G
    <3>1. j \in 0..h /\ j - 1 \in 0..h /\ \A i \in 0..j : i = j \/ i \in 0..(j - 1)
      BY <1>1
    <3>2. \A i \in 0..(j - 1) : ends[i] <= ends[j - 1] /\ i \in 0..h
      BY <1>1, <2>2
    <3>3. ends[j - 1] < ends[j]
      BY <1>4
    <3>4. \A i \in 0..(j - 1) : ends[i] <= ends[j]
      <4> TAKE i \in 0..(j - 1)
      <4>1. ends[i] \in Nat /\ ends[j - 1] \in Nat /\ ends[j] \in Nat
        BY <1>9, <3>1, <3>2
      <4> QED BY <3>2, <3>3, <4>1
    <3>5. ends[j] <= ends[j]
      BY <1>9, <3>1
    <3> QED BY <3>1, <3>4, <3>5
  <2> HIDE DEF G
  <2>3. \A j \in 0..h : j \in G
    BY <1>1, <2>1, <2>2, Induction
  <2>4. \A i, j \in 0..h : i <= j => i \in 0..j
    BY <1>1
  <2> QED BY <2>3, <2>4 DEF G
<1>13. ASSUME NEW i \in 1..h
       PROVE  /\ to[i - 1] < to[i]
              /\ new[to[i - 1] + 1] = timeline[i].onset /\ new[to[i] + 1] = timeline[i].offset
              /\ \A k \in 1..(to[i] - to[i - 1]) :
                   IsPiece(all[to[i - 1] + k], timeline[i], i, k, to[i] - to[i - 1])
  <2> DEFINE x == ends[i - 1]
             y == ends[i]
  <2>1. i \in 0..h /\ i - 1 \in 0..h /\ h \in 0..h /\ i <= h
    BY <1>1
  <2>2. x \in Nat /\ y \in Nat /\ x < y /\ to[i - 1] = x /\ to[i] = y /\ y <= p
    BY <1>4, <1>9, <1>12, <2>1
  <2>3. at[x + 1] = timeline[i].onset /\ at[y + 1] = timeline[i].offset
        /\ \A k \in 1..(y - x) : IsPiece(pieces[x + k], timeline[i], i, k, y - x)
    BY <1>4
  <2> HIDE DEF x, y
  <2>4. x + 1 \in 1..(p + 1) /\ y + 1 \in 1..(p + 1) /\ \A k \in 1..(y - x) : x + k \in 1..p
    BY <1>5, <2>2
  <2>5. new[x + 1] = at[x + 1] /\ new[y + 1] = at[y + 1] /\ \A k \in 1..(y - x) : all[x + k] = pieces[x + k]
    BY <1>5, <1>7, <2>4
  <2> QED BY <2>2, <2>3, <2>5
<1>14. /\ to[n - 1] < to[n]
       /\ new[to[n - 1] + 1] = timeline[n].onset /\ new[to[n] + 1] = timeline[n].offset
       /\ \A k \in 1..(to[n] - to[n - 1]) :
            IsPiece(all[to[n - 1] + k], timeline[n], n, k, to[n] - to[n - 1])
  <2>1. to[n - 1] = p /\ to[n] = p + l
    <3>1. n - 1 = h /\ h \in 0..h
      BY <1>1
    <3> QED BY <1>4, <1>9, <3>1
  <2>2. p < p + l /\ (p + l) - p = l /\ 1 \in 1..(l + 1) /\ l + 1 \in 1..(l + 1)
        /\ p + l + 1 = p + (l + 1)
    <3>1. p \in Nat /\ l \in Nat /\ 1 <= l
      BY <1>2, <1>5
    <3> HIDE DEF p, l
    <3> QED BY ONLY <3>1
  <2>3. new[p + 1] = item.onset /\ new[p + (l + 1)] = item.offset
    BY <1>3, <1>7, <2>2
  <2>4. \A k \in 1..l : IsPiece(all[p + k], item, n, k, l)
    BY <1>2, <1>5
  <2> QED BY <2>1, <2>2, <2>3, <2>4 DEF item
<1>15. \A i \in 1..n : i = n \/ i \in 1..h
  BY <1>1
<1>16. to[n] = Len(all)
  BY <1>5, <1>9
<1>17. IsCutting(timeline, all, new, to, bar, n)
  <2>1. \A i \in 1..n :
       /\ to[i - 1] < to[i]
       /\ new[to[i - 1] + 1] = timeline[i].onset /\ new[to[i] + 1] = timeline[i].offset
       /\ \A k \in 1..(to[i] - to[i - 1]) :
            IsPiece(all[to[i - 1] + k], timeline[i], i, k, to[i] - to[i - 1])
    <3> TAKE i \in 1..n
    <3>1. CASE i = n
      BY <1>14, <3>1
    <3>2. CASE i \in 1..h
      BY <1>13, <3>2
    <3> QED BY <1>15, <3>1, <3>2
  <2> QED BY <1>5, <1>7, <1>10, <1>11, <1>16, <2>1 DEF IsCutting
<1> QED BY <1>17 DEF all

LEMMA TimelineCut ==
  ASSUME NEW timeline \in Seq(Items), Contiguous(timeline), NEW capacity \in Nat \ {0}, NEW bar,
         AreBars(bar, capacity), NEW segments,
         segments = [i \in DOMAIN timeline |-> Segments(timeline[i], i, capacity)]
  PROVE  \E at, ends : IsCutting(timeline, FlattenSeq(segments), at, ends, bar, Len(timeline))
<1> DEFINE n == Len(timeline)
           V == ScorePieces
<1>1. n \in Nat /\ DOMAIN timeline = 1..n
  OBVIOUS
<1>2. \A i \in 1..n : segments[i] \in Lists(V)
  <2> TAKE i \in 1..n
  <2>1. timeline[i] \in Items /\ timeline[i].onset < timeline[i].offset /\ i \in Nat
    BY <1>1 DEF Contiguous
  <2>2. Segments(timeline[i], i, capacity) \in Seq(ScorePieces)
    BY <2>1, SegmentsOf
  <2> QED BY <1>1, <2>2 DEF Lists
<1>3. segments \in [1..n -> Lists(V)] /\ Len(segments) = n /\ (n = 0 => segments = <<>>)
  <2>1. DOMAIN segments = 1..n /\ Len(segments) = n
    BY <1>1
  <2>2. segments = [i \in 1..n |-> segments[i]]
    BY <1>1
  <2> HIDE DEF V, n
  <2>3. segments \in [1..n -> Lists(V)]
    BY <1>2, <2>2
  <2>4. n = 0 => segments = <<>>
    BY <2>1, <2>2
  <2> QED BY <2>1, <2>3, <2>4
<1> HIDE DEF n, V
<1>4. PICK row \in [0..n -> Lists(V)] : IsJoining(row, segments, n) /\ FlattenSeq(segments) = row[n]
  <2>1. \E row \in [0..n -> Lists(V)] : IsJoining(row, segments, n) /\ FlattenSeq(segments) = row[n]
    BY ONLY <1>1, <1>3, Flattened
  <2> QED BY <2>1
<1> DEFINE Good(k) == \E at, ends : IsCutting(timeline, row[k], at, ends, bar, k)
           G == {k \in 0..n : Good(k)}
<1>5. 0 \in G
  <2> DEFINE at == [k \in 1..1 |-> 0]
             ends == [k \in 0..0 |-> 0]
             none == <<>>
  <2>1. none \in Seq(ScorePieces) /\ Len(none) = 0 /\ at \in [1..1 -> Nat] /\ ends \in [0..0 -> Nat]
        /\ at[1] = 0 /\ ends[0] = 0
    OBVIOUS
  <2> HIDE DEF none, at, ends
  <2>2. Lasting(none, at, bar)
    BY <2>1 DEF Lasting
  <2>3. IsCutting(timeline, none, at, ends, bar, 0)
    BY <2>1, <2>2 DEF IsCutting
  <2>4. row[0] = none /\ 0 \in 0..n
    BY <1>1, <1>4 DEF IsJoining, none
  <2> QED BY <2>3, <2>4
<1>6. ASSUME NEW k \in 1..n, k - 1 \in G PROVE k \in G
  <2>1. k \in 0..n /\ k \in 1..Len(timeline) /\ row[k] = row[k - 1] \o segments[k]
    BY <1>1, <1>4 DEF IsJoining, n
  <2>2. PICK at, ends : IsCutting(timeline, row[k - 1], at, ends, bar, k - 1)
    BY <1>6
  <2>3. segments[k] = Segments(timeline[k], k, capacity)
    BY <1>1
  <2>4. \E new, to : IsCutting(timeline, row[k - 1] \o segments[k], new, to, bar, k)
    BY <2>1, <2>2, <2>3, CuttingStep
  <2> QED BY <2>1, <2>4
<1> HIDE DEF G
<1>7. \A k \in 0..n : k \in G
  BY <1>1, <1>5, <1>6, Induction
<1>8. n \in G
  BY <1>1, <1>7
<1> QED BY <1>4, <1>8 DEF G, n

LEMMA InSomeCell ==
  ASSUME NEW n \in Nat, NEW ends \in [0..n -> Nat], ends[0] = 0,
         \A i \in 1..n : ends[i - 1] < ends[i], NEW k \in 1..ends[n]
  PROVE  \E i \in 1..n : ends[i - 1] < k /\ k <= ends[i]
<1> DEFINE Cell(i) == ends[i - 1] < k /\ k <= ends[i]
           G == {j \in 0..n : k <= ends[j] => \E i \in 1..n : Cell(i)}
<1>1. 0 \in G
  OBVIOUS
<1>2. ASSUME NEW j \in 1..n, j - 1 \in G PROVE j \in G
  <2>1. j - 1 \in 0..n /\ j \in 0..n /\ k \in Nat
    OBVIOUS
  <2>2. ends[j - 1] \in Nat /\ ends[j] \in Nat
    BY <2>1
  <2>3. k <= ends[j - 1] \/ ends[j - 1] < k
    BY <2>1, <2>2
  <2> QED BY <1>2, <2>1, <2>3
<1> HIDE DEF G
<1>3. n \in G
  <2>1. \A j \in 0..n : j \in G
    BY <1>1, <1>2, Induction
  <2> QED BY <2>1
<1> QED BY <1>3 DEF G

\* Every piece is one of the pieces of one item.
LEMMA PieceOfItem ==
  ASSUME NEW n \in Nat, NEW timeline, NEW pieces, NEW at, NEW ends, NEW bar,
         IsCutting(timeline, pieces, at, ends, bar, n), NEW k \in 1..Len(pieces)
  PROVE  \E i \in 1..n : \E j \in 1..(ends[i] - ends[i - 1]) :
           k = ends[i - 1] + j /\ IsPiece(pieces[k], timeline[i], i, j, ends[i] - ends[i - 1])
<1>1. /\ ends \in [0..n -> Nat] /\ ends[0] = 0 /\ ends[n] = Len(pieces)
      /\ \A i \in 1..n :
           /\ ends[i - 1] < ends[i]
           /\ \A h \in 1..(ends[i] - ends[i - 1]) :
                IsPiece(pieces[ends[i - 1] + h], timeline[i], i, h, ends[i] - ends[i - 1])
  BY DEF IsCutting
<1>2. \E i \in 1..n : ends[i - 1] < k /\ k <= ends[i]
  BY <1>1, InSomeCell
<1>3. PICK i \in 1..n : ends[i - 1] < k /\ k <= ends[i]
  BY <1>2
<1> DEFINE a == ends[i - 1]
           b == ends[i]
<1>4. a \in Nat /\ b \in Nat /\ k \in Nat
  <2>1. i - 1 \in 0..n /\ i \in 0..n
    BY <1>3
  <2> QED BY <1>1, <2>1
<1>5. k - a \in 1..(b - a) /\ k = a + (k - a)
  <2> HIDE DEF a, b
  <2>1. a < k /\ k <= b
    BY <1>3 DEF a, b
  <2> QED BY <1>4, <2>1
<1>6. \A h \in 1..(b - a) : IsPiece(pieces[a + h], timeline[i], i, h, b - a)
  BY <1>1
<1> HIDE DEF a, b
<1>7. IsPiece(pieces[k], timeline[i], i, k - a, b - a)
  BY <1>5, <1>6
<1> QED BY <1>3, <1>5, <1>7 DEF a, b

\* How many measures there are.
MeasureCount(timeline, capacity) ==
  IF timeline = <<>> THEN 1 ELSE ((Last(timeline).offset - 1) \div capacity) + 1

\* The pieces of measure m.
InBar(all, m) == Pick(all, {i \in DOMAIN all : all[i].measure = m})

\* What PlanScore plans.
IsPlan(timeline, capacity, plan, all, at, ends, bar) ==
  /\ AreBars(bar, capacity) /\ IsCutting(timeline, all, at, ends, bar, Len(timeline))
  /\ plan.measures = [m \in 1..MeasureCount(timeline, capacity) |-> InBar(all, m)]

LEMMA Planned ==
  ASSUME NEW timeline \in Seq(Items), Contiguous(timeline), NEW subdivisions \in Nat \ {0},
         NEW beats \in Nat \ {0}
  PROVE  /\ beats * subdivisions \in Nat \ {0}
         /\ \E all, at, ends, bar :
              IsPlan(timeline, beats * subdivisions, PlanScore(timeline, subdivisions, beats),
                     all, at, ends, bar)
<1> DEFINE capacity == beats * subdivisions
           segments == [i \in DOMAIN timeline |-> Segments(timeline[i], i, capacity)]
           all == FlattenSeq(segments)
           plan == PlanScore(timeline, subdivisions, beats)
<1>1. capacity \in Nat \ {0}
  <2>1. capacity \in Nat
    BY ProductsOfNaturals
  <2>2. capacity # 0
    OBVIOUS
  <2> QED BY <2>1, <2>2
<1>2. plan.measures = [m \in 1..MeasureCount(timeline, capacity) |-> InBar(all, m)]
  BY DEF PlanScore, MeasureCount, InBar
<1> HIDE DEF capacity, plan
<1>3. PICK bar : AreBars(bar, capacity)
  BY <1>1, BarsExist
<1>4. \E at, ends : IsCutting(timeline, all, at, ends, bar, Len(timeline))
  BY <1>1, <1>3, TimelineCut
<1> HIDE DEF all
<1>5. \E at, ends : IsPlan(timeline, capacity, plan, all, at, ends, bar)
  BY <1>2, <1>3, <1>4 DEF IsPlan
<1> QED BY <1>1, <1>5 DEF capacity, plan

\* A piece of a measure is a piece of the timeline.
LEMMA PieceInBar ==
  ASSUME NEW timeline, NEW capacity, NEW plan, NEW all, NEW at, NEW ends, NEW bar,
         timeline \in Seq(Items),
         IsPlan(timeline, capacity, plan, all, at, ends, bar),
         NEW m \in DOMAIN plan.measures, NEW k \in DOMAIN plan.measures[m]
  PROVE  \E i \in 1..Len(timeline) : plan.measures[m][k].item = timeline[i]
<1> DEFINE K == {i \in DOMAIN all : all[i].measure = m}
           n == Cardinality(K)
           n0 == Len(timeline)
<1>0. n0 \in Nat
  OBVIOUS
<1>1. all \in Seq(ScorePieces) /\ IsCutting(timeline, all, at, ends, bar, n0)
  BY DEF IsPlan, IsCutting
<1> HIDE DEF n0
<1>2. plan.measures[m] = Pick(all, K)
  BY DEF IsPlan, InBar
<1>3. K \in SUBSET (1..Len(all))
  BY <1>1
<1> HIDE DEF K
<1>4. /\ Pick(all, K) \in Seq(ScorePieces) /\ Len(Pick(all, K)) = n
      /\ Ascending(K) \in [1..n -> K]
      /\ \A j \in 1..n : Pick(all, K)[j] = all[Ascending(K)[j]]
  BY <1>1, <1>3, Picked
<1> HIDE DEF n
<1>5. k \in 1..n
  BY <1>2, <1>4
<1> DEFINE j == Ascending(K)[k]
<1>6. j \in 1..Len(all) /\ plan.measures[m][k] = all[j]
  BY <1>2, <1>3, <1>4, <1>5
<1> HIDE DEF j
<1>7. \E i \in 1..n0 : all[j].item = timeline[i]
  <2>1. \E i \in 1..n0 : \E h \in 1..(ends[i] - ends[i - 1]) :
          j = ends[i - 1] + h /\ IsPiece(all[j], timeline[i], i, h, ends[i] - ends[i - 1])
    BY <1>0, <1>1, <1>6, PieceOfItem
  <2> QED BY <2>1 DEF IsPiece
<1> QED BY <1>6, <1>7 DEF n0

\* A note of the timeline is one of the notes that were heard.
LEMMA NoteWasHeard ==
  ASSUME NEW events, NEW quantized, quantized.timeline \in Seq(Items),
         QuantizedRhythmAccepted(events, quantized),
         NEW i \in 1..Len(quantized.timeline), quantized.timeline[i].rest = FALSE
  PROVE  quantized.timeline[i].index \in DOMAIN events
<1> DEFINE timeline == quantized.timeline
           K == {j \in DOMAIN timeline : ~timeline[j].rest}
           n == Cardinality(K)
           notes == NoteItems(timeline)
<1>1. {notes[j].index : j \in DOMAIN notes} = DOMAIN events
  BY DEF QuantizedRhythmAccepted
<1>2. notes = Pick(timeline, K)
  BY DEF NoteItems
<1>3. K \in SUBSET (1..Len(timeline)) /\ i \in K
  OBVIOUS
<1> HIDE DEF K, timeline
<1>4. /\ Pick(timeline, K) \in Seq(Items) /\ Len(Pick(timeline, K)) = n
      /\ \A x \in K : \E k \in 1..n : Ascending(K)[k] = x
      /\ \A j \in 1..n : Pick(timeline, K)[j] = timeline[Ascending(K)[j]]
  <2>1. timeline \in Seq(Items)
    BY DEF timeline
  <2> QED BY <1>3, <2>1, Picked
<1> HIDE DEF n, notes
<1>5. PICK k \in 1..n : Ascending(K)[k] = i
  BY <1>3, <1>4
<1>6. k \in DOMAIN notes /\ notes[k] = timeline[i]
  BY <1>2, <1>4, <1>5
<1>7. timeline[i].index \in DOMAIN events
  BY <1>1, <1>6
<1> QED BY <1>7 DEF timeline

LEMMA MidiValuesAreNumbers ==
  ASSUME NEW value \in MidiValues
  PROVE  value \in Int
BY DEF MidiValues

LEMMA ExportedDocument ==
  ASSUME NEW quantized, NEW events, NEW saxophone, NEW subdivisions, NEW beats, NEW bpm, NEW score,
         score = ExportScore(quantized, events, saxophone, subdivisions, beats, bpm),
         NEW plan, plan = PlanScore(quantized.timeline, subdivisions, beats)
  PROVE  /\ score.instrument = InstrumentSpec[saxophone]
         /\ score.document.transpose = InstrumentSpec[saxophone]
         /\ score.document.measures =
              [m \in DOMAIN plan.measures |->
                 [k \in DOMAIN plan.measures[m] |-> NoteElement(plan.measures[m][k], events)]]
         /\ score.validation = ReadScore(score.document) /\ score.report = plan.report
<1> DEFINE document == EncodeScore(plan, events, InstrumentSpec[saxophone], subdivisions, beats, bpm)
<1>1. score = [instrument |-> InstrumentSpec[saxophone], document |-> document,
               validation |-> ReadScore(document), report |-> plan.report]
  BY DEF ExportScore
<1>2. /\ document.transpose = InstrumentSpec[saxophone]
      /\ document.measures =
           [m \in DOMAIN plan.measures |->
              [k \in DOMAIN plan.measures[m] |-> NoteElement(plan.measures[m][k], events)]]
  BY DEF EncodeScore
<1> HIDE DEF document
<1> QED BY ONLY <1>1, <1>2

LEMMA ScoreSounds ==
  ASSUME ControlType, Computed, stage = "render"
  PROVE  SoundsAsHeard
<1> DEFINE events == local.written.events
           timeline == local.quantized.timeline
           capacity == setup.beats * setup.subdivisions
           plan == PlanScore(timeline, setup.subdivisions, setup.beats)
           document == local.musicxml.document
<1>1. /\ Scored(local) /\ Exported(local) /\ Quantized(local) /\ Timed(local) /\ Written(local)
  BY DEF Computed, LateStages, Scored, Exported, Quantized, Timed
<1>2. /\ Played(events) /\ local.tempo.effective \in PositiveNumbers
      /\ setup \in Setups /\ setup.subdivisions \in Nat \ {0} /\ setup.beats \in Nat \ {0}
  BY <1>1, TimedNumbers
<1>3. setup.saxophone \in SaxophoneTypes
  BY <1>2, PipelineAssumption DEF SetupAccepted
<1>4. /\ local.quantized = Quantize(events, local.tempo, setup.subdivisions)
      /\ QuantizedRhythmAccepted(events, local.quantized)
  BY <1>1 DEF Quantized
<1>5. timeline \in Seq(Items) /\ Contiguous(timeline)
  <2>1. \E candidates, order, working :
          IsQuantization(events, local.tempo, setup.subdivisions, candidates, order, working,
                         local.quantized)
    BY <1>2, <1>4, Quantization
  <2> QED BY <2>1 DEF IsQuantization
<1>6. /\ document.transpose = InstrumentSpec[setup.saxophone]
      /\ document.measures =
           [m \in DOMAIN plan.measures |->
              [k \in DOMAIN plan.measures[m] |-> NoteElement(plan.measures[m][k], events)]]
  <2>1. local.musicxml = ExportScore(local.quantized, events, setup.saxophone,
                                     setup.subdivisions, setup.beats, local.tempo.effective)
    BY <1>1 DEF Scored
  <2>2. plan = PlanScore(local.quantized.timeline, setup.subdivisions, setup.beats)
    OBVIOUS
  <2> HIDE DEF plan
  <2> QED BY <2>1, <2>2, ExportedDocument
<1> HIDE DEF plan, document, events, timeline
<1>7. ASSUME NEW m \in DOMAIN plan.measures, NEW k \in DOMAIN plan.measures[m],
             NEW pitch \in NoteElement(plan.measures[m][k], events).pitch
      PROVE  Sounds(pitch, document.transpose) =
               events[plan.measures[m][k].item.index].source.event.pitch
  <2> DEFINE segment == plan.measures[m][k]
             index == segment.item.index
  <2>1. segment.item.rest # TRUE /\ pitch = MusicXmlPitch(events[index].written)
    <3>1. pitch \in IF segment.item.rest THEN {} ELSE {MusicXmlPitch(events[index].written)}
      BY <1>7 DEF NoteElement
    <3> QED BY <3>1
  <2>2. PICK i \in 1..Len(timeline) : segment.item = timeline[i]
    <3>1. \E all, at, ends, bar : IsPlan(timeline, capacity, plan, all, at, ends, bar)
      BY <1>2, <1>5, Planned DEF plan
    <3> HIDE DEF capacity
    <3>2. \E i \in 1..Len(timeline) : segment.item = timeline[i]
      BY <1>5, <1>7, <3>1, PieceInBar
    <3> QED BY <3>2
  <2>3. index \in DOMAIN events
    <3>1. timeline[i].rest = FALSE
      <4>1. timeline[i] \in Items
        BY <1>5
      <4>2. timeline[i].rest \in BOOLEAN
        BY <4>1 DEF Items
      <4> QED BY <2>1, <2>2, <4>2
    <3>2. timeline[i].index \in DOMAIN events
      BY <1>4, <1>5, <3>1, NoteWasHeard DEF timeline
    <3> QED BY <2>2, <3>2
  <2> HIDE DEF segment, index
  <2> DEFINE concert == events[index].source.event.pitch
  <2>4. /\ events[index].written = TransposeConcertPitch(concert, setup.saxophone)
        /\ TransposeConcertPitch(concert, setup.saxophone) \in MidiValues
        /\ concert \in Int
    <3>1. index \in 1..Len(events)
      BY <1>2, <2>3 DEF Played
    <3>2. concert \in MidiValues
      BY <1>2, <3>1, PlayedNumbers
    <3>3. /\ events[index].written = TransposeConcertPitch(concert, setup.saxophone)
          /\ events[index].written \in MidiValues
      BY <1>1, <3>1, WrittenPlayed DEF events
    <3>4. concert \in Int
      BY ONLY <3>2, MidiValuesAreNumbers
    <3> QED BY ONLY <3>3, <3>4
  <2> HIDE DEF concert
  <2>5. Sounds(MusicXmlPitch(TransposeConcertPitch(concert, setup.saxophone)),
               InstrumentSpec[setup.saxophone]) = concert
    BY <1>3, <2>4, SpellingSounds
  <2> QED BY <1>6, <2>1, <2>4, <2>5 DEF concert, index, segment
<1>8. DOMAIN document.measures = DOMAIN plan.measures
      /\ \A m \in DOMAIN plan.measures :
           /\ DOMAIN document.measures[m] = DOMAIN plan.measures[m]
           /\ \A k \in DOMAIN plan.measures[m] :
                document.measures[m][k] = NoteElement(plan.measures[m][k], events)
  BY <1>6
<1>9. \A m \in DOMAIN document.measures : \A k \in DOMAIN document.measures[m] :
        \A pitch \in document.measures[m][k].pitch :
          Sounds(pitch, document.transpose) =
            events[plan.measures[m][k].item.index].source.event.pitch
  <2> TAKE m \in DOMAIN document.measures
  <2>1. m \in DOMAIN plan.measures
    BY ONLY <1>8
  <2> TAKE k \in DOMAIN document.measures[m]
  <2>2. k \in DOMAIN plan.measures[m] /\ document.measures[m][k] = NoteElement(plan.measures[m][k], events)
    BY ONLY <1>8, <2>1
  <2> TAKE pitch \in document.measures[m][k].pitch
  <2>3. pitch \in NoteElement(plan.measures[m][k], events).pitch
    BY ONLY <2>2
  <2> QED BY <1>7, <2>1, <2>2, <2>3
<1> QED BY <1>9 DEF SoundsAsHeard, document, plan, events, timeline

(* Whatever was transcribed, every pitch the score spells, read with the transposition  *)
(* it prints for the saxophone, is the concert pitch that was heard, in every measure    *)
(* and every piece of a note.                                                            *)
THEOREM ScoreSoundsAsHeard == Spec => []SoundsAsHeard
<1>1. ControlType /\ Computed => SoundsAsHeard
  <2>1. stage # "render" => SoundsAsHeard
    BY DEF SoundsAsHeard
  <2> QED BY <2>1, ScoreSounds
<1> QED BY <1>1, StagesCompute, PTL

-----------------------------------------------------------------------------
(* Ticks. round() keeps the order of what it rounds, and two times that are more     *)
(* than a tick apart do not come out at the same tick.                                *)

LEMMA RoundedBetween ==
  ASSUME NEW n \in Nat, NEW d \in Nat \ {0}
  PROVE  LET k == RoundHalfEven(n, d)
         IN /\ k \in Nat
            /\ k = n \div d \/ k = n \div d + 1
            /\ k = n \div d => 2 * (n % d) <= d
            /\ k # n \div d => 2 * (n % d) >= d
            /\ 2 * (n % d) = d => k % 2 = 0
<1> DEFINE q == n \div d
           r == n % d
<1>1. q \in Nat /\ r \in Nat
  BY QuotientOfNaturals
<1>2. RoundHalfEven(n, d) = IF 2 * r > d \/ (2 * r = d /\ q % 2 = 1) THEN q + 1 ELSE q
  BY DEF RoundHalfEven
<1> HIDE DEF q, r
<1>3. CASE 2 * r > d \/ (2 * r = d /\ q % 2 = 1)
  <2>1. q % 2 = 1 => (q + 1) % 2 = 0
    BY <1>1
  <2> QED BY <1>1, <1>2, <1>3, <2>1 DEF q, r
<1>4. CASE ~(2 * r > d \/ (2 * r = d /\ q % 2 = 1))
  <2>1. q % 2 = 1 \/ q % 2 = 0
    BY <1>1
  <2> QED BY <1>1, <1>2, <1>4, <2>1 DEF q, r
<1> QED BY <1>3, <1>4

\* What rounding to k says of a quotient, in products.
LEMMA RoundedBounds ==
  ASSUME NEW n \in Nat, NEW d \in Nat \ {0}
  PROVE  LET k == RoundHalfEven(n, d)
         IN /\ k \in Nat /\ k * d \in Nat
            /\ 2 * n <= 2 * (k * d) + d /\ 2 * (k * d) <= 2 * n + d
            /\ 2 * n = 2 * (k * d) + d => k % 2 = 0
            /\ 2 * (k * d) = 2 * n + d => k % 2 = 0
<1> DEFINE k == RoundHalfEven(n, d)
           q == n \div d
           r == n % d
           p == q * d
<1>1. q \in Nat /\ r \in Nat /\ r < d
  BY QuotientOfNaturals
<1>2. n = p + r /\ p \in Nat
  BY <1>1, ProductsOfNaturals
<1>3. /\ k \in Nat /\ (k = q \/ k = q + 1)
      /\ k = q => 2 * r <= d
      /\ k # q => 2 * r >= d
      /\ 2 * r = d => k % 2 = 0
  BY RoundedBetween
<1>4. (q + 1) * d = p + d
  BY <1>1
<1> HIDE DEF k, q, r
<1>5. CASE k = q
  <2>1. k * d = p
    BY <1>5
  <2> HIDE DEF p
  <2> QED BY <1>1, <1>2, <1>3, <1>5, <2>1 DEF k
<1>6. CASE k # q
  <2>1. k * d = p + d
    BY <1>3, <1>4, <1>6
  <2> HIDE DEF p
  <2> QED BY <1>1, <1>2, <1>3, <1>6, <2>1 DEF k
<1> QED BY <1>5, <1>6

\* a / b <= c / d.
LEMMA RoundedInOrder ==
  ASSUME NEW a \in Nat, NEW b \in Nat \ {0}, NEW c \in Nat, NEW d \in Nat \ {0}, a * d <= c * b
  PROVE  RoundHalfEven(a, b) <= RoundHalfEven(c, d)
<1> DEFINE k == RoundHalfEven(a, b)
           l == RoundHalfEven(c, d)
           bd == b * d
           kb == k * b
           ld == l * d
<1>1. /\ k \in Nat /\ kb \in Nat /\ 2 * kb <= 2 * a + b /\ (2 * kb = 2 * a + b => k % 2 = 0)
      /\ l \in Nat /\ ld \in Nat /\ 2 * c <= 2 * ld + d /\ (2 * c = 2 * ld + d => l % 2 = 0)
  BY RoundedBounds
<1> HIDE DEF k, l
<1> SUFFICES ASSUME k > l PROVE FALSE
  BY <1>1 DEF k, l
<1>2. bd \in Nat \ {0} /\ a * d \in Nat /\ c * b \in Nat /\ k * bd \in Nat /\ l * bd \in Nat
  <2>1. bd \in Nat \ {0} /\ a * d \in Nat /\ c * b \in Nat
    BY ProductsOfNaturals
  <2> HIDE DEF bd
  <2> QED BY <1>1, <2>1, ProductsOfNaturals
<1>3. 2 * (k * bd) <= 2 * (a * d) + bd /\ (2 * (k * bd) = 2 * (a * d) + bd => k % 2 = 0)
  <2>1. kb * d = k * bd
    BY <1>1
  <2>2. (2 * kb) * d = 2 * (k * bd) /\ (2 * a + b) * d = 2 * (a * d) + bd
    BY <1>1, <2>1
  <2> DEFINE x == 2 * kb
             y == 2 * a + b
  <2>3. x \in Nat /\ y \in Nat /\ x <= y
    BY <1>1
  <2> HIDE DEF x, y
  <2>4. x * d <= y * d
    BY <2>3, ProductGrows
  <2>5. x # y => x * d # y * d
    <3>1. \A u, v \in Nat : u # v => u * d # v * d
      OBVIOUS
    <3> QED BY <2>3, <3>1
  <2> QED BY <1>1, <2>2, <2>4, <2>5 DEF x, y
<1>4. 2 * (c * b) <= 2 * (l * bd) + bd /\ (2 * (c * b) = 2 * (l * bd) + bd => l % 2 = 0)
  <2>1. ld * b = l * bd
    BY <1>1
  <2>2. (2 * c) * b = 2 * (c * b) /\ (2 * ld + d) * b = 2 * (l * bd) + bd
    BY <1>1, <2>1
  <2> DEFINE x == 2 * c
             y == 2 * ld + d
  <2>3. x \in Nat /\ y \in Nat /\ x <= y
    BY <1>1
  <2> HIDE DEF x, y
  <2>4. x * b <= y * b
    BY <2>3, ProductGrows
  <2>5. x # y => x * b # y * b
    <3>1. \A u, v \in Nat : u # v => u * b # v * b
      OBVIOUS
    <3> QED BY <2>3, <3>1
  <2> QED BY <1>1, <2>2, <2>4, <2>5 DEF x, y
<1>5. (l + 1) * bd = l * bd + bd /\ (l + 1) * bd <= k * bd
  <2> HIDE DEF bd
  <2>1. l + 1 \in Nat /\ l + 1 <= k
    BY <1>1
  <2>2. (l + 1) * bd <= k * bd
    BY <1>1, <1>2, <2>1, ProductGrows
  <2>3. (l + 1) * bd = l * bd + bd
    BY <1>1, <1>2
  <2> QED BY <2>2, <2>3
<1> DEFINE K == k * bd
           L == l * bd
           A == a * d
           C == c * b
<1> HIDE DEF bd, kb, ld
<1>6. /\ bd \in Nat \ {0} /\ K \in Nat /\ L \in Nat /\ A \in Nat /\ C \in Nat /\ A <= C
      /\ 2 * K <= 2 * A + bd /\ 2 * C <= 2 * L + bd /\ L + bd <= K
      /\ (2 * K = 2 * A + bd => k % 2 = 0) /\ (2 * C = 2 * L + bd => l % 2 = 0)
  BY <1>2, <1>3, <1>4, <1>5
<1> HIDE DEF K, L, A, C
<1>7. K = L + bd /\ k % 2 = 0 /\ l % 2 = 0
  BY <1>6
<1>8. k = l + 1
  <2>1. SUFFICES ASSUME k # l + 1 PROVE FALSE
    OBVIOUS
  <2>2. l + 2 \in Nat /\ l + 2 <= k
    BY <1>1, <2>1
  <2>3. (l + 2) * bd <= k * bd
    BY <1>1, <1>2, <2>2, ProductGrows
  <2>4. (l + 2) * bd = l * bd + bd + bd
    BY <1>1, <1>2
  <2>5. L + bd + bd <= K
    BY <2>3, <2>4 DEF K, L
  <2> QED BY <1>6, <1>7, <2>5
<1> QED BY <1>1, <1>7, <1>8

LEMMA RoundedApart ==
  ASSUME NEW x \in Nat, NEW y \in Nat, NEW d \in Nat \ {0}, y > x + d
  PROVE  RoundHalfEven(x, d) < RoundHalfEven(y, d)
<1> DEFINE k == RoundHalfEven(x, d)
           l == RoundHalfEven(y, d)
           kd == k * d
           ld == l * d
<1>1. /\ k \in Nat /\ kd \in Nat /\ 2 * kd <= 2 * x + d
      /\ l \in Nat /\ ld \in Nat /\ 2 * y <= 2 * ld + d
  BY RoundedBounds
<1> HIDE DEF k, l
<1> SUFFICES ASSUME l <= k PROVE FALSE
  BY <1>1 DEF k, l
<1>2. ld <= kd
  BY <1>1, ProductGrows
<1> HIDE DEF kd, ld
<1> QED BY <1>1, <1>2

LEMMA TicksRound ==
  ASSUME NEW bpm, MidiSettingsAccepted(bpm)
  PROVE  LET parts == TicksPerBeat * MicrosPerSecond
             tick == Second * TempoMicrosecondsPerBeat(bpm)
         IN /\ parts \in Nat \ {0} /\ tick \in Nat \ {0}
            /\ \A seconds \in Nat : /\ seconds * parts \in Nat
                                    /\ SecondsToMidiTick(seconds, bpm) = RoundHalfEven(seconds * parts, tick)
            /\ LongerThanTick(bpm) => MinimumDuration * parts > tick
<1> DEFINE micros == TempoMicrosecondsPerBeat(bpm)
           parts == TicksPerBeat * MicrosPerSecond
           tick == Second * micros
<1>1. micros \in Nat \ {0}
  BY MidiAssumption DEF MidiSettingsAccepted
<1> HIDE DEF micros
<1>2. tick \in Nat \ {0}
  BY <1>1, NoteAssumption, ProductsOfNaturals
<1>3. parts \in Nat \ {0}
  BY MidiAssumption, ProductsOfNaturals
<1>4. \A seconds \in Nat : seconds * TicksPerBeat * MicrosPerSecond = seconds * parts
  BY MidiAssumption
<1>5. \A seconds \in Nat : SecondsToMidiTick(seconds, bpm) = RoundHalfEven(seconds * parts, tick)
  <2> TAKE seconds \in Nat
  <2>1. seconds * TicksPerBeat * MicrosPerSecond = seconds * parts
    BY <1>4
  <2> HIDE DEF parts
  <2> QED BY <2>1 DEF SecondsToMidiTick, micros
<1>6. LongerThanTick(bpm) => MinimumDuration * parts > tick
  <2>1. MinimumDuration * TicksPerBeat * MicrosPerSecond = MinimumDuration * parts
    BY <1>4, PostProcessingAssumption
  <2> HIDE DEF parts
  <2> QED BY <2>1 DEF LongerThanTick, micros
<1> HIDE DEF parts, tick
<1>7. \A seconds \in Nat : seconds * parts \in Nat
  BY <1>3, ProductsOfNaturals
<1> QED BY <1>2, <1>3, <1>5, <1>6, <1>7 DEF parts, tick, micros

LEMMA TicksInOrder ==
  ASSUME NEW bpm, MidiSettingsAccepted(bpm), NEW s \in Nat, NEW t \in Nat
  PROVE  /\ SecondsToMidiTick(s, bpm) \in Nat
         /\ s <= t => SecondsToMidiTick(s, bpm) <= SecondsToMidiTick(t, bpm)
         /\ LongerThanTick(bpm) /\ s + MinimumDuration <= t =>
              SecondsToMidiTick(s, bpm) < SecondsToMidiTick(t, bpm)
<1> DEFINE parts == TicksPerBeat * MicrosPerSecond
           tick == Second * TempoMicrosecondsPerBeat(bpm)
           sp == s * parts
           tp == t * parts
           dp == MinimumDuration * parts
<1>1. /\ parts \in Nat \ {0} /\ tick \in Nat \ {0}
      /\ \A seconds \in Nat : /\ seconds * parts \in Nat
                              /\ SecondsToMidiTick(seconds, bpm) = RoundHalfEven(seconds * parts, tick)
      /\ LongerThanTick(bpm) => MinimumDuration * parts > tick
  BY TicksRound
<1> HIDE DEF parts, tick
<1>2. /\ sp \in Nat /\ tp \in Nat /\ dp \in Nat /\ MinimumDuration \in Nat
      /\ SecondsToMidiTick(s, bpm) = RoundHalfEven(sp, tick)
      /\ SecondsToMidiTick(t, bpm) = RoundHalfEven(tp, tick)
  BY <1>1, PostProcessingAssumption
<1>3. s <= t => sp <= tp
  BY <1>1, ProductGrows
<1>4. s + MinimumDuration <= t => sp + dp <= tp
  <2>1. (s + MinimumDuration) * parts = sp + dp
    BY <1>1, <1>2
  <2>2. s + MinimumDuration \in Nat
    BY <1>2
  <2>3. s + MinimumDuration <= t => (s + MinimumDuration) * parts <= tp
    BY <1>1, <2>2, ProductGrows
  <2> QED BY <2>1, <2>3
<1>5. LongerThanTick(bpm) => dp > tick
  BY <1>1
<1> HIDE DEF sp, tp, dp
<1>6. RoundHalfEven(sp, tick) \in Nat
  BY <1>1, <1>2, RoundedBounds
<1>7. s <= t => RoundHalfEven(sp, tick) <= RoundHalfEven(tp, tick)
  <2>1. SUFFICES ASSUME s <= t PROVE RoundHalfEven(sp, tick) <= RoundHalfEven(tp, tick)
    OBVIOUS
  <2>2. sp * tick <= tp * tick
    BY <1>1, <1>2, <1>3, <2>1, ProductGrows
  <2> QED BY <1>1, <1>2, <2>2, RoundedInOrder
<1>8. LongerThanTick(bpm) /\ s + MinimumDuration <= t => RoundHalfEven(sp, tick) < RoundHalfEven(tp, tick)
  <2>1. SUFFICES ASSUME LongerThanTick(bpm), s + MinimumDuration <= t
                 PROVE  RoundHalfEven(sp, tick) < RoundHalfEven(tp, tick)
    OBVIOUS
  <2>2. tp > sp + tick
    BY <1>1, <1>2, <1>4, <1>5, <2>1
  <2> QED BY <1>1, <1>2, <2>2, RoundedApart
<1> QED BY <1>2, <1>6, <1>7, <1>8

LEMMA SoundingVelocity ==
  ASSUME NEW v \in MidiValues
  PROVE  Max({v, 1}) \in 1..127
<1>1. v \in Int /\ v >= 0 /\ v <= 127
  BY DEF MidiValues
<1>2. Max({v, 1}) = IF v >= 1 THEN v ELSE 1
  BY <1>1, MaxOfTwo
<1> QED BY <1>1, <1>2

-----------------------------------------------------------------------------
\* What is planned for a note.
LEMMA PlannedNote ==
  ASSUME NEW events, Played(events), NEW bpm, MidiSettingsAccepted(bpm), NEW i \in 1..Len(events)
  PROVE  LET note == PlanNote(events, i, bpm)
             sounded == HeardAt(events, i)
         IN /\ note.index = i /\ note.pitch = sounded.pitch /\ note.pitch \in MidiValues
            /\ note.velocity \in 1..127
            /\ note.onset = SecondsToMidiTick(sounded.onset, bpm)
            /\ note.onset \in Nat /\ note.offset \in Nat /\ note.onset < note.offset
            /\ note.offset >= SecondsToMidiTick(sounded.offset, bpm)
            /\ SecondsToMidiTick(sounded.onset, bpm) < SecondsToMidiTick(sounded.offset, bpm) =>
                 note.offset = SecondsToMidiTick(sounded.offset, bpm)
<1> DEFINE sounded == HeardAt(events, i)
           note == PlanNote(events, i, bpm)
           on == SecondsToMidiTick(sounded.onset, bpm)
           off == SecondsToMidiTick(sounded.offset, bpm)
<1>1. /\ sounded.onset \in Nat /\ sounded.offset \in Nat /\ sounded.pitch \in MidiValues
      /\ sounded.velocity \in MidiValues
  BY PlayedNumbers DEF HeardAt
<1>2. note = [index |-> i, pitch |-> sounded.pitch, velocity |-> Max({sounded.velocity, 1}),
              onset |-> on, offset |-> Max({on + 1, off})]
  BY DEF PlanNote, HeardAt
<1> HIDE DEF sounded, note
<1>3. on \in Nat /\ off \in Nat
  BY <1>1, TicksInOrder
<1> HIDE DEF on, off
<1>4. Max({on + 1, off}) = IF on + 1 >= off THEN on + 1 ELSE off
  BY <1>3, MaxOfTwo
<1>6. Max({sounded.velocity, 1}) \in 1..127
  BY ONLY <1>1, SoundingVelocity
<1>7. note.offset = Max({on + 1, off}) /\ note.onset = on /\ note.index = i
      /\ note.pitch = sounded.pitch /\ note.velocity = Max({sounded.velocity, 1})
  BY <1>2
<1> QED BY <1>1, <1>3, <1>4, <1>6, <1>7 DEF on, off, note, sounded

\* The plan holds every note once.
IsPlanOrder(order, plan, events, bpm) ==
  LET n == Len(events)
  IN /\ order \in [1..n -> 1..n]
     /\ \A i, j \in 1..n : i # j => order[i] # order[j]
     /\ \A p \in 1..n : \E k \in 1..n : order[k] = p
     /\ Len(plan) = n /\ DOMAIN plan = 1..n
     /\ \A k \in 1..n : plan[k] = PlanNote(events, order[k], bpm)

LEMMA PlanOrder ==
  ASSUME NEW events, Played(events), NEW bpm, MidiSettingsAccepted(bpm)
  PROVE  \E order : IsPlanOrder(order, MidiPlan(events, bpm), events, bpm)
<1> DEFINE n == Len(events)
           planned == [i \in DOMAIN events |-> PlanNote(events, i, bpm)]
           key == [i \in DOMAIN planned |-> PlanSortKey(planned[i])]
           order == SortedPositions(planned, key)
           four == 4
           V == {PlanNote(events, i, bpm) : i \in 1..n}
<1>1. n \in Nat /\ DOMAIN events = 1..n
  BY PlayedNumbers
<1>2. planned \in Seq(V) /\ Len(planned) = n /\ DOMAIN planned = 1..n
      /\ \A i \in 1..n : planned[i] = PlanNote(events, i, bpm)
  BY <1>1
<1>3. key \in PositionKeys(planned, four)
  <2>1. ASSUME NEW i \in 1..n PROVE PlanSortKey(planned[i]) \in Tuples(four)
    <3> DEFINE note == PlanNote(events, i, bpm)
    <3>1. note.onset \in Nat /\ note.offset \in Nat /\ note.pitch \in MidiValues /\ note.index = i
      <4>1. i \in 1..Len(events)
        BY <2>1
      <4> QED BY ONLY Played(events), MidiSettingsAccepted(bpm), <4>1, PlannedNote
    <3>2. note.onset \in Int /\ note.offset \in Int /\ note.pitch \in Int /\ note.index \in Int
      BY <1>1, <3>1, MidiValuesAreNumbers
    <3>3. planned[i] = note
      BY <1>2
    <3> HIDE DEF note, planned
    <3> QED BY <3>2, <3>3 DEF PlanSortKey, Tuples
  <2> HIDE DEF planned, n, four
  <2> QED BY <1>2, <2>1 DEF PositionKeys
<1> HIDE DEF planned, key, V, four
<1>4. four \in Nat
  BY DEF four
<1>5. /\ order \in [1..n -> 1..n]
      /\ \A p \in 1..n : \E k \in 1..n : order[k] = p
      /\ \A i, j \in 1..n : i < j => order[i] # order[j]
  BY <1>2, <1>3, <1>4, SortedPositionsSort
<1>6. MidiPlan(events, bpm) = [k \in DOMAIN order |-> planned[order[k]]]
  BY DEF MidiPlan, Sorted, planned, key
<1> HIDE DEF order, n
<1>7. \A i, j \in 1..n : i # j => order[i] # order[j]
  <2> TAKE i, j \in 1..n
  <2>1. i # j => i < j \/ j < i
    BY <1>1
  <2> QED BY <1>5, <2>1
<1>8. DOMAIN MidiPlan(events, bpm) = 1..n /\ Len(MidiPlan(events, bpm)) = n
      /\ \A k \in 1..n : MidiPlan(events, bpm)[k] = PlanNote(events, order[k], bpm)
  BY <1>1, <1>2, <1>5, <1>6
<1> QED BY <1>5, <1>7, <1>8 DEF IsPlanOrder, n

-----------------------------------------------------------------------------
(* The tempos a processor may come to are those of its range, and its fallback.    *)

LEMMA TempoChosen ==
  ASSUME NEW events, Played(events), NEW s \in Setups
  PROVE  LET bpm == ResolveTempo(events, s.tempo, s.fallback).effective
         IN bpm \in PositiveNumbers /\ (bpm = s.fallback \/ InTempoRange(bpm, s.tempo))
<1> DEFINE estimated == ResolveOctaveEquivalent(Median(CandidateTempos(OnsetIntervals(events))), s.tempo)
           estimate == EstimateTempo(events, s.tempo)
           bpm == ResolveTempo(events, s.tempo, s.fallback).effective
<1>1. bpm \in PositiveNumbers
  BY ResolvedTempo
<1>2. CASE estimate = Unavailable
  BY <1>1, <1>2 DEF ResolveTempo, Unavailable, ManualTempo
<1>3. CASE estimate # Unavailable
  <2>1. InTempoRange(estimated, s.tempo) /\ estimate.available = TRUE /\ estimate.tempo_bpm = estimated
    BY <1>3 DEF EstimateTempo
  <2> HIDE DEF estimated, estimate
  <2>2. bpm = estimated
    BY <2>1 DEF ResolveTempo, AutomaticTempo, estimate
  <2> QED BY <1>1, <2>1, <2>2
<1> QED BY <1>2, <1>3

\* A slower tempo has longer beats.
LEMMA SlowerIsLonger ==
  ASSUME NEW a \in PositiveNumbers, NEW b \in PositiveNumbers, AtMost(a, b)
  PROVE  TempoMicrosecondsPerBeat(b) <= TempoMicrosecondsPerBeat(a)
<1> DEFINE minute == 60 * MicrosPerSecond
           x == minute * b[2]
           y == minute * a[2]
<1>1. minute \in Nat
  BY MidiAssumption
<1>2. a[1] \in Nat \ {0} /\ a[2] \in Nat \ {0} /\ b[1] \in Nat \ {0} /\ b[2] \in Nat \ {0}
  BY DEF PositiveNumbers
<1> HIDE DEF minute
<1>3. x \in Nat /\ y \in Nat
  BY <1>1, <1>2, ProductsOfNaturals
<1>4. x * a[1] <= y * b[1]
  <2> DEFINE p == a[1] * b[2]
             q == b[1] * a[2]
  <2>1. p <= q
    BY DEF AtMost
  <2>2. p \in Nat /\ q \in Nat
    BY <1>2, ProductsOfNaturals
  <2>3. x * a[1] = p * minute /\ y * b[1] = q * minute
    BY <1>1, <1>2
  <2> HIDE DEF p, q, x, y
  <2>4. p * minute <= q * minute
    BY <1>1, <2>1, <2>2, ProductGrows
  <2> QED BY <2>3, <2>4
<1> HIDE DEF x, y
<1>5. RoundHalfEven(x, b[1]) <= RoundHalfEven(y, a[1])
  BY <1>2, <1>3, <1>4, RoundedInOrder
<1> QED BY <1>5 DEF TempoMicrosecondsPerBeat, x, y, minute

LEMMA TempoNatural ==
  ASSUME NEW bpm \in PositiveNumbers
  PROVE  TempoMicrosecondsPerBeat(bpm) \in Nat
<1> DEFINE minute == 60 * MicrosPerSecond
           x == minute * bpm[2]
<1>1. minute \in Nat
  BY MidiAssumption
<1>2. bpm[1] \in Nat \ {0} /\ bpm[2] \in Nat \ {0}
  BY DEF PositiveNumbers
<1> HIDE DEF minute
<1>3. x \in Nat
  BY <1>1, <1>2, ProductsOfNaturals
<1> HIDE DEF x
<1>4. RoundHalfEven(x, bpm[1]) \in Nat
  BY <1>2, <1>3, RoundedBounds
<1> QED BY <1>4 DEF TempoMicrosecondsPerBeat, x, minute

LEMMA TempoWritten ==
  ASSUME NEW events, Played(events), NEW s \in Setups, TemposWritable(s)
  PROVE  MidiSettingsAccepted(ResolveTempo(events, s.tempo, s.fallback).effective)
<1> DEFINE bpm == ResolveTempo(events, s.tempo, s.fallback).effective
<1>1. bpm \in PositiveNumbers /\ (bpm = s.fallback \/ InTempoRange(bpm, s.tempo))
  BY TempoChosen
<1>2. s.tempo.minimum_bpm \in PositiveNumbers /\ s.tempo.maximum_bpm \in PositiveNumbers
  BY PipelineAssumption DEF SetupAccepted
<1> HIDE DEF bpm
<1>3. CASE bpm = s.fallback
  BY <1>3 DEF TemposWritable, bpm
<1>4. CASE InTempoRange(bpm, s.tempo)
  <2>1. bpm[1] \in Nat \ {0} /\ bpm[2] \in Nat \ {0}
    BY <1>1 DEF PositiveNumbers
  <2>2. TempoMicrosecondsPerBeat(bpm) <= TempoMicrosecondsPerBeat(s.tempo.minimum_bpm)
    BY <1>1, <1>2, <1>4, SlowerIsLonger DEF InTempoRange
  <2>3. TempoMicrosecondsPerBeat(s.tempo.maximum_bpm) <= TempoMicrosecondsPerBeat(bpm)
    BY <1>1, <1>2, <1>4, SlowerIsLonger DEF InTempoRange
  <2>4. TempoMicrosecondsPerBeat(bpm) \in Nat
    BY <1>1, TempoNatural
  <2> QED BY <2>1, <2>2, <2>3, <2>4, MidiAssumption DEF TemposWritable, MidiSettingsAccepted, bpm
<1> QED BY <1>1, <1>3, <1>4 DEF bpm

-----------------------------------------------------------------------------
(* The messages of the file.                                                        *)

LEMMA SameCount ==
  ASSUME NEW S, IsFiniteSet(S), NEW T, NEW f \in [S -> T],
         \A x, y \in S : x # y => f[x] # f[y], \A y \in T : \E x \in S : f[x] = y
  PROVE  IsFiniteSet(T) /\ Cardinality(T) = Cardinality(S)
<1>1. f \in Bijection(S, T)
  BY DEF Bijection, Injection, Surjection, IsInjective
<1> QED BY <1>1, FS_Bijection DEF ExistsBijection

OnMessage(item) ==
  [tick |-> item.onset, priority |-> NoteOnPriority, index |-> item.index,
   type |-> "note_on", note |-> item.pitch, velocity |-> item.velocity]

OffMessage(item) ==
  [tick |-> item.offset, priority |-> NoteOffPriority, index |-> item.index,
   type |-> "note_off", note |-> item.pitch, velocity |-> 0]

OnMessages(plan) == {OnMessage(plan[k]) : k \in DOMAIN plan}
OffMessages(plan) == {OffMessage(plan[k]) : k \in DOMAIN plan}
MessageKey(m) == <<m.tick, m.priority, m.index>>

\* A plan of n notes that last.
Plays(plan, n) ==
  /\ Len(plan) = n /\ DOMAIN plan = 1..n
  /\ \A k \in 1..n : /\ plan[k].onset \in Nat /\ plan[k].offset \in Nat
                     /\ plan[k].onset < plan[k].offset
                     /\ plan[k].index \in 1..n /\ plan[k].pitch \in MidiValues
                     /\ plan[k].velocity \in 1..127
  /\ \A i, j \in 1..n : i # j => plan[i].index # plan[j].index

\* The messages of a plan, in the order of the file.
InFileOrder(ordered, plan, n) ==
  /\ ordered \in [1..(2 * n) -> OnMessages(plan) \union OffMessages(plan)]
  /\ \A i, j \in 1..(2 * n) : i < j => TupleLess(MessageKey(ordered[i]), MessageKey(ordered[j]))
  /\ \A m \in OnMessages(plan) \union OffMessages(plan) : \E k \in 1..(2 * n) : ordered[k] = m

LEMMA MessagesCounted ==
  ASSUME NEW n \in Nat, NEW plan, Plays(plan, n)
  PROVE  /\ IsFiniteSet(OnMessages(plan)) /\ Cardinality(OnMessages(plan)) = n
         /\ IsFiniteSet(OffMessages(plan)) /\ Cardinality(OffMessages(plan)) = n
<1> DEFINE S == 1..n
           f == [k \in S |-> OnMessage(plan[k])]
           g == [k \in S |-> OffMessage(plan[k])]
           T == OnMessages(plan)
           U == OffMessages(plan)
<1>1. DOMAIN plan = S /\ \A i, j \in S : i # j => plan[i].index # plan[j].index
  BY DEF Plays
<1>2. IsFiniteSet(S) /\ Cardinality(S) = n
  BY CardinalityOfFirst
<1> HIDE DEF S
<1>3. f \in [S -> T] /\ g \in [S -> U]
  BY <1>1 DEF OnMessages, OffMessages
<1>4. \A x, y \in S : x # y => f[x] # f[y]
  <2>1. \A x, y \in S : f[x] = f[y] => plan[x].index = plan[y].index
    BY DEF OnMessage
  <2> QED BY <1>1, <2>1
<1>5. \A x, y \in S : x # y => g[x] # g[y]
  <2>1. \A x, y \in S : g[x] = g[y] => plan[x].index = plan[y].index
    BY DEF OffMessage
  <2> QED BY <1>1, <2>1
<1>6. (\A y \in T : \E x \in S : f[x] = y) /\ (\A y \in U : \E x \in S : g[x] = y)
  BY <1>1 DEF OnMessages, OffMessages
<1> HIDE DEF f, g, T, U
<1>7. IsFiniteSet(T) /\ Cardinality(T) = Cardinality(S)
  BY <1>2, <1>3, <1>4, <1>6, SameCount
<1>8. IsFiniteSet(U) /\ Cardinality(U) = Cardinality(S)
  BY <1>2, <1>3, <1>5, <1>6, SameCount
<1> QED BY <1>2, <1>7, <1>8 DEF T, U

LEMMA MessagesOrdered ==
  ASSUME NEW n \in Nat, NEW plan, Plays(plan, n)
  PROVE  InFileOrder(OrderedMessages(plan), plan, n)
<1> DEFINE T == OnMessages(plan)
           U == OffMessages(plan)
           M == UNION {NoteMessages(plan[i]) : i \in DOMAIN plan}
           S == T \union U
           key == [m \in S |-> MessageKey(m)]
           three == 3
<1>1. M = S
  BY DEF NoteMessages, OnMessages, OffMessages, OnMessage, OffMessage
<1>2. /\ IsFiniteSet(T) /\ Cardinality(T) = n /\ IsFiniteSet(U) /\ Cardinality(U) = n
  BY MessagesCounted
<1>3. T \cap U = {}
  BY DEF OnMessages, OffMessages, OnMessage, OffMessage
<1>4. IsFiniteSet(S) /\ Cardinality(S) = 2 * n
  <2>1. Cardinality(T \cap U) = 0
    BY <1>3, FS_EmptySet
  <2> HIDE DEF T, U
  <2>2. IsFiniteSet(S) /\ Cardinality(S) = n + n - 0
    BY <1>2, <2>1, FS_Union
  <2> QED BY <2>2
<1>5. key \in Keys(S, three)
  <2>1. \A m \in S : m.tick \in Int /\ m.priority \in Int /\ m.index \in Int
    <3>1. \A k \in DOMAIN plan : plan[k].onset \in Int /\ plan[k].offset \in Int /\ plan[k].index \in Int
      BY DEF Plays
    <3>2. NoteOnPriority \in Int /\ NoteOffPriority \in Int
      BY DEF NoteOnPriority, NoteOffPriority
    <3> QED BY <3>1, <3>2 DEF OnMessages, OffMessages, OnMessage, OffMessage
  <2>2. \A m \in S : MessageKey(m) \in Tuples(three)
    <3> HIDE DEF S
    <3> QED BY <2>1 DEF MessageKey, Tuples
  <2>3. \A x, y \in S : x.priority = y.priority /\ x.index = y.index => x = y
    <3>1. \A i, j \in DOMAIN plan : plan[i].index = plan[j].index => i = j
      BY DEF Plays
    <3>2. NoteOnPriority # NoteOffPriority
      BY DEF NoteOnPriority, NoteOffPriority
    <3> QED BY <3>1, <3>2 DEF OnMessages, OffMessages, OnMessage, OffMessage
  <2> HIDE DEF S, three
  <2>4. \A x, y \in S : MessageKey(x) = MessageKey(y) => x.priority = y.priority /\ x.index = y.index
    BY DEF MessageKey
  <2> QED BY <2>2, <2>3, <2>4 DEF Keys
<1>6. OrderedMessages(plan) = SortedBy(S, key)
  BY <1>1 DEF OrderedMessages, MessageKey
<1>7. three \in Nat /\ \A m \in S : key[m] = MessageKey(m)
  OBVIOUS
<1> HIDE DEF S, key, three, M
<1>8. /\ SortedBy(S, key) \in [1..Cardinality(S) -> S]
      /\ \A i, j \in 1..Cardinality(S) :
           i < j => TupleLess(key[SortedBy(S, key)[i]], key[SortedBy(S, key)[j]])
      /\ \A x \in S : \E k \in 1..Cardinality(S) : SortedBy(S, key)[k] = x
  <2>1. IsFiniteSet(S) /\ three \in Nat /\ key \in Keys(S, three)
    BY <1>4, <1>5, <1>7
  <2> QED BY ONLY <2>1, SortedBySorts
<1> DEFINE ordered == SortedBy(S, key)
<1> HIDE DEF ordered
<1>9. /\ ordered \in [1..(2 * n) -> S]
      /\ \A i, j \in 1..(2 * n) : i < j => TupleLess(key[ordered[i]], key[ordered[j]])
      /\ \A x \in S : \E k \in 1..(2 * n) : ordered[k] = x
  BY <1>4, <1>8 DEF ordered
<1>10. \A k \in 1..(2 * n) : key[ordered[k]] = MessageKey(ordered[k])
  BY <1>7, <1>9
<1>11. \A i, j \in 1..(2 * n) : i < j => TupleLess(MessageKey(ordered[i]), MessageKey(ordered[j]))
  BY <1>9, <1>10
<1>12. OrderedMessages(plan) = ordered /\ S = OnMessages(plan) \union OffMessages(plan)
  BY <1>6 DEF ordered, S
<1> QED BY <1>9, <1>11, <1>12 DEF InFileOrder

-----------------------------------------------------------------------------
(* The file read back.                                                              *)

MessageTypes == {"note_on", "note_off"}

DeltaRecords == [time : Int, type : MessageTypes, note : MidiValues, velocity : MidiValues]

ParsedLists == Seq([tick : Int, type : MessageTypes, note : MidiValues, velocity : MidiValues])

LEMMA ParsedClosed ==
  /\ <<>> \in ParsedLists
  /\ \A parsed \in ParsedLists, message \in DeltaRecords :
       /\ ParseMessage(parsed, message) \in ParsedLists
       /\ Len(parsed) \in Nat /\ Len(ParseMessage(parsed, message)) = Len(parsed) + 1
       /\ \A i \in 1..Len(parsed) : ParseMessage(parsed, message)[i] = parsed[i]
       /\ ParseMessage(parsed, message)[Len(parsed) + 1] =
            [tick |-> (IF parsed = <<>> THEN 0 ELSE parsed[Len(parsed)].tick) + message.time,
             type |-> message.type, note |-> message.note, velocity |-> message.velocity]
<1> DEFINE R == [tick : Int, type : MessageTypes, note : MidiValues, velocity : MidiValues]
<1>1. <<>> \in ParsedLists
  BY DEF ParsedLists
<1>2. ASSUME NEW parsed \in ParsedLists, NEW message \in DeltaRecords
      PROVE  /\ ParseMessage(parsed, message) \in ParsedLists
             /\ Len(parsed) \in Nat /\ Len(ParseMessage(parsed, message)) = Len(parsed) + 1
             /\ \A i \in 1..Len(parsed) : ParseMessage(parsed, message)[i] = parsed[i]
             /\ ParseMessage(parsed, message)[Len(parsed) + 1] =
                  [tick |-> (IF parsed = <<>> THEN 0 ELSE parsed[Len(parsed)].tick) + message.time,
                   type |-> message.type, note |-> message.note, velocity |-> message.velocity]
  <2> DEFINE tick == (IF parsed = <<>> THEN 0 ELSE parsed[Len(parsed)].tick) + message.time
             next == [tick |-> tick, type |-> message.type,
                      note |-> message.note, velocity |-> message.velocity]
  <2>1. parsed \in Seq(R)
    BY DEF ParsedLists
  <2>2. parsed # <<>> => Len(parsed) \in 1..Len(parsed) /\ parsed[Len(parsed)] \in R
    <3> HIDE DEF R
    <3>1. parsed # <<>> => Len(parsed) # 0
      BY <2>1
    <3>2. Len(parsed) \in Nat /\ \A i \in 1..Len(parsed) : parsed[i] \in R
      BY <2>1
    <3> QED BY <3>1, <3>2
  <2>3. tick \in Int
    <3>1. message.time \in Int
      BY DEF DeltaRecords
    <3>2. parsed # <<>> => parsed[Len(parsed)].tick \in Int
      BY <2>2
    <3> QED BY <3>1, <3>2
  <2>4. next \in R
    <3> HIDE DEF tick
    <3> QED BY <2>3 DEF DeltaRecords
  <2>5. ParseMessage(parsed, message) = Append(parsed, next)
    BY DEF ParseMessage, Last
  <2> HIDE DEF next, R
  <2>6. /\ Append(parsed, next) \in Seq(R) /\ Len(parsed) \in Nat
        /\ Len(Append(parsed, next)) = Len(parsed) + 1
        /\ \A i \in 1..Len(parsed) : Append(parsed, next)[i] = parsed[i]
        /\ Append(parsed, next)[Len(parsed) + 1] = next
    BY <2>1, <2>4
  <2> QED BY <2>5, <2>6 DEF ParsedLists, next, R
<1> QED BY <1>1, <1>2

LEMMA ParsedFold ==
  ASSUME NEW seq \in Seq(DeltaRecords)
  PROVE  \E row \in [0..Len(seq) -> ParsedLists] :
           /\ row[0] = <<>>
           /\ \A k \in 1..Len(seq) : row[k] = ParseMessage(row[k - 1], seq[k])
           /\ FoldLeft(ParseMessage, <<>>, seq) = row[Len(seq)]
<1> DEFINE n == Len(seq)
           step == [p \in ParsedLists \X (1..n) |-> ParseMessage(p[1], seq[p[2]])]
           Is(g) == g = [s \in SUBSET (1..n) |->
                           IF s = {} THEN <<>> ELSE ParseMessage(g[s \ {Max(s)}], seq[Max(s)])]
           h == CHOOSE g : Is(g)
<1>1. n \in Nat /\ DOMAIN seq = 1..n /\ \A k \in 1..n : seq[k] \in DeltaRecords
  OBVIOUS
<1>2. FoldLeft(ParseMessage, <<>>, seq) = h[1..n]
  BY <1>1 DEF FoldLeft, MapThenFoldSet
<1>3. <<>> \in ParsedLists /\ step \in Steps(ParsedLists, n)
  BY <1>1, ParsedClosed DEF Steps
<1> HIDE DEF step
<1>4. \E g \in FoldFunctions(ParsedLists, n) : IsFold(g, n, <<>>, step)
  BY <1>1, <1>3, FoldExists
<1>5. PICK g \in FoldFunctions(ParsedLists, n) : IsFold(g, n, <<>>, step)
  BY <1>4
<1>6. Is(g)
  <2>1. ASSUME NEW s \in SUBSET (1..n)
        PROVE  g[s] = IF s = {} THEN <<>> ELSE ParseMessage(g[s \ {Max(s)}], seq[Max(s)])
    <3>1. CASE s = {}
      BY <1>5, <3>1 DEF IsFold
    <3>2. CASE s # {}
      <4>1. Max(s) \in 1..n /\ g[s \ {Max(s)}] \in ParsedLists
        BY <1>1, <1>5, <3>2, GreatestOfSome DEF FoldFunctions
      <4> HIDE DEF n
      <4> QED BY <1>5, <3>2, <4>1 DEF step, IsFold
    <3> QED BY <3>1, <3>2
  <2>2. g = [s \in SUBSET (1..n) |-> g[s]]
    BY <1>5 DEF FoldFunctions
  <2> QED BY <2>1, <2>2
<1>7. Is(h)
  BY <1>6
<1> HIDE DEF h
<1>8. h[{}] = <<>> /\ \A k \in 1..n : h[1..k] = ParseMessage(h[1..(k - 1)], seq[k])
  <2>1. h[{}] = <<>>
    BY <1>7
  <2>2. ASSUME NEW k \in 1..n PROVE h[1..k] = ParseMessage(h[1..(k - 1)], seq[k])
    <3>1. k \in Nat \ {0} /\ 1..k \in SUBSET (1..n)
      BY <1>1
    <3>2. 1..k # {} /\ (1..k) \ {k} = 1..(k - 1) /\ Max(1..k) = k
      BY ONLY <3>1, LastOfFirst
    <3> HIDE DEF n
    <3> QED BY <1>7, <3>1, <3>2
  <2> QED BY <2>1, <2>2
<1>9. \A k \in 1..n : h[1..(k - 1)] \in ParsedLists => h[1..k] = step[<<h[1..(k - 1)], k>>]
  BY <1>8 DEF step
<1>10. \E row \in Rows(ParsedLists, n) : IsRow(row, n, <<>>, step) /\ h[1..n] = row[n]
  <2> DEFINE V == ParsedLists
             base == <<>>
  <2>1. base \in V /\ step \in Steps(V, n) /\ h[{}] = base
        /\ \A k \in 1..n : h[1..(k - 1)] \in V => h[1..k] = step[<<h[1..(k - 1)], k>>]
    BY <1>3, <1>8, <1>9
  <2> HIDE DEF V, base
  <2>2. \E row \in Rows(V, n) : IsRow(row, n, base, step) /\ h[1..n] = row[n]
    BY <1>1, <2>1, FoldRow
  <2> QED BY <2>2 DEF V, base
<1>11. PICK row \in Rows(ParsedLists, n) : IsRow(row, n, <<>>, step) /\ h[1..n] = row[n]
  BY <1>10
<1>12. /\ row \in [0..n -> ParsedLists] /\ row[0] = <<>>
       /\ \A k \in 1..n : row[k - 1] \in ParsedLists /\ row[k] = step[<<row[k - 1], k>>]
  BY <1>1, <1>11 DEF Rows, IsRow
<1>13. \A k \in 1..n : row[k] = ParseMessage(row[k - 1], seq[k])
  BY <1>12 DEF step
<1> QED BY <1>2, <1>11, <1>12, <1>13

\* The messages with the time since the one before.
Deltas(ordered, n) ==
  [i \in 1..n |-> [time |-> ordered[i].tick - (IF i = 1 THEN 0 ELSE ordered[i - 1].tick),
                   type |-> ordered[i].type, note |-> ordered[i].note,
                   velocity |-> ordered[i].velocity]]

OrderedRecords ==
  [tick : Nat, priority : {NoteOnPriority, NoteOffPriority}, index : Nat,
   type : MessageTypes, note : MidiValues, velocity : MidiValues]

IsOrdered(ordered, n) == ordered \in [1..n -> OrderedRecords]

AsParsed(message) ==
  [tick |-> message.tick, type |-> message.type, note |-> message.note,
   velocity |-> message.velocity]

LEMMA DeltasTyped ==
  ASSUME NEW n \in Nat, NEW ordered, IsOrdered(ordered, n)
  PROVE  Deltas(ordered, n) \in Seq(DeltaRecords) /\ Len(Deltas(ordered, n)) = n
<1>1. \A i \in 1..n : ordered[i] \in OrderedRecords
  BY DEF IsOrdered
<1>2. ASSUME NEW i \in 1..n PROVE Deltas(ordered, n)[i] \in DeltaRecords
  <2> DEFINE before == IF i = 1 THEN 0 ELSE ordered[i - 1].tick
  <2>1. before \in Int
    <3>1. i # 1 => i - 1 \in 1..n
      OBVIOUS
    <3> QED BY <1>1, <3>1 DEF OrderedRecords
  <2>2. Deltas(ordered, n)[i] = [time |-> ordered[i].tick - before, type |-> ordered[i].type,
                                 note |-> ordered[i].note, velocity |-> ordered[i].velocity]
    BY DEF Deltas
  <2> HIDE DEF before
  <2> QED BY <1>1, <2>1, <2>2 DEF OrderedRecords, DeltaRecords
<1>3. Deltas(ordered, n) = [i \in 1..n |-> Deltas(ordered, n)[i]]
  BY DEF Deltas
<1> DEFINE d == Deltas(ordered, n)
<1> HIDE DEF d
<1>4. d \in [1..n -> DeltaRecords]
  BY <1>2, <1>3 DEF d
<1> QED BY <1>4 DEF d

\* The messages read back are the ones that were written, at their ticks.
LEMMA ReadBack ==
  ASSUME NEW n \in Nat, NEW ordered, IsOrdered(ordered, n)
  PROVE  LET parsed == FoldLeft(ParseMessage, <<>>, Deltas(ordered, n))
         IN DOMAIN parsed = 1..n /\ Len(parsed) = n /\ \A i \in 1..n : parsed[i] = AsParsed(ordered[i])
<1> DEFINE seq == Deltas(ordered, n)
<1>1. seq \in Seq(DeltaRecords) /\ Len(seq) = n
  BY DeltasTyped
<1>2. \A k \in 1..n : seq[k] \in DeltaRecords
  BY <1>1
<1>3. \A k \in 1..n :
        seq[k] = [time |-> ordered[k].tick - (IF k = 1 THEN 0 ELSE ordered[k - 1].tick),
                  type |-> ordered[k].type, note |-> ordered[k].note,
                  velocity |-> ordered[k].velocity]
  BY DEF Deltas
<1> HIDE DEF seq
<1>4. PICK row \in [0..n -> ParsedLists] :
           /\ row[0] = <<>>
           /\ \A k \in 1..n : row[k] = ParseMessage(row[k - 1], seq[k])
           /\ FoldLeft(ParseMessage, <<>>, seq) = row[n]
  BY <1>1, ParsedFold
<1> DEFINE G == {k \in 0..n : Len(row[k]) = k /\ \A i \in 1..k : row[k][i] = AsParsed(ordered[i])}
<1>5. 0 \in G
  BY <1>4
<1>6. ASSUME NEW k \in 1..n, k - 1 \in G PROVE k \in G
  <2> DEFINE before == row[k - 1]
             now == row[k]
  <2>1. /\ before \in ParsedLists /\ Len(before) = k - 1
        /\ \A i \in 1..(k - 1) : before[i] = AsParsed(ordered[i])
        /\ now = ParseMessage(before, seq[k])
    BY <1>4, <1>6
  <2>7. /\ seq[k].time = ordered[k].tick - (IF k = 1 THEN 0 ELSE ordered[k - 1].tick)
        /\ seq[k].type = ordered[k].type /\ seq[k].note = ordered[k].note
        /\ seq[k].velocity = ordered[k].velocity
    <3> DEFINE time == ordered[k].tick - (IF k = 1 THEN 0 ELSE ordered[k - 1].tick)
    <3>1. seq[k] = [time |-> time, type |-> ordered[k].type, note |-> ordered[k].note,
                    velocity |-> ordered[k].velocity]
      BY <1>3
    <3> HIDE DEF time
    <3>2. /\ seq[k].time = time
          /\ seq[k].type = ordered[k].type /\ seq[k].note = ordered[k].note
          /\ seq[k].velocity = ordered[k].velocity
      BY ONLY <3>1
    <3> QED BY <3>2 DEF time
  <2> HIDE DEF before, now
  <2>2. /\ Len(now) = Len(before) + 1
        /\ \A i \in 1..Len(before) : now[i] = before[i]
        /\ now[Len(before) + 1] =
             [tick |-> (IF before = <<>> THEN 0 ELSE before[Len(before)].tick) + seq[k].time,
              type |-> seq[k].type, note |-> seq[k].note, velocity |-> seq[k].velocity]
    <3> DEFINE message == seq[k]
    <3>1. message \in DeltaRecords /\ now = ParseMessage(before, message)
      BY <1>2, <2>1
    <3> HIDE DEF message
    <3> DEFINE next == ParseMessage(before, message)
    <3>2. /\ Len(next) = Len(before) + 1
          /\ \A i \in 1..Len(before) : next[i] = before[i]
          /\ next[Len(before) + 1] =
               [tick |-> (IF before = <<>> THEN 0 ELSE before[Len(before)].tick) + message.time,
                type |-> message.type, note |-> message.note, velocity |-> message.velocity]
      BY ONLY <2>1, <3>1, ParsedClosed
    <3>3. now = next
      BY <3>1
    <3> HIDE DEF next
    <3> QED BY ONLY <3>2, <3>3 DEF message
  <2>3. (IF before = <<>> THEN 0 ELSE before[Len(before)].tick) + seq[k].time = ordered[k].tick
    <3> DEFINE last == IF k = 1 THEN 0 ELSE ordered[k - 1].tick
    <3>1. (before = <<>>) <=> (k = 1)
      BY <2>1 DEF ParsedLists
    <3>2. (IF before = <<>> THEN 0 ELSE before[Len(before)].tick) = last
      <4>1. CASE k = 1
        BY <3>1, <4>1
      <4>2. CASE k # 1
        <5>1. k - 1 \in 1..(k - 1)
          BY <4>2
        <5>2. before[k - 1] = AsParsed(ordered[k - 1])
          BY ONLY <2>1, <5>1
        <5>4. before[k - 1].tick = ordered[k - 1].tick
          BY ONLY <5>2 DEF AsParsed
        <5> QED BY <2>1, <3>1, <4>2, <5>4
      <4> QED BY <4>1, <4>2
    <3>3. last \in Int /\ ordered[k].tick \in Int
      <4>1. \A i \in 1..n : ordered[i].tick \in Int
        BY DEF IsOrdered, OrderedRecords
      <4>2. k # 1 => k - 1 \in 1..n
        OBVIOUS
      <4> QED BY <4>1, <4>2
    <3>4. seq[k].time = ordered[k].tick - last
      BY <2>7
    <3> HIDE DEF last
    <3> QED BY <3>2, <3>3, <3>4
  <2>4. now[k] = AsParsed(ordered[k])
    <3>1. Len(before) + 1 = k
      BY <2>1
    <3>2. seq[k].type = ordered[k].type /\ seq[k].note = ordered[k].note
          /\ seq[k].velocity = ordered[k].velocity
      BY <2>7
    <3> QED BY <2>2, <2>3, <3>1, <3>2 DEF AsParsed
  <2>5. \A i \in 1..k : now[i] = AsParsed(ordered[i])
    <3>1. \A i \in 1..k : i = k \/ i \in 1..(k - 1)
      OBVIOUS
    <3> QED BY <2>1, <2>2, <2>4, <3>1
  <2>6. Len(now) = k /\ k \in 0..n
    BY <2>1, <2>2
  <2> QED BY <2>5, <2>6 DEF now
<1> HIDE DEF G
<1>7. \A k \in 0..n : k \in G
  BY <1>5, <1>6, Induction
<1>8. n \in G
  BY <1>7
<1>9. row[n] \in ParsedLists
  BY <1>4
<1>10. DOMAIN row[n] = 1..Len(row[n])
  BY <1>9 DEF ParsedLists
<1> QED BY <1>4, <1>8, <1>10 DEF G, seq

-----------------------------------------------------------------------------
(* The contract of the MIDI stage.                                                  *)

LEMMA SilenceAndSound == 0 \in MidiValues /\ \A v \in 1..127 : v \in MidiValues
BY DEF MidiValues

LEMMA PlanPlays ==
  ASSUME NEW events, Played(events), NEW bpm, MidiSettingsAccepted(bpm)
  PROVE  Plays(MidiPlan(events, bpm), Len(events)) /\ Len(events) \in Nat
<1> DEFINE n == Len(events)
           plan == MidiPlan(events, bpm)
<1>1. n \in Nat
  BY PlayedNumbers
<1>2. PICK order : IsPlanOrder(order, plan, events, bpm)
  BY PlanOrder
<1> HIDE DEF plan
<1>3. /\ order \in [1..n -> 1..n]
      /\ \A i, j \in 1..n : i # j => order[i] # order[j]
      /\ Len(plan) = n /\ DOMAIN plan = 1..n
      /\ \A k \in 1..n : plan[k] = PlanNote(events, order[k], bpm)
  BY <1>2 DEF IsPlanOrder
<1>4. \A i \in 1..n : LET note == PlanNote(events, i, bpm)
                      IN /\ note.index = i /\ note.pitch \in MidiValues /\ note.velocity \in 1..127
                         /\ note.onset \in Nat /\ note.offset \in Nat /\ note.onset < note.offset
  BY PlannedNote
<1> HIDE DEF n
<1>5. \A k \in 1..n : /\ plan[k].onset \in Nat /\ plan[k].offset \in Nat
                      /\ plan[k].onset < plan[k].offset
                      /\ plan[k].index = order[k] /\ plan[k].pitch \in MidiValues
                      /\ plan[k].velocity \in 1..127
  <2> TAKE k \in 1..n
  <2> DEFINE note == PlanNote(events, order[k], bpm)
  <2>1. order[k] \in 1..n /\ plan[k] = note
    BY <1>3
  <2>2. /\ note.index = order[k] /\ note.pitch \in MidiValues /\ note.velocity \in 1..127
        /\ note.onset \in Nat /\ note.offset \in Nat /\ note.onset < note.offset
    BY <1>4, <2>1
  <2> HIDE DEF note
  <2> QED BY ONLY <2>1, <2>2
<1>6. \A k \in 1..n : plan[k].index \in 1..n
  BY <1>3, <1>5
<1>7. \A i, j \in 1..n : i # j => plan[i].index # plan[j].index
  BY <1>3, <1>5
<1> QED BY <1>1, <1>3, <1>5, <1>6, <1>7 DEF Plays, plan, n

MessagesOfType(ordered, m, type) == {k \in 1..m : ordered[k].type = type}

\* The ticks of the messages in the file, and how many begin and end a note.
LEMMA FileOrder ==
  ASSUME NEW n \in Nat, NEW plan, Plays(plan, n), NEW ordered, InFileOrder(ordered, plan, n)
  PROVE  /\ IsOrdered(ordered, 2 * n)
         /\ \A i, j \in 1..(2 * n) : i < j => ordered[i].tick <= ordered[j].tick
         /\ Cardinality(MessagesOfType(ordered, 2 * n, "note_on")) = n
         /\ Cardinality(MessagesOfType(ordered, 2 * n, "note_off")) = n
<1> DEFINE T == OnMessages(plan)
           U == OffMessages(plan)
           S == 1..(2 * n)
           K == {k \in S : ordered[k].type = "note_on"}
           L == {k \in S : ordered[k].type = "note_off"}
           f == [k \in K |-> ordered[k]]
           g == [k \in L |-> ordered[k]]
<1>1. /\ ordered \in [S -> T \union U]
      /\ \A i, j \in S : i < j => TupleLess(MessageKey(ordered[i]), MessageKey(ordered[j]))
      /\ \A m \in T \union U : \E k \in S : ordered[k] = m
  BY DEF InFileOrder
<1>2. \A m \in T : m \in OrderedRecords /\ m.type = "note_on"
  <2>1. ASSUME NEW k \in DOMAIN plan PROVE OnMessage(plan[k]) \in OrderedRecords
    <3>1. /\ plan[k].onset \in Nat /\ plan[k].index \in Nat /\ plan[k].pitch \in MidiValues
          /\ plan[k].velocity \in MidiValues
      <4>1. k \in 1..n
        BY DEF Plays
      <4>2. /\ plan[k].onset \in Nat /\ plan[k].index \in 1..n /\ plan[k].pitch \in MidiValues
            /\ plan[k].velocity \in 1..127
        BY <4>1 DEF Plays
      <4>3. plan[k].velocity \in MidiValues
        BY <4>2, SilenceAndSound
      <4> QED BY ONLY <4>2, <4>3
    <3>2. "note_on" \in MessageTypes
      BY DEF MessageTypes
    <3> QED BY <3>1, <3>2 DEF OnMessage, OrderedRecords
  <2> QED BY <2>1 DEF OnMessages, OnMessage
<1>3. \A m \in U : m \in OrderedRecords /\ m.type = "note_off"
  <2>1. ASSUME NEW k \in DOMAIN plan PROVE OffMessage(plan[k]) \in OrderedRecords
    <3>1. /\ plan[k].offset \in Nat /\ plan[k].index \in Nat /\ plan[k].pitch \in MidiValues
          /\ 0 \in MidiValues
      <4>1. k \in 1..n
        BY DEF Plays
      <4>2. /\ plan[k].offset \in Nat /\ plan[k].index \in 1..n /\ plan[k].pitch \in MidiValues
        BY <4>1 DEF Plays
      <4> QED BY ONLY <4>2, SilenceAndSound
    <3>2. "note_off" \in MessageTypes
      BY DEF MessageTypes
    <3> QED BY <3>1, <3>2 DEF OffMessage, OrderedRecords
  <2> QED BY <2>1 DEF OffMessages, OffMessage
<1> HIDE DEF T, U
<1>4. \A k \in S : ordered[k] \in OrderedRecords
  BY <1>1, <1>2, <1>3
<1>5. IsOrdered(ordered, 2 * n)
  BY <1>1, <1>4 DEF IsOrdered
<1>6. \A i, j \in S : i < j => ordered[i].tick <= ordered[j].tick
  <2> SUFFICES ASSUME NEW i \in S, NEW j \in S, i < j PROVE ordered[i].tick <= ordered[j].tick
    OBVIOUS
  <2>1. TupleLess(MessageKey(ordered[i]), MessageKey(ordered[j]))
    BY <1>1
  <2>2. ordered[i].tick \in Int /\ ordered[j].tick \in Int
    BY <1>4 DEF OrderedRecords
  <2>3. Len(MessageKey(ordered[i])) = 3 /\ MessageKey(ordered[i])[1] = ordered[i].tick
        /\ MessageKey(ordered[j])[1] = ordered[j].tick
    BY DEF MessageKey
  <2>4. PICK p \in 1..3 : MessageKey(ordered[i])[p] < MessageKey(ordered[j])[p]
                          /\ \A q \in 1..(p - 1) : MessageKey(ordered[i])[q] = MessageKey(ordered[j])[q]
    BY <2>1, <2>3 DEF TupleLess
  <2>5. CASE p = 1
    BY <2>2, <2>3, <2>4, <2>5
  <2>6. CASE p # 1
    <3>1. 1 \in 1..(p - 1)
      BY <2>6
    <3> QED BY <2>2, <2>3, <2>4, <3>1
  <2> QED BY <2>5, <2>6
<1>7. \A i, j \in S : i # j => ordered[i] # ordered[j]
  <2> SUFFICES ASSUME NEW i \in S, NEW j \in S, i < j PROVE ordered[i] # ordered[j]
    OBVIOUS
  <2> DEFINE key == MessageKey(ordered[i])
             three == 3
  <2>1. key \in Tuples(three)
    BY <1>4 DEF MessageKey, Tuples, OrderedRecords, NoteOnPriority, NoteOffPriority
  <2>2. three \in Nat /\ TupleLess(key, MessageKey(ordered[j]))
    BY <1>1
  <2> HIDE DEF key, three
  <2>3. ~TupleLess(key, key)
    BY <2>1, <2>2, TupleOrder
  <2> QED BY <2>2, <2>3 DEF key
<1>8. IsFiniteSet(S)
  <2>1. 2 * n \in Nat
    OBVIOUS
  <2> DEFINE m == 2 * n
  <2> HIDE DEF m
  <2> QED BY <2>1, CardinalityOfFirst DEF m
<1>9. IsFiniteSet(K) /\ IsFiniteSet(L)
  BY <1>8, FS_Subset
<1> HIDE DEF S
<1>10. f \in [K -> T] /\ g \in [L -> U]
  BY <1>1, <1>2, <1>3
<1>11. (\A y \in T : \E x \in K : f[x] = y) /\ (\A y \in U : \E x \in L : g[x] = y)
  BY <1>1, <1>2, <1>3
<1>12. (\A x, y \in K : x # y => f[x] # f[y]) /\ (\A x, y \in L : x # y => g[x] # g[y])
  BY <1>7
<1> HIDE DEF K, L, f, g
<1>13. Cardinality(T) = Cardinality(K)
  BY <1>9, <1>10, <1>11, <1>12, SameCount
<1>14. Cardinality(U) = Cardinality(L)
  BY <1>9, <1>10, <1>11, <1>12, SameCount
<1>15. Cardinality(T) = n /\ Cardinality(U) = n
  BY MessagesCounted DEF T, U
<1> QED BY <1>5, <1>6, <1>13, <1>14, <1>15 DEF S, K, L, MessagesOfType

LEMMA FileAccepted ==
  ASSUME NEW n \in Nat, NEW plan, Plays(plan, n), NEW bpm
  PROVE  EncodedContentAccepted(EncodeMidi(plan, bpm), plan, bpm)
<1> DEFINE ordered == OrderedMessages(plan)
           file == EncodeMidi(plan, bpm)
           m == 2 * n
           parsed == ParsedMessages(file)
<1>1. m \in Nat /\ InFileOrder(ordered, plan, n)
  BY MessagesOrdered
<1>2. ordered \in [1..m -> OnMessages(plan) \union OffMessages(plan)]
  BY <1>1 DEF InFileOrder
<1>3. DOMAIN ordered = 1..m /\ Len(ordered) = m
  BY <1>1, <1>2
<1>4. /\ IsOrdered(ordered, m)
      /\ \A i, j \in 1..m : i < j => ordered[i].tick <= ordered[j].tick
      /\ Cardinality(MessagesOfType(ordered, m, "note_on")) = n
      /\ Cardinality(MessagesOfType(ordered, m, "note_off")) = n
  <2> HIDE DEF ordered
  <2>1. InFileOrder(ordered, plan, n)
    BY <1>1
  <2> QED BY <2>1, FileOrder
<1>5. file.set_tempo = TempoMicrosecondsPerBeat(bpm) /\ file.track = DeltaMessages(plan)
  BY DEF EncodeMidi
<1>6. DeltaMessages(plan) = Deltas(ordered, m)
  BY <1>3 DEF DeltaMessages, Deltas
<1> HIDE DEF ordered, m
<1>7. DOMAIN parsed = 1..m /\ Len(parsed) = m /\ \A i \in 1..m : parsed[i] = AsParsed(ordered[i])
  <2>1. parsed = FoldLeft(ParseMessage, <<>>, Deltas(ordered, m))
    BY <1>5, <1>6 DEF ParsedMessages
  <2> HIDE DEF parsed
  <2> QED BY <1>1, <1>4, <2>1, ReadBack
<1> HIDE DEF parsed, file
<1>8. \A i \in 1..m : /\ parsed[i].tick = ordered[i].tick /\ parsed[i].type = ordered[i].type
                      /\ parsed[i].note = ordered[i].note /\ parsed[i].velocity = ordered[i].velocity
  BY <1>7 DEF AsParsed
<1>9. ASSUME NEW i \in DOMAIN file.track
      PROVE  file.track[i].time >= 0 /\ {file.track[i].note, file.track[i].velocity} \subseteq MidiValues
  <2> DEFINE time == ordered[i].tick - (IF i = 1 THEN 0 ELSE ordered[i - 1].tick)
  <2>1. file.track = Deltas(ordered, m)
    BY <1>5, <1>6
  <2>2. i \in 1..m
    BY <2>1 DEF Deltas
  <2>3. file.track[i] = [time |-> time, type |-> ordered[i].type, note |-> ordered[i].note,
                         velocity |-> ordered[i].velocity]
    BY <2>1, <2>2 DEF Deltas
  <2>4. \A k \in 1..m : ordered[k] \in OrderedRecords
    BY <1>4 DEF IsOrdered
  <2>5. time >= 0
    <3>1. CASE i = 1
      <4>1. ordered[i].tick \in Nat
        BY <2>2, <2>4 DEF OrderedRecords
      <4> QED BY <3>1, <4>1
    <3>2. CASE i # 1
      <4>1. i - 1 \in 1..m /\ i - 1 < i
        BY <1>1, <2>2, <3>2
      <4>2. ordered[i].tick \in Nat /\ ordered[i - 1].tick \in Nat
        BY <2>2, <2>4, <4>1 DEF OrderedRecords
      <4>3. ordered[i - 1].tick <= ordered[i].tick
        BY <1>4, <2>2, <4>1
      <4> QED BY <3>2, <4>2, <4>3
    <3> QED BY <3>1, <3>2
  <2>6. ordered[i].note \in MidiValues /\ ordered[i].velocity \in MidiValues
    BY <2>2, <2>4 DEF OrderedRecords
  <2> HIDE DEF time
  <2> QED BY ONLY <2>3, <2>5, <2>6
<1>10. \A type \in MessageTypes : {i \in DOMAIN parsed : parsed[i].type = type}
                                    = MessagesOfType(ordered, m, type)
  BY <1>7, <1>8 DEF MessagesOfType
<1>11. "note_on" \in MessageTypes /\ "note_off" \in MessageTypes /\ Len(plan) = n
  BY DEF MessageTypes, Plays
<1>12. /\ Cardinality({i \in DOMAIN parsed : parsed[i].type = "note_on"}) = Len(plan)
       /\ Cardinality({i \in DOMAIN parsed : parsed[i].type = "note_off"}) = Len(plan)
  BY <1>4, <1>10, <1>11
<1> QED BY <1>3, <1>5, <1>7, <1>8, <1>9, <1>12 DEF EncodedContentAccepted, ordered, file, parsed

\* The MIDI stage never refuses its own result.
LEMMA MidiExported ==
  ASSUME NEW events, Played(events), NEW bpm, MidiSettingsAccepted(bpm)
  PROVE  MidiAccepted(events, ExportMidi(events, bpm), bpm)
<1> DEFINE n == Len(events)
           plan == MidiPlan(events, bpm)
           result == ExportMidi(events, bpm)
           adjusted == {i \in DOMAIN events : SecondsToMidiTick(events[i].source.event.offset, bpm) #
                                                PlanNote(events, i, bpm).offset}
           silent == {i \in DOMAIN events : events[i].source.event.velocity = 0}
<1>1. Plays(plan, n) /\ n \in Nat /\ DOMAIN events = 1..n
  BY PlanPlays, PlayedNumbers
<1>2. PICK order : IsPlanOrder(order, plan, events, bpm)
  BY PlanOrder
<1>3. result = [plan |-> plan, file |-> EncodeMidi(plan, bpm),
                report |-> [input |-> n, exported |-> Len(plan), minimum |-> Cardinality(adjusted),
                            silent |-> Cardinality(silent),
                            messages |-> MidiBaseMessageCount + 2 * Len(plan)]]
  BY DEF ExportMidi
<1>4. Cardinality(adjusted) \in 0..n /\ Cardinality(silent) \in 0..n
  <2>1. adjusted \in SUBSET (1..n) /\ silent \in SUBSET (1..n)
    BY <1>1
  <2>2. IsFiniteSet(1..n) /\ Cardinality(1..n) = n
    BY <1>1, CardinalityOfFirst
  <2> HIDE DEF adjusted, silent, n
  <2>3. Cardinality(adjusted) \in Nat /\ Cardinality(silent) \in Nat
        /\ Cardinality(adjusted) <= n /\ Cardinality(silent) <= n
    <3>1. /\ IsFiniteSet(adjusted) /\ Cardinality(adjusted) <= Cardinality(1..n)
          /\ IsFiniteSet(silent) /\ Cardinality(silent) <= Cardinality(1..n)
      BY ONLY <2>1, <2>2, FS_Subset
    <3>2. Cardinality(adjusted) \in Nat /\ Cardinality(silent) \in Nat
      BY ONLY <3>1, FS_CardinalityType
    <3> QED BY ONLY <2>2, <3>1, <3>2
  <2> QED BY <1>1, <2>3
<1> HIDE DEF adjusted, silent, plan
<1>5. Len(plan) = n /\ DOMAIN plan = 1..n
  BY <1>1 DEF Plays
<1>6. /\ result.plan = plan /\ result.file = EncodeMidi(plan, bpm)
      /\ result.report = [input |-> n, exported |-> Len(plan), minimum |-> Cardinality(adjusted),
                          silent |-> Cardinality(silent),
                          messages |-> MidiBaseMessageCount + 2 * Len(plan)]
  BY ONLY <1>3
<1> HIDE DEF result
<1>7. MidiReportAccepted(result.report) /\ result.report.exported = n
  <2> DEFINE report == result.report
  <2>1. report.input = n /\ report.exported = n /\ report.minimum = Cardinality(adjusted)
        /\ report.silent = Cardinality(silent) /\ report.messages = MidiBaseMessageCount + 2 * n
    BY ONLY <1>5, <1>6
  <2> HIDE DEF report, n
  <2> QED BY <1>1, <1>4, <2>1 DEF MidiReportAccepted, report
<1>8. IsInjective([i \in DOMAIN plan |-> plan[i].index])
  BY <1>1, <1>5 DEF Plays, IsInjective
<1>9. ASSUME NEW k \in DOMAIN plan
      PROVE  plan[k].index \in DOMAIN events /\ MidiNoteAccepted(plan[k], events[plan[k].index])
  <2> DEFINE i == order[k]
             note == PlanNote(events, i, bpm)
  <2>1. i \in 1..n /\ plan[k] = note
    BY <1>2, <1>5, <1>9 DEF IsPlanOrder
  <2> HIDE DEF i
  <2>2. /\ note.index = i /\ note.pitch = HeardAt(events, i).pitch
        /\ note.velocity \in 1..127 /\ note.onset \in Nat /\ note.offset \in Nat
        /\ note.onset < note.offset
    <3>1. i \in 1..Len(events)
      BY <2>1
    <3> QED BY ONLY Played(events), MidiSettingsAccepted(bpm), <3>1, PlannedNote
  <2> HIDE DEF note
  <2>3. note.onset >= 0 /\ note.offset > note.onset
    BY ONLY <2>2
  <2> QED BY <1>1, <2>1, <2>2, <2>3 DEF MidiNoteAccepted, HeardAt
<1>10. EncodedContentAccepted(EncodeMidi(plan, bpm), plan, bpm)
  BY <1>1, FileAccepted
<1> QED BY <1>5, <1>6, <1>7, <1>8, <1>9, <1>10 DEF MidiAccepted, n, result

-----------------------------------------------------------------------------
(* The contracts of the stages that copy what they are given.                       *)

LEMMA ConfidenceMarked ==
  ASSUME NEW notes \in Batches
  PROVE  ConfidenceAccepted(notes, MarkLowConfidence(notes))
<1> DEFINE n == Len(notes)
           annotated == [i \in DOMAIN notes |->
                           [event |-> notes[i], is_low_confidence |-> IsLowConfidence(notes[i])]]
           low == Cardinality({i \in DOMAIN annotated : annotated[i].is_low_confidence})
           marked == MarkLowConfidence(notes)
<1>1. n \in Nat /\ DOMAIN notes = 1..n
  BY DEF Batches
<1>2. marked = [events |-> annotated, report |-> [input |-> n, low |-> low, regular |-> n - low]]
  BY DEF MarkLowConfidence
<1>3. DOMAIN annotated = 1..n /\ Len(annotated) = n
      /\ \A i \in DOMAIN notes : annotated[i].event = notes[i]
  BY <1>1
<1>4. low \in Nat
  <2> DEFINE S == {i \in DOMAIN annotated : annotated[i].is_low_confidence}
  <2>1. S \in SUBSET (1..n)
    BY <1>3
  <2>2. IsFiniteSet(1..n)
    BY <1>1, CardinalityOfFirst
  <2> HIDE DEF S
  <2>3. IsFiniteSet(S)
    BY <2>1, <2>2, FS_Subset
  <2>4. Cardinality(S) \in Nat
    BY <2>3, FS_CardinalityType
  <2> QED BY <2>4 DEF S
<1>5. low = Cardinality({i \in DOMAIN notes : annotated[i].is_low_confidence})
  BY <1>1, <1>3
<1> HIDE DEF annotated, low, marked
<1>6. marked.events = annotated /\ marked.report.input = n /\ marked.report.low = low
      /\ marked.report.regular = n - low
  BY <1>2
<1>7. ConfidenceReportAccepted(marked.report)
  BY <1>1, <1>4, <1>6 DEF ConfidenceReportAccepted
<1> QED BY <1>3, <1>5, <1>6, <1>7 DEF ConfidenceAccepted, marked

LEMMA WrittenTransposed ==
  ASSUME Marked(local), setup \in Setups, WrittenInRange(local.confidence.events, setup.saxophone)
  PROVE  WrittenAccepted(local.confidence.events, Transpose(local.confidence.events, setup.saxophone))
<1> DEFINE annotated == local.confidence.events
           written == Transpose(annotated, setup.saxophone)
<1>1. setup.saxophone \in SaxophoneTypes
  BY PipelineAssumption DEF SetupAccepted
<1>2. \E n \in Nat : DOMAIN annotated = 1..n
  <2>1. local.processed.notes \in Batches
    BY CleanedKeepsBest DEF Marked
  <2>2. DOMAIN local.processed.notes = 1..Len(local.processed.notes) /\ Len(local.processed.notes) \in Nat
    BY <2>1 DEF Batches
  <2>3. DOMAIN annotated = DOMAIN local.processed.notes
    <3> DEFINE marked == local.confidence
               notes == local.processed.notes
    <3>1. marked = MarkLowConfidence(notes)
      BY DEF Marked
    <3> HIDE DEF marked, notes
    <3>2. marked.events = [i \in DOMAIN notes |->
                            [event |-> notes[i], is_low_confidence |-> IsLowConfidence(notes[i])]]
      BY ONLY <3>1 DEF MarkLowConfidence
    <3>3. DOMAIN marked.events = DOMAIN notes
      BY ONLY <3>2
    <3> QED BY ONLY <3>3 DEF marked, notes, annotated
  <2> QED BY <2>2, <2>3
<1>3. PICK n \in Nat : DOMAIN annotated = 1..n
  BY <1>2
<1>4. written.saxophone = setup.saxophone
      /\ written.events = [i \in DOMAIN annotated |->
           [source |-> annotated[i],
            written |-> TransposeConcertPitch(annotated[i].event.pitch, setup.saxophone)]]
  BY DEF Transpose
<1>7. \A i \in DOMAIN annotated :
        TransposeConcertPitch(annotated[i].event.pitch, setup.saxophone) \in MidiValues
  BY DEF WrittenInRange
<1> HIDE DEF annotated, written
<1>5. Len(written.events) = n /\ Len(annotated) = n
  BY <1>3, <1>4
<1>6. \A i \in DOMAIN annotated :
        /\ written.events[i].source = annotated[i]
        /\ written.events[i].written = TransposeConcertPitch(annotated[i].event.pitch, setup.saxophone)
  BY <1>4
<1> QED BY <1>1, <1>4, <1>5, <1>6, <1>7 DEF WrittenAccepted, annotated, written

LEMMA BundleBuilt ==
  ASSUME NEW midi, NEW document, NEW rendered, IsRendering(rendered)
  PROVE  BundleAccepted(RevisionZeroBundle(midi, document, rendered))
<1> DEFINE Artifact(id, content, order) == [id |-> id, content |-> content, order |-> order]
           first == Artifact(<<"midi">>, midi, 0)
           second == Artifact(<<"musicxml">>, document, 1)
           Page(p, count) == Artifact(<<"svg-page", p>>, [page_number |-> p, page_count |-> count], p + 1)
<1>1. PICK count \in Nat :
        NumberedPages(count) = IF rendered = {} THEN <<>>
                               ELSE (CHOOSE result \in rendered : TRUE).pages
  BY PagesOfRendering
<1> DEFINE pages == NumberedPages(count)
           svg == [p \in 1..count |-> Page(p, count)]
           bundled == <<first, second>> \o svg
<1>2. RevisionZeroBundle(midi, document, rendered) = bundled
  <2>1. svg = [p \in DOMAIN pages |->
                 Artifact(<<"svg-page", pages[p].page_number>>, pages[p], p + 1)]
    BY DEF NumberedPages
  <2> QED BY <1>1, <2>1 DEF RevisionZeroBundle
<1>3. svg \in [1..count -> {Page(p, count) : p \in 1..count}]
  OBVIOUS
<1>4. /\ first.id = <<"midi">> /\ second.id = <<"musicxml">> /\ first.order = 0 /\ second.order = 1
      /\ \A p \in 1..count : svg[p].id = <<"svg-page", p>> /\ svg[p].order = p + 1
  OBVIOUS
<1> HIDE DEF first, second, svg
<1>5. /\ DOMAIN bundled = 1..(2 + count)
      /\ bundled[1] = first /\ bundled[2] = second
      /\ \A i \in 3..(2 + count) : bundled[i] = svg[i - 2]
  BY <1>3, TwoThenMore
<1> HIDE DEF bundled
<1>6. \A i \in 3..(2 + count) : bundled[i].id = <<"svg-page", i - 2>> /\ bundled[i].order = i - 1
  <2> TAKE i \in 3..(2 + count)
  <2>1. i - 2 \in 1..count /\ (i - 2) + 1 = i - 1
    OBVIOUS
  <2> QED BY <1>4, <1>5, <2>1
<1>7. bundled[1].id = <<"midi">> /\ bundled[2].id = <<"musicxml">>
      /\ bundled[1].order = 0 /\ bundled[2].order = 1
  BY <1>4, <1>5
<1>8. \A i \in DOMAIN bundled : i = 1 \/ i = 2 \/ i \in 3..(2 + count)
  BY <1>5
<1>9. \A i \in DOMAIN bundled : bundled[i].order = i - 1
  BY <1>6, <1>7, <1>8
<1>10. \A i, j \in 3..(2 + count) : bundled[i].id = bundled[j].id => i = j
  <2>1. \A i, j \in Int : <<"svg-page", i - 2>> = <<"svg-page", j - 2>> => i = j
    <3>1. \A x, y : <<"svg-page", x>> = <<"svg-page", y>> => x = y
      OBVIOUS
    <3>2. \A i, j \in Int : i - 2 = j - 2 => i = j
      OBVIOUS
    <3> QED BY <3>1, <3>2
  <2> QED BY <1>6, <2>1
<1>11. \A i \in 3..(2 + count) : bundled[i].id # <<"midi">> /\ bundled[i].id # <<"musicxml">>
  <2>1. \A x : <<"svg-page", x>>[1] = "svg-page"
    OBVIOUS
  <2>2. <<"midi">>[1] = "midi" /\ <<"musicxml">>[1] = "musicxml"
    OBVIOUS
  <2> QED BY <1>6, <2>1, <2>2
<1>12. <<"midi">> # <<"musicxml">>
  OBVIOUS
<1>13. \A i, j \in DOMAIN bundled : bundled[i].id = bundled[j].id => i = j
  BY <1>7, <1>8, <1>10, <1>11, <1>12
<1>14. IsInjective([i \in DOMAIN bundled |-> bundled[i].id])
  BY <1>13 DEF IsInjective
<1>15. bundled # <<>>
  <2>1. 1 \in DOMAIN bundled
    BY <1>5
  <2> QED BY <2>1
<1> QED BY <1>2, <1>9, <1>14, <1>15 DEF BundleAccepted

-----------------------------------------------------------------------------
(* The measures put together again.                                                 *)

\* Picking a run of positions takes the elements between its ends.
LEMMA RunPicked ==
  ASSUME NEW V, NEW s \in Seq(V), NEW a \in Nat, NEW b \in Nat, a <= b, b <= Len(s),
         NEW K, K = (a + 1)..b
  PROVE  /\ Pick(s, K) \in Seq(V) /\ Len(Pick(s, K)) = b - a
         /\ \A k \in 1..(b - a) : Pick(s, K)[k] = s[a + k]
<1> DEFINE n == b - a
           m == Cardinality(K)
           f == [k \in 1..n |-> a + k]
           g == Ascending(K)
<1>1. n \in Nat /\ K \in SUBSET (1..Len(s))
  OBVIOUS
<1>2. /\ m \in 0..Len(s) /\ Pick(s, K) \in Seq(V) /\ Len(Pick(s, K)) = m
      /\ g \in [1..m -> K]
      /\ \A i, j \in 1..m : i < j => g[i] < g[j]
      /\ \A x \in K : \E k \in 1..m : g[k] = x
      /\ \A k \in 1..m : Pick(s, K)[k] = s[g[k]]
  <2> HIDE DEF n
  <2>1. s \in Seq(V) /\ K \in SUBSET (1..Len(s))
    BY <1>1
  <2> QED BY ONLY <2>1, Picked
<1> HIDE DEF m, g
<1>3. m \in Nat /\ g \in [1..m -> Nat]
  <2>1. K \in SUBSET Nat
    OBVIOUS
  <2> HIDE DEF n
  <2> QED BY <1>2, <2>1
<1>4. Rising(g, m)
  BY <1>2, <1>3 DEF Rising
<1>5. Rising(f, n)
  BY <1>1 DEF Rising
<1>6. \A k \in 1..n : f[k] = a + k /\ f[k] \in K
  BY <1>1
<1>7. \A x \in K : x - a \in 1..n /\ f[x - a] = x
  BY <1>1
<1> HIDE DEF f, n
<1>8. Within(g, m, f, n)
  BY <1>2, <1>7 DEF Within
<1>9. Within(f, n, g, m)
  BY <1>2, <1>6 DEF Within
<1>10. m = n /\ \A k \in 1..m : g[k] = f[k]
  BY ONLY <1>1, <1>3, <1>4, <1>5, <1>8, <1>9, OneRising
<1>11. \A k \in 1..n : g[k] = a + k
  BY ONLY <1>6, <1>10
<1>12. /\ Pick(s, K) \in Seq(V) /\ Len(Pick(s, K)) = n
       /\ \A k \in 1..n : Pick(s, K)[k] = s[a + k]
  BY ONLY <1>2, <1>10, <1>11
<1> QED BY ONLY <1>12 DEF n

\* Lists that hold the elements of all between their cuts are all, cut.
AreCuts(cut, n, length) ==
  /\ cut \in [0..n -> Nat] /\ cut[0] = 0 /\ cut[n] = length
  /\ \A m \in 1..n : cut[m - 1] <= cut[m] /\ cut[m] <= length

AreGroups(lists, cut, n, all) ==
  \A m \in 1..n : /\ Len(lists[m]) = cut[m] - cut[m - 1]
                  /\ \A k \in 1..(cut[m] - cut[m - 1]) : lists[m][k] = all[cut[m - 1] + k]

LEMMA Regrouped ==
  ASSUME NEW V, NEW all \in Seq(V), NEW n \in Nat \ {0}, NEW cut, AreCuts(cut, n, Len(all)),
         NEW lists, lists \in [1..n -> Lists(V)], Len(lists) = n, AreGroups(lists, cut, n, all)
  PROVE  FlattenSeq(lists) = all
<1>1. PICK row \in [0..n -> Lists(V)] : IsJoining(row, lists, n) /\ FlattenSeq(lists) = row[n]
  BY Flattened
<1>2. row[0] = <<>> /\ \A k \in 1..n : row[k] = row[k - 1] \o lists[k]
  BY <1>1 DEF IsJoining
<1>3. /\ cut \in [0..n -> Nat] /\ cut[0] = 0 /\ cut[n] = Len(all)
      /\ \A m \in 1..n : cut[m - 1] <= cut[m] /\ cut[m] <= Len(all)
  BY DEF AreCuts
<1> DEFINE Good(k) == Len(row[k]) = cut[k] /\ \A i \in 1..cut[k] : row[k][i] = all[i]
           G == {k \in 0..n : Good(k)}
<1>4. 0 \in G
  BY <1>2, <1>3
<1>5. ASSUME NEW k \in 1..n, k - 1 \in G PROVE k \in G
  <2> DEFINE s == row[k - 1]
             t == lists[k]
             p == cut[k - 1]
             q == cut[k]
  <2>1. k \in 0..n /\ k - 1 \in 0..n
    OBVIOUS
  <2>2. p \in Nat /\ q \in Nat /\ p <= q
    BY <1>3, <2>1
  <2>3. s \in Lists(V) /\ t \in Lists(V) /\ row[k] = s \o t
    BY <1>1, <1>2, <2>1
  <2>4. Len(s) = p /\ \A i \in 1..p : s[i] = all[i]
    BY <1>5
  <2>5. Len(t) = q - p /\ \A i \in 1..(q - p) : t[i] = all[p + i]
    BY DEF AreGroups
  <2> HIDE DEF s, t, p, q
  <2>6. /\ Len(s \o t) = p + (q - p)
        /\ \A i \in 1..(p + (q - p)) : (s \o t)[i] = IF i <= p THEN s[i] ELSE t[i - p]
    <3>1. s \in Seq(V) /\ t \in Seq(V)
      BY <2>3 DEF Lists
    <3>2. /\ Len(s \o t) = Len(s) + Len(t)
          /\ \A i \in 1..(Len(s) + Len(t)) : (s \o t)[i] = IF i <= Len(s) THEN s[i] ELSE t[i - Len(s)]
      BY ONLY <3>1, ConcatProperties, Zenon
    <3> QED BY ONLY <2>4, <2>5, <3>2
  <2>7. \A i \in 1..q : (s \o t)[i] = all[i]
    <3> TAKE i \in 1..q
    <3>1. p + (q - p) = q
      BY <2>2
    <3>2. CASE i <= p
      <4>1. i \in 1..p
        BY <2>2, <3>2
      <4> QED BY <2>4, <2>6, <3>1, <3>2, <4>1
    <3>3. CASE ~(i <= p)
      <4>1. i - p \in 1..(q - p) /\ p + (i - p) = i
        BY <2>2, <3>3
      <4>2. (s \o t)[i] = t[i - p]
        BY <2>6, <3>1, <3>3
      <4> QED BY <2>5, <4>1, <4>2
    <3> QED BY <3>2, <3>3
  <2>8. Len(s \o t) = q
    BY <2>2, <2>6
  <2> QED BY <2>1, <2>3, <2>7, <2>8 DEF q
<1> HIDE DEF G
<1>6. \A k \in 0..n : k \in G
  BY <1>4, <1>5, Induction
<1>7. Len(row[n]) = Len(all) /\ \A i \in 1..Len(all) : row[n][i] = all[i]
  <2>1. n \in G
    BY <1>6
  <2> QED BY <1>3, <2>1 DEF G
<1>8. row[n] \in Seq(V)
  BY <1>1 DEF Lists
<1>9. row[n] = all
  <2> DEFINE r == row[n]
  <2> HIDE DEF r
  <2>1. r \in Seq(V) /\ Len(r) = Len(all) /\ \A i \in 1..Len(all) : r[i] = all[i]
    BY <1>7, <1>8 DEF r
  <2>2. r = [i \in 1..Len(r) |-> r[i]] /\ all = [i \in 1..Len(all) |-> all[i]]
    BY ONLY <2>1, all \in Seq(V)
  <2> QED BY <2>1, <2>2 DEF r
<1> QED BY <1>1, <1>9

\* Where a list is cut whose elements are in the order of their measures.
InOrderOfMeasures(all, n) ==
  /\ \A k \in 1..Len(all) : all[k].measure \in 1..n
  /\ \A i, j \in 1..Len(all) : i < j => all[i].measure <= all[j].measure

\* A piece is before a cut exactly when it is in a measure before it.
IsCutByMeasure(cut, all, n) ==
  \A m \in 0..n : \A i \in 1..Len(all) : i <= cut[m] <=> all[i].measure <= m

\* Between two cuts is one measure.
IsMeasureCut(cut, all, n) ==
  /\ AreCuts(cut, n, Len(all)) /\ IsCutByMeasure(cut, all, n)
  /\ \A m \in 1..n : {i \in DOMAIN all : all[i].measure = m} = (cut[m - 1] + 1)..cut[m]

LEMMA MeasureCuts ==
  ASSUME NEW V, NEW all \in Seq(V), NEW n \in Nat \ {0}, InOrderOfMeasures(all, n)
  PROVE  \E cut : IsMeasureCut(cut, all, n)
<1> DEFINE l == Len(all)
           measure == [k \in 1..l |-> all[k].measure]
           First(m) == {k \in 0..l : k = 0 \/ measure[k] <= m}
           cut == [m \in 0..n |-> Max(First(m))]
<1>1. l \in Nat /\ DOMAIN all = 1..l
  OBVIOUS
<1>2. /\ \A k \in 1..l : measure[k] \in 1..n /\ measure[k] = all[k].measure
      /\ \A i, j \in 1..l : i < j => measure[i] <= measure[j]
  BY DEF InOrderOfMeasures
<1> HIDE DEF l, measure
<1>3. ASSUME NEW m \in 0..n
      PROVE  /\ cut[m] \in 0..l
             /\ \A i \in 1..l : i <= cut[m] <=> measure[i] <= m
  <2> DEFINE F == First(m)
  <2>1. F \in SUBSET Nat /\ 0 \in F /\ \A k \in F : k <= l
    BY <1>1
  <2>2. Max(F) \in F /\ \A k \in F : k <= Max(F)
    <3> HIDE DEF F
    <3>1. F # {}
      BY <2>1
    <3> QED BY <1>1, <2>1, <3>1, GreatestNumber
  <2>3. cut[m] = Max(F)
    OBVIOUS
  <2> HIDE DEF cut
  <2>4. cut[m] \in 0..l /\ (cut[m] = 0 \/ measure[cut[m]] <= m)
    BY <2>2, <2>3
  <2>5. ASSUME NEW i \in 1..l PROVE i <= cut[m] <=> measure[i] <= m
    <3>1. ASSUME measure[i] <= m PROVE i <= cut[m]
      <4>1. i \in F
        BY <3>1
      <4> QED BY <2>2, <2>3, <4>1
    <3>2. ASSUME i <= cut[m] PROVE measure[i] <= m
      <4>1. cut[m] \in 1..l /\ measure[cut[m]] <= m
        BY <1>1, <2>4, <3>2
      <4>2. measure[i] <= measure[cut[m]]
        <5>1. i = cut[m] \/ i < cut[m]
          BY <3>2, <4>1
        <5>2. measure[i] \in Int
          BY <1>2
        <5> QED BY <1>2, <4>1, <5>1, <5>2
      <4>3. measure[i] \in Int /\ measure[cut[m]] \in Int
        BY <1>2, <4>1
      <4> QED BY <4>1, <4>2, <4>3
    <3> QED BY <3>1, <3>2
  <2> QED BY <2>4, <2>5
<1>4. cut \in [0..n -> Nat]
  <2> DEFINE c == cut
  <2>1. c = [m \in 0..n |-> c[m]]
    OBVIOUS
  <2>2. \A m \in 0..n : c[m] \in Nat
    BY <1>1, <1>3
  <2> HIDE DEF c
  <2>3. c \in [0..n -> Nat]
    BY <2>1, <2>2
  <2> QED BY <2>3 DEF c
<1> HIDE DEF cut
<1>5. cut[0] = 0
  <2>1. 0 \in 0..n
    OBVIOUS
  <2>2. cut[0] \in 0..l /\ \A i \in 1..l : i <= cut[0] <=> measure[i] <= 0
    BY <1>3, <2>1
  <2>3. CASE cut[0] # 0
    <3>1. cut[0] \in 1..l
      BY <1>1, <2>2, <2>3
    <3>2. measure[cut[0]] <= 0 /\ measure[cut[0]] \in 1..n
      BY <1>2, <2>2, <3>1
    <3> QED BY <3>2
  <2> QED BY <2>3
<1>6. cut[n] = l
  <2>1. n \in 0..n
    OBVIOUS
  <2>2. cut[n] \in 0..l /\ \A i \in 1..l : i <= cut[n] <=> measure[i] <= n
    BY <1>3, <2>1
  <2>3. CASE l = 0
    BY <2>2, <2>3
  <2>4. CASE l # 0
    <3>1. l \in 1..l /\ measure[l] \in 1..n
      BY <1>1, <1>2, <2>4
    <3>2. l <= cut[n]
      BY <2>2, <3>1
    <3> QED BY <1>1, <2>2, <3>2
  <2> QED BY <2>3, <2>4
<1>7. ASSUME NEW m \in 1..n
      PROVE  /\ cut[m - 1] <= cut[m] /\ cut[m] <= l
             /\ {i \in DOMAIN all : all[i].measure = m} = (cut[m - 1] + 1)..cut[m]
  <2>1. m - 1 \in 0..n /\ m \in 0..n
    OBVIOUS
  <2> DEFINE a == cut[m - 1]
             b == cut[m]
  <2>2. /\ a \in 0..l /\ \A i \in 1..l : i <= a <=> measure[i] <= m - 1
        /\ b \in 0..l /\ \A i \in 1..l : i <= b <=> measure[i] <= m
    BY <1>3, <2>1
  <2> HIDE DEF a, b
  <2>3. \A i \in 1..l : all[i].measure = m <=> a < i /\ i <= b
    <3> TAKE i \in 1..l
    <3>1. measure[i] \in Int /\ all[i].measure = measure[i]
      BY <1>2
    <3>2. measure[i] = m <=> measure[i] <= m /\ ~(measure[i] <= m - 1)
      BY <3>1
    <3> QED BY <2>2, <3>1, <3>2
  <2>4. a <= b
    <3>1. CASE a = 0
      BY <2>2, <3>1
    <3>2. CASE a # 0
      <4>1. a \in 1..l
        BY <1>1, <2>2, <3>2
      <4>2. measure[a] <= m - 1 /\ measure[a] \in Int
        BY <1>2, <2>2, <4>1
      <4> QED BY <2>2, <4>1, <4>2
    <3> QED BY <3>1, <3>2
  <2>5. {i \in DOMAIN all : all[i].measure = m} = (a + 1)..b
    BY <1>1, <2>2, <2>3
  <2> QED BY <1>1, <2>2, <2>4, <2>5 DEF a, b
<1>8. \A m \in 0..n : \A i \in 1..l : i <= cut[m] <=> all[i].measure <= m
  BY <1>2, <1>3
<1>9. IsCutByMeasure(cut, all, n)
  BY <1>8 DEF IsCutByMeasure, l
<1>10. AreCuts(cut, n, Len(all))
  BY <1>4, <1>5, <1>6, <1>7 DEF AreCuts, l
<1> QED BY <1>7, <1>9, <1>10 DEF IsMeasureCut

-----------------------------------------------------------------------------
(* The pieces of a score, and its measures.                                         *)

LEMMA RisingSteps ==
  ASSUME NEW n \in Nat, NEW f \in [1..n -> Nat], \A k \in 1..n : k + 1 \in 1..n => f[k] < f[k + 1]
  PROVE  Rising(f, n)
<1> DEFINE Good(j) == \A i \in 1..n : i < j => f[i] < f[j]
           G == {j \in 0..n : j \in 1..n => Good(j)}
<1>1. 0 \in G
  OBVIOUS
<1>2. ASSUME NEW j \in 1..n, j - 1 \in G PROVE j \in G
  <2>1. ASSUME NEW i \in 1..n, i < j PROVE f[i] < f[j]
    <3> DEFINE h == j - 1
    <3>1. h \in 1..n /\ h + 1 = j /\ (i = h \/ i < h)
      BY <2>1
    <3>2. h \in G
      BY <1>2
    <3> HIDE DEF h
    <3>3. Good(h)
      BY <3>1, <3>2
    <3>4. f[h] < f[j] /\ f[i] \in Nat /\ f[h] \in Nat /\ f[j] \in Nat
      BY <3>1
    <3> QED BY <3>1, <3>3, <3>4
  <2> QED BY <2>1
<1> HIDE DEF G
<1>3. \A j \in 0..n : j \in G
  BY <1>1, <1>2, Induction
<1> QED BY <1>3 DEF G, Rising

AllPieces(timeline, capacity) ==
  FlattenSeq([i \in DOMAIN timeline |-> Segments(timeline[i], i, capacity)])

ItemsThatRest(timeline, rest) == {i \in DOMAIN timeline : timeline[i].rest = rest}

PiecesThatRest(all, rest) == {i \in DOMAIN all : all[i].item.rest = rest}

SplitItems(timeline, capacity, rest) ==
  {i \in DOMAIN timeline : timeline[i].rest = rest /\ Len(Segments(timeline[i], i, capacity)) > 1}

FinalUsed(timeline, capacity) ==
  IF timeline = <<>> THEN 0
  ELSE Last(timeline).offset - (MeasureCount(timeline, capacity) - 1) * capacity

Capacity(subdivisions, beats) == beats * subdivisions

PlannedMeasures(timeline, capacity) ==
  [m \in 1..MeasureCount(timeline, capacity) |-> InBar(AllPieces(timeline, capacity), m)]

PlannedReport(timeline, capacity) ==
  LET all == AllPieces(timeline, capacity)
  IN [notes |-> Cardinality(ItemsThatRest(timeline, FALSE)),
      rests |-> Cardinality(ItemsThatRest(timeline, TRUE)),
      measures |-> MeasureCount(timeline, capacity),
      note_segments |-> Cardinality(PiecesThatRest(all, FALSE)),
      rest_segments |-> Cardinality(PiecesThatRest(all, TRUE)),
      split_notes |-> Cardinality(SplitItems(timeline, capacity, FALSE)),
      split_rests |-> Cardinality(SplitItems(timeline, capacity, TRUE)),
      final_used |-> FinalUsed(timeline, capacity), capacity |-> capacity]

\* What PlanScore computes, by name.
LEMMA PlanComputed ==
  ASSUME NEW timeline, NEW subdivisions, NEW beats, NEW capacity,
         capacity = Capacity(subdivisions, beats)
  PROVE  /\ PlanScore(timeline, subdivisions, beats).measures = PlannedMeasures(timeline, capacity)
         /\ PlanScore(timeline, subdivisions, beats).report = PlannedReport(timeline, capacity)
<1> DEFINE segments == [i \in DOMAIN timeline |-> Segments(timeline[i], i, capacity)]
           all == FlattenSeq(segments)
           n == IF timeline = <<>> THEN 1 ELSE ((Last(timeline).offset - 1) \div capacity) + 1
           measures == [m \in 1..n |-> InBar(all, m)]
           report ==
                 [notes |-> Cardinality({i \in DOMAIN timeline : timeline[i].rest = FALSE}),
                  rests |-> Cardinality({i \in DOMAIN timeline : timeline[i].rest = TRUE}), measures |-> n,
                  note_segments |-> Cardinality({i \in DOMAIN all : all[i].item.rest = FALSE}),
                  rest_segments |-> Cardinality({i \in DOMAIN all : all[i].item.rest = TRUE}),
                  split_notes |-> Cardinality({i \in DOMAIN timeline :
                                    timeline[i].rest = FALSE /\ Len(segments[i]) > 1}),
                  split_rests |-> Cardinality({i \in DOMAIN timeline :
                                    timeline[i].rest = TRUE /\ Len(segments[i]) > 1}),
                  final_used |-> IF timeline = <<>> THEN 0 ELSE Last(timeline).offset - (n - 1) * capacity,
                  capacity |-> capacity]
<1>1. PlanScore(timeline, subdivisions, beats) =
        [capacity |-> capacity, measures |-> measures, report |-> report]
  BY DEF PlanScore, InBar, Capacity
<1>2. \A rest : {i \in DOMAIN timeline : timeline[i].rest = rest /\ Len(segments[i]) > 1}
                  = SplitItems(timeline, capacity, rest)
  BY DEF SplitItems
<1>3. all = AllPieces(timeline, capacity) /\ n = MeasureCount(timeline, capacity)
  BY DEF AllPieces, MeasureCount
<1>4. report = [notes |-> Cardinality(ItemsThatRest(timeline, FALSE)),
                rests |-> Cardinality(ItemsThatRest(timeline, TRUE)), measures |-> n,
                note_segments |-> Cardinality(PiecesThatRest(all, FALSE)),
                rest_segments |-> Cardinality(PiecesThatRest(all, TRUE)),
                split_notes |-> Cardinality(SplitItems(timeline, capacity, FALSE)),
                split_rests |-> Cardinality(SplitItems(timeline, capacity, TRUE)),
                final_used |-> FinalUsed(timeline, capacity), capacity |-> capacity]
  <2> HIDE DEF all, segments
  <2> QED BY <1>2, <1>3 DEF ItemsThatRest, PiecesThatRest, FinalUsed
<1> HIDE DEF all, n, measures, report
<1>5. /\ PlanScore(timeline, subdivisions, beats).measures = measures
      /\ PlanScore(timeline, subdivisions, beats).report = report
  BY ONLY <1>1
<1>6. measures = [m \in 1..n |-> InBar(all, m)]
  BY DEF measures
<1> QED BY <1>3, <1>4, <1>5, <1>6 DEF PlannedMeasures, PlannedReport

\* The pieces of a timeline, in time.
IsScore(timeline, capacity, all, at, ends, bar) ==
  /\ AreBars(bar, capacity) /\ all = AllPieces(timeline, capacity)
  /\ IsCutting(timeline, all, at, ends, bar, Len(timeline))

LEMMA ScoreCut ==
  ASSUME NEW timeline \in Seq(Items), Contiguous(timeline), NEW capacity \in Nat \ {0}
  PROVE  \E at, ends, bar : IsScore(timeline, capacity, AllPieces(timeline, capacity), at, ends, bar)
<1> DEFINE segments == [i \in DOMAIN timeline |-> Segments(timeline[i], i, capacity)]
           all == FlattenSeq(segments)
<1>1. PICK bar : AreBars(bar, capacity)
  BY BarsExist
<1>2. \E at, ends : IsCutting(timeline, all, at, ends, bar, Len(timeline))
  BY <1>1, TimelineCut
<1>3. all = AllPieces(timeline, capacity)
  BY DEF AllPieces
<1> HIDE DEF all
<1> QED BY <1>1, <1>2, <1>3 DEF IsScore

LEMMA ScoreTimes ==
  ASSUME NEW timeline \in Seq(Items), NEW capacity \in Nat \ {0}, NEW all, NEW at, NEW ends, NEW bar,
         IsScore(timeline, capacity, all, at, ends, bar)
  PROVE  /\ all \in Seq(ScorePieces) /\ Len(all) \in Nat /\ DOMAIN all = 1..Len(all)
         /\ at \in [1..(Len(all) + 1) -> Nat] /\ Rising(at, Len(all) + 1) /\ at[1] = 0
         /\ \A k \in 1..Len(all) :
              /\ k \in 1..(Len(all) + 1) /\ k + 1 \in 1..(Len(all) + 1)
              /\ at[k] \in Nat /\ at[k + 1] \in Nat /\ at[k] < at[k + 1]
              /\ all[k].duration = at[k + 1] - at[k]
              /\ all[k].measure \in Nat \ {0}
              /\ bar[all[k].measure - 1] <= at[k] /\ at[k + 1] <= bar[all[k].measure]
         /\ timeline = <<>> => Len(all) = 0
         /\ timeline # <<>> => at[Len(all) + 1] = Last(timeline).offset
<1> DEFINE l == Len(all)
           n == Len(timeline)
           m == l + 1
<1>1. /\ all \in Seq(ScorePieces) /\ Lasting(all, at, bar) /\ at[1] = 0
      /\ ends \in [0..n -> Nat] /\ ends[0] = 0 /\ ends[n] = l
      /\ \A i \in 1..n : at[ends[i - 1] + 1] = timeline[i].onset /\ at[ends[i] + 1] = timeline[i].offset
  BY DEF IsScore, IsCutting
<1>2. l \in Nat /\ n \in Nat /\ DOMAIN all = 1..l
  BY <1>1
<1>3. /\ at \in [1..m -> Nat]
      /\ \A k \in 1..l :
           /\ at[k] < at[k + 1] /\ all[k].duration = at[k + 1] - at[k]
           /\ bar[all[k].measure - 1] <= at[k] /\ at[k + 1] <= bar[all[k].measure]
  BY <1>1 DEF Lasting
<1>4. \A k \in 1..l : all[k].measure \in Nat \ {0}
  <2>1. \A k \in 1..l : all[k] \in ScorePieces
    BY <1>1
  <2> QED BY <2>1 DEF ScorePieces
<1>5. timeline = <<>> => l = 0
  <2>1. timeline = <<>> => n = 0
    OBVIOUS
  <2> QED BY <1>1, <2>1
<1>6. timeline # <<>> => at[l + 1] = Last(timeline).offset
  <2>1. timeline # <<>> => n \in 1..n
    OBVIOUS
  <2>2. Last(timeline) = timeline[n]
    BY DEF Last
  <2> QED BY <1>1, <2>1, <2>2
<1> HIDE DEF l
<1>7. m \in Nat /\ \A k \in 1..l : k \in 1..m /\ k + 1 \in 1..m
  BY <1>2
<1>8. \A k \in 1..m : k + 1 \in 1..m => k \in 1..l
  BY <1>2
<1>10. \A k \in 1..m : k + 1 \in 1..m => at[k] < at[k + 1]
  BY <1>3, <1>8
<1> HIDE DEF m
<1>9. Rising(at, m)
  BY ONLY <1>3, <1>7, <1>10, RisingSteps
<1>11. \A k \in 1..l : at[k] \in Nat /\ at[k + 1] \in Nat
  BY <1>3, <1>7
<1> QED BY <1>1, <1>2, <1>3, <1>4, <1>5, <1>6, <1>7, <1>9, <1>11 DEF l, m

\* How many measures there are, and what the last one holds.
LEMMA MeasuresCounted ==
  ASSUME NEW timeline \in Seq(Items), Contiguous(timeline), NEW capacity \in Nat \ {0}, NEW bar,
         AreBars(bar, capacity)
  PROVE  LET n == MeasureCount(timeline, capacity)
             used == FinalUsed(timeline, capacity)
         IN /\ n \in Nat \ {0} /\ used <= capacity
            /\ timeline = <<>> => n = 1 /\ used = 0
            /\ timeline # <<>> =>
                 LET end == Last(timeline).offset
                 IN /\ end \in Nat /\ n - 1 \in Nat /\ bar[n - 1] <= end - 1 /\ end - 1 < bar[n]
                    /\ used = end - bar[n - 1] /\ used > 0
<1>1. CASE timeline = <<>>
  BY <1>1 DEF MeasureCount, FinalUsed
<1>2. CASE timeline # <<>>
  <2> DEFINE end == Last(timeline).offset
             q == (end - 1) \div capacity
  <2>1. end \in Nat \ {0}
    <3>1. Len(timeline) \in 1..Len(timeline)
      BY <1>2
    <3>2. timeline[Len(timeline)] \in Items
      BY <3>1
    <3>3. timeline[Len(timeline)].onset < timeline[Len(timeline)].offset
      BY <3>1 DEF Contiguous
    <3>4. end = timeline[Len(timeline)].offset
      BY DEF Last
    <3> QED BY <3>2, <3>3, <3>4 DEF Items
  <2> HIDE DEF end
  <2>2. MeasureCount(timeline, capacity) = q + 1
    BY <1>2 DEF MeasureCount, end
  <2>3. q \in Nat /\ bar[q] <= end - 1 /\ end - 1 < bar[q + 1]
    <3>1. end - 1 \in Nat
      BY <2>1
    <3> QED BY <3>1 DEF AreBars
  <2> HIDE DEF q
  <2>4. bar[q] = q * capacity /\ bar[q + 1] = bar[q] + capacity /\ bar[q] \in Nat
    BY <2>3 DEF AreBars
  <2>5. (q + 1) - 1 = q /\ q + 1 \in Nat \ {0}
    BY <2>3
  <2>6. FinalUsed(timeline, capacity) = end - bar[q]
    BY <1>2, <2>2, <2>4, <2>5 DEF FinalUsed, end
  <2>7. end - bar[q] <= capacity /\ end - bar[q] > 0
    BY <2>1, <2>3, <2>4
  <2> QED BY <1>2, <2>1, <2>2, <2>3, <2>5, <2>6, <2>7 DEF end
<1> QED BY <1>1, <1>2

LEMMA PiecesInOrder ==
  ASSUME NEW timeline \in Seq(Items), Contiguous(timeline), NEW capacity \in Nat \ {0},
         NEW all, NEW at, NEW ends, NEW bar, IsScore(timeline, capacity, all, at, ends, bar)
  PROVE  InOrderOfMeasures(all, MeasureCount(timeline, capacity))
<1> DEFINE l == Len(all)
           n == MeasureCount(timeline, capacity)
           end == Last(timeline).offset
<1>1. /\ l \in Nat /\ at \in [1..(l + 1) -> Nat] /\ Rising(at, l + 1)
      /\ \A k \in 1..l :
           /\ k \in 1..(l + 1) /\ k + 1 \in 1..(l + 1)
           /\ at[k] \in Nat /\ at[k + 1] \in Nat /\ at[k] < at[k + 1]
           /\ all[k].measure \in Nat \ {0}
           /\ bar[all[k].measure - 1] <= at[k] /\ at[k + 1] <= bar[all[k].measure]
      /\ timeline = <<>> => l = 0
      /\ timeline # <<>> => at[l + 1] = end
  BY ONLY timeline \in Seq(Items), capacity \in Nat \ {0},
          IsScore(timeline, capacity, all, at, ends, bar), ScoreTimes
<1>2. AreBars(bar, capacity)
  BY DEF IsScore
<1>3. /\ n \in Nat \ {0}
      /\ timeline # <<>> => end \in Nat /\ n - 1 \in Nat /\ end - 1 < bar[n]
  BY <1>2, MeasuresCounted
<1>4. /\ bar \in [Nat -> Nat] /\ \A i, j \in Nat : i < j => bar[i + 1] <= bar[j]
  BY <1>2 DEF AreBars
<1> HIDE DEF l, n, end
<1>5. ASSUME NEW k \in 1..l PROVE all[k].measure \in 1..n
  <2> DEFINE m == all[k].measure
  <2>1. m \in Nat \ {0} /\ bar[m - 1] <= at[k] /\ at[k] \in Nat /\ k \in 1..(l + 1)
    BY <1>1
  <2>2. timeline # <<>> /\ at[l + 1] = end /\ end \in Nat /\ end - 1 < bar[n]
    BY <1>1, <1>3
  <2>3. at[k] < at[l + 1]
    <3>1. k < l + 1 /\ l + 1 \in 1..(l + 1)
      BY <1>1
    <3> QED BY <1>1, <2>1, <3>1 DEF Rising
  <2> HIDE DEF m
  <2>4. ~(m > n)
    <3>1. SUFFICES ASSUME m > n PROVE FALSE
      OBVIOUS
    <3>2. m - 1 \in Nat /\ (n < m - 1 \/ n = m - 1) /\ n + 1 \in Nat
      BY <1>3, <2>1, <3>1
    <3>3. bar[n] \in Nat /\ bar[n + 1] \in Nat /\ bar[m - 1] \in Nat
      BY <1>3, <1>4, <3>2
    <3>4. bar[n] <= bar[m - 1]
      <4>1. CASE n = m - 1
        BY <3>3, <4>1
      <4>2. CASE n < m - 1
        <5>1. bar[n + 1] <= bar[m - 1]
          BY <1>3, <1>4, <3>2, <4>2
        <5>2. bar[n] < bar[n + 1]
          BY <1>2, <1>3, BarsGrow
        <5> QED BY <3>3, <5>1, <5>2
      <4> QED BY <3>2, <4>1, <4>2
    <3> QED BY <2>1, <2>2, <2>3, <3>3, <3>4
  <2> QED BY <1>3, <2>1, <2>4 DEF m
<1>6. ASSUME NEW i \in 1..l, NEW j \in 1..l, i < j PROVE all[i].measure <= all[j].measure
  <2> DEFINE p == all[i].measure
             q == all[j].measure
  <2>1. /\ p \in Nat \ {0} /\ q \in Nat \ {0} /\ bar[p - 1] <= at[i] /\ at[j + 1] <= bar[q]
        /\ at[i] \in Nat /\ at[j] \in Nat /\ at[j + 1] \in Nat /\ at[j] < at[j + 1]
        /\ i \in 1..(l + 1) /\ j \in 1..(l + 1)
    BY <1>1
  <2>2. at[i] < at[j]
    BY <1>1, <1>6, <2>1 DEF Rising
  <2> HIDE DEF p, q
  <2>3. ~(q < p)
    <3>1. SUFFICES ASSUME q < p PROVE FALSE
      OBVIOUS
    <3>2. q - 1 \in Nat /\ p - 1 \in Nat /\ q - 1 < p - 1 /\ (q - 1) + 1 = q
      BY <2>1, <3>1
    <3>3. bar[q] <= bar[p - 1]
      BY <1>4, <3>2
    <3>4. bar[q] \in Nat /\ bar[p - 1] \in Nat
      BY <1>4, <2>1, <3>2
    <3> QED BY <2>1, <2>2, <3>3, <3>4
  <2> QED BY <2>1, <2>3 DEF p, q
<1> QED BY <1>5, <1>6 DEF InOrderOfMeasures, l, n

\* The elements of a score, one for every piece.
Elements(all, events) == [k \in 1..Len(all) |-> NoteElement(all[k], events)]

\* The document holds the elements of the pieces, in their order, measure by measure.
LEMMA DocumentInOrder ==
  ASSUME NEW timeline \in Seq(Items), Contiguous(timeline), NEW capacity \in Nat \ {0},
         NEW all, NEW at, NEW ends, NEW bar, IsScore(timeline, capacity, all, at, ends, bar),
         NEW events, NEW n, n = MeasureCount(timeline, capacity), NEW measures,
         measures = [m \in 1..n |-> [k \in DOMAIN InBar(all, m) |->
                                       NoteElement(InBar(all, m)[k], events)]]
  PROVE  /\ DOMAIN measures = 1..n /\ Len(measures) = n
         /\ FlattenSeq(measures) = Elements(all, events)
         /\ \E cut : /\ AreCuts(cut, n, Len(all)) /\ IsCutByMeasure(cut, all, n)
                     /\ \A m \in 1..n : {i \in DOMAIN all : all[i].measure = m}
                                          = (cut[m - 1] + 1)..cut[m]
                     /\ AreGroups(measures, cut, n, Elements(all, events))
<1> DEFINE l == Len(all)
           elements == Elements(all, events)
           W == {NoteElement(all[k], events) : k \in 1..l}
<1>1. all \in Seq(ScorePieces) /\ l \in Nat /\ DOMAIN all = 1..l
  BY ScoreTimes
<1>2. n \in Nat \ {0}
  BY MeasuresCounted DEF IsScore
<1>3. InOrderOfMeasures(all, n)
  BY PiecesInOrder
<1>4. PICK cut : IsMeasureCut(cut, all, n)
  <2>1. \E cut : IsMeasureCut(cut, all, n)
    BY ONLY <1>1, <1>2, <1>3, MeasureCuts
  <2> QED BY ONLY <2>1
<1>5. /\ AreCuts(cut, n, l) /\ IsCutByMeasure(cut, all, n)
      /\ \A m \in 1..n : {i \in DOMAIN all : all[i].measure = m} = (cut[m - 1] + 1)..cut[m]
  BY <1>4 DEF IsMeasureCut
<1>6. elements \in Seq(W) /\ Len(elements) = l /\ \A k \in 1..l : elements[k] = NoteElement(all[k], events)
  <2>1. elements = [k \in 1..l |-> NoteElement(all[k], events)]
    BY DEF Elements
  <2>2. \A k \in 1..l : NoteElement(all[k], events) \in W
    OBVIOUS
  <2> HIDE DEF elements, W, l
  <2>3. elements \in [1..l -> W]
    BY <2>1, <2>2
  <2> QED BY <1>1, <2>1, <2>3
<1>7. ASSUME NEW m \in 1..n
      PROVE  /\ measures[m] \in Lists(W) /\ Len(measures[m]) = cut[m] - cut[m - 1]
             /\ \A k \in 1..(cut[m] - cut[m - 1]) : measures[m][k] = elements[cut[m - 1] + k]
  <2> DEFINE a == cut[m - 1]
             b == cut[m]
             K == {i \in DOMAIN all : all[i].measure = m}
             bars == InBar(all, m)
             list == measures[m]
             d == b - a
  <2>1. a \in Nat /\ b \in Nat /\ a <= b /\ b <= l /\ K = (a + 1)..b
    <3>1. m \in 0..n /\ m - 1 \in 0..n
      BY <1>2
    <3> QED BY <1>5, <3>1 DEF AreCuts
  <2>2. bars = Pick(all, K)
    BY DEF InBar
  <2>3. list = [k \in DOMAIN bars |-> NoteElement(bars[k], events)]
    OBVIOUS
  <2> HIDE DEF a, b, K, bars, list
  <2>4. /\ bars \in Seq(ScorePieces) /\ Len(bars) = d /\ \A k \in 1..d : bars[k] = all[a + k]
    <3>1. /\ all \in Seq(ScorePieces) /\ a \in Nat /\ b \in Nat /\ a <= b /\ b <= Len(all)
          /\ K = (a + 1)..b /\ bars = Pick(all, K)
      BY <1>1, <2>1, <2>2
    <3> DEFINE s == Pick(all, K)
    <3> HIDE DEF d
    <3> DEFINE V == ScorePieces
    <3> HIDE DEF V
    <3>2. /\ s \in Seq(V) /\ Len(s) = b - a /\ \A k \in 1..(b - a) : s[k] = all[a + k]
      <4>1. all \in Seq(V)
        BY <3>1 DEF V
      <4>2. a \in Nat /\ b \in Nat /\ a <= b /\ b <= Len(all) /\ K = (a + 1)..b
        BY <3>1
      <4> QED BY ONLY <4>1, <4>2, RunPicked
    <3> HIDE DEF s
    <3>3. bars = s
      BY <3>1 DEF s
    <3> QED BY ONLY <3>2, <3>3 DEF d, V
  <2>5. d \in Nat /\ \A k \in 1..d : a + k \in 1..l
    BY <1>1, <2>1
  <2> HIDE DEF d, l, elements, W
  <2>6. DOMAIN bars = 1..d
    BY <2>4
  <2>7. \A k \in 1..d : list[k] = elements[a + k]
    BY <1>6, <2>3, <2>4, <2>5, <2>6
  <2>8. \A k \in 1..d : elements[a + k] \in W
    BY <1>6, <2>5
  <2>9. list = [k \in 1..d |-> list[k]]
    BY <2>3, <2>6
  <2>10. list \in [1..d -> W]
    BY <2>7, <2>8, <2>9
  <2>11. list \in Lists(W) /\ Len(list) = d
    BY <2>5, <2>10 DEF Lists
  <2> QED BY <2>7, <2>11 DEF a, b, d, list
<1>8. DOMAIN measures = 1..n /\ Len(measures) = n
  BY <1>2
<1>9. measures = [m \in 1..n |-> measures[m]]
  OBVIOUS
<1> HIDE DEF elements, W
<1>10. measures \in [1..n -> Lists(W)]
  BY <1>7, <1>9
<1>11. AreGroups(measures, cut, n, elements)
  BY <1>7 DEF AreGroups
<1>12. FlattenSeq(measures) = elements
  <2>1. AreCuts(cut, n, Len(elements))
    BY <1>5, <1>6
  <2> HIDE DEF l
  <2> QED BY ONLY <1>2, <1>6, <1>8, <1>10, <1>11, <2>1, Regrouped
<1> QED BY <1>5, <1>8, <1>11, <1>12 DEF elements

LEMMA EndsGrow ==
  ASSUME NEW n \in Nat, NEW ends \in [0..n -> Nat], \A i \in 1..n : ends[i - 1] < ends[i]
  PROVE  \A i \in 0..n : ends[i] <= ends[n]
<1> DEFINE G == {j \in 0..n : \A i \in 0..j : ends[i] <= ends[j]}
<1>1. 0 \in G
  <2>1. 0 \in 0..n /\ ends[0] \in Nat /\ \A i \in 0..0 : i = 0
    OBVIOUS
  <2> QED BY <2>1
<1>2. ASSUME NEW j \in 1..n, j - 1 \in G PROVE j \in G
  <2>1. j \in 0..n /\ j - 1 \in 0..n /\ \A i \in 0..j : i = j \/ i \in 0..(j - 1)
    OBVIOUS
  <2>2. \A i \in 0..(j - 1) : ends[i] <= ends[j - 1] /\ i \in 0..n
    BY <1>2, <2>1
  <2>3. \A i \in 0..(j - 1) : ends[i] <= ends[j]
    <3> TAKE i \in 0..(j - 1)
    <3>1. ends[i] \in Nat /\ ends[j - 1] \in Nat /\ ends[j] \in Nat /\ ends[j - 1] < ends[j]
      BY <2>1, <2>2
    <3> QED BY <2>2, <3>1
  <2>4. ends[j] <= ends[j]
    <3>1. ends[j] \in Nat
      BY <2>1
    <3> QED BY <3>1
  <2> QED BY <2>1, <2>3, <2>4
<1> HIDE DEF G
<1>3. \A j \in 0..n : j \in G
  BY <1>1, <1>2, Induction
<1>4. n \in G
  BY <1>3
<1> QED BY <1>4 DEF G

\* The first piece of every item.
LEMMA FirstPieces ==
  ASSUME NEW timeline \in Seq(Items), NEW capacity \in Nat \ {0}, NEW all, NEW at, NEW ends, NEW bar,
         IsScore(timeline, capacity, all, at, ends, bar), NEW i \in DOMAIN timeline
  PROVE  /\ ends[i - 1] + 1 \in DOMAIN all
         /\ all[ends[i - 1] + 1].item = timeline[i] /\ all[ends[i - 1] + 1].sequence = i
<1> DEFINE n == Len(timeline)
           l == Len(all)
           a == ends[i - 1]
           b == ends[i]
<1>1. n \in Nat /\ i \in 1..n
  OBVIOUS
<1>2. /\ all \in Seq(ScorePieces) /\ ends \in [0..n -> Nat] /\ ends[n] = l
      /\ \A j \in 1..n :
           /\ ends[j - 1] < ends[j]
           /\ \A k \in 1..(ends[j] - ends[j - 1]) :
                IsPiece(all[ends[j - 1] + k], timeline[j], j, k, ends[j] - ends[j - 1])
  BY DEF IsScore, IsCutting
<1>3. l \in Nat /\ DOMAIN all = 1..l
  BY <1>2
<1> HIDE DEF n, l
<1>4. a \in Nat /\ b \in Nat /\ a < b /\ b <= l
  <2>1. i - 1 \in 0..n /\ i \in 0..n
    BY <1>1
  <2>2. \A j \in 0..n : ends[j] <= ends[n]
    BY <1>1, <1>2, EndsGrow
  <2> QED BY <1>1, <1>2, <2>1, <2>2
<1>5. \A k \in 1..(b - a) : IsPiece(all[a + k], timeline[i], i, k, b - a)
  BY <1>1, <1>2
<1> HIDE DEF a, b
<1>6. 1 \in 1..(b - a) /\ a + 1 \in 1..l
  BY <1>3, <1>4
<1>7. IsPiece(all[a + 1], timeline[i], i, 1, b - a)
  BY <1>5, <1>6
<1> QED BY <1>3, <1>6, <1>7 DEF IsPiece, a

LEMMA PiecesCounted ==
  ASSUME NEW timeline \in Seq(Items), NEW capacity \in Nat \ {0}, NEW all, NEW at, NEW ends, NEW bar,
         IsScore(timeline, capacity, all, at, ends, bar), NEW rest
  PROVE  /\ Cardinality(ItemsThatRest(timeline, rest)) \in Nat
         /\ Cardinality(PiecesThatRest(all, rest)) \in Nat
         /\ Cardinality(SplitItems(timeline, capacity, rest)) \in Nat
         /\ Cardinality(ItemsThatRest(timeline, rest)) <= Cardinality(PiecesThatRest(all, rest))
         /\ Cardinality(SplitItems(timeline, capacity, rest)) <= Cardinality(ItemsThatRest(timeline, rest))
<1> DEFINE S == ItemsThatRest(timeline, rest)
           T == PiecesThatRest(all, rest)
           P == SplitItems(timeline, capacity, rest)
           f == [i \in S |-> ends[i - 1] + 1]
<1>1. P \in SUBSET S /\ S \in SUBSET (DOMAIN timeline) /\ T \in SUBSET (DOMAIN all)
  BY DEF ItemsThatRest, SplitItems, PiecesThatRest
<1>2. /\ DOMAIN timeline = 1..Len(timeline) /\ Len(timeline) \in Nat
      /\ DOMAIN all = 1..Len(all) /\ Len(all) \in Nat
  BY ScoreTimes
<1>3. \A i \in S : i \in DOMAIN timeline /\ timeline[i].rest = rest
  BY DEF ItemsThatRest
<1>4. ASSUME NEW i \in S PROVE f[i] \in T /\ all[f[i]].sequence = i
  <2>1. i \in DOMAIN timeline /\ timeline[i].rest = rest
    BY <1>3
  <2>2. /\ f[i] \in DOMAIN all /\ all[f[i]].item = timeline[i] /\ all[f[i]].sequence = i
    BY <2>1, FirstPieces
  <2> QED BY <2>1, <2>2 DEF PiecesThatRest
<1> HIDE DEF S, T, P
<1>5. IsFiniteSet(S) /\ IsFiniteSet(T) /\ IsFiniteSet(P)
  <2>1. IsFiniteSet(1..Len(timeline)) /\ IsFiniteSet(1..Len(all))
    BY <1>2, CardinalityOfFirst
  <2>2. S \in SUBSET (1..Len(timeline)) /\ T \in SUBSET (1..Len(all))
    BY <1>1, <1>2
  <2>3. IsFiniteSet(S) /\ IsFiniteSet(T)
    BY <2>1, <2>2, FS_Subset
  <2> QED BY <1>1, <2>3, FS_Subset
<1>6. Cardinality(S) \in Nat /\ Cardinality(T) \in Nat /\ Cardinality(P) \in Nat
  BY <1>5, FS_CardinalityType
<1>7. Cardinality(P) <= Cardinality(S)
  BY <1>1, <1>5, FS_Subset
<1>8. Cardinality(S) <= Cardinality(T)
  <2>1. f \in [S -> T]
    BY <1>4
  <2>2. \A i, j \in S : f[i] = f[j] => i = j
    <3> HIDE DEF f
    <3> QED BY <1>4
  <2> HIDE DEF f
  <2>3. f \in Injection(S, T)
    BY <2>1, <2>2 DEF Injection, IsInjective
  <2> QED BY <1>5, <2>3, FS_Injection
<1> QED BY <1>6, <1>7, <1>8 DEF S, T, P

\* The pieces that rest and the others are all there are.
LEMMA PiecesSplit ==
  ASSUME NEW timeline \in Seq(Items), NEW capacity \in Nat \ {0}, NEW all, NEW at, NEW ends, NEW bar,
         IsScore(timeline, capacity, all, at, ends, bar)
  PROVE  Cardinality(PiecesThatRest(all, FALSE)) = Len(all) - Cardinality(PiecesThatRest(all, TRUE))
<1> DEFINE A == PiecesThatRest(all, FALSE)
           B == PiecesThatRest(all, TRUE)
           n == Len(all)
<1>1. all \in Seq(ScorePieces) /\ n \in Nat /\ DOMAIN all = 1..n
  BY ScoreTimes
<1>2. \A k \in 1..n : all[k].item.rest \in BOOLEAN
  <2> TAKE k \in 1..n
  <2>1. all[k] \in ScorePieces
    BY <1>1
  <2>2. all[k].item \in Items
    BY <2>1 DEF ScorePieces
  <2> QED BY <2>2 DEF Items
<1>3. A = {k \in 1..n : all[k].item.rest = FALSE} /\ B = {k \in 1..n : all[k].item.rest = TRUE}
  BY <1>1 DEF PiecesThatRest
<1>4. A = (1..n) \ B /\ (1..n) \intersect B = B
  BY <1>2, <1>3
<1>5. IsFiniteSet(1..n) /\ Cardinality(1..n) = n
  BY <1>1, CardinalityOfFirst
<1> DEFINE U == 1..n
<1> HIDE DEF A, B, n, U
<1>6. Cardinality(U \ B) = Cardinality(U) - Cardinality(U \intersect B)
  BY <1>5, FS_Difference DEF U
<1> QED BY <1>4, <1>5, <1>6 DEF U, A, B, n

LEMMA ScoreExported ==
  ASSUME NEW quantized, NEW timeline, timeline = quantized.timeline,
         timeline \in Seq(Items), Contiguous(timeline),
         NEW events, NEW saxophone \in SaxophoneTypes, NEW subdivisions \in Nat \ {0},
         NEW beats \in Nat \ {0}, NEW bpm
  PROVE  ScoreAccepted(timeline, saxophone,
                       ExportScore(quantized, events, saxophone, subdivisions, beats, bpm))
<1> DEFINE capacity == beats * subdivisions
           score == ExportScore(quantized, events, saxophone, subdivisions, beats, bpm)
           plan == PlanScore(timeline, subdivisions, beats)
           n == MeasureCount(timeline, capacity)
           all == AllPieces(timeline, capacity)
           measures == score.document.measures
           report == score.report
           used == FinalUsed(timeline, capacity)
           notes == Cardinality(ItemsThatRest(timeline, FALSE))
           rests == Cardinality(ItemsThatRest(timeline, TRUE))
           sounding == Cardinality(PiecesThatRest(all, FALSE))
           silent == Cardinality(PiecesThatRest(all, TRUE))
           split == Cardinality(SplitItems(timeline, capacity, FALSE))
           cut == Cardinality(SplitItems(timeline, capacity, TRUE))
<1>1. /\ score.instrument = InstrumentSpec[saxophone]
      /\ measures = [m \in DOMAIN plan.measures |->
                       [k \in DOMAIN plan.measures[m] |-> NoteElement(plan.measures[m][k], events)]]
      /\ score.validation = ReadScore(score.document) /\ report = plan.report
  <2>1. score = ExportScore(quantized, events, saxophone, subdivisions, beats, bpm)
        /\ plan = PlanScore(quantized.timeline, subdivisions, beats)
    OBVIOUS
  <2> HIDE DEF plan, score
  <2> QED BY <2>1, ExportedDocument
<1>2. capacity \in Nat \ {0}
  <2>1. capacity \in Nat
    BY ProductsOfNaturals
  <2>2. capacity # 0
    OBVIOUS
  <2> QED BY <2>1, <2>2
<1>3. /\ plan.measures = [m \in 1..n |-> InBar(all, m)]
      /\ plan.report = [notes |-> notes, rests |-> rests, measures |-> n,
                        note_segments |-> sounding, rest_segments |-> silent,
                        split_notes |-> split, split_rests |-> cut,
                        final_used |-> used, capacity |-> capacity]
  <2>1. capacity = Capacity(subdivisions, beats)
    BY DEF Capacity
  <2> HIDE DEF capacity
  <2>2. /\ plan.measures = PlannedMeasures(timeline, capacity)
        /\ plan.report = PlannedReport(timeline, capacity)
    BY ONLY <2>1, PlanComputed
  <2> HIDE DEF plan
  <2> QED BY ONLY <2>2 DEF PlannedMeasures, PlannedReport
<1> HIDE DEF capacity, score, plan
<1>4. PICK at, ends, bar : IsScore(timeline, capacity, all, at, ends, bar)
  BY <1>2, ScoreCut
<1> HIDE DEF all, n
<1>5. AreBars(bar, capacity)
  BY <1>4 DEF IsScore
<1>6. n \in Nat \ {0} /\ used <= capacity
  BY <1>2, <1>5, MeasuresCounted DEF n
<1> HIDE DEF measures, used
<1>7. measures = [m \in 1..n |-> [k \in DOMAIN InBar(all, m) |-> NoteElement(InBar(all, m)[k], events)]]
  <2>1. DOMAIN plan.measures = 1..n /\ \A m \in 1..n : plan.measures[m] = InBar(all, m)
    BY <1>3
  <2> QED BY <1>1, <2>1
<1>8. DOMAIN measures = 1..n /\ Len(measures) = n /\ FlattenSeq(measures) = Elements(all, events)
  <2>1. n = MeasureCount(timeline, capacity) /\ timeline \in Seq(Items) /\ Contiguous(timeline)
    BY DEF n
  <2> QED BY ONLY <1>2, <1>4, <1>7, <2>1, DocumentInOrder
<1>9. /\ notes \in Nat /\ sounding \in Nat /\ split \in Nat /\ notes <= sounding /\ split <= notes
      /\ rests \in Nat /\ silent \in Nat /\ cut \in Nat /\ rests <= silent /\ cut <= rests
  BY <1>2, <1>4, PiecesCounted
<1>10. sounding = Len(all) - silent
  BY <1>2, <1>4, PiecesSplit
<1> DEFINE elements == Elements(all, events)
<1>11. Len(elements) = Len(all) /\ {i \in DOMAIN elements : elements[i].rest} = PiecesThatRest(all, TRUE)
  <2>1. Len(all) \in Nat /\ DOMAIN all = 1..Len(all) /\ all \in Seq(ScorePieces)
    BY <1>2, <1>4, ScoreTimes
  <2>2. elements = [k \in 1..Len(all) |-> NoteElement(all[k], events)]
    BY DEF Elements
  <2> HIDE DEF elements
  <2>3. DOMAIN elements = 1..Len(all) /\ Len(elements) = Len(all)
    BY <2>1, <2>2
  <2>4. \A k \in 1..Len(all) : elements[k].rest = all[k].item.rest
    BY <2>2 DEF NoteElement
  <2>5. \A k \in 1..Len(all) : all[k].item.rest \in BOOLEAN
    <3> TAKE k \in 1..Len(all)
    <3>1. all[k] \in ScorePieces
      BY <2>1
    <3>2. all[k].item \in Items
      BY <3>1 DEF ScorePieces
    <3> QED BY <3>2 DEF Items
  <2>6. \A k \in 1..Len(all) : elements[k].rest <=> all[k].item.rest = TRUE
    BY <2>4, <2>5
  <2> QED BY <2>1, <2>3, <2>6 DEF PiecesThatRest
<1> HIDE DEF elements
<1>12. score.validation = [parts |-> 1, measures |-> n,
                           note_segments |-> Len(all) - silent, rest_segments |-> silent]
  BY <1>1, <1>8, <1>11 DEF ReadScore, elements, measures
<1>13. /\ ItemsThatRest(timeline, FALSE) = {i \in DOMAIN timeline : ~timeline[i].rest}
       /\ ItemsThatRest(timeline, TRUE) = {i \in DOMAIN timeline : timeline[i].rest}
  <2>1. \A i \in DOMAIN timeline : timeline[i].rest \in BOOLEAN
    <3> TAKE i \in DOMAIN timeline
    <3>1. timeline[i] \in Items
      OBVIOUS
    <3> QED BY <3>1 DEF Items
  <2> QED BY <2>1 DEF ItemsThatRest
<1>14. InstrumentAccepted(InstrumentSpec[saxophone], saxophone)
  <2>1. CASE saxophone \in {"soprano", "alto"}
    BY ONLY <2>1 DEF InstrumentAccepted, TotalTransposition, InstrumentSpec, WrittenPitchOffset
  <2>2. CASE saxophone \in {"tenor", "baritone"}
    <3>1. (CHOOSE o \in {-1} : TRUE) = -1 /\ {-1} # {}
      OBVIOUS
    <3> QED BY ONLY <2>2, <3>1 DEF InstrumentAccepted, TotalTransposition, InstrumentSpec, WrittenPitchOffset
  <2> QED BY <2>1, <2>2 DEF SaxophoneTypes
<1>15. /\ notes = Cardinality({i \in DOMAIN timeline : ~timeline[i].rest})
       /\ rests = Cardinality({i \in DOMAIN timeline : timeline[i].rest})
  BY <1>13
<1> HIDE DEF notes, rests, sounding, silent, split, cut, report
<1>16. /\ report.notes = notes /\ report.rests = rests /\ report.measures = n
       /\ report.note_segments = sounding /\ report.rest_segments = silent
       /\ report.split_notes = split /\ report.split_rests = cut
       /\ report.final_used = used /\ report.capacity = capacity
  BY <1>1, <1>3
<1>17. ScoreReportAccepted(report)
  BY <1>2, <1>6, <1>9, <1>16 DEF ScoreReportAccepted
<1>18. ValidationMatches(score.validation, report)
  <2>1. /\ score.validation.parts = 1 /\ score.validation.measures = n
        /\ score.validation.note_segments = Len(all) - silent
        /\ score.validation.rest_segments = silent
    BY ONLY <1>12
  <2> QED BY <1>10, <1>16, <2>1 DEF ValidationMatches
<1>19. ScoreAccepted(timeline, saxophone, score)
  BY <1>1, <1>14, <1>15, <1>16, <1>17, <1>18 DEF ScoreAccepted, report
<1> QED BY <1>19 DEF score

-----------------------------------------------------------------------------
(* What the elements of a score last.                                                *)

LEMMA LengthensToNatural ==
  ASSUME NEW W, \A e \in W : e.duration \in Nat
  PROVE  0 \in Nat /\ \A n \in Nat, e \in W : Lengthen(n, e) \in Nat
BY DEF Lengthen

LEMMA LengthFold ==
  ASSUME NEW W, \A e \in W : e.duration \in Nat, NEW seq \in Seq(W)
  PROVE  \E row \in [0..Len(seq) -> Nat] :
           /\ row[0] = 0
           /\ \A k \in 1..Len(seq) : row[k] = Lengthen(row[k - 1], seq[k])
           /\ FoldLeft(Lengthen, 0, seq) = row[Len(seq)]
<1> DEFINE n == Len(seq)
           step == [p \in Nat \X (1..n) |-> Lengthen(p[1], seq[p[2]])]
           Is(g) == g = [s \in SUBSET (1..n) |->
                           IF s = {} THEN 0 ELSE Lengthen(g[s \ {Max(s)}], seq[Max(s)])]
           h == CHOOSE g : Is(g)
<1>1. n \in Nat /\ DOMAIN seq = 1..n /\ \A k \in 1..n : seq[k] \in W
  OBVIOUS
<1>2. FoldLeft(Lengthen, 0, seq) = h[1..n]
  BY <1>1 DEF FoldLeft, MapThenFoldSet
<1>3. 0 \in Nat /\ step \in Steps(Nat, n)
  BY <1>1, LengthensToNatural DEF Steps
<1> HIDE DEF step
<1>4. \E g \in FoldFunctions(Nat, n) : IsFold(g, n, 0, step)
  BY <1>1, <1>3, FoldExists
<1>5. PICK g \in FoldFunctions(Nat, n) : IsFold(g, n, 0, step)
  BY <1>4
<1>6. Is(g)
  <2>1. ASSUME NEW s \in SUBSET (1..n)
        PROVE  g[s] = IF s = {} THEN 0 ELSE Lengthen(g[s \ {Max(s)}], seq[Max(s)])
    <3>1. CASE s = {}
      BY <1>5, <3>1 DEF IsFold
    <3>2. CASE s # {}
      <4>1. Max(s) \in 1..n /\ g[s \ {Max(s)}] \in Nat
        BY <1>1, <1>5, <3>2, GreatestOfSome DEF FoldFunctions
      <4> HIDE DEF n
      <4> QED BY <1>5, <3>2, <4>1 DEF step, IsFold
    <3> QED BY <3>1, <3>2
  <2>2. g = [s \in SUBSET (1..n) |-> g[s]]
    BY <1>5 DEF FoldFunctions
  <2> QED BY <2>1, <2>2
<1>7. Is(h)
  BY <1>6
<1> HIDE DEF h
<1>8. h[{}] = 0 /\ \A k \in 1..n : h[1..k] = Lengthen(h[1..(k - 1)], seq[k])
  <2>1. h[{}] = 0
    BY <1>7
  <2>2. ASSUME NEW k \in 1..n PROVE h[1..k] = Lengthen(h[1..(k - 1)], seq[k])
    <3>1. k \in Nat \ {0} /\ 1..k \in SUBSET (1..n)
      BY <1>1
    <3>2. 1..k # {} /\ (1..k) \ {k} = 1..(k - 1) /\ Max(1..k) = k
      BY ONLY <3>1, LastOfFirst
    <3> HIDE DEF n
    <3> QED BY <1>7, <3>1, <3>2
  <2> QED BY <2>1, <2>2
<1>9. \A k \in 1..n : h[1..(k - 1)] \in Nat => h[1..k] = step[<<h[1..(k - 1)], k>>]
  BY <1>8 DEF step
<1>10. \E row \in Rows(Nat, n) : IsRow(row, n, 0, step) /\ h[1..n] = row[n]
  <2> DEFINE V == Nat
             base == 0
  <2>1. base \in V /\ step \in Steps(V, n) /\ h[{}] = base
        /\ \A k \in 1..n : h[1..(k - 1)] \in V => h[1..k] = step[<<h[1..(k - 1)], k>>]
    BY <1>3, <1>8, <1>9
  <2> HIDE DEF V, base
  <2>2. \E row \in Rows(V, n) : IsRow(row, n, base, step) /\ h[1..n] = row[n]
    BY <1>1, <2>1, FoldRow
  <2> QED BY <2>2 DEF V, base
<1>11. PICK row \in Rows(Nat, n) : IsRow(row, n, 0, step) /\ h[1..n] = row[n]
  BY <1>10
<1>12. /\ row \in [0..n -> Nat] /\ row[0] = 0
       /\ \A k \in 1..n : row[k - 1] \in Nat /\ row[k] = step[<<row[k - 1], k>>]
  BY <1>1, <1>11 DEF Rows, IsRow
<1>13. \A k \in 1..n : row[k] = Lengthen(row[k - 1], seq[k])
  BY <1>12 DEF step
<1> QED BY <1>2, <1>11, <1>12, <1>13

\* Elements that follow each other last from the beginning of the first to the end of
\* the last one.
LEMMA LengthOfList ==
  ASSUME NEW W, \A e \in W : e.duration \in Nat, NEW s \in Lists(W), NEW n \in Nat, n = Len(s),
         NEW f \in Rows(Nat, n), \A k \in 1..n : s[k].duration = f[k] - f[k - 1]
  PROVE  Length(s) = f[n] - f[0]
<1>0. s \in Seq(W) /\ f \in [0..n -> Nat]
  BY DEF Lists, Rows
<1>1. \E row \in [0..n -> Nat] :
        /\ row[0] = 0
        /\ \A k \in 1..n : row[k] = Lengthen(row[k - 1], s[k])
        /\ FoldLeft(Lengthen, 0, s) = row[n]
  BY <1>0, LengthFold
<1>2. PICK row \in [0..n -> Nat] :
        /\ row[0] = 0
        /\ \A k \in 1..n : row[k] = Lengthen(row[k - 1], s[k])
        /\ FoldLeft(Lengthen, 0, s) = row[n]
  BY <1>1
<1> DEFINE G == {k \in 0..n : row[k] = f[k] - f[0]}
<1>3. 0 \in G
  <2>1. 0 \in 0..n /\ f[0] \in Nat
    BY <1>0
  <2> QED BY <1>2, <2>1
<1>4. ASSUME NEW k \in 1..n, k - 1 \in G PROVE k \in G
  <2>1. k \in 0..n /\ k - 1 \in 0..n /\ 0 \in 0..n
    OBVIOUS
  <2>2. f[k] \in Nat /\ f[k - 1] \in Nat /\ f[0] \in Nat
    BY <1>0, <2>1
  <2>3. row[k] = row[k - 1] + s[k].duration /\ row[k - 1] = f[k - 1] - f[0]
    BY <1>2, <1>4 DEF Lengthen
  <2> QED BY <2>1, <2>2, <2>3
<1> HIDE DEF G
<1>5. \A k \in 0..n : k \in G
  BY <1>3, <1>4, Induction
<1>6. n \in G
  BY <1>5
<1> QED BY <1>2, <1>6 DEF G, Length

\* The k-th element lasts from at[k] to at[k + 1].
ElementsLast(elements, at) ==
  /\ at \in [1..(Len(elements) + 1) -> Nat]
  /\ \A k \in 1..Len(elements) :
       /\ elements[k].duration \in Nat
       /\ elements[k].duration = at[k + 1] - at[k]

LEMMA RunLasts ==
  ASSUME NEW V, NEW elements \in Lists(V), NEW at, ElementsLast(elements, at),
         NEW a \in Nat, NEW b \in Nat, a <= b, b <= Len(elements),
         NEW s \in Lists(V), Len(s) = b - a, \A k \in 1..(b - a) : s[k] = elements[a + k]
  PROVE  Length(s) = at[b + 1] - at[a + 1]
<1> DEFINE l == Len(elements)
           n == b - a
           W == {e \in V : e.duration \in Nat}
           f == [k \in 0..n |-> at[a + k + 1]]
<1>1. /\ l \in Nat /\ at \in [1..(l + 1) -> Nat]
      /\ \A k \in 1..l : /\ elements[k].duration \in Nat
                        /\ elements[k].duration = at[k + 1] - at[k]
  BY DEF ElementsLast
<1>2. n \in Nat /\ b <= l /\ Len(s) = n /\ \A k \in 1..n : s[k] = elements[a + k] /\ s[k] \in V
  BY DEF Lists
<1> HIDE DEF l
<1>3. ASSUME NEW k \in 1..n
      PROVE  /\ a + k \in 1..l /\ s[k] \in V /\ s[k].duration \in Nat
             /\ s[k].duration = at[a + k + 1] - at[a + k]
  <2>1. a + k \in 1..l
    BY <1>1, <1>2
  <2> QED BY <1>1, <1>2, <2>1
<1>4. f \in Rows(Nat, n)
  <2>1. ASSUME NEW k \in 0..n PROVE at[a + k + 1] \in Nat
    <3>1. a + k + 1 \in 1..(l + 1)
      BY <1>1, <1>2
    <3> QED BY <1>1, <3>1
  <2> QED BY <2>1 DEF Rows
<1>5. f[n] = at[b + 1] /\ f[0] = at[a + 1]
  <2>1. n \in 0..n /\ 0 \in 0..n /\ a + n + 1 = b + 1 /\ a + 0 + 1 = a + 1
    BY <1>2
  <2> QED BY <2>1
<1>6. \A k \in 1..n : s[k].duration = f[k] - f[k - 1]
  <2> TAKE k \in 1..n
  <2>1. k \in 0..n /\ k - 1 \in 0..n /\ a + (k - 1) + 1 = a + k
    BY <1>2
  <2> QED BY <1>3, <2>1
<1>7. s \in Lists(W)
  <2>1. s = [k \in 1..n |-> s[k]]
    BY <1>2 DEF Lists
  <2>2. \A k \in 1..n : s[k] \in W
    BY <1>3
  <2> HIDE DEF W, n
  <2>3. s \in [1..n -> W]
    BY <2>1, <2>2
  <2> QED BY <1>2, <2>3 DEF Lists
<1>8. \A e \in W : e.duration \in Nat
  OBVIOUS
<1> HIDE DEF f, W, n
<1>9. Length(s) = f[n] - f[0]
  BY ONLY <1>2, <1>4, <1>6, <1>7, <1>8, LengthOfList
<1> QED BY <1>5, <1>9

ElementValues(all, events) == {NoteElement(all[k], events) : k \in 1..Len(all)}

\* The elements of a document have the durations, rests and ties of its pieces.
LEMMA ElementsComputed ==
  ASSUME NEW timeline \in Seq(Items), NEW capacity \in Nat \ {0}, NEW all, NEW at, NEW ends, NEW bar,
         IsScore(timeline, capacity, all, at, ends, bar), NEW events,
         NEW elements, elements = Elements(all, events)
  PROVE  /\ elements \in Lists(ElementValues(all, events))
         /\ Len(elements) = Len(all) /\ Len(all) \in Nat /\ DOMAIN elements = 1..Len(all)
         /\ \A k \in 1..Len(all) :
              /\ elements[k].rest = all[k].item.rest
              /\ elements[k].tie_start = (~all[k].item.rest /\ all[k].index < all[k].count)
              /\ elements[k].tie_stop = (~all[k].item.rest /\ all[k].index > 1)
         /\ ElementsLast(elements, at)
<1> DEFINE l == Len(all)
           W == ElementValues(all, events)
<1>1. /\ l \in Nat /\ at \in [1..(l + 1) -> Nat]
      /\ \A k \in 1..l : /\ at[k] \in Nat /\ at[k + 1] \in Nat /\ at[k] < at[k + 1]
                        /\ all[k].duration = at[k + 1] - at[k]
  BY ScoreTimes
<1>2. elements = [k \in 1..l |-> NoteElement(all[k], events)]
  BY DEF Elements
<1>3. \A k \in 1..l : NoteElement(all[k], events) \in W
  BY DEF ElementValues
<1> HIDE DEF W, l
<1>4. elements \in [1..l -> W]
  BY <1>2, <1>3
<1>5. elements \in Lists(W) /\ Len(elements) = l /\ DOMAIN elements = 1..l
  BY <1>1, <1>2, <1>4 DEF Lists
<1>6. ASSUME NEW k \in 1..l
      PROVE  /\ elements[k].rest = all[k].item.rest /\ elements[k].duration = all[k].duration
             /\ elements[k].tie_start = (~all[k].item.rest /\ all[k].index < all[k].count)
             /\ elements[k].tie_stop = (~all[k].item.rest /\ all[k].index > 1)
  <2>1. elements[k] = NoteElement(all[k], events)
    BY <1>2
  <2> QED BY ONLY <2>1 DEF NoteElement, TieStop, TieStart
<1>7. ElementsLast(elements, at)
  <2>1. ASSUME NEW k \in 1..l
        PROVE  /\ elements[k].duration \in Nat
               /\ elements[k].duration = at[k + 1] - at[k]
    <3>1. /\ at[k] \in Nat /\ at[k + 1] \in Nat /\ at[k] < at[k + 1]
          /\ all[k].duration = at[k + 1] - at[k]
      BY <1>1
    <3>2. elements[k].duration = all[k].duration
      BY <1>6
    <3>3. at[k + 1] - at[k] \in Nat
      BY <3>1
    <3> QED BY <3>1, <3>2, <3>3
  <2> QED BY <1>1, <1>5, <2>1 DEF ElementsLast
<1> QED BY <1>1, <1>5, <1>6, <1>7 DEF W, l

\* The bar lines are where the pieces of a measure end, and the score where the last
\* one ends.
LEMMA CutsAtBars ==
  ASSUME NEW timeline \in Seq(Items), Contiguous(timeline), NEW capacity \in Nat \ {0},
         NEW all, NEW at, NEW ends, NEW bar, IsScore(timeline, capacity, all, at, ends, bar),
         NEW n, n = MeasureCount(timeline, capacity),
         NEW cut, AreCuts(cut, n, Len(all)), IsCutByMeasure(cut, all, n), NEW m \in 1..n
  PROVE  at[cut[m] + 1] - at[cut[m - 1] + 1] =
           IF m < n THEN capacity ELSE FinalUsed(timeline, capacity)
<1> DEFINE l == Len(all)
           used == FinalUsed(timeline, capacity)
           end == Last(timeline).offset
<1>1. /\ l \in Nat /\ at \in [1..(l + 1) -> Nat] /\ at[1] = 0
      /\ \A k \in 1..l :
           /\ all[k].measure \in Nat \ {0}
           /\ bar[all[k].measure - 1] <= at[k] /\ at[k + 1] <= bar[all[k].measure]
      /\ timeline = <<>> => l = 0
      /\ timeline # <<>> => at[l + 1] = end
  BY ScoreTimes
<1>2. AreBars(bar, capacity)
  BY DEF IsScore
<1>3. /\ n \in Nat \ {0}
      /\ timeline = <<>> => n = 1 /\ used = 0
      /\ timeline # <<>> => /\ end \in Nat /\ n - 1 \in Nat /\ bar[n - 1] <= end - 1
                            /\ used = end - bar[n - 1]
  BY <1>2, MeasuresCounted
<1>4. /\ bar \in [Nat -> Nat] /\ bar[0] = 0
      /\ \A i, j \in Nat : i < j => bar[i + 1] <= bar[j]
      /\ \A j \in Nat : bar[j + 1] = bar[j] + capacity
  BY <1>2 DEF AreBars
<1>5. /\ cut \in [0..n -> Nat] /\ cut[0] = 0 /\ cut[n] = l
      /\ \A j \in 1..n : cut[j] <= l
      /\ \A j \in 0..n : \A i \in 1..l : i <= cut[j] <=> all[i].measure <= j
  BY DEF AreCuts, IsCutByMeasure
<1> HIDE DEF l, used, end
<1>6. \A i, j \in Nat : i <= j => bar[i] <= bar[j]
  <2> TAKE i \in Nat, j \in Nat
  <2>1. CASE i < j
    <3>1. bar[i] \in Nat /\ bar[i + 1] \in Nat /\ bar[j] \in Nat
      <4>1. i + 1 \in Nat
        OBVIOUS
      <4>2. bar \in [Nat -> Nat]
        BY ONLY <1>4
      <4> QED BY ONLY <4>1, <4>2, i \in Nat, j \in Nat
    <3>2. bar[i + 1] = bar[i] + capacity
      BY <1>4
    <3>3. bar[i + 1] <= bar[j]
      BY <1>4, <2>1
    <3> QED BY <3>1, <3>2, <3>3
  <2>2. CASE i = j
    BY <1>4, <2>2
  <2> QED BY <2>1, <2>2
<1>7. ASSUME NEW j \in 0..n, j < n PROVE at[cut[j] + 1] = bar[j]
  <2> DEFINE c == cut[j]
  <2>1. j \in Nat /\ j + 1 \in Nat /\ c \in Nat /\ c <= l /\ c + 1 \in 1..(l + 1) /\ bar[j] \in Nat
    <3>1. j \in Nat /\ bar[j] \in Nat
      BY <1>4
    <3>2. c \in Nat /\ c <= l
      <4>1. CASE j = 0
        BY <1>1, <1>5, <4>1
      <4>2. CASE j # 0
        <5>1. j \in 1..n
          BY <1>3, <4>2
        <5> QED BY <1>5, <5>1
      <4> QED BY <4>1, <4>2
    <3> HIDE DEF c
    <3> QED BY <1>1, <3>1, <3>2
  <2>2. \A i \in 1..l : i <= c <=> all[i].measure <= j
    BY <1>5
  <2> HIDE DEF c
  <2>3. at[c + 1] \in Nat
    BY <1>1, <2>1
  <2>4. at[c + 1] <= bar[j]
    <3>1. CASE c = 0
      BY <1>1, <2>1, <3>1
    <3>2. CASE c # 0
      <4>1. c \in 1..l
        BY <1>1, <2>1, <3>2
      <4>2. all[c].measure \in Nat /\ all[c].measure <= j /\ at[c + 1] <= bar[all[c].measure]
        <5>1. all[c].measure \in Nat /\ at[c + 1] <= bar[all[c].measure]
          BY ONLY <1>1, <4>1
        <5>2. all[c].measure <= j
          BY ONLY <2>1, <2>2, <4>1
        <5> QED BY <5>1, <5>2
      <4>3. bar[all[c].measure] <= bar[j] /\ bar[all[c].measure] \in Nat
        <5>1. all[c].measure \in Nat /\ j \in Nat /\ all[c].measure <= j
          BY ONLY <2>1, <4>2
        <5>2. bar[all[c].measure] <= bar[j]
          BY ONLY <1>6, <5>1
        <5>3. bar \in [Nat -> Nat]
          BY ONLY <1>4
        <5> QED BY ONLY <5>1, <5>2, <5>3
      <4> QED BY ONLY <2>1, <2>3, <4>2, <4>3
    <3> QED BY <3>1, <3>2
  <2>5. bar[j] <= at[c + 1]
    <3>1. CASE c = l
      <4>0. CASE timeline = <<>>
        <5>1. n = 1 /\ l = 0 /\ j = 0
          BY <1>1, <1>3, <1>7, <4>0
        <5> QED BY <1>1, <1>4, <3>1, <5>1
      <4> SUFFICES ASSUME timeline # <<>> PROVE bar[j] <= at[c + 1]
        BY <4>0
      <4>1. timeline # <<>>
        OBVIOUS
      <4>2. at[c + 1] = end /\ end \in Nat /\ bar[n - 1] <= end - 1 /\ n - 1 \in Nat
        BY <1>1, <1>3, <3>1, <4>1
      <4>3. j <= n - 1
        BY <1>3, <1>7, <2>1
      <4>4. bar[j] <= bar[n - 1] /\ bar[n - 1] \in Nat
        BY <1>4, <1>6, <2>1, <4>2, <4>3
      <4> QED BY <2>1, <4>2, <4>4
    <3>2. CASE c # l
      <4> DEFINE i == c + 1
                 p == all[i].measure
      <4>1. i \in 1..l /\ ~(i <= c)
        BY <1>1, <2>1, <3>2
      <4>2. p \in Nat \ {0} /\ bar[p - 1] <= at[i] /\ ~(p <= j)
        BY <1>1, <2>2, <4>1
      <4> HIDE DEF p
      <4>3. p - 1 \in Nat /\ j <= p - 1
        BY <2>1, <4>2
      <4>4. bar[j] <= bar[p - 1] /\ bar[p - 1] \in Nat
        BY <1>4, <1>6, <2>1, <4>3
      <4> QED BY <2>1, <2>3, <4>2, <4>4
    <3> QED BY <3>1, <3>2
  <2> QED BY <2>1, <2>3, <2>4, <2>5 DEF c
<1>8. m \in Nat /\ m - 1 \in 0..n /\ m - 1 < n /\ m - 1 \in Nat /\ m \in 0..n /\ (m - 1) + 1 = m
  BY <1>3
<1>9. at[cut[m - 1] + 1] = bar[m - 1] /\ bar[m - 1] \in Nat
  BY <1>4, <1>7, <1>8
<1>10. CASE m < n
  <2>1. at[cut[m] + 1] = bar[m]
    BY <1>7, <1>8, <1>10
  <2>2. bar[m] = bar[m - 1] + capacity
    BY <1>4, <1>8
  <2> QED BY <1>9, <1>10, <2>1, <2>2
<1>11. CASE ~(m < n)
  <2>1. m = n /\ cut[m] = l
    BY <1>3, <1>5, <1>11
  <2>2. CASE timeline = <<>>
    <3>1. n = 1 /\ used = 0 /\ l = 0 /\ m - 1 = 0
      BY <1>1, <1>3, <2>1, <2>2
    <3>2. at[cut[m] + 1] = 0 /\ at[cut[m - 1] + 1] = 0
      BY <1>1, <1>4, <1>9, <2>1, <3>1
    <3> QED BY <1>11, <3>1, <3>2 DEF used
  <2>3. CASE timeline # <<>>
    BY <1>1, <1>3, <1>9, <1>11, <2>1, <2>3 DEF used
  <2> QED BY <2>2, <2>3
<1> QED BY <1>10, <1>11

-----------------------------------------------------------------------------
(* Ties.                                                                              *)

\* The j-th of the elements of item i.
IsElementOf(elements, timeline, ends, k, i, j) ==
  /\ i \in 1..Len(timeline) /\ j \in 1..(ends[i] - ends[i - 1]) /\ k = ends[i - 1] + j
  /\ elements[k].rest = timeline[i].rest
  /\ elements[k].tie_start = (~timeline[i].rest /\ j < ends[i] - ends[i - 1])
  /\ elements[k].tie_stop = (~timeline[i].rest /\ j > 1)

\* The elements of a score, item by item.
AreElements(elements, timeline, ends) ==
  /\ Len(elements) \in Nat /\ DOMAIN elements = 1..Len(elements)
  /\ Len(timeline) \in Nat /\ DOMAIN timeline = 1..Len(timeline)
  /\ \A i \in 1..Len(timeline) : timeline[i].rest \in BOOLEAN
  /\ ends \in [0..Len(timeline) -> Nat]
  /\ \A i \in 1..Len(timeline) : /\ ends[i - 1] \in Nat /\ ends[i] \in Nat
                                  /\ ends[i - 1] < ends[i] /\ ends[i] <= Len(elements)
  /\ \A k \in 1..Len(elements) : \E i, j \in Nat : IsElementOf(elements, timeline, ends, k, i, j)
  /\ \A i \in 1..Len(timeline) : \A j \in 1..(ends[i] - ends[i - 1]) :
       IsElementOf(elements, timeline, ends, ends[i - 1] + j, i, j)

LEMMA ElementsOfItems ==
  ASSUME NEW timeline \in Seq(Items), NEW capacity \in Nat \ {0}, NEW all, NEW at, NEW ends, NEW bar,
         IsScore(timeline, capacity, all, at, ends, bar), NEW events,
         NEW elements, elements = Elements(all, events)
  PROVE  AreElements(elements, timeline, ends)
<1> DEFINE l == Len(all)
           n == Len(timeline)
<1>1. /\ Len(elements) = l /\ l \in Nat /\ DOMAIN elements = 1..l
      /\ \A k \in 1..l :
           /\ elements[k].rest = all[k].item.rest
           /\ elements[k].tie_start = (~all[k].item.rest /\ all[k].index < all[k].count)
           /\ elements[k].tie_stop = (~all[k].item.rest /\ all[k].index > 1)
  BY ONLY timeline \in Seq(Items), capacity \in Nat \ {0},
          IsScore(timeline, capacity, all, at, ends, bar), elements = Elements(all, events),
          ElementsComputed
<1>2. n \in Nat /\ DOMAIN timeline = 1..n
  OBVIOUS
<1>3. \A i \in 1..n : timeline[i].rest \in BOOLEAN
  <2> TAKE i \in 1..n
  <2>1. timeline[i] \in Items
    OBVIOUS
  <2> QED BY <2>1 DEF Items
<1>4. IsCutting(timeline, all, at, ends, bar, n)
  BY DEF IsScore
<1>5. /\ ends \in [0..n -> Nat] /\ ends[n] = l
      /\ \A i \in 1..n :
           /\ ends[i - 1] < ends[i]
           /\ \A j \in 1..(ends[i] - ends[i - 1]) :
                IsPiece(all[ends[i - 1] + j], timeline[i], i, j, ends[i] - ends[i - 1])
  BY <1>4 DEF IsCutting
<1> HIDE DEF l, n
<1>6. \A i \in 1..n : ends[i] <= l /\ ends[i] \in Nat /\ ends[i - 1] \in Nat
  <2> TAKE i \in 1..n
  <2>1. i \in 0..n /\ i - 1 \in 0..n
    BY <1>2
  <2>2. \A j \in 0..n : ends[j] <= ends[n]
    BY <1>2, <1>5, EndsGrow
  <2> QED BY <1>5, <2>1, <2>2
<1>7. ASSUME NEW i \in 1..n, NEW j \in 1..(ends[i] - ends[i - 1])
      PROVE  IsElementOf(elements, timeline, ends, ends[i - 1] + j, i, j)
  <2> DEFINE k == ends[i - 1] + j
             c == ends[i] - ends[i - 1]
  <2>1. k \in 1..l
    BY <1>1, <1>6
  <2>2. IsPiece(all[k], timeline[i], i, j, c)
    BY <1>5
  <2> HIDE DEF k, c
  <2>3. all[k].item = timeline[i] /\ all[k].index = j /\ all[k].count = c
    BY ONLY <2>2 DEF IsPiece
  <2>4. /\ elements[k].rest = timeline[i].rest
        /\ elements[k].tie_start = (~timeline[i].rest /\ j < c)
        /\ elements[k].tie_stop = (~timeline[i].rest /\ j > 1)
    BY ONLY <1>1, <2>1, <2>3
  <2> QED BY <2>4 DEF IsElementOf, k, c, n
<1>8. ASSUME NEW k \in 1..l
      PROVE  \E i, j \in Nat : IsElementOf(elements, timeline, ends, k, i, j)
  <2>1. \E i \in 1..n : \E j \in 1..(ends[i] - ends[i - 1]) :
          /\ k = ends[i - 1] + j
          /\ IsPiece(all[k], timeline[i], i, j, ends[i] - ends[i - 1])
    BY <1>2, <1>4, PieceOfItem DEF l
  <2>2. PICK i \in 1..n : \E j \in 1..(ends[i] - ends[i - 1]) : k = ends[i - 1] + j
    BY <2>1
  <2>3. PICK j \in 1..(ends[i] - ends[i - 1]) : k = ends[i - 1] + j
    BY <2>2
  <2>4. i \in Nat /\ j \in Nat
    BY <1>2, <1>6
  <2> QED BY <1>7, <2>3, <2>4
<1> QED BY <1>1, <1>2, <1>3, <1>5, <1>6, <1>7, <1>8 DEF AreElements, l, n

LEMMA ElementsTied ==
  ASSUME NEW elements, NEW timeline, NEW ends, AreElements(elements, timeline, ends)
  PROVE  TiesJoin(elements)
<1> DEFINE l == Len(elements)
<1>1. /\ l \in Nat /\ DOMAIN elements = 1..l
      /\ \A i \in 1..Len(timeline) : /\ ends[i - 1] < ends[i] /\ ends[i] <= l
                                     /\ ends[i - 1] \in Nat /\ ends[i] \in Nat
                                     /\ timeline[i].rest \in BOOLEAN
      /\ \A k \in 1..l : \E i, j \in Nat : IsElementOf(elements, timeline, ends, k, i, j)
      /\ \A i \in 1..Len(timeline) : \A j \in 1..(ends[i] - ends[i - 1]) :
           IsElementOf(elements, timeline, ends, ends[i - 1] + j, i, j)
  BY DEF AreElements
<1>2. Sounding(elements) = {k \in 1..l : ~elements[k].rest}
  BY <1>1 DEF Sounding
<1> HIDE DEF l
<1>3. ASSUME NEW k \in Sounding(elements)
      PROVE  /\ elements[k].tie_start => k + 1 \in Sounding(elements) /\ elements[k + 1].tie_stop
             /\ elements[k].tie_stop => k - 1 \in Sounding(elements) /\ elements[k - 1].tie_start
  <2>1. k \in 1..l /\ ~elements[k].rest
    BY <1>2
  <2>2. PICK i \in Nat, j \in Nat : IsElementOf(elements, timeline, ends, k, i, j)
    BY <1>1, <2>1
  <2> DEFINE a == ends[i - 1]
             c == ends[i] - ends[i - 1]
  <2>3. /\ i \in 1..Len(timeline) /\ j \in 1..c /\ k = a + j
        /\ elements[k].rest = timeline[i].rest
        /\ elements[k].tie_start = (~timeline[i].rest /\ j < c)
        /\ elements[k].tie_stop = (~timeline[i].rest /\ j > 1)
    BY <2>2 DEF IsElementOf
  <2>4. a \in Nat /\ c \in Nat /\ a + c <= l /\ \A x \in 1..c : IsElementOf(elements, timeline, ends, a + x, i, x)
    <3>1. a \in Nat /\ ends[i] \in Nat /\ a < ends[i] /\ ends[i] <= l
      BY <1>1, <2>3
    <3>2. c \in Nat /\ a + c = ends[i]
      BY <3>1
    <3>3. \A x \in 1..c : IsElementOf(elements, timeline, ends, a + x, i, x)
      BY <1>1, <2>3
    <3> QED BY <3>1, <3>2, <3>3
  <2>5. \A x \in 1..c : /\ elements[a + x].rest = timeline[i].rest
                        /\ elements[a + x].tie_start = (~timeline[i].rest /\ x < c)
                        /\ elements[a + x].tie_stop = (~timeline[i].rest /\ x > 1)
    BY <2>4 DEF IsElementOf
  <2> HIDE DEF a, c
  <2>6. ~timeline[i].rest
    BY <2>1, <2>3
  <2>7. ASSUME elements[k].tie_start
        PROVE  k + 1 \in Sounding(elements) /\ elements[k + 1].tie_stop
    <3>1. j < c
      BY <2>3, <2>7
    <3>2. j + 1 \in 1..c /\ j + 1 > 1 /\ k + 1 = a + (j + 1) /\ k + 1 \in 1..l
      BY <1>1, <2>3, <2>4, <3>1
    <3>3. ~elements[a + (j + 1)].rest /\ elements[a + (j + 1)].tie_stop
      BY <2>5, <2>6, <3>2
    <3> QED BY <1>2, <3>2, <3>3
  <2>8. ASSUME elements[k].tie_stop
        PROVE  k - 1 \in Sounding(elements) /\ elements[k - 1].tie_start
    <3>1. j > 1
      BY <2>3, <2>8
    <3>2. j - 1 \in 1..c /\ j - 1 < c /\ k - 1 = a + (j - 1) /\ k - 1 \in 1..l
      BY <1>1, <2>3, <2>4, <3>1
    <3>3. ~elements[a + (j - 1)].rest /\ elements[a + (j - 1)].tie_start
      BY <2>5, <2>6, <3>2
    <3> QED BY <1>2, <3>2, <3>3
  <2> QED BY <2>7, <2>8
<1> QED BY <1>3 DEF TiesJoin

SoundingItems(timeline) == {i \in 1..Len(timeline) : ~timeline[i].rest}

\* The elements that begin a note are the first ones of the notes.
LEMMA BeginningsOfNotes ==
  ASSUME NEW elements, NEW timeline, NEW ends, AreElements(elements, timeline, ends),
         NEW S, S = SoundingItems(timeline)
  PROVE  /\ \A i \in S : ends[i - 1] + 1 \in Beginnings(elements)
         /\ \A k \in Beginnings(elements) : \E i \in S : k = ends[i - 1] + 1
<1> DEFINE l == Len(elements)
<1>1. /\ l \in Nat /\ DOMAIN elements = 1..l
      /\ \A i \in 1..Len(timeline) : /\ ends[i - 1] < ends[i] /\ ends[i] <= l
                                     /\ ends[i - 1] \in Nat /\ ends[i] \in Nat
      /\ \A k \in 1..l : \E i, j \in Nat : IsElementOf(elements, timeline, ends, k, i, j)
      /\ \A i \in 1..Len(timeline) : \A j \in 1..(ends[i] - ends[i - 1]) :
           IsElementOf(elements, timeline, ends, ends[i - 1] + j, i, j)
  BY DEF AreElements
<1>2. Beginnings(elements) = {k \in 1..l : ~elements[k].rest /\ ~elements[k].tie_stop}
  BY <1>1 DEF Beginnings, Sounding
<1> HIDE DEF l
<1>3. ASSUME NEW i \in S PROVE ends[i - 1] + 1 \in Beginnings(elements)
  <2>1. i \in 1..Len(timeline) /\ ~timeline[i].rest
    BY DEF SoundingItems
  <2>2. 1 \in 1..(ends[i] - ends[i - 1]) /\ ends[i - 1] + 1 \in 1..l
    <3> DEFINE a == ends[i - 1]
               b == ends[i]
    <3>1. a \in Nat /\ b \in Nat /\ a < b /\ b <= l
      BY <1>1, <2>1
    <3> HIDE DEF a, b
    <3>2. 1 \in 1..(b - a) /\ a + 1 \in 1..l
      BY <1>1, <3>1
    <3> QED BY <3>2 DEF a, b
  <2>3. IsElementOf(elements, timeline, ends, ends[i - 1] + 1, i, 1)
    BY <1>1, <2>1, <2>2
  <2>4. ~elements[ends[i - 1] + 1].rest /\ ~elements[ends[i - 1] + 1].tie_stop
    <3>1. /\ elements[ends[i - 1] + 1].rest = timeline[i].rest
          /\ elements[ends[i - 1] + 1].tie_stop = (~timeline[i].rest /\ 1 > 1)
      BY ONLY <2>3 DEF IsElementOf
    <3>2. ~(1 > 1)
      OBVIOUS
    <3> QED BY ONLY <2>1, <3>1, <3>2
  <2> QED BY <1>2, <2>2, <2>4
<1>4. ASSUME NEW k \in Beginnings(elements) PROVE \E i \in S : k = ends[i - 1] + 1
  <2>1. k \in 1..l /\ ~elements[k].rest /\ ~elements[k].tie_stop
    BY <1>2
  <2>2. PICK i \in Nat, j \in Nat : IsElementOf(elements, timeline, ends, k, i, j)
    BY <1>1, <2>1
  <2>3. /\ i \in 1..Len(timeline) /\ j \in Nat /\ j >= 1 /\ k = ends[i - 1] + j
        /\ elements[k].rest = timeline[i].rest
        /\ elements[k].tie_stop = (~timeline[i].rest /\ j > 1)
    BY <2>2 DEF IsElementOf
  <2>4. ~timeline[i].rest /\ ~(j > 1)
    BY <2>1, <2>3
  <2>5. j = 1
    BY <2>3, <2>4
  <2> QED BY <2>3, <2>4, <2>5 DEF SoundingItems
<1> QED BY <1>3, <1>4

\* The ties of the first element of a note end with the last one.
LEMMA TiesEnd ==
  ASSUME NEW elements, NEW timeline, NEW ends, AreElements(elements, timeline, ends),
         NEW i \in 1..Len(timeline), ~timeline[i].rest
  PROVE  TieEnd(elements, ends[i - 1] + 1) = ends[i]
<1> DEFINE l == Len(elements)
           a == ends[i - 1]
           b == ends[i]
           T == {j \in Sounding(elements) : j >= a + 1 /\ ~elements[j].tie_start}
<1>1. l \in Nat /\ DOMAIN elements = 1..l /\ a \in Nat /\ b \in Nat /\ a < b /\ b <= l
  BY DEF AreElements
<1>2. \A j \in 1..(b - a) : /\ elements[a + j].rest = timeline[i].rest
                            /\ elements[a + j].tie_start = (~timeline[i].rest /\ j < b - a)
  BY DEF AreElements, IsElementOf
<1>3. T = {j \in 1..l : ~elements[j].rest /\ j >= a + 1 /\ ~elements[j].tie_start}
  BY <1>1 DEF Sounding
<1>4. TieEnd(elements, a + 1) = Min(T)
  BY DEF TieEnd
<1> HIDE DEF l, a, b, T
<1>5. b \in T
  <2>1. b - a \in 1..(b - a) /\ a + (b - a) = b /\ b \in 1..l /\ b >= a + 1
    BY <1>1
  <2>2. ~elements[b].rest /\ ~elements[b].tie_start
    <3>1. /\ elements[a + (b - a)].rest = timeline[i].rest
          /\ elements[a + (b - a)].tie_start = (~timeline[i].rest /\ b - a < b - a)
      BY <1>2, <2>1
    <3>2. ~(b - a < b - a)
      BY <1>1
    <3> QED BY <2>1, <3>1, <3>2
  <2> QED BY <1>3, <2>1, <2>2
<1>6. \A j \in T : b <= j /\ j \in Nat
  <2> TAKE j \in T
  <2>1. j \in 1..l /\ j >= a + 1 /\ ~elements[j].tie_start
    BY <1>3
  <2>2. CASE j < b
    <3>1. j - a \in 1..(b - a) /\ j - a < b - a /\ a + (j - a) = j
      BY <1>1, <2>1, <2>2
    <3>2. elements[a + (j - a)].tie_start = (~timeline[i].rest /\ j - a < b - a)
      BY <1>2, <3>1
    <3> QED BY <2>1, <3>1, <3>2
  <2>3. CASE ~(j < b)
    BY <1>1, <2>1, <2>3
  <2> QED BY <2>2, <2>3
<1>7. Min(T) = b
  <2>1. Min(T) = CHOOSE x \in T : \A y \in T : x <= y
    BY DEF Min
  <2>2. \E x \in T : \A y \in T : x <= y
    BY <1>5, <1>6
  <2> DEFINE x == Min(T)
  <2>3. x \in T /\ \A y \in T : x <= y
    BY <2>1, <2>2
  <2> HIDE DEF x
  <2>4. x = b
    BY <1>1, <1>5, <1>6, <2>3
  <2> QED BY <2>4 DEF x
<1> QED BY <1>4, <1>7 DEF a, b

\* The r-th of rising numbers has r - 1 of them below it.
Lower(B, y) == {x \in B : x < y}

\* The numbers of f are those of B.
AreNumbers(f, m, B) == /\ \A r \in 1..m : f[r] \in B
                       /\ \A x \in B : \E r \in 1..m : x = f[r]

LEMMA RisingCounts ==
  ASSUME NEW m \in Nat, NEW f, Rising(f, m), NEW B, AreNumbers(f, m, B)
  PROVE  /\ IsFiniteSet(B) /\ Cardinality(B) = m
         /\ \A r \in 1..m : Cardinality(Lower(B, f[r])) = r - 1
<1>1. f \in [1..m -> Nat] /\ \A i, j \in 1..m : i < j => f[i] < f[j]
  BY DEF Rising
<1>2. \A i, j \in 1..m : f[i] = f[j] => i = j
  <2> TAKE i \in 1..m, j \in 1..m
  <2>1. f[i] \in Nat /\ f[j] \in Nat /\ (i < j => f[i] < f[j]) /\ (j < i => f[j] < f[i])
    BY <1>1
  <2> QED BY <2>1
<1>3. ASSUME NEW n \in 0..m, NEW C, \A r \in 1..n : f[r] \in C, \A x \in C : \E r \in 1..n : x = f[r]
      PROVE  IsFiniteSet(C) /\ Cardinality(C) = n
  <2> DEFINE U == 1..n
             g == [r \in U |-> f[r]]
  <2>1. n \in Nat /\ IsFiniteSet(U) /\ Cardinality(U) = n /\ U \subseteq 1..m
    <3>1. n \in Nat /\ U \subseteq 1..m
      OBVIOUS
    <3> QED BY <3>1, CardinalityOfFirst
  <2> HIDE DEF U
  <2>2. g \in [U -> C] /\ \A r \in U : g[r] = f[r]
    BY <1>3 DEF U
  <2>3. \A x \in C : \E r \in U : g[r] = x
    BY <1>3, <2>2 DEF U
  <2>4. \A i, j \in U : g[i] = g[j] => i = j
    BY <1>2, <2>1, <2>2
  <2> HIDE DEF g
  <2>5. g \in Surjection(U, C)
    BY <2>2, <2>3 DEF Surjection
  <2>6. g \in Injection(U, C)
    BY <2>2, <2>4 DEF Injection, IsInjective
  <2> QED BY <2>1, <2>5, <2>6, FS_Surjection
<1>4. IsFiniteSet(B) /\ Cardinality(B) = m
  <2>1. m \in 0..m
    OBVIOUS
  <2> QED BY <1>3, <2>1 DEF AreNumbers
<1>5. ASSUME NEW r \in 1..m PROVE Cardinality(Lower(B, f[r])) = r - 1
  <2> DEFINE C == Lower(B, f[r])
  <2>0. C = {x \in B : x < f[r]}
    BY DEF Lower
  <2>1. r - 1 \in 0..m /\ \A i \in 1..(r - 1) : i \in 1..m /\ i < r
    OBVIOUS
  <2>2. \A i \in 1..(r - 1) : f[i] \in C
    BY <1>1, <2>0, <2>1 DEF AreNumbers
  <2>3. \A x \in C : \E i \in 1..(r - 1) : x = f[i]
    <3> TAKE x \in C
    <3>1. x \in B /\ x < f[r]
      BY <2>0
    <3>2. PICK i \in 1..m : x = f[i]
      BY <3>1 DEF AreNumbers
    <3>3. f[i] \in Nat /\ f[r] \in Nat /\ f[i] < f[r] /\ (r < i => f[r] < f[i])
      BY <1>1, <3>1, <3>2
    <3>4. i < r
      BY <3>3
    <3>5. i \in 1..(r - 1)
      BY <3>4
    <3> QED BY <3>2, <3>5
  <2> HIDE DEF C
  <2>4. Cardinality(C) = r - 1
    BY <1>3, <2>1, <2>2, <2>3
  <2> QED BY <2>4 DEF C
<1> QED BY <1>4, <1>5

\* The elements of a list before and between two positions.
LEMMA PartsOfList ==
  ASSUME NEW V, NEW s \in Lists(V), NEW a \in Nat, NEW b \in Nat, a < b, b <= Len(s)
  PROVE  /\ SubSeq(s, 1, a) \in Lists(V) /\ Len(SubSeq(s, 1, a)) = a
         /\ \A j \in 1..a : SubSeq(s, 1, a)[j] = s[j]
         /\ SubSeq(s, a + 1, b) \in Lists(V) /\ Len(SubSeq(s, a + 1, b)) = b - a
         /\ \A j \in 1..(b - a) : SubSeq(s, a + 1, b)[j] = s[a + j]
<1>1. Len(s) \in Nat /\ \A i \in 1..Len(s) : s[i] \in V
  BY DEF Lists
<1>2. /\ SubSeq(s, 1, a) \in Seq(V) /\ Len(SubSeq(s, 1, a)) = (IF 1 <= a THEN a - 1 + 1 ELSE 0)
      /\ \A j \in 1..(a - 1 + 1) : SubSeq(s, 1, a)[j] = s[1 + j - 1]
  <2>1. 1 \in Int /\ a \in Int /\ \A i \in 1..a : s[i] \in V
    BY <1>1
  <2> QED BY ONLY <2>1, SubSeqProperties
<1>3. /\ SubSeq(s, a + 1, b) \in Seq(V)
      /\ Len(SubSeq(s, a + 1, b)) = (IF a + 1 <= b THEN b - (a + 1) + 1 ELSE 0)
      /\ \A j \in 1..(b - (a + 1) + 1) : SubSeq(s, a + 1, b)[j] = s[(a + 1) + j - 1]
  <2> DEFINE m == a + 1
  <2>1. m \in Int /\ b \in Int /\ \A i \in m..b : s[i] \in V
    BY <1>1
  <2> HIDE DEF m
  <2>2. /\ SubSeq(s, m, b) \in Seq(V)
        /\ Len(SubSeq(s, m, b)) = (IF m <= b THEN b - m + 1 ELSE 0)
        /\ \A j \in 1..(b - m + 1) : SubSeq(s, m, b)[j] = s[m + j - 1]
    BY ONLY <2>1, SubSeqProperties
  <2> QED BY <2>2 DEF m
<1>4. a - 1 + 1 = a /\ \A j \in 1..a : 1 + j - 1 = j
  OBVIOUS
<1>5. b - (a + 1) + 1 = b - a /\ a + 1 <= b /\ \A j \in 1..(b - a) : (a + 1) + j - 1 = a + j
  OBVIOUS
<1>6. Len(SubSeq(s, 1, a)) = a
  BY <1>2
<1>7. \A j \in 1..a : SubSeq(s, 1, a)[j] = s[j]
  BY <1>2, <1>4
<1>8. Len(SubSeq(s, a + 1, b)) = b - a
  BY <1>3, <1>5
<1>9. \A j \in 1..(b - a) : SubSeq(s, a + 1, b)[j] = s[a + j]
  BY <1>3, <1>5
<1> QED BY <1>2, <1>3, <1>6, <1>7, <1>8, <1>9 DEF Lists

\* Every note begins and ends with its elements.
LEMMA NotesOfElements ==
  ASSUME NEW timeline \in Seq(Items), Contiguous(timeline), NEW capacity \in Nat \ {0},
         NEW all, NEW at, NEW ends, NEW bar, IsScore(timeline, capacity, all, at, ends, bar),
         NEW events, NEW elements, elements = Elements(all, events)
  PROVE  NotesLast(elements, NoteItems(timeline))
<1> DEFINE n == Len(timeline)
           l == Len(elements)
           S == {i \in 1..n : ~timeline[i].rest}
           m == Cardinality(S)
           order == Ascending(S)
           notes == NoteItems(timeline)
           B == Beginnings(elements)
           f == [r \in 1..m |-> ends[order[r] - 1] + 1]
           V == ElementValues(all, events)
<1>1. AreElements(elements, timeline, ends)
  BY ElementsOfItems
<1>2. elements \in Lists(V) /\ ElementsLast(elements, at) /\ l = Len(all)
  BY ElementsComputed
<1>3. /\ n \in Nat /\ DOMAIN timeline = 1..n /\ ends \in [0..n -> Nat] /\ l \in Nat
      /\ \A i \in 1..n : ends[i - 1] < ends[i] /\ ends[i] <= l
  BY <1>1 DEF AreElements
<1>4. at[1] = 0 /\ \A i \in 1..n : /\ at[ends[i - 1] + 1] = timeline[i].onset
                                  /\ at[ends[i] + 1] = timeline[i].offset
  BY DEF IsScore, IsCutting
<1>5. notes = Pick(timeline, S)
  BY <1>3 DEF NoteItems
<1>6. S \in SUBSET (1..n) /\ \A i \in S : i \in 1..n /\ ~timeline[i].rest
  OBVIOUS
<1>7. /\ \A i \in S : ends[i - 1] + 1 \in B
      /\ \A k \in B : \E i \in S : k = ends[i - 1] + 1
  <2>1. S = SoundingItems(timeline)
    BY DEF SoundingItems
  <2> HIDE DEF S
  <2> QED BY ONLY <1>1, <2>1, BeginningsOfNotes
<1> HIDE DEF S, B, V, l, notes
<1>8. /\ m \in Nat /\ Len(notes) = m
      /\ order \in [1..m -> S]
      /\ \A i, j \in 1..m : i < j => order[i] < order[j]
      /\ \A x \in S : \E k \in 1..m : order[k] = x
      /\ \A k \in 1..m : notes[k] = timeline[order[k]]
  BY <1>5, <1>6, Picked DEF n
<1> HIDE DEF n, m, order
<1>9. \A r \in 1..m : order[r] \in S /\ order[r] \in 1..n
  BY <1>6, <1>8
<1>10. \A i, j \in 1..n : i < j => ends[i - 1] < ends[j - 1]
  <2> DEFINE g == [i \in 1..n |-> ends[i - 1]]
  <2>1. g \in [1..n -> Nat]
    <3>1. \A i \in 1..n : i - 1 \in 0..n
      BY <1>3
    <3> QED BY <1>3, <3>1
  <2>2. \A i \in 1..n : i + 1 \in 1..n => g[i] < g[i + 1]
    <3> TAKE i \in 1..n
    <3>1. (i + 1) - 1 = i
      BY <1>3
    <3> QED BY <1>3, <3>1
  <2>3. \A i \in 1..n : g[i] = ends[i - 1]
    OBVIOUS
  <2> HIDE DEF g
  <2>4. Rising(g, n)
    BY <1>3, <2>1, <2>2, RisingSteps
  <2> QED BY <2>3, <2>4 DEF Rising
<1>11. Rising(f, m)
  <2>1. ASSUME NEW r \in 1..m PROVE f[r] \in Nat /\ f[r] = ends[order[r] - 1] + 1
                                    /\ ends[order[r] - 1] \in Nat
    <3>1. order[r] - 1 \in 0..n
      <4>1. order[r] \in 1..n /\ n \in Nat
        BY <1>3, <1>9
      <4> HIDE DEF f
      <4> QED BY ONLY <4>1
    <3> QED BY <1>3, <3>1
  <2>2. f \in [1..m -> Nat]
    BY <2>1
  <2>3. ASSUME NEW i \in 1..m, NEW j \in 1..m, i < j PROVE f[i] < f[j]
    <3>1. order[i] \in 1..n /\ order[j] \in 1..n /\ order[i] < order[j]
      BY <1>8, <1>9, <2>3
    <3>2. ends[order[i] - 1] < ends[order[j] - 1]
      BY <1>10, <3>1
    <3> QED BY <2>1, <3>2
  <2> QED BY <2>2, <2>3 DEF Rising
<1>12. \A r \in 1..m : f[r] = ends[order[r] - 1] + 1
  OBVIOUS
<1> HIDE DEF f
<1>13. \A r \in 1..m : f[r] \in B
  BY <1>7, <1>9, <1>12
<1>14. \A k \in B : \E r \in 1..m : k = f[r]
  <2> TAKE k \in B
  <2>1. PICK i \in S : k = ends[i - 1] + 1
    BY <1>7
  <2>2. PICK r \in 1..m : order[r] = i
    BY <1>8
  <2> QED BY <1>12, <2>1, <2>2
<1>15. Cardinality(B) = m /\ \A r \in 1..m : Cardinality(Lower(B, f[r])) = r - 1
  <2>1. m \in Nat
    BY <1>8
  <2>2. AreNumbers(f, m, B)
    BY <1>13, <1>14 DEF AreNumbers
  <2> QED BY ONLY <1>11, <2>1, <2>2, RisingCounts
<1>16. ASSUME NEW k \in B
       PROVE  LET note == notes[Cardinality({j \in B : j < k}) + 1]
              IN /\ Length(SubSeq(elements, 1, k - 1)) = note.onset
                 /\ Length(SubSeq(elements, k, TieEnd(elements, k))) = note.offset - note.onset
  <2>1. PICK r \in 1..m : k = f[r]
    BY <1>14
  <2> DEFINE i == order[r]
             a == ends[i - 1]
             b == ends[i]
  <2>2. i \in 1..n /\ ~timeline[i].rest /\ k = a + 1
    BY <1>6, <1>9, <1>12, <2>1
  <2>3. Cardinality({j \in B : j < k}) + 1 = r
    <3>1. Cardinality({j \in B : j < k}) = r - 1
      BY <1>15, <2>1 DEF Lower
    <3>2. r \in Nat
      BY <1>8
    <3> QED BY <3>1, <3>2
  <2>4. notes[r] = timeline[i]
    BY <1>8
  <2>5. TieEnd(elements, k) = b
    BY <1>1, <2>2, TiesEnd DEF n
  <2>6. a \in Nat /\ b \in Nat /\ a < b /\ b <= l
    <3>1. i \in 0..n /\ i - 1 \in 0..n /\ i \in 1..n
      <4>1. n \in Nat /\ i \in 1..n
        BY <1>3, <2>2
      <4> HIDE DEF i
      <4> QED BY ONLY <4>1
    <3> QED BY <1>3, <3>1
  <2>7. at[1] = 0 /\ at[a + 1] = timeline[i].onset /\ at[b + 1] = timeline[i].offset
    BY <1>4, <2>2
  <2> HIDE DEF a, b, i
  <2>8. /\ SubSeq(elements, 1, a) \in Lists(V) /\ Len(SubSeq(elements, 1, a)) = a
        /\ \A j \in 1..a : SubSeq(elements, 1, a)[j] = elements[j]
        /\ SubSeq(elements, a + 1, b) \in Lists(V) /\ Len(SubSeq(elements, a + 1, b)) = b - a
        /\ \A j \in 1..(b - a) : SubSeq(elements, a + 1, b)[j] = elements[a + j]
    BY <1>2, <2>6, PartsOfList DEF l
  <2>9. Length(SubSeq(elements, 1, a)) = at[a + 1] - at[1]
    <3> DEFINE s == SubSeq(elements, 1, a)
               z == 0
    <3>1. /\ s \in Lists(V) /\ Len(s) = a - z /\ \A j \in 1..(a - z) : s[j] = elements[z + j]
          /\ z \in Nat /\ z <= a /\ a <= Len(elements)
      <4>1. a - 0 = a /\ \A j \in 1..a : 0 + j = j
        BY <2>6
      <4> QED BY <2>6, <2>8, <4>1 DEF l
    <3> HIDE DEF s, z
    <3>2. Length(s) = at[a + 1] - at[z + 1]
      BY ONLY <1>2, <2>6, <3>1, RunLasts
    <3> QED BY <3>2 DEF s, z
  <2>10. Length(SubSeq(elements, a + 1, b)) = at[b + 1] - at[a + 1]
    <3> DEFINE s == SubSeq(elements, a + 1, b)
    <3>1. /\ s \in Lists(V) /\ Len(s) = b - a /\ \A j \in 1..(b - a) : s[j] = elements[a + j]
          /\ a <= b /\ b <= Len(elements)
      BY <2>6, <2>8 DEF l
    <3> HIDE DEF s
    <3>2. Length(s) = at[b + 1] - at[a + 1]
      BY ONLY <1>2, <2>6, <3>1, RunLasts
    <3> QED BY <3>2 DEF s
  <2>11. timeline[i].onset \in Nat
    <3>1. timeline[i] \in Items
      BY <1>3, <2>2 DEF n
    <3> QED BY <3>1 DEF Items
  <2>12. k - 1 = a
    BY <2>2, <2>6
  <2>13. /\ Length(SubSeq(elements, 1, k - 1)) = timeline[i].onset
         /\ Length(SubSeq(elements, k, TieEnd(elements, k))) = timeline[i].offset - timeline[i].onset
    BY <2>2, <2>5, <2>7, <2>9, <2>10, <2>11, <2>12
  <2> QED BY <2>3, <2>4, <2>13
<1>17. Cardinality(B) = Len(notes)
  BY <1>8, <1>15
<1> QED BY <1>16, <1>17 DEF NotesLast, B, notes

-----------------------------------------------------------------------------
LEMMA ScoreSums ==
  ASSUME ControlType, Computed, stage = "render"
  PROVE  ScoreAddsUp
<1> DEFINE events == local.written.events
           timeline == local.quantized.timeline
           capacity == Capacity(setup.subdivisions, setup.beats)
           plan == PlanScore(timeline, setup.subdivisions, setup.beats)
           measures == local.musicxml.document.measures
           report == local.musicxml.report
           n == MeasureCount(timeline, capacity)
           all == AllPieces(timeline, capacity)
           used == FinalUsed(timeline, capacity)
           elements == Elements(all, events)
<1>1. Scored(local) /\ Exported(local) /\ Quantized(local) /\ Timed(local)
  BY DEF Computed, LateStages, Scored, Exported, Quantized
<1>2. /\ Played(events) /\ local.tempo.effective \in PositiveNumbers
      /\ setup.subdivisions \in Nat \ {0} /\ setup.beats \in Nat \ {0}
  BY <1>1, TimedNumbers
<1>3. timeline \in Seq(Items) /\ Contiguous(timeline)
  <2>1. local.quantized = Quantize(events, local.tempo, setup.subdivisions)
    BY <1>1 DEF Quantized
  <2>2. \E candidates, order, working :
          IsQuantization(events, local.tempo, setup.subdivisions, candidates, order, working,
                         local.quantized)
    BY <1>2, <2>1, Quantization
  <2> QED BY <2>2 DEF IsQuantization
<1>4. capacity \in Nat \ {0}
  BY <1>2, ProductsOfNaturals DEF Capacity
<1>5. /\ plan.measures = [m \in 1..n |-> InBar(all, m)]
      /\ plan.report = PlannedReport(timeline, capacity)
  <2>1. capacity = Capacity(setup.subdivisions, setup.beats)
    OBVIOUS
  <2> HIDE DEF capacity
  <2>2. /\ plan.measures = PlannedMeasures(timeline, capacity)
        /\ plan.report = PlannedReport(timeline, capacity)
    BY ONLY <2>1, PlanComputed
  <2> HIDE DEF plan
  <2> QED BY ONLY <2>2 DEF PlannedMeasures
<1>6. /\ measures = [m \in DOMAIN plan.measures |->
                       [k \in DOMAIN plan.measures[m] |-> NoteElement(plan.measures[m][k], events)]]
      /\ report = plan.report
  <2>1. local.musicxml = ExportScore(local.quantized, events, setup.saxophone,
                                     setup.subdivisions, setup.beats, local.tempo.effective)
    BY <1>1 DEF Scored
  <2>2. plan = PlanScore(local.quantized.timeline, setup.subdivisions, setup.beats)
    OBVIOUS
  <2> HIDE DEF plan
  <2> QED BY <2>1, <2>2, ExportedDocument
<1> HIDE DEF plan, events, timeline, capacity, all, n, used, measures, report
<1>7. measures = [m \in 1..n |-> [k \in DOMAIN InBar(all, m) |-> NoteElement(InBar(all, m)[k], events)]]
  <2>1. DOMAIN plan.measures = 1..n /\ \A m \in 1..n : plan.measures[m] = InBar(all, m)
    BY <1>5
  <2> QED BY <1>6, <2>1
<1>8. report.capacity = capacity /\ report.final_used = used
  BY <1>5, <1>6 DEF PlannedReport, used
<1>9. PICK at, ends, bar : IsScore(timeline, capacity, all, at, ends, bar)
  BY <1>3, <1>4, ScoreCut DEF all
<1>10. /\ n \in Nat \ {0}
       /\ timeline # <<>> => used > 0
  <2>1. AreBars(bar, capacity)
    BY <1>9 DEF IsScore
  <2> QED BY <1>3, <1>4, <2>1, MeasuresCounted DEF n, used
<1>11. n = MeasureCount(timeline, capacity)
  BY DEF n
<1>12. /\ DOMAIN measures = 1..n /\ Len(measures) = n /\ FlattenSeq(measures) = elements
       /\ \E cut : /\ AreCuts(cut, n, Len(all)) /\ IsCutByMeasure(cut, all, n)
                   /\ AreGroups(measures, cut, n, elements)
  BY ONLY <1>3, <1>4, <1>7, <1>9, <1>11, DocumentInOrder, SMTT(30)
<1>13. PICK cut : /\ AreCuts(cut, n, Len(all)) /\ IsCutByMeasure(cut, all, n)
                  /\ AreGroups(measures, cut, n, elements)
  BY <1>12
<1>14. elements = Elements(all, events)
  OBVIOUS
<1> HIDE DEF elements
<1> DEFINE V == ElementValues(all, events)
<1>15. elements \in Lists(V) /\ Len(elements) = Len(all) /\ ElementsLast(elements, at)
  BY <1>3, <1>4, <1>9, <1>14, ElementsComputed
<1> HIDE DEF V
<1>16. ASSUME NEW m \in 1..n
       PROVE  Length(measures[m]) = IF m < n THEN capacity ELSE used
  <2> DEFINE a == cut[m - 1]
             b == cut[m]
             s == measures[m]
  <2>1. a \in Nat /\ b \in Nat /\ a <= b /\ b <= Len(elements)
    <3>1. m \in 0..n /\ m - 1 \in 0..n
      BY <1>10
    <3> QED BY <1>13, <1>15, <3>1 DEF AreCuts
  <2>2. Len(s) = b - a /\ \A k \in 1..(b - a) : s[k] = elements[a + k]
    BY <1>13 DEF AreGroups
  <2>3. DOMAIN s = 1..Len(s)
    <3>1. s = [k \in DOMAIN InBar(all, m) |-> NoteElement(InBar(all, m)[k], events)]
      BY <1>7
    <3>2. InBar(all, m) \in Seq(ScorePieces)
      <4> DEFINE K == {i \in DOMAIN all : all[i].measure = m}
      <4>1. all \in Seq(ScorePieces) /\ K \in SUBSET (1..Len(all))
        BY <1>3, <1>4, <1>9, ScoreTimes
      <4>2. InBar(all, m) = Pick(all, K)
        BY DEF InBar
      <4> HIDE DEF K
      <4>3. Pick(all, K) \in Seq(ScorePieces)
        BY ONLY <4>1, Picked
      <4> QED BY <4>2, <4>3
    <3> QED BY <3>1, <3>2
  <2>4. s \in Lists(V)
    <3> DEFINE d == b - a
    <3>1. d \in Nat /\ \A k \in 1..d : elements[a + k] \in V
      BY <1>15, <2>1 DEF Lists
    <3>2. DOMAIN s = 1..d /\ \A k \in 1..d : s[k] \in V
      BY <2>2, <2>3, <3>1
    <3>3. s = [k \in DOMAIN s |-> s[k]]
      BY <1>7
    <3> HIDE DEF d, s
    <3>4. s \in [1..d -> V]
      BY <3>2, <3>3
    <3> QED BY <3>1, <3>4 DEF Lists
  <2> HIDE DEF a, b, s
  <2>5. Length(s) = at[b + 1] - at[a + 1]
    BY ONLY <1>15, <2>1, <2>2, <2>4, RunLasts
  <2>6. at[cut[m] + 1] - at[cut[m - 1] + 1] = IF m < n THEN capacity ELSE FinalUsed(timeline, capacity)
    BY <1>3, <1>4, <1>9, <1>11, <1>13, CutsAtBars
  <2> QED BY <2>5, <2>6 DEF a, b, s, used
<1>17. MeasuresFull(measures, report)
  BY <1>8, <1>12, <1>16 DEF MeasuresFull
<1>18. TiesJoin(elements)
  <2>1. AreElements(elements, timeline, ends)
    BY <1>3, <1>4, <1>9, <1>14, ElementsOfItems
  <2> QED BY <2>1, ElementsTied
<1>19. NotesLast(elements, NoteItems(timeline))
  BY <1>3, <1>4, <1>9, <1>14, NotesOfElements
<1> QED BY <1>8, <1>10, <1>12, <1>17, <1>18, <1>19 DEF ScoreAddsUp, measures, report, timeline

(* Whatever was transcribed and however many beats a measure has, the score adds up:   *)
(* its measures are full, its last one holds something unless nothing sounds, and the   *)
(* ties put together the notes of the timeline, each where it begins and as long as it   *)
(* lasts.                                                                                 *)
THEOREM ScoreLasts == Spec => []ScoreAddsUp
<1>1. ControlType /\ Computed => ScoreAddsUp
  <2>1. stage # "render" => ScoreAddsUp
    BY DEF ScoreAddsUp
  <2> QED BY <2>1, ScoreSums
<1> QED BY <1>1, StagesCompute, PTL

-----------------------------------------------------------------------------
(* What makes process raise. Every stage hands on what its own contract and the      *)
(* stages behind it accept, so what is left are the calls that are not the pipeline's,  *)
(* and the two rules that the code states.                                              *)

FailedOutside == stage = "raised" => cause \in ExternalCauses \union KnownRefusals

LEMMA AcceptedContinues ==
  ASSUME NEW name, NEW value, NEW accepted, NEW next, Continue(name, value, accepted, next),
         accepted, next # "raised"
  PROVE  FailedOutside'
BY DEF Continue, FailedOutside

LEMMA RaisedOutside ==
  ASSUME NEW reason \in ExternalCauses \union KnownRefusals, Raise(reason)
  PROVE  FailedOutside'
BY DEF Raise, FailedOutside

LEMMA ConvertFailsOutside ==
  ASSUME Convert PROVE FailedOutside'
<1>1. PICK execution \in Conversions :
        LET verdict == ConversionVerdict(execution)
        IN IF verdict \in TerminalCodes
           THEN stage' = "terminal" /\ cause' = verdict /\ UNCHANGED local
           ELSE IF verdict = "converted" THEN stage' = "transcribe" /\ UNCHANGED <<cause, local>>
           ELSE Raise(verdict)
  BY DEF Convert
<1> DEFINE verdict == ConversionVerdict(execution)
<1>2. verdict \in TerminalCodes \/ verdict = "converted" \/ verdict \in ToolCauses
  BY DEF ConversionVerdict, TerminalCodes, ToolCauses
<1> HIDE DEF verdict
<1>3. CASE verdict \in TerminalCodes
  BY <1>1, <1>3 DEF FailedOutside, verdict
<1>4. CASE verdict \notin TerminalCodes /\ verdict = "converted"
  BY <1>1, <1>4 DEF FailedOutside, verdict
<1>5. CASE verdict \notin TerminalCodes /\ verdict # "converted"
  <2>1. Raise(verdict)
    BY <1>1, <1>5 DEF verdict
  <2>2. verdict \in ExternalCauses \union KnownRefusals
    BY <1>2, <1>5 DEF ExternalCauses, KnownRefusals
  <2> QED BY <2>1, <2>2, RaisedOutside
<1> QED BY <1>3, <1>4, <1>5

LEMMA TranscribeFailsOutside ==
  ASSUME ControlType, Transcribe PROVE FailedOutside'
<1>1. PICK engine \in EngineRuns, recording \in IF heard = {} THEN DOMAIN Recordings ELSE heard :
        LET execution == [engine EXCEPT !.output = Recordings[recording]]
            verdict == EngineVerdict(execution)
        IN IF verdict = "transcribed"
           THEN LET raw == ConvertBaselineOutput(execution.output)
                IN Continue("raw", raw, NoteBatchAccepted(raw), "postprocess")
           ELSE Raise(verdict)
  BY DEF Transcribe
<1> DEFINE execution == [engine EXCEPT !.output = Recordings[recording]]
           raw == ConvertBaselineOutput(execution.output)
           verdict == EngineVerdict(execution)
<1>2. recording \in DOMAIN Recordings
  BY <1>1 DEF ControlType
<1>3. execution.output = Recordings[recording]
  BY PipelineAssumption
<1>4. CASE verdict = "transcribed"
  <2>1. OutputAccepted(execution.output)
    BY <1>4 DEF EngineVerdict, CheckpointVerdict
  <2>2. execution.output.events \in Seq(RawEvents)
    BY <1>2, <1>3, PipelineAssumption
  <2>3. NoteBatchAccepted(raw)
    <3> HIDE DEF execution
    <3> QED BY <2>1, <2>2, ConvertedOutput
  <2>4. Continue("raw", raw, NoteBatchAccepted(raw), "postprocess")
    BY <1>1, <1>4
  <2> HIDE DEF raw, execution
  <2> QED BY <2>3, <2>4, AcceptedContinues
<1>5. CASE verdict # "transcribed"
  <2>1. Raise(verdict)
    BY <1>1, <1>5
  <2>2. verdict \in EngineCauses
    <3> DEFINE e == execution
    <3> HIDE DEF execution
    <3> QED BY <1>5 DEF EngineVerdict, CheckpointVerdict, EngineCauses
  <2> HIDE DEF verdict, execution
  <2>3. verdict \in ExternalCauses \union KnownRefusals
    BY <2>2 DEF ExternalCauses, KnownRefusals
  <2> QED BY <2>1, <2>3, RaisedOutside
<1> QED BY <1>4, <1>5

LEMMA NotesFailOutside ==
  ASSUME Computed, PostProcessEvents \/ MarkConfidence \/ TransposePitches
  PROVE  FailedOutside'
<1>1. CASE PostProcessEvents
  <2>1. Transcribed(local)
    BY <1>1 DEF PostProcessEvents, Computed
  <2>2. PostProcessedAccepted(local.raw, PostProcess(local.raw))
    BY <2>1, PostProcessKeepsBest DEF Transcribed
  <2>3. Continue("processed", PostProcess(local.raw),
                 PostProcessedAccepted(local.raw, PostProcess(local.raw)), "confidence")
    BY <1>1 DEF PostProcessEvents
  <2> QED BY <2>2, <2>3, AcceptedContinues
<1>2. CASE MarkConfidence
  <2> DEFINE notes == local.processed.notes
  <2>1. Cleaned(local)
    BY <1>2 DEF MarkConfidence, Computed
  <2>2. notes \in Batches
    BY <2>1, CleanedKeepsBest
  <2>3. Continue("confidence", MarkLowConfidence(notes),
                 ConfidenceAccepted(notes, MarkLowConfidence(notes)), "transpose")
    BY <1>2 DEF MarkConfidence
  <2> HIDE DEF notes
  <2>4. ConfidenceAccepted(notes, MarkLowConfidence(notes))
    BY <2>2, ConfidenceMarked
  <2> QED BY <2>3, <2>4, AcceptedContinues
<1>3. CASE TransposePitches
  <2> DEFINE annotated == local.confidence.events
             written == Transpose(annotated, setup.saxophone)
  <2>1. Marked(local) /\ setup \in Setups
    BY <1>3 DEF TransposePitches, Computed
  <2>2. IF ~WrittenInRange(annotated, setup.saxophone) THEN Raise("written_range")
        ELSE Continue("written", written, WrittenAccepted(annotated, written), "tempo")
    BY <1>3 DEF TransposePitches
  <2>3. CASE WrittenInRange(annotated, setup.saxophone)
    <3>1. WrittenAccepted(annotated, written)
      BY <2>1, <2>3, WrittenTransposed
    <3> HIDE DEF annotated, written
    <3> QED BY <2>2, <2>3, <3>1, AcceptedContinues
  <2>4. CASE ~WrittenInRange(annotated, setup.saxophone)
    <3>1. "written_range" \in ExternalCauses \union KnownRefusals
      BY DEF ExternalCauses, KnownRefusals
    <3> QED BY <2>2, <2>4, <3>1, RaisedOutside
  <2> QED BY <2>3, <2>4
<1> QED BY <1>1, <1>2, <1>3

LEMMA RhythmFailsOutside ==
  ASSUME ControlType, Computed, FindTempo \/ QuantizeRhythm
  PROVE  FailedOutside'
<1>1. CASE FindTempo
  <2> DEFINE events == local.written.events
             tempo == ResolveTempo(events, setup.tempo, setup.fallback)
  <2>1. Written(local) /\ setup \in Setups
    BY <1>1 DEF FindTempo, Computed
  <2>2. Played(events)
    BY <2>1, WrittenPlayed
  <2>3. Continue("tempo", tempo, TempoSettingsAccepted(setup.tempo) /\ TempoAccepted(tempo), "quantize")
    BY <1>1 DEF FindTempo
  <2>4. TempoSettingsAccepted(setup.tempo)
    BY <2>1, PipelineAssumption DEF SetupAccepted
  <2>5. TempoAccepted(tempo)
    <3> HIDE DEF events
    <3> QED BY <2>1, <2>2, ResolvedTempo
  <2> HIDE DEF tempo, events
  <2> QED BY <2>3, <2>4, <2>5, AcceptedContinues
<1>2. CASE QuantizeRhythm
  <2> DEFINE events == local.written.events
             quantized == Quantize(events, local.tempo, setup.subdivisions)
  <2>1. Timed(local)
    BY <1>2 DEF QuantizeRhythm, Computed
  <2>2. Played(events) /\ local.tempo.effective \in PositiveNumbers /\ setup.subdivisions \in Nat \ {0}
    BY <2>1, TimedNumbers
  <2>3. Continue("quantized", quantized, QuantizedRhythmAccepted(events, quantized), "midi")
    BY <1>2 DEF QuantizeRhythm
  <2>4. QuantizedRhythmAccepted(events, quantized)
    <3> HIDE DEF events
    <3> QED BY <2>2, QuantizationAccepted
  <2> HIDE DEF quantized, events
  <2> QED BY <2>3, <2>4, AcceptedContinues
<1> QED BY <1>1, <1>2

LEMMA FilesFailOutside ==
  ASSUME \A s \in Setups : TemposWritable(s), ControlType, Computed, WriteMidi \/ WriteScore
  PROVE  FailedOutside'
<1> DEFINE events == local.written.events
           bpm == local.tempo.effective
<1>1. Quantized(local)
  BY DEF WriteMidi, WriteScore, Computed, Exported
<1>2. /\ Timed(local) /\ local.tempo = ResolveTempo(events, setup.tempo, setup.fallback)
      /\ local.quantized = Quantize(events, local.tempo, setup.subdivisions)
  BY <1>1 DEF Quantized, Timed
<1>3. /\ Played(events) /\ bpm \in PositiveNumbers
      /\ setup \in Setups /\ setup.subdivisions \in Nat \ {0} /\ setup.beats \in Nat \ {0}
  BY <1>2, TimedNumbers
<1>4. CASE WriteMidi
  <2>1. MidiSettingsAccepted(bpm)
    <3>1. TemposWritable(setup)
      BY <1>3
    <3> HIDE DEF events
    <3>2. MidiSettingsAccepted(ResolveTempo(events, setup.tempo, setup.fallback).effective)
      BY <1>3, <3>1, TempoWritten
    <3> QED BY <1>2, <3>2
  <2>2. Continue("midi", ExportMidi(events, bpm), MidiAccepted(events, ExportMidi(events, bpm), bpm),
                 "musicxml")
    BY <1>4 DEF WriteMidi
  <2> HIDE DEF events, bpm
  <2>3. MidiAccepted(events, ExportMidi(events, bpm), bpm)
    BY <1>3, <2>1, MidiExported
  <2> QED BY <2>2, <2>3, AcceptedContinues
<1>5. CASE WriteScore
  <2> DEFINE score == ExportScore(local.quantized, events, setup.saxophone,
                                  setup.subdivisions, setup.beats, bpm)
             timeline == local.quantized.timeline
  <2>1. PICK loaded \in BOOLEAN :
          IF loaded THEN Continue("musicxml", score, ScoreAccepted(timeline, setup.saxophone, score),
                                  "render")
          ELSE Raise("reader")
    BY <1>5 DEF WriteScore
  <2>2. timeline \in Seq(Items) /\ Contiguous(timeline)
    <3>1. \E candidates, order, working :
            IsQuantization(events, local.tempo, setup.subdivisions, candidates, order, working,
                           local.quantized)
      BY <1>2, <1>3, Quantization
    <3> QED BY <3>1 DEF IsQuantization
  <2>3. setup.saxophone \in SaxophoneTypes
    BY <1>3, PipelineAssumption DEF SetupAccepted
  <2>4. timeline = local.quantized.timeline
    OBVIOUS
  <2> HIDE DEF events, bpm, timeline
  <2>5. ScoreAccepted(timeline, setup.saxophone, score)
    BY ONLY <1>3, <2>2, <2>3, <2>4, ScoreExported
  <2> HIDE DEF score
  <2>6. CASE loaded = TRUE
    BY <2>1, <2>5, <2>6, AcceptedContinues
  <2>7. CASE loaded = FALSE
    <3>1. "reader" \in ExternalCauses \union KnownRefusals
      BY DEF ExternalCauses, KnownRefusals
    <3> QED BY <2>1, <2>7, <3>1, RaisedOutside
  <2> QED BY <2>6, <2>7
<1> QED BY <1>4, <1>5

LEMMA RegistrationFailsOutside ==
  ASSUME RegisterReview \/ RegisterArtifacts \/ Observe
  PROVE  FailedOutside'
<1>1. {"unavailable", "other_review", "observer"} \subseteq ExternalCauses \union KnownRefusals
  BY DEF ExternalCauses, KnownRefusals
<1>2. CASE RegisterReview
  <2>1. stage' = "register" \/ Raise("other_review") \/ Raise("unavailable")
    BY <1>2 DEF RegisterReview
  <2> QED BY <1>1, <2>1, RaisedOutside DEF FailedOutside
<1>3. CASE RegisterArtifacts
  <2>1. stage' = "observe" \/ Raise("unavailable")
    BY <1>3 DEF RegisterArtifacts
  <2> QED BY <1>1, <2>1, RaisedOutside DEF FailedOutside
<1>4. CASE Observe
  <2>1. stage' = "returned" \/ Raise("observer")
    BY <1>4 DEF Observe
  <2> QED BY <1>1, <2>1, RaisedOutside DEF FailedOutside
<1> QED BY <1>2, <1>3, <1>4

LEMMA FailedOutsideStep ==
  ASSUME \A s \in Setups : TemposWritable(s),
         ControlType, Computed, TogetherInv, FailedOutside, [Next]_vars
  PROVE  FailedOutside'
<1>1. CASE ReadChunk \/ FinishUpload \/ Claim \/ RenderPages
  BY <1>1 DEF ReadChunk, FinishUpload, Claim, RenderPages, FailedOutside
<1>2. CASE Evaluate \/ UNCHANGED vars
  BY <1>2 DEF Evaluate, vars, FailedOutside
<1>3. CASE BuildBundle
  <2> DEFINE artifacts == RevisionZeroBundle(local.midi.file, local.musicxml.document, local.rendered)
  <2>1. IsRendering(local.rendered)
    BY <1>3 DEF BuildBundle, TogetherInv
  <2>2. BundleAccepted(artifacts)
    BY <2>1, BundleBuilt
  <2>3. Continue("artifacts", artifacts, BundleAccepted(artifacts), "review")
    BY <1>3 DEF BuildBundle
  <2> HIDE DEF artifacts
  <2> QED BY <2>2, <2>3, AcceptedContinues
<1> QED
  BY <1>1, <1>2, <1>3, ConvertFailsOutside, TranscribeFailsOutside, NotesFailOutside,
     RhythmFailsOutside, FilesFailOutside, RegistrationFailsOutside DEF Next

(* Whatever the model hears and however its reads are cut, process raises for something  *)
(* outside the pipeline, for a written pitch above the MIDI range, or for the review of    *)
(* another run: no stage hands on any other result that its own contract or a later stage   *)
(* refuses, and no evaluation is refused. The tempos a processor is set up with have to fit  *)
(* the 24 bits of a MIDI file, which its settings do not check.                               *)
THEOREM NoStageFails ==
  ASSUME \A s \in Setups : TemposWritable(s)
  PROVE  Spec => []OnlyKnownRefusals
<1>1. Init => ControlType /\ Computed /\ TogetherInv /\ Evaluated /\ FailedOutside
  BY ControlTypeInit, ComputedInit, EvaluatedInit DEF Init, TogetherInv, FailedOutside
<1>2. ControlType /\ Computed /\ TogetherInv /\ Evaluated /\ FailedOutside /\ [Next]_vars
        => (ControlType /\ Computed /\ TogetherInv /\ Evaluated /\ FailedOutside)'
  BY ControlTypeStep, ComputedStep, TogetherInvStep, EvaluatedStep, FailedOutsideStep
<1>3. ControlType /\ Computed /\ Evaluated /\ FailedOutside => OnlyKnownRefusals
  BY EvaluationOfComputed DEF OnlyKnownRefusals, FailedOutside
<1> QED BY <1>1, <1>2, <1>3, PTL DEF Spec

-----------------------------------------------------------------------------
(* Intervals of positions that do not overlap: their ends alternate.                *)

\* Where the notes of N begin and end, among the positions of K.
SpreadOver(on, off, N, K) ==
  /\ on \in [N -> K] /\ off \in [N -> K]
  /\ \A i \in N : on[i] < off[i]
  /\ \A i, j \in N : i # j => off[i] < on[j] \/ off[j] < on[i]
  /\ \A x \in K : \E i \in N : x = on[i] \/ x = off[i]

Ends(on, off, J) == {on[i] : i \in J} \union {off[i] : i \in J}

LEMMA EndsCounted ==
  ASSUME NEW N, IsFiniteSet(N), NEW K \in SUBSET Nat, NEW on, NEW off, SpreadOver(on, off, N, K),
         NEW J \in SUBSET N
  PROVE  /\ IsFiniteSet(J) /\ Cardinality(J) \in Nat
         /\ IsFiniteSet(Ends(on, off, J))
         /\ Cardinality(Ends(on, off, J)) = 2 * Cardinality(J)
<1> DEFINE A == {on[i] : i \in J}
           B == {off[i] : i \in J}
           f == [i \in J |-> on[i]]
           g == [i \in J |-> off[i]]
<1>1. IsFiniteSet(J) /\ Cardinality(J) \in Nat
  BY FS_Subset, FS_CardinalityType
<1>2. \A i \in N : on[i] \in Nat /\ off[i] \in Nat /\ on[i] < off[i]
  BY DEF SpreadOver
<1>3. \A i, j \in N : i # j => off[i] < on[j] \/ off[j] < on[i]
  BY DEF SpreadOver
<1>4. f \in [J -> A] /\ g \in [J -> B]
  OBVIOUS
<1>5. \A i, j \in J : i # j => f[i] # f[j]
  BY <1>2, <1>3
<1>6. \A i, j \in J : i # j => g[i] # g[j]
  BY <1>2, <1>3
<1>7. (\A y \in A : \E i \in J : f[i] = y) /\ (\A y \in B : \E i \in J : g[i] = y)
  OBVIOUS
<1>8. A \cap B = {}
  <2>1. ASSUME NEW i \in J, NEW j \in J PROVE on[i] # off[j]
    <3>1. CASE i = j
      BY <1>2, <3>1
    <3>2. CASE i # j
      BY <1>2, <1>3, <3>2
    <3> QED BY <3>1, <3>2
  <2> QED BY <2>1
<1>9. Ends(on, off, J) = A \union B
  BY DEF Ends
<1> HIDE DEF A, B, f, g
<1>10. IsFiniteSet(A) /\ Cardinality(A) = Cardinality(J)
  BY <1>1, <1>4, <1>5, <1>7, SameCount
<1>11. IsFiniteSet(B) /\ Cardinality(B) = Cardinality(J)
  BY <1>1, <1>4, <1>6, <1>7, SameCount
<1>12. Cardinality(A \cap B) = 0
  BY <1>8, FS_EmptySet
<1>13. /\ IsFiniteSet(A \union B)
       /\ Cardinality(A \union B) = Cardinality(A) + Cardinality(B) - Cardinality(A \cap B)
  BY <1>10, <1>11, FS_Union
<1> QED BY <1>1, <1>9, <1>10, <1>11, <1>12, <1>13

\* As many positions come before one as its place tells.
LEMMA PlaceOfPosition ==
  ASSUME NEW K \in SUBSET Nat, IsFiniteSet(K), NEW k \in 1..Cardinality(K)
  PROVE  /\ Ascending(K)[k] \in K
         /\ IsFiniteSet({y \in K : y < Ascending(K)[k]})
         /\ Cardinality({y \in K : y < Ascending(K)[k]}) = k - 1
<1> DEFINE c == Cardinality(K)
           a == Ascending(K)
           S == 1..(k - 1)
           T == {y \in K : y < a[k]}
           f == [j \in S |-> a[j]]
<1>1. /\ c \in Nat /\ a \in [1..c -> K]
      /\ \A i, j \in 1..c : i < j => a[i] < a[j]
      /\ \A x \in K : \E j \in 1..c : a[j] = x
  BY AscendingSorts
<1>2. k - 1 \in Nat /\ \A j \in S : j \in 1..c /\ j < k
  BY <1>1
<1>3. IsFiniteSet(S) /\ Cardinality(S) = k - 1
  BY <1>2, CardinalityOfFirst
<1> HIDE DEF a, c
<1>4. f \in [S -> T]
  <2>1. \A j \in S : a[j] \in T
    BY <1>1, <1>2 DEF c
  <2> QED BY <2>1
<1>5. \A i, j \in S : i # j => f[i] # f[j]
  <2> SUFFICES ASSUME NEW i \in S, NEW j \in S, i # j PROVE a[i] # a[j]
    OBVIOUS
  <2>1. i < j \/ j < i
    OBVIOUS
  <2>2. a[i] \in Nat /\ a[j] \in Nat
    BY <1>1, <1>2
  <2> QED BY <1>1, <1>2, <2>1, <2>2
<1>6. \A y \in T : \E j \in S : f[j] = y
  <2> TAKE y \in T
  <2>1. PICK j \in 1..c : a[j] = y
    BY <1>1
  <2>2. a[j] < a[k] /\ a[j] \in Nat /\ a[k] \in Nat /\ k \in 1..c
    BY <1>1, <2>1 DEF c
  <2>3. ~(k < j) /\ k # j
    BY <1>1, <2>2
  <2>4. j \in S
    BY <1>1, <2>2, <2>3
  <2> QED BY <2>1, <2>4
<1> HIDE DEF S, T, f
<1>7. IsFiniteSet(T) /\ Cardinality(T) = Cardinality(S)
  BY <1>3, <1>4, <1>5, <1>6, SameCount
<1>8. a[k] \in K
  BY <1>1 DEF c
<1> QED BY <1>3, <1>7, <1>8 DEF T, a

LEMMA EndsAlternate ==
  ASSUME NEW N, IsFiniteSet(N), NEW K \in SUBSET Nat, IsFiniteSet(K),
         NEW on, NEW off, SpreadOver(on, off, N, K)
  PROVE  /\ Cardinality(K) = 2 * Cardinality(N)
         /\ \A k \in 1..Cardinality(K) :
              \/ k % 2 = 1 /\ \E i \in N : Ascending(K)[k] = on[i]
              \/ k % 2 = 0 /\ \E i \in N : Ascending(K)[k] = off[i]
<1>1. \A i \in N : on[i] \in K /\ off[i] \in K /\ on[i] \in Nat /\ off[i] \in Nat /\ on[i] < off[i]
  BY DEF SpreadOver
<1>2. \A i, j \in N : i # j => off[i] < on[j] \/ off[j] < on[i]
  BY DEF SpreadOver
<1>3. \A x \in K : \E i \in N : x = on[i] \/ x = off[i]
  BY DEF SpreadOver
<1>4. K = Ends(on, off, N)
  BY <1>1, <1>3 DEF Ends
<1>5. Cardinality(K) = 2 * Cardinality(N)
  <2>1. N \in SUBSET N
    OBVIOUS
  <2> QED BY <1>4, <2>1, EndsCounted
<1>6. ASSUME NEW k \in 1..Cardinality(K)
      PROVE  \/ k % 2 = 1 /\ \E i \in N : Ascending(K)[k] = on[i]
             \/ k % 2 = 0 /\ \E i \in N : Ascending(K)[k] = off[i]
  <2> DEFINE x == Ascending(K)[k]
             T == {y \in K : y < x}
  <2>1. x \in K /\ IsFiniteSet(T) /\ Cardinality(T) = k - 1
    BY <1>6, PlaceOfPosition
  <2>2. k \in Int
    OBVIOUS
  <2> HIDE DEF x
  <2>3. PICK i \in N : x = on[i] \/ x = off[i]
    BY <1>3, <2>1
  <2> DEFINE J == {j \in N : off[j] < on[i]}
             c == Cardinality(J)
  <2>4. J \in SUBSET N /\ i \notin J
    BY <1>1
  <2>5. c \in Nat /\ IsFiniteSet(Ends(on, off, J)) /\ Cardinality(Ends(on, off, J)) = 2 * c
    <3> HIDE DEF J
    <3> QED BY <2>4, EndsCounted
  <2>6. \A y \in K : y < on[i] <=> y \in Ends(on, off, J)
    <3>1. ASSUME NEW j \in N PROVE (on[j] < on[i] <=> j \in J) /\ (off[j] < on[i] <=> j \in J)
      BY <1>1, <1>2
    <3>2. ASSUME NEW y \in Ends(on, off, J) PROVE y < on[i]
      BY <1>1, <3>1, <3>2 DEF Ends
    <3>3. ASSUME NEW y \in K, y < on[i] PROVE y \in Ends(on, off, J)
      <4>1. PICK j \in N : y = on[j] \/ y = off[j]
        BY <1>3
      <4> HIDE DEF J
      <4>2. j \in J
        BY <3>1, <3>3, <4>1
      <4> QED BY <4>1, <4>2 DEF Ends
    <3> QED BY <3>2, <3>3
  <2>7. Ends(on, off, J) \subseteq K
    BY <1>1 DEF Ends
  <2> HIDE DEF J
  <2>8. CASE x = on[i]
    <3>1. T = Ends(on, off, J)
      BY <2>6, <2>7, <2>8
    <3>2. k - 1 = 2 * c
      BY <2>1, <2>5, <3>1
    <3> HIDE DEF c
    <3>3. k % 2 = 1
      BY <2>2, <2>5, <3>2
    <3> QED BY <2>8, <3>3 DEF x
  <2>9. CASE x = off[i]
    <3> DEFINE E == Ends(on, off, J)
    <3>1. \A y \in K : y < off[i] <=> y \in E \/ y = on[i]
      <4> SUFFICES ASSUME NEW y \in K PROVE y < off[i] <=> y < on[i] \/ y = on[i]
        BY <2>6
      <4>1. PICK j \in N : y = on[j] \/ y = off[j]
        BY <1>3
      <4>2. CASE j = i
        BY <1>1, <4>1, <4>2
      <4>3. CASE j # i
        BY <1>1, <1>2, <4>1, <4>3
      <4> QED BY <4>2, <4>3
    <3>2. on[i] \notin E /\ on[i] \in K
      BY <1>1, <2>6
    <3>3. T = E \union {on[i]}
      BY <2>7, <2>9, <3>1, <3>2
    <3> HIDE DEF E, T
    <3>4. Cardinality(E \union {on[i]}) = Cardinality(E) + 1
      BY <2>5, <3>2, FS_AddElement DEF E
    <3>5. k - 1 = 2 * c + 1
      BY <2>1, <2>5, <3>3, <3>4 DEF E
    <3> HIDE DEF c
    <3>6. k % 2 = 0
      BY <2>2, <2>5, <3>5
    <3> QED BY <2>9, <3>6 DEF x
  <2> QED BY <2>3, <2>8, <2>9
<1> QED BY <1>5, <1>6

-----------------------------------------------------------------------------
(* The messages of a pitch.                                                         *)

\* The notes of a pitch in a plan do not overlap.
ApartInPlan(plan, N) ==
  \A i, j \in N : i # j => plan[i].offset <= plan[j].onset \/ plan[j].offset <= plan[i].onset

OfPlan(plan, n, pitch) == {j \in 1..n : plan[j].pitch = pitch}

LEMMA MessageFields ==
  ASSUME NEW item
  PROVE  /\ OnMessage(item).note = item.pitch /\ OnMessage(item).type = "note_on"
         /\ OffMessage(item).note = item.pitch /\ OffMessage(item).type = "note_off"
BY DEF OnMessage, OffMessage

\* Where messages go in the file.
LEMMA MessagesPlaced ==
  ASSUME NEW n \in Nat, NEW plan, Plays(plan, n), NEW ordered, InFileOrder(ordered, plan, n),
         NEW x \in 1..(2 * n), NEW y \in 1..(2 * n), NEW i \in 1..n, NEW j \in 1..n
  PROVE  /\ ordered[x] = OnMessage(plan[i]) /\ ordered[y] = OffMessage(plan[i]) => x < y
         /\ /\ ordered[x] = OffMessage(plan[i]) /\ ordered[y] = OnMessage(plan[j])
            /\ plan[i].offset <= plan[j].onset
            => x < y
<1>1. /\ plan[i].onset \in Nat /\ plan[i].offset \in Nat /\ plan[i].onset < plan[i].offset
      /\ plan[j].onset \in Nat /\ plan[i].index \in Int /\ plan[j].index \in Int
  BY DEF Plays
<1>2. /\ IsOrdered(ordered, 2 * n)
      /\ \A k, l \in 1..(2 * n) : k < l => ordered[k].tick <= ordered[l].tick
  BY FileOrder
<1>3. \A k, l \in 1..(2 * n) : k < l => TupleLess(MessageKey(ordered[k]), MessageKey(ordered[l]))
  BY DEF InFileOrder
<1>4. ASSUME ordered[x] = OnMessage(plan[i]), ordered[y] = OffMessage(plan[i]) PROVE x < y
  <2>1. ordered[x].tick = plan[i].onset /\ ordered[y].tick = plan[i].offset
    BY <1>4 DEF OnMessage, OffMessage
  <2>2. x # y
    BY <1>1, <2>1
  <2>3. ~(y < x)
    BY <1>1, <1>2, <2>1
  <2> QED BY <2>2, <2>3
<1>5. ASSUME ordered[x] = OffMessage(plan[i]), ordered[y] = OnMessage(plan[j]),
             plan[i].offset <= plan[j].onset
      PROVE  x < y
  <2> DEFINE a == MessageKey(ordered[x])
             b == MessageKey(ordered[y])
  <2>1. /\ ordered[x].tick = plan[i].offset /\ ordered[x].priority = NoteOffPriority
        /\ ordered[x].index = plan[i].index /\ ordered[x].type = "note_off"
        /\ ordered[y].tick = plan[j].onset /\ ordered[y].priority = NoteOnPriority
        /\ ordered[y].index = plan[j].index /\ ordered[y].type = "note_on"
    BY <1>5 DEF OnMessage, OffMessage
  <2>2. a = <<plan[i].offset, 0, plan[i].index>> /\ b = <<plan[j].onset, 1, plan[j].index>>
    BY <2>1 DEF MessageKey, NoteOnPriority, NoteOffPriority
  <2>3. /\ a \in Tuples(3) /\ b \in Tuples(3)
        /\ a[1] = plan[i].offset /\ a[2] = 0 /\ b[1] = plan[j].onset /\ b[2] = 1
    <3> HIDE DEF a, b
    <3> QED BY <1>1, <2>2 DEF Tuples
  <2>4. ~TupleLess(b, a)
    <3> HIDE DEF a, b
    <3>1. TupleLess(b, a) <=>
            b[1] < a[1] \/ (b[1] = a[1] /\ (b[2] < a[2] \/ (b[2] = a[2] /\ (b[3] < a[3]))))
      BY <2>3, TupleLess3
    <3> QED BY <1>1, <1>5, <2>3, <3>1
  <2>5. x # y
    BY <2>1
  <2>6. ~(y < x)
    BY <1>3, <2>4
  <2> QED BY <2>5, <2>6
<1> QED BY <1>4, <1>5

LEMMA PitchAlternates ==
  ASSUME NEW n \in Nat, NEW plan, Plays(plan, n), NEW ordered, InFileOrder(ordered, plan, n),
         NEW pitch, ApartInPlan(plan, OfPlan(plan, n, pitch)),
         NEW K, K = {k \in 1..(2 * n) : ordered[k].note = pitch}
  PROVE  /\ Cardinality(K) = 2 * Cardinality(OfPlan(plan, n, pitch))
         /\ \A k \in 1..Cardinality(K) :
              ordered[Ascending(K)[k]].type = IF k % 2 = 1 THEN "note_on" ELSE "note_off"
<1> DEFINE N == OfPlan(plan, n, pitch)
           S == 1..(2 * n)
           on == [j \in N |-> CHOOSE x \in S : ordered[x] = OnMessage(plan[j])]
           off == [j \in N |-> CHOOSE x \in S : ordered[x] = OffMessage(plan[j])]
<1>1. /\ ordered \in [S -> OnMessages(plan) \union OffMessages(plan)]
      /\ \A m \in OnMessages(plan) \union OffMessages(plan) : \E k \in S : ordered[k] = m
  BY DEF InFileOrder
<1>2. DOMAIN plan = 1..n
  BY DEF Plays
<1>3. \A j \in N : j \in 1..n /\ plan[j].pitch = pitch
  BY DEF OfPlan
<1>4. \A j \in 1..n : plan[j].pitch = pitch => j \in N
  BY DEF OfPlan
<1> HIDE DEF N
<1>5. \A j \in N : /\ on[j] \in S /\ ordered[on[j]] = OnMessage(plan[j])
                   /\ off[j] \in S /\ ordered[off[j]] = OffMessage(plan[j])
  <2> TAKE j \in N
  <2>1. OnMessage(plan[j]) \in OnMessages(plan) /\ OffMessage(plan[j]) \in OffMessages(plan)
    BY <1>2, <1>3 DEF OnMessages, OffMessages
  <2>2. (\E x \in S : ordered[x] = OnMessage(plan[j])) /\ (\E x \in S : ordered[x] = OffMessage(plan[j]))
    BY <1>1, <2>1
  <2> QED BY <2>2
<1>6. DOMAIN on = N /\ DOMAIN off = N /\ on = [j \in N |-> on[j]] /\ off = [j \in N |-> off[j]]
  OBVIOUS
<1> HIDE DEF on, off
<1>7. \A j \in N : on[j] \in K /\ off[j] \in K
  <2> TAKE j \in N
  <2>1. ordered[on[j]].note = plan[j].pitch /\ ordered[off[j]].note = plan[j].pitch
    BY <1>5, MessageFields
  <2> QED BY <1>3, <1>5, <2>1
<1>8. on \in [N -> K] /\ off \in [N -> K]
  BY <1>6, <1>7
<1>9. \A i \in N : on[i] < off[i]
  <2> TAKE i \in N
  <2>1. i \in 1..n /\ on[i] \in 1..(2 * n) /\ off[i] \in 1..(2 * n)
    BY <1>3, <1>5
  <2> QED BY <1>5, <2>1, MessagesPlaced
<1>10. \A i, j \in N : i # j => off[i] < on[j] \/ off[j] < on[i]
  <2> SUFFICES ASSUME NEW i \in N, NEW j \in N, i # j PROVE off[i] < on[j] \/ off[j] < on[i]
    OBVIOUS
  <2>1. /\ i \in 1..n /\ on[i] \in 1..(2 * n) /\ off[i] \in 1..(2 * n)
        /\ j \in 1..n /\ on[j] \in 1..(2 * n) /\ off[j] \in 1..(2 * n)
    BY <1>3, <1>5
  <2>2. plan[i].offset <= plan[j].onset \/ plan[j].offset <= plan[i].onset
    BY DEF ApartInPlan, N
  <2>3. CASE plan[i].offset <= plan[j].onset
    BY <1>5, <2>1, <2>3, MessagesPlaced
  <2>4. CASE plan[j].offset <= plan[i].onset
    BY <1>5, <2>1, <2>4, MessagesPlaced
  <2> QED BY <2>2, <2>3, <2>4
<1>11. \A x, y \in S : ordered[x] = ordered[y] => x = y
  <2> SUFFICES ASSUME NEW x \in S, NEW y \in S, x < y PROVE ordered[x] # ordered[y]
    OBVIOUS
  <2> DEFINE three == 3
             a == MessageKey(ordered[x])
  <2>1. TupleLess(a, MessageKey(ordered[y]))
    BY DEF InFileOrder
  <2>2. three \in Nat /\ a \in Tuples(three)
    <3>1. IsOrdered(ordered, 2 * n)
      BY FileOrder
    <3>2. ordered[x] \in OrderedRecords
      BY <3>1 DEF IsOrdered
    <3> QED BY <3>2 DEF OrderedRecords, MessageKey, Tuples, NoteOnPriority, NoteOffPriority
  <2> HIDE DEF three, a
  <2>3. ~TupleLess(a, a)
    BY <2>2, TupleOrder
  <2> QED BY <2>1, <2>3 DEF a
<1>12. \A x \in K : \E i \in N : x = on[i] \/ x = off[i]
  <2> TAKE x \in K
  <2>1. x \in S /\ ordered[x].note = pitch
    OBVIOUS
  <2>2. PICK j \in 1..n : ordered[x] = OnMessage(plan[j]) \/ ordered[x] = OffMessage(plan[j])
    BY <1>1, <1>2, <2>1 DEF OnMessages, OffMessages
  <2>3. j \in N
    <3>1. ordered[x].note = plan[j].pitch
      BY <2>2 DEF OnMessage, OffMessage
    <3> QED BY <1>4, <2>1, <3>1
  <2> QED BY <1>5, <1>11, <2>1, <2>2, <2>3
<1>13. SpreadOver(on, off, N, K)
  BY <1>8, <1>9, <1>10, <1>12 DEF SpreadOver
<1>14. IsFiniteSet(N)
  <2>1. IsFiniteSet(1..n) /\ N \subseteq 1..n
    BY <1>3, CardinalityOfFirst
  <2> QED BY <2>1, FS_Subset
<1>15. IsFiniteSet(K) /\ K \in SUBSET Nat
  <2> DEFINE m == 2 * n
  <2>1. m \in Nat
    OBVIOUS
  <2> HIDE DEF m
  <2>2. IsFiniteSet(1..m) /\ K \subseteq 1..m
    BY <2>1, CardinalityOfFirst DEF m
  <2>3. IsFiniteSet(K)
    BY <2>2, FS_Subset
  <2> QED BY <2>1, <2>2, <2>3
<1>16. /\ Cardinality(K) = 2 * Cardinality(N)
       /\ \A k \in 1..Cardinality(K) :
            \/ k % 2 = 1 /\ \E i \in N : Ascending(K)[k] = on[i]
            \/ k % 2 = 0 /\ \E i \in N : Ascending(K)[k] = off[i]
  BY ONLY <1>13, <1>14, <1>15, EndsAlternate
<1>17. ASSUME NEW k \in 1..Cardinality(K)
       PROVE  ordered[Ascending(K)[k]].type = IF k % 2 = 1 THEN "note_on" ELSE "note_off"
  <2> DEFINE x == Ascending(K)[k]
             odd == k % 2
  <2>1. \/ odd = 1 /\ \E i \in N : x = on[i]
        \/ odd = 0 /\ \E i \in N : x = off[i]
    BY <1>16
  <2> HIDE DEF x, odd
  <2>2. \A i \in N : ordered[on[i]].type = "note_on" /\ ordered[off[i]].type = "note_off"
    BY <1>5, MessageFields
  <2>3. ordered[x].type = IF odd = 1 THEN "note_on" ELSE "note_off"
    BY <2>1, <2>2
  <2> QED BY <2>3 DEF x, odd
<1> QED BY <1>16, <1>17 DEF N

-----------------------------------------------------------------------------
(* Every tempo leaves the notes longer than a tick.                                 *)

LEMMA EventsOfNotes ==
  ASSUME Written(local)
  PROVE  /\ Len(local.written.events) = Len(local.processed.notes)
         /\ \A i \in 1..Len(local.processed.notes) :
              HeardAt(local.written.events, i) = local.processed.notes[i]
<1> DEFINE notes == local.processed.notes
           marked == local.confidence
           annotated == marked.events
           written == local.written
           events == written.events
<1>1. Len(notes) \in Nat /\ DOMAIN notes = 1..Len(notes)
  BY CleanedKeepsBest DEF Written, Marked, Batches
<1>2. marked = MarkLowConfidence(notes) /\ written = Transpose(annotated, setup.saxophone)
  BY DEF Written, Marked
<1> HIDE DEF notes, marked, written
<1>3. annotated = [i \in DOMAIN notes |->
                     [event |-> notes[i], is_low_confidence |-> IsLowConfidence(notes[i])]]
  BY ONLY <1>2 DEF MarkLowConfidence
<1>4. events = [i \in DOMAIN annotated |->
                  [source |-> annotated[i],
                   written |-> TransposeConcertPitch(annotated[i].event.pitch, setup.saxophone)]]
  BY ONLY <1>2 DEF Transpose
<1> HIDE DEF annotated, events
<1>5. DOMAIN events = 1..Len(notes) /\ \A i \in 1..Len(notes) : annotated[i].event = notes[i]
  BY <1>1, <1>3, <1>4
<1>6. \A i \in 1..Len(notes) : events[i].source = annotated[i]
  BY <1>1, <1>3, <1>4
<1>7. Len(events) = Len(notes)
  BY <1>1, <1>5
<1> QED BY <1>5, <1>6, <1>7 DEF HeardAt, notes, events, written

LEMMA LongHeard ==
  ASSUME Written(local)
  PROVE  \A i \in 1..Len(local.written.events) :
           HeardAt(local.written.events, i).onset + MinimumDuration
             <= HeardAt(local.written.events, i).offset
<1> DEFINE raw == local.raw
           notes == local.processed.notes
           events == local.written.events
<1>1. Marked(local) /\ Cleaned(local)
  BY DEF Written, Marked
<1>2. raw \in Batches /\ notes \in Batches /\ BestKept(raw, notes)
  BY <1>1, CleanedKeepsBest
<1>3. Len(notes) \in Nat /\ DOMAIN notes = 1..Len(notes)
      /\ DOMAIN raw = 1..Len(raw) /\ \A i \in DOMAIN raw : raw[i] \in NoteRecords
  BY <1>2 DEF Batches
<1>4. \A k \in DOMAIN notes : \E i \in LongNotes(raw) : raw[i] = notes[k]
  BY <1>2 DEF BestKept
<1>5. \A k \in 1..Len(notes) : notes[k].onset + MinimumDuration <= notes[k].offset
  <2> TAKE k \in 1..Len(notes)
  <2>1. PICK i \in LongNotes(raw) : raw[i] = notes[k]
    BY <1>3, <1>4
  <2>2. i \in DOMAIN raw /\ Duration(raw[i]) >= MinimumDuration
    BY DEF LongNotes
  <2>3. notes[k].onset \in Nat /\ notes[k].offset \in Nat
    BY <1>3, <2>1, <2>2 DEF NoteRecords
  <2>4. notes[k].offset - notes[k].onset >= MinimumDuration
    BY <2>1, <2>2 DEF Duration
  <2> QED BY <2>3, <2>4, PostProcessingAssumption
<1>6. Len(events) = Len(notes) /\ \A i \in 1..Len(notes) : HeardAt(events, i) = notes[i]
  BY EventsOfNotes DEF HeardAt
<1> HIDE DEF notes, events
<1> QED BY <1>5, <1>6 DEF events

\* A tempo with ticks as fine as its setup's leaves notes longer than a tick.
LEMMA FinelyTimed ==
  ASSUME NEW events, Played(events), NEW s \in Setups, TicksFine(s)
  PROVE  LongerThanTick(ResolveTempo(events, s.tempo, s.fallback).effective)
<1> DEFINE bpm == ResolveTempo(events, s.tempo, s.fallback).effective
           low == s.tempo.minimum_bpm
<1>1. bpm \in PositiveNumbers /\ (bpm = s.fallback \/ InTempoRange(bpm, s.tempo))
  BY TempoChosen
<1>2. low \in PositiveNumbers
  BY PipelineAssumption DEF SetupAccepted
<1> HIDE DEF bpm
<1>3. CASE bpm = s.fallback
  BY <1>3 DEF TicksFine, bpm
<1>4. CASE InTempoRange(bpm, s.tempo)
  <2> DEFINE fast == TempoMicrosecondsPerBeat(bpm)
             slow == TempoMicrosecondsPerBeat(low)
             least == MinimumDuration * TicksPerBeat * MicrosPerSecond
  <2>1. fast <= slow
    BY <1>1, <1>2, <1>4, SlowerIsLonger DEF InTempoRange
  <2>2. fast \in Nat /\ slow \in Nat
    BY <1>1, <1>2, TempoNatural
  <2>3. least > Second * slow
    BY DEF TicksFine, LongerThanTick
  <2>4. least \in Nat
    <3>1. MinimumDuration * TicksPerBeat \in Nat
      BY PostProcessingAssumption, MidiAssumption
    <3> DEFINE x == MinimumDuration * TicksPerBeat
    <3> HIDE DEF x
    <3>2. x * MicrosPerSecond \in Nat
      BY <3>1, MidiAssumption DEF x
    <3> QED BY <3>2 DEF x
  <2> HIDE DEF fast, slow, least
  <2>5. fast * Second <= slow * Second
    BY <2>1, <2>2, NoteAssumption, ProductGrows
  <2>6. fast * Second = Second * fast /\ slow * Second = Second * slow
        /\ Second * fast \in Nat /\ Second * slow \in Nat
    BY <2>2, NoteAssumption
  <2>7. least > Second * fast
    BY ONLY <2>3, <2>4, <2>5, <2>6
  <2> QED BY <2>7 DEF LongerThanTick, fast, least, bpm
<1> QED BY <1>1, <1>3, <1>4 DEF bpm

-----------------------------------------------------------------------------
(* The messages of a pitch in the file of a MIDI stage.                             *)

\* Notes that do not overlap, of a pitch that was heard.
HeardOf(events, pitch) == {i \in 1..Len(events) : HeardAt(events, i).pitch = pitch}

HeardApart(events, N) ==
  \A i, j \in N : i # j => \/ HeardAt(events, i).offset <= HeardAt(events, j).onset
                           \/ HeardAt(events, j).offset <= HeardAt(events, i).onset

HeardLong(events) ==
  \A i \in 1..Len(events) :
    HeardAt(events, i).onset + MinimumDuration <= HeardAt(events, i).offset

\* A note longer than a tick is written with the ticks of its onset and offset.
LEMMA PlannedAsHeard ==
  ASSUME NEW events, Played(events), HeardLong(events), NEW bpm, MidiSettingsAccepted(bpm),
         LongerThanTick(bpm), NEW i \in 1..Len(events)
  PROVE  LET note == PlanNote(events, i, bpm)
             sounded == HeardAt(events, i)
         IN /\ note.pitch = sounded.pitch
            /\ note.onset = SecondsToMidiTick(sounded.onset, bpm)
            /\ note.offset = SecondsToMidiTick(sounded.offset, bpm)
<1> DEFINE on == HeardAt(events, i).onset
           off == HeardAt(events, i).offset
<1>1. on \in Nat /\ off \in Nat
  BY PlayedNumbers DEF HeardAt
<1>2. on + MinimumDuration <= off
  BY DEF HeardLong
<1> HIDE DEF on, off
<1>3. SecondsToMidiTick(on, bpm) < SecondsToMidiTick(off, bpm)
  BY <1>1, <1>2, TicksInOrder
<1> QED BY <1>3, PlannedNote DEF on, off

\* Notes that do not overlap do not overlap in ticks.
LEMMA PlannedApart ==
  ASSUME NEW events, Played(events), HeardLong(events), NEW bpm, MidiSettingsAccepted(bpm),
         LongerThanTick(bpm), NEW pitch, HeardApart(events, HeardOf(events, pitch)),
         NEW order, NEW plan, IsPlanOrder(order, plan, events, bpm)
  PROVE  /\ ApartInPlan(plan, OfPlan(plan, Len(events), pitch))
         /\ Cardinality(OfPlan(plan, Len(events), pitch)) = Cardinality(HeardOf(events, pitch))
<1> DEFINE n == Len(events)
           P == OfPlan(plan, n, pitch)
           N == HeardOf(events, pitch)
           f == [k \in P |-> order[k]]
<1>1. /\ order \in [1..n -> 1..n]
      /\ \A i, j \in 1..n : i # j => order[i] # order[j]
      /\ \A p \in 1..n : \E k \in 1..n : order[k] = p
      /\ \A k \in 1..n : plan[k] = PlanNote(events, order[k], bpm)
  BY DEF IsPlanOrder
<1>2. ASSUME NEW k \in 1..n
      PROVE  /\ order[k] \in 1..n /\ plan[k].pitch = HeardAt(events, order[k]).pitch
             /\ plan[k].onset = SecondsToMidiTick(HeardAt(events, order[k]).onset, bpm)
             /\ plan[k].offset = SecondsToMidiTick(HeardAt(events, order[k]).offset, bpm)
             /\ HeardAt(events, order[k]).onset \in Nat /\ HeardAt(events, order[k]).offset \in Nat
  <2> DEFINE i == order[k]
  <2>1. i \in 1..Len(events) /\ plan[k] = PlanNote(events, i, bpm)
    BY <1>1
  <2> HIDE DEF i
  <2>2. HeardAt(events, i).onset \in Nat /\ HeardAt(events, i).offset \in Nat
    BY <2>1, PlayedNumbers DEF HeardAt
  <2> QED BY <2>1, <2>2, PlannedAsHeard DEF i
<1>3. \A k \in P : k \in 1..n /\ order[k] \in N
  BY <1>2 DEF OfPlan, HeardOf
<1>4. \A k \in 1..n : order[k] \in N => k \in P
  BY <1>2 DEF OfPlan, HeardOf
<1>5. \A i \in N : i \in 1..n
  BY DEF HeardOf
<1> HIDE DEF n, P, N
<1>6. ASSUME NEW i \in P, NEW j \in P, i # j
      PROVE  plan[i].offset <= plan[j].onset \/ plan[j].offset <= plan[i].onset
  <2>1. order[i] \in N /\ order[j] \in N /\ order[i] # order[j] /\ i \in 1..n /\ j \in 1..n
    BY <1>1, <1>3, <1>6
  <2> DEFINE a == HeardAt(events, order[i])
             b == HeardAt(events, order[j])
  <2>2. a.offset <= b.onset \/ b.offset <= a.onset
    BY <2>1 DEF HeardApart, N
  <2>3. /\ plan[i].onset = SecondsToMidiTick(a.onset, bpm)
        /\ plan[i].offset = SecondsToMidiTick(a.offset, bpm)
        /\ plan[j].onset = SecondsToMidiTick(b.onset, bpm)
        /\ plan[j].offset = SecondsToMidiTick(b.offset, bpm)
        /\ a.onset \in Nat /\ a.offset \in Nat /\ b.onset \in Nat /\ b.offset \in Nat
    BY <1>2, <2>1
  <2> HIDE DEF a, b
  <2>4. CASE a.offset <= b.onset
    BY <2>3, <2>4, TicksInOrder
  <2>5. CASE b.offset <= a.onset
    BY <2>3, <2>5, TicksInOrder
  <2> QED BY <2>2, <2>4, <2>5
<1>7. ApartInPlan(plan, P)
  BY <1>6 DEF ApartInPlan
<1>8. IsFiniteSet(P)
  <2>1. n \in Nat
    BY PlayedNumbers DEF n
  <2>2. IsFiniteSet(1..n)
    BY <2>1, CardinalityOfFirst
  <2>3. P \in SUBSET (1..n)
    BY <1>3
  <2> QED BY <2>2, <2>3, FS_Subset
<1>9. f \in [P -> N]
  BY <1>3
<1>10. \A i, j \in P : i # j => f[i] # f[j]
  BY <1>1, <1>3
<1>11. \A y \in N : \E k \in P : f[k] = y
  <2> TAKE y \in N
  <2>1. PICK k \in 1..n : order[k] = y
    BY <1>1, <1>5
  <2>2. k \in P
    BY <1>4, <2>1
  <2> QED BY <2>1, <2>2
<1> HIDE DEF f
<1>12. Cardinality(N) = Cardinality(P)
  BY <1>8, <1>9, <1>10, <1>11, SameCount
<1> QED BY <1>7, <1>12 DEF P, N, n

\* The messages of a pitch in a track.
OfTrack(track, pitch) == {k \in DOMAIN track : track[k].note = pitch}

LEMMA TrackAlternates ==
  ASSUME NEW n \in Nat, NEW plan, Plays(plan, n), NEW bpm, NEW pitch,
         ApartInPlan(plan, OfPlan(plan, n, pitch))
  PROVE  LET track == EncodeMidi(plan, bpm).track
             messages == Pick(track, OfTrack(track, pitch))
         IN /\ Len(messages) = 2 * Cardinality(OfPlan(plan, n, pitch))
            /\ \A k \in DOMAIN messages :
                 messages[k].type = IF k % 2 = 1 THEN "note_on" ELSE "note_off"
<1> DEFINE ordered == OrderedMessages(plan)
           track == EncodeMidi(plan, bpm).track
           m == 2 * n
           K == OfTrack(track, pitch)
           messages == Pick(track, K)
<1>1. m \in Nat /\ InFileOrder(ordered, plan, n)
  BY MessagesOrdered
<1>2. ordered \in [1..m -> OnMessages(plan) \union OffMessages(plan)]
  BY <1>1 DEF InFileOrder
<1>3. DOMAIN ordered = 1..m /\ Len(ordered) = m
  BY <1>1, <1>2
<1>4. IsOrdered(ordered, m)
  <2> HIDE DEF ordered
  <2> QED BY <1>1, FileOrder
<1>5. track = Deltas(ordered, m)
  <2>1. track = DeltaMessages(plan)
    BY DEF EncodeMidi
  <2>2. DeltaMessages(plan) = Deltas(ordered, m)
    BY <1>3 DEF DeltaMessages, Deltas
  <2> QED BY <2>1, <2>2
<1> HIDE DEF ordered, track
<1>6. DOMAIN track = 1..m
      /\ \A k \in 1..m : track[k].note = ordered[k].note /\ track[k].type = ordered[k].type
  <2> HIDE DEF m
  <2> QED BY <1>5 DEF Deltas
<1>7. track \in Seq(DeltaRecords) /\ Len(track) = m
  <2> HIDE DEF m
  <2> QED BY <1>1, <1>4, <1>5, DeltasTyped
<1>8. K = {k \in 1..(2 * n) : ordered[k].note = pitch}
  BY <1>6 DEF OfTrack
<1> HIDE DEF K
<1>9. /\ Cardinality(K) = 2 * Cardinality(OfPlan(plan, n, pitch))
      /\ \A k \in 1..Cardinality(K) :
           ordered[Ascending(K)[k]].type = IF k % 2 = 1 THEN "note_on" ELSE "note_off"
  BY <1>1, <1>8, PitchAlternates
<1>10. K \in SUBSET (1..Len(track))
  BY <1>7, <1>8
<1>11. /\ messages \in Seq(DeltaRecords) /\ Len(messages) = Cardinality(K)
       /\ Ascending(K) \in [1..Cardinality(K) -> K]
       /\ \A k \in 1..Cardinality(K) : messages[k] = track[Ascending(K)[k]]
  BY ONLY <1>7, <1>10, Picked
<1> HIDE DEF messages
<1>12. DOMAIN messages = 1..Cardinality(K)
  BY <1>11
<1>13. ASSUME NEW k \in 1..Cardinality(K)
       PROVE  messages[k].type = ordered[Ascending(K)[k]].type
  <2> DEFINE x == Ascending(K)[k]
  <2>1. x \in K /\ messages[k] = track[x]
    BY <1>11
  <2>2. x \in 1..m
    BY <1>8, <2>1
  <2> HIDE DEF x, m
  <2> QED BY <1>6, <2>1, <2>2 DEF x
<1> QED BY <1>9, <1>11, <1>12, <1>13 DEF messages, K, track

LEMMA RepeatsSound ==
  ASSUME ControlType, Computed, stage = "musicxml", TicksFine(setup)
  PROVE  RepeatedPitchNotCut
<1> DEFINE events == local.written.events
           bpm == local.tempo.effective
           plan == MidiPlan(events, bpm)
           track == local.midi.file.track
           n == Len(events)
<1>1. Exported(local) /\ Quantized(local) /\ Timed(local) /\ Written(local)
  BY DEF Computed, LateStages, Exported, Quantized, Timed
<1>2. Played(events) /\ setup \in Setups
  BY <1>1, TimedNumbers
<1>3. local.midi = ExportMidi(events, bpm) /\ MidiSettingsAccepted(bpm)
  BY <1>1 DEF Exported, MidiAccepted
<1>4. LongerThanTick(bpm)
  <2>1. local.tempo = ResolveTempo(events, setup.tempo, setup.fallback)
    BY <1>1 DEF Timed
  <2> HIDE DEF events
  <2> QED BY <1>2, <2>1, FinelyTimed
<1>5. HeardLong(events)
  BY <1>1, LongHeard DEF HeardLong
<1>6. track = EncodeMidi(plan, bpm).track
  <2>1. ExportMidi(events, bpm).file = EncodeMidi(plan, bpm)
    <3> HIDE DEF events, bpm
    <3> QED BY ONLY DEF ExportMidi, plan
  <2> HIDE DEF events, bpm, plan
  <2> QED BY <1>3, <2>1 DEF track
<1>7. n \in Nat /\ DOMAIN events = 1..n
  BY <1>2, PlayedNumbers
<1>8. Plays(plan, n)
  BY <1>2, <1>3, PlanPlays
<1>9. PICK order : IsPlanOrder(order, plan, events, bpm)
  BY <1>2, <1>3, PlanOrder
<1> HIDE DEF plan, bpm, track, events
<1>10. ASSUME NEW pitch, HeardApart(events, HeardOf(events, pitch))
       PROVE  LET messages == Pick(track, OfTrack(track, pitch))
              IN /\ Len(messages) = 2 * Cardinality(HeardOf(events, pitch))
                 /\ \A k \in DOMAIN messages :
                      messages[k].type = IF k % 2 = 1 THEN "note_on" ELSE "note_off"
  <2>1. /\ ApartInPlan(plan, OfPlan(plan, n, pitch))
        /\ Cardinality(OfPlan(plan, n, pitch)) = Cardinality(HeardOf(events, pitch))
    BY <1>2, <1>3, <1>4, <1>5, <1>9, <1>10, PlannedApart
  <2> HIDE DEF n
  <2> QED BY <1>6, <1>7, <1>8, <2>1, TrackAlternates
<1>11. ASSUME NEW pitch \in {events[i].source.event.pitch : i \in DOMAIN events},
              \A i, j \in {i \in DOMAIN events : events[i].source.event.pitch = pitch} :
                i # j => \/ events[i].source.event.offset <= events[j].source.event.onset
                         \/ events[j].source.event.offset <= events[i].source.event.onset
       PROVE  LET messages == Pick(track, {k \in DOMAIN track : track[k].note = pitch})
              IN /\ Len(messages) =
                      2 * Cardinality({i \in DOMAIN events : events[i].source.event.pitch = pitch})
                 /\ \A k \in DOMAIN messages :
                      messages[k].type = IF k % 2 = 1 THEN "note_on" ELSE "note_off"
  <2>1. {i \in DOMAIN events : events[i].source.event.pitch = pitch} = HeardOf(events, pitch)
    BY <1>7 DEF HeardOf, HeardAt
  <2>2. HeardApart(events, HeardOf(events, pitch))
    BY <1>11, <2>1 DEF HeardApart, HeardAt
  <2>3. {k \in DOMAIN track : track[k].note = pitch} = OfTrack(track, pitch)
    BY DEF OfTrack
  <2> QED BY <1>10, <2>1, <2>2, <2>3
<1> QED BY <1>11 DEF RepeatedPitchNotCut, track, events

(* Whatever was transcribed, the messages of a pitch whose notes do not overlap go on,   *)
(* off, on, off in the MIDI file, when no tempo of the settings makes a tick as long as a *)
(* note that post-processing keeps.                                                       *)
THEOREM RepeatedPitchesSound ==
  ASSUME \A s \in Setups : TicksFine(s)
  PROVE  Spec => []RepeatedPitchNotCut
<1>1. ControlType /\ Computed => RepeatedPitchNotCut
  <2>1. stage # "musicxml" => RepeatedPitchNotCut
    BY DEF RepeatedPitchNotCut
  <2>2. ControlType /\ Computed => TicksFine(setup)
    BY DEF ControlType
  <2> QED BY <2>1, <2>2, RepeatsSound
<1> QED BY <1>1, StagesCompute, PTL

-----------------------------------------------------------------------------
(* Powers of two, and tempos octaves away from each other.                          *)

LEMMA TwoTos ==
  /\ TwoTo[0] = 1
  /\ \A k \in Nat : TwoTo[k + 1] = 2 * TwoTo[k]
<1> DEFINE Is(g) == g = [k \in Nat |-> IF k = 0 THEN 1 ELSE 2 * g[k - 1]]
           stop == {0}
           next == [k \in Nat |-> IF k = 0 THEN 0 ELSE k - 1]
           measure == [k \in Nat |-> k]
           base == [k \in Nat |-> 1]
           step == [p \in Nat \X Nat |-> 2 * p[1]]
<1>1. IsMeasured(Nat, stop, next, measure)
  <2>1. next \in [Nat -> Nat] /\ measure \in [Nat -> Nat]
    OBVIOUS
  <2>2. \A k \in Nat : k \in stop \/ measure[next[k]] < measure[k]
    OBVIOUS
  <2> HIDE DEF stop, next, measure
  <2> QED BY <2>1, <2>2 DEF IsMeasured
<1>2. base \in Results(Nat, Nat) /\ step \in Answers(Nat, Nat)
  BY DEF Results, Answers
<1>3. \E g \in Results(Nat, Nat) : \A k \in Nat : Obeys(g, k, stop, next, base, step)
  <2> HIDE DEF stop, next, measure, base, step
  <2> QED BY <1>1, <1>2, MeasuredRecursion
<1>4. PICK g \in Results(Nat, Nat) : \A k \in Nat : Obeys(g, k, stop, next, base, step)
  BY <1>3
<1>5. ASSUME NEW k \in Nat PROVE g[k] = IF k = 0 THEN 1 ELSE 2 * g[k - 1]
  <2>1. Obeys(g, k, stop, next, base, step)
    BY <1>4
  <2>2. CASE k = 0
    BY <2>1, <2>2 DEF Obeys
  <2>3. CASE k # 0
    <3>1. k - 1 \in Nat /\ next[k] = k - 1 /\ k \notin stop
      BY <2>3
    <3>2. g[k - 1] \in Nat
      BY <1>4, <3>1 DEF Results
    <3>3. g[k] = step[<<g[k - 1], k>>]
      BY <2>1, <3>1 DEF Obeys
    <3> QED BY <2>3, <3>2, <3>3
  <2> QED BY <2>2, <2>3
<1>6. Is(g)
  BY <1>4, <1>5 DEF Results
<1>7. Is(TwoTo)
  BY <1>6 DEF TwoTo
<1>8. \A k \in Nat : TwoTo[k] = IF k = 0 THEN 1 ELSE 2 * TwoTo[k - 1]
  BY <1>7
<1>9. TwoTo[0] = 1
  BY <1>8
<1>10. ASSUME NEW k \in Nat PROVE TwoTo[k + 1] = 2 * TwoTo[k]
  <2>1. k + 1 \in Nat /\ k + 1 # 0 /\ (k + 1) - 1 = k
    OBVIOUS
  <2> QED BY <1>8, <2>1
<1> QED BY <1>9, <1>10

LEMMA TwoToPositive ==
  ASSUME NEW n \in Nat
  PROVE  TwoTo[n] \in Nat \ {0}
<1> DEFINE G == {k \in Nat : TwoTo[k] \in Nat \ {0}}
<1>1. 0 \in G
  BY TwoTos
<1>2. ASSUME NEW k \in 1..n, k - 1 \in G PROVE k \in G
  <2>1. k - 1 \in Nat /\ (k - 1) + 1 = k /\ k \in Nat
    OBVIOUS
  <2>2. TwoTo[k] = 2 * TwoTo[k - 1]
    BY <2>1, TwoTos
  <2> QED BY <1>2, <2>1, <2>2
<1> HIDE DEF G
<1>3. \A k \in 0..n : k \in G
  BY <1>1, <1>2, Induction
<1>4. n \in G
  BY <1>3
<1> QED BY <1>4 DEF G

\* Octaves multiply what they move.
Raised(bpm, k) == <<bpm[1] * TwoTo[k], bpm[2]>>
Lowered(bpm, k) == <<bpm[1], bpm[2] * TwoTo[k]>>

LEMMA PositiveParts ==
  ASSUME NEW q \in PositiveNumbers
  PROVE  q[1] \in Nat \ {0} /\ q[2] \in Nat \ {0} /\ q = <<q[1], q[2]>>
BY DEF PositiveNumbers

LEMMA OctavesPositive ==
  ASSUME NEW bpm \in PositiveNumbers, NEW k \in Nat
  PROVE  /\ Raised(bpm, k) \in PositiveNumbers /\ Lowered(bpm, k) \in PositiveNumbers
         /\ OctavesAway(bpm, k) = Raised(bpm, k)
         /\ k # 0 => OctavesAway(bpm, -k) = Lowered(bpm, k)
         /\ Raised(bpm, 0) = bpm /\ Lowered(bpm, 0) = bpm
<1>1. bpm[1] \in Nat \ {0} /\ bpm[2] \in Nat \ {0} /\ bpm = <<bpm[1], bpm[2]>>
  BY PositiveParts
<1>2. TwoTo[k] \in Nat \ {0}
  BY TwoToPositive
<1>3. bpm[1] * TwoTo[k] \in Nat \ {0} /\ bpm[2] * TwoTo[k] \in Nat \ {0}
  BY ONLY <1>1, <1>2, ProductsOfNaturals
<1>4. Raised(bpm, k) \in PositiveNumbers /\ Lowered(bpm, k) \in PositiveNumbers
  BY <1>1, <1>3 DEF Raised, Lowered, PositiveNumbers
<1>5. OctavesAway(bpm, k) = Raised(bpm, k)
  BY DEF OctavesAway, Raised
<1>6. k # 0 => OctavesAway(bpm, -k) = Lowered(bpm, k)
  <2>1. k # 0 => ~(-k >= 0) /\ -(-k) = k
    OBVIOUS
  <2> QED BY <2>1 DEF OctavesAway, Lowered
<1>7. Raised(bpm, 0) = bpm /\ Lowered(bpm, 0) = bpm
  BY <1>1, TwoTos DEF Raised, Lowered
<1> QED BY <1>4, <1>5, <1>6, <1>7

\* Doubling until the minimum is reached stops at the first octave that reaches it.
LEMMA DoubledToFirst ==
  ASSUME NEW minimum \in PositiveNumbers, NEW bpm \in PositiveNumbers
  PROVE  \E k \in Nat : /\ DoubledTo(minimum, bpm) = Raised(bpm, k)
                        /\ AtMost(minimum, Raised(bpm, k))
                        /\ \A j \in Nat : j < k => ~AtMost(minimum, Raised(bpm, j))
<1> DEFINE stop == {q \in Quotients : AtMost(minimum, q) \/ q[1] = 0}
           next == [q \in Quotients |-> Double(q)]
           measure == [q \in Quotients |-> IF AtMost(minimum, q) THEN 0
                                         ELSE minimum[1] * q[2] - q[1] * minimum[2]]
<1>1. IsMeasured(Quotients, stop, next, measure)
  BY Doubling
<1>2. PICK g : /\ \A q \in Quotients : g[q] = IF AtMost(minimum, q) THEN q ELSE g[Double(q)]
               /\ \A b : DoubledTo(minimum, b) = g[b]
  BY DoubledToFunction
<1> DEFINE First(q, k) == /\ g[q] = Raised(q, k) /\ AtMost(minimum, Raised(q, k))
                          /\ \A j \in Nat : j < k => ~AtMost(minimum, Raised(q, j))
           G == {q \in Quotients : q \in PositiveNumbers => \E k \in Nat : First(q, k)}
<1>3. ASSUME NEW q \in Quotients, q \in stop \/ next[q] \in G PROVE q \in G
  <2> SUFFICES ASSUME q \in PositiveNumbers PROVE \E k \in Nat : First(q, k)
    OBVIOUS
  <2>1. Raised(q, 0) = q
    BY OctavesPositive
  <2>2. CASE AtMost(minimum, q)
    <3>1. First(q, 0)
      BY <1>2, <2>1, <2>2
    <3> QED BY <3>1
  <2>3. CASE ~AtMost(minimum, q)
    <3>1. next[q] = Double(q) /\ Double(q) \in Quotients /\ q \notin stop /\ Double(q) \in PositiveNumbers
      BY <2>3 DEF Double, Quotients, PositiveNumbers
    <3>2. PICK k \in Nat : First(Double(q), k)
      BY <1>3, <3>1
    <3>3. \A j \in Nat : Raised(Double(q), j) = Raised(q, j + 1)
      <4> TAKE j \in Nat
      <4>1. TwoTo[j + 1] = 2 * TwoTo[j] /\ TwoTo[j] \in Nat /\ q[1] \in Nat
        BY TwoTos, TwoToPositive, PositiveParts
      <4>2. \A x, y \in Nat : (2 * x) * y = x * (2 * y)
        OBVIOUS
      <4> QED BY <4>1, <4>2 DEF Raised, Double
    <3>4. g[q] = g[Double(q)]
      BY <1>2, <2>3
    <3>5. ASSUME NEW j \in Nat, j < k + 1 PROVE ~AtMost(minimum, Raised(q, j))
      <4>1. CASE j = 0
        BY <2>1, <2>3, <4>1
      <4>2. CASE j # 0
        <5>1. j - 1 \in Nat /\ j - 1 < k /\ (j - 1) + 1 = j
          BY <3>5, <4>2
        <5>2. Raised(Double(q), j - 1) = Raised(q, j)
          BY <3>3, <5>1
        <5> QED BY <3>2, <5>1, <5>2
      <4> QED BY <4>1, <4>2
    <3>6. First(q, k + 1)
      BY <3>2, <3>3, <3>4, <3>5
    <3>7. k + 1 \in Nat
      OBVIOUS
    <3> QED BY <3>6, <3>7
  <2> QED BY <2>2, <2>3
<1> HIDE DEF stop, next, measure, G
<1>4. \A q \in Quotients : q \in G
  BY <1>1, <1>3, MeasuredInduction
<1>5. bpm \in Quotients
  BY DEF Quotients, PositiveNumbers
<1> QED BY <1>2, <1>4, <1>5 DEF G

\* Halving until the maximum is reached stops at the first octave that reaches it.
LEMMA HalvedToFirst ==
  ASSUME NEW maximum \in PositiveNumbers, NEW bpm \in PositiveNumbers
  PROVE  \E k \in Nat : /\ HalvedTo(maximum, bpm) = Lowered(bpm, k)
                        /\ AtMost(Lowered(bpm, k), maximum)
                        /\ \A j \in Nat : j < k => ~AtMost(Lowered(bpm, j), maximum)
<1> DEFINE stop == {q \in Quotients : AtMost(q, maximum) \/ q[2] = 0}
           next == [q \in Quotients |-> Halve(q)]
           measure == [q \in Quotients |-> IF AtMost(q, maximum) THEN 0
                                         ELSE q[1] * maximum[2] - maximum[1] * q[2]]
<1>1. IsMeasured(Quotients, stop, next, measure)
  BY Halving
<1>2. PICK g : /\ \A q \in Quotients : g[q] = IF AtMost(q, maximum) THEN q ELSE g[Halve(q)]
               /\ \A b : HalvedTo(maximum, b) = g[b]
  BY HalvedToFunction
<1> DEFINE First(q, k) == /\ g[q] = Lowered(q, k) /\ AtMost(Lowered(q, k), maximum)
                          /\ \A j \in Nat : j < k => ~AtMost(Lowered(q, j), maximum)
           G == {q \in Quotients : q \in PositiveNumbers => \E k \in Nat : First(q, k)}
<1>3. ASSUME NEW q \in Quotients, q \in stop \/ next[q] \in G PROVE q \in G
  <2> SUFFICES ASSUME q \in PositiveNumbers PROVE \E k \in Nat : First(q, k)
    OBVIOUS
  <2>1. Lowered(q, 0) = q
    BY OctavesPositive
  <2>2. CASE AtMost(q, maximum)
    <3>1. First(q, 0)
      BY <1>2, <2>1, <2>2
    <3> QED BY <3>1
  <2>3. CASE ~AtMost(q, maximum)
    <3>1. next[q] = Halve(q) /\ Halve(q) \in Quotients /\ q \notin stop /\ Halve(q) \in PositiveNumbers
      BY <2>3 DEF Halve, Quotients, PositiveNumbers
    <3>2. PICK k \in Nat : First(Halve(q), k)
      BY <1>3, <3>1
    <3>3. \A j \in Nat : Lowered(Halve(q), j) = Lowered(q, j + 1)
      <4> TAKE j \in Nat
      <4>1. TwoTo[j + 1] = 2 * TwoTo[j] /\ TwoTo[j] \in Nat /\ q[2] \in Nat
        BY TwoTos, TwoToPositive, PositiveParts
      <4>2. \A x, y \in Nat : (2 * x) * y = x * (2 * y)
        OBVIOUS
      <4> QED BY <4>1, <4>2 DEF Lowered, Halve
    <3>4. g[q] = g[Halve(q)]
      BY <1>2, <2>3
    <3>5. ASSUME NEW j \in Nat, j < k + 1 PROVE ~AtMost(Lowered(q, j), maximum)
      <4>1. CASE j = 0
        BY <2>1, <2>3, <4>1
      <4>2. CASE j # 0
        <5>1. j - 1 \in Nat /\ j - 1 < k /\ (j - 1) + 1 = j
          BY <3>5, <4>2
        <5>2. Lowered(Halve(q), j - 1) = Lowered(q, j)
          BY <3>3, <5>1
        <5> QED BY <3>2, <5>1, <5>2
      <4> QED BY <4>1, <4>2
    <3>6. First(q, k + 1)
      BY <3>2, <3>3, <3>4, <3>5
    <3>7. k + 1 \in Nat
      OBVIOUS
    <3> QED BY <3>6, <3>7
  <2> QED BY <2>2, <2>3
<1> HIDE DEF stop, next, measure, G
<1>4. \A q \in Quotients : q \in G
  BY <1>1, <1>3, MeasuredInduction
<1>5. bpm \in Quotients
  BY DEF Quotients, PositiveNumbers
<1> QED BY <1>2, <1>4, <1>5 DEF G

-----------------------------------------------------------------------------
(* The order of octaves.                                                            *)

LEMMA ProductShrinks ==
  ASSUME NEW x \in Nat, NEW y \in Nat, NEW c \in Nat \ {0}, x * c <= y * c
  PROVE  x <= y
<1> SUFFICES ASSUME y + 1 <= x PROVE FALSE
  OBVIOUS
<1>1. (y + 1) * c <= x * c
  BY ProductGrows
<1>2. (y + 1) * c = y * c + c /\ y * c \in Nat /\ x * c \in Nat
  BY ProductsOfNaturals
<1> QED BY <1>1, <1>2

LEMMA AtMostOrders ==
  ASSUME NEW a \in PositiveNumbers, NEW b \in PositiveNumbers, NEW c \in PositiveNumbers
  PROVE  /\ AtMost(a, b) /\ AtMost(b, c) => AtMost(a, c)
         /\ AtMost(a, b) \/ AtMost(b, a)
<1> DEFINE a1 == a[1]
           a2 == a[2]
           b1 == b[1]
           b2 == b[2]
           c1 == c[1]
           c2 == c[2]
<1>1. /\ a1 \in Nat \ {0} /\ a2 \in Nat \ {0} /\ b1 \in Nat \ {0} /\ b2 \in Nat \ {0}
      /\ c1 \in Nat \ {0} /\ c2 \in Nat \ {0}
  BY PositiveParts
<1>2. /\ AtMost(a, b) <=> a1 * b2 <= b1 * a2
      /\ AtMost(b, a) <=> b1 * a2 <= a1 * b2
      /\ AtMost(b, c) <=> b1 * c2 <= c1 * b2
      /\ AtMost(a, c) <=> a1 * c2 <= c1 * a2
  BY DEF AtMost
<1> HIDE DEF a1, a2, b1, b2, c1, c2
<1>3. ASSUME a1 * b2 <= b1 * a2, b1 * c2 <= c1 * b2 PROVE a1 * c2 <= c1 * a2
  <2> DEFINE p == a1 * b2
             q == b1 * a2
             r == b1 * c2
             s == c1 * b2
             x == a1 * c2
             y == c1 * a2
  <2>1. p \in Nat /\ q \in Nat /\ r \in Nat /\ s \in Nat /\ x \in Nat /\ y \in Nat
    BY <1>1, ProductsOfNaturals
  <2>2. p * c2 = x * b2 /\ q * c2 = r * a2 /\ s * a2 = y * b2
    BY <1>1
  <2>3. p <= q /\ r <= s
    BY <1>3
  <2> HIDE DEF p, q, r, s, x, y
  <2>4. p * c2 <= q * c2 /\ r * a2 <= s * a2
    BY <1>1, <2>1, <2>3, ProductGrows
  <2>5. p * c2 \in Nat /\ q * c2 \in Nat /\ r * a2 \in Nat /\ s * a2 \in Nat
        /\ x * b2 \in Nat /\ y * b2 \in Nat
    BY <1>1, <2>1, ProductsOfNaturals
  <2>6. x * b2 <= y * b2
    BY <2>2, <2>4, <2>5
  <2>7. x <= y
    BY <1>1, <2>1, <2>6, ProductShrinks
  <2> QED BY <2>7 DEF x, y
<1>4. a1 * b2 \in Nat /\ b1 * a2 \in Nat
  BY <1>1, ProductsOfNaturals
<1>5. a1 * b2 <= b1 * a2 \/ b1 * a2 <= a1 * b2
  BY <1>4
<1> QED BY <1>2, <1>3, <1>5

LEMMA TwoToGrows ==
  ASSUME NEW j \in Nat, NEW k \in Nat, j <= k
  PROVE  TwoTo[j] <= TwoTo[k]
<1> DEFINE n == k - j
           G == {d \in Nat : TwoTo[j] <= TwoTo[j + d]}
<1>1. n \in Nat /\ j + n = k /\ \A d \in Nat : TwoTo[d] \in Nat
  BY TwoToPositive
<1> HIDE DEF n
<1>2. 0 \in G
  BY <1>1
<1>3. ASSUME NEW d \in 1..n, d - 1 \in G PROVE d \in G
  <2>1. j + (d - 1) \in Nat /\ (j + (d - 1)) + 1 = j + d /\ d \in Nat
    BY <1>1
  <2>2. TwoTo[j + d] = 2 * TwoTo[j + (d - 1)]
    BY <2>1, TwoTos
  <2>3. TwoTo[j] <= TwoTo[j + (d - 1)] /\ TwoTo[j + (d - 1)] \in Nat /\ TwoTo[j] \in Nat
    BY <1>1, <1>3, <2>1
  <2> QED BY <2>1, <2>2, <2>3
<1> HIDE DEF G
<1>4. \A d \in 0..n : d \in G
  BY <1>1, <1>2, <1>3, Induction
<1>5. n \in G
  BY <1>1, <1>4
<1> QED BY <1>1, <1>5 DEF G

LEMMA OctavesRise ==
  ASSUME NEW bpm \in PositiveNumbers, NEW j \in Nat, NEW k \in Nat, j <= k
  PROVE  /\ AtMost(Raised(bpm, j), Raised(bpm, k))
         /\ AtMost(Lowered(bpm, k), Lowered(bpm, j))
<1> DEFINE x == bpm[1]
           y == bpm[2]
           s == TwoTo[j]
           t == TwoTo[k]
<1>1. x \in Nat \ {0} /\ y \in Nat \ {0} /\ s \in Nat /\ t \in Nat /\ s <= t
  BY PositiveParts, TwoToPositive, TwoToGrows
<1>2. /\ AtMost(Raised(bpm, j), Raised(bpm, k)) <=> (x * s) * y <= (x * t) * y
      /\ AtMost(Lowered(bpm, k), Lowered(bpm, j)) <=> x * (y * s) <= x * (y * t)
  BY DEF AtMost, Raised, Lowered
<1> HIDE DEF x, y, s, t
<1>3. x * y \in Nat /\ (x * s) * y = s * (x * y) /\ (x * t) * y = t * (x * y)
      /\ x * (y * s) = s * (x * y) /\ x * (y * t) = t * (x * y)
  BY <1>1
<1> DEFINE c == x * y
<1>4. c \in Nat
  BY <1>3
<1> HIDE DEF c
<1>5. s * c <= t * c
  BY <1>1, <1>4, ProductGrows
<1> QED BY <1>2, <1>3, <1>5 DEF c

LEMMA OctaveOrder ==
  ASSUME NEW bpm \in PositiveNumbers, NEW i \in Int, NEW k \in Int, i <= k
  PROVE  /\ OctavesAway(bpm, i) \in PositiveNumbers /\ OctavesAway(bpm, k) \in PositiveNumbers
         /\ AtMost(OctavesAway(bpm, i), OctavesAway(bpm, k))
<1>1. CASE i >= 0
  <2>1. i \in Nat /\ k \in Nat
    BY <1>1
  <2>2. OctavesAway(bpm, i) = Raised(bpm, i) /\ OctavesAway(bpm, k) = Raised(bpm, k)
        /\ Raised(bpm, i) \in PositiveNumbers /\ Raised(bpm, k) \in PositiveNumbers
    BY <2>1, OctavesPositive
  <2>3. AtMost(Raised(bpm, i), Raised(bpm, k))
    BY <2>1, OctavesRise
  <2> QED BY <2>2, <2>3
<1>2. CASE k < 0
  <2> DEFINE p == -i
             q == -k
  <2>1. p \in Nat /\ q \in Nat /\ p # 0 /\ q # 0 /\ q <= p /\ i = -p /\ k = -q
    BY <1>2
  <2> HIDE DEF p, q
  <2>2. OctavesAway(bpm, -p) = Lowered(bpm, p) /\ OctavesAway(bpm, -q) = Lowered(bpm, q)
        /\ Lowered(bpm, p) \in PositiveNumbers /\ Lowered(bpm, q) \in PositiveNumbers
    BY <2>1, OctavesPositive
  <2>3. AtMost(Lowered(bpm, p), Lowered(bpm, q))
    BY <2>1, OctavesRise
  <2> QED BY <2>1, <2>2, <2>3
<1>3. CASE i < 0 /\ k >= 0
  <2> DEFINE p == -i
             none == 0
  <2>1. p \in Nat /\ p # 0 /\ none <= p /\ i = -p /\ k \in Nat /\ none \in Nat /\ none <= k
    BY <1>3
  <2> HIDE DEF p
  <2>2. OctavesAway(bpm, -p) = Lowered(bpm, p) /\ OctavesAway(bpm, k) = Raised(bpm, k)
        /\ Lowered(bpm, p) \in PositiveNumbers /\ Raised(bpm, k) \in PositiveNumbers
        /\ Lowered(bpm, none) = bpm /\ Raised(bpm, none) = bpm
    BY <2>1, OctavesPositive
  <2> HIDE DEF none
  <2>3. AtMost(Lowered(bpm, p), Lowered(bpm, none)) /\ AtMost(Raised(bpm, none), Raised(bpm, k))
    BY <2>1, OctavesRise
  <2>4. AtMost(Lowered(bpm, p), Raised(bpm, k))
    BY <2>2, <2>3, AtMostOrders
  <2> QED BY <2>1, <2>2, <2>4
<1> QED BY <1>1, <1>2, <1>3

DistanceOf(k) == IF k < 0 THEN -k ELSE k

\* The octave a tempo is resolved to is the nearest one in the range, if the range has any.
IsNearest(k, bpm, settings) ==
  /\ ResolveOctaveEquivalent(bpm, settings) = OctavesAway(bpm, k)
  /\ \A i \in Int : InTempoRange(OctavesAway(bpm, i), settings) =>
       /\ InTempoRange(OctavesAway(bpm, k), settings)
       /\ DistanceOf(k) <= DistanceOf(i)

LEMMA NearestOctave ==
  ASSUME NEW settings, settings.minimum_bpm \in PositiveNumbers,
         settings.maximum_bpm \in PositiveNumbers, NEW bpm \in PositiveNumbers
  PROVE  \E k \in Int : IsNearest(k, bpm, settings)
<1> DEFINE low == settings.minimum_bpm
           high == settings.maximum_bpm
           Away(k) == OctavesAway(bpm, k)
<1>1. \A q : InTempoRange(q, settings) <=> AtMost(low, q) /\ AtMost(q, high)
  BY DEF InTempoRange
<1>2. \A i, k \in Int : i <= k => /\ Away(i) \in PositiveNumbers /\ Away(k) \in PositiveNumbers
                                  /\ AtMost(Away(i), Away(k))
  BY OctaveOrder
<1>3. Away(0) = bpm
  BY OctavesPositive
<1>4. \A k \in Nat : Away(k) = Raised(bpm, k)
  BY OctavesPositive
<1>5. \A k \in Nat : Away(-k) = Lowered(bpm, k)
  <2> TAKE k \in Nat
  <2>1. CASE k = 0
    BY <1>3, <2>1, OctavesPositive
  <2>2. CASE k # 0
    BY <2>2, OctavesPositive
  <2> QED BY <2>1, <2>2
<1> HIDE DEF low, high, Away
<1>6. \A k \in Int : DistanceOf(k) = IF k < 0 THEN -k ELSE k
  BY DEF DistanceOf
<1>7. CASE AtMost(low, bpm) /\ AtMost(bpm, high)
  <2>1. ResolveOctaveEquivalent(bpm, settings) = Away(0)
    BY <1>3, <1>7 DEF ResolveOctaveEquivalent, low, high
  <2>2. \A i \in Int : InTempoRange(Away(0), settings) /\ DistanceOf(0) <= DistanceOf(i)
    BY <1>1, <1>3, <1>6, <1>7
  <2> QED BY <2>1, <2>2 DEF IsNearest, Away
<1>8. CASE ~AtMost(low, bpm)
  <2>1. Below(bpm, low)
    <3>1. bpm[1] * low[2] \in Int /\ low[1] * bpm[2] \in Int
      BY PositiveParts DEF low
    <3> QED BY <1>8, <3>1 DEF Below, AtMost
  <2>2. ResolveOctaveEquivalent(bpm, settings) = DoubledTo(low, bpm)
    BY <1>8, <2>1 DEF ResolveOctaveEquivalent, low, high
  <2>3. PICK k \in Nat : /\ DoubledTo(low, bpm) = Raised(bpm, k) /\ AtMost(low, Raised(bpm, k))
                         /\ \A j \in Nat : j < k => ~AtMost(low, Raised(bpm, j))
    BY DoubledToFirst DEF low
  <2>4. ASSUME NEW i \in Int, AtMost(low, Away(i)) PROVE k <= i
    <3>1. CASE i < 0
      <4>1. AtMost(Away(i), bpm) /\ Away(i) \in PositiveNumbers
        BY <1>2, <1>3, <3>1
      <4>2. AtMost(low, bpm)
        BY <2>4, <4>1, AtMostOrders DEF low
      <4> QED BY <1>8, <4>2
    <3>2. CASE i >= 0
      <4>1. i \in Nat /\ AtMost(low, Raised(bpm, i))
        BY <1>4, <2>4, <3>2
      <4> QED BY <2>3, <4>1
    <3> QED BY <3>1, <3>2
  <2>5. ASSUME NEW i \in Int, InTempoRange(Away(i), settings)
        PROVE  InTempoRange(Away(k), settings) /\ DistanceOf(k) <= DistanceOf(i)
    <3>1. AtMost(low, Away(i)) /\ AtMost(Away(i), high)
      BY <1>1, <2>5
    <3>2. k <= i /\ i >= 0
      BY <2>4, <3>1
    <3>3. AtMost(Away(k), Away(i)) /\ Away(k) \in PositiveNumbers /\ Away(i) \in PositiveNumbers
      BY <1>2, <3>2
    <3>4. AtMost(Away(k), high)
      BY <3>1, <3>3, AtMostOrders DEF high
    <3>5. AtMost(low, Away(k))
      BY <1>4, <2>3
    <3> QED BY <1>1, <1>6, <3>2, <3>4, <3>5
  <2>6. ResolveOctaveEquivalent(bpm, settings) = Away(k) /\ k \in Int
    BY <1>4, <2>2, <2>3
  <2> QED BY <2>5, <2>6 DEF IsNearest, Away
<1>9. CASE AtMost(low, bpm) /\ ~AtMost(bpm, high)
  <2>1. ~Below(bpm, low)
    <3>1. bpm[1] * low[2] \in Int /\ low[1] * bpm[2] \in Int
      BY PositiveParts DEF low
    <3> QED BY <1>9, <3>1 DEF Below, AtMost
  <2>2. ResolveOctaveEquivalent(bpm, settings) = HalvedTo(high, bpm)
    BY <1>9, <2>1 DEF ResolveOctaveEquivalent, low, high
  <2>3. PICK k \in Nat : /\ HalvedTo(high, bpm) = Lowered(bpm, k) /\ AtMost(Lowered(bpm, k), high)
                         /\ \A j \in Nat : j < k => ~AtMost(Lowered(bpm, j), high)
    BY HalvedToFirst DEF high
  <2>4. ASSUME NEW i \in Int, AtMost(Away(i), high) PROVE i <= -k
    <3>1. CASE i > 0
      <4>1. AtMost(bpm, Away(i)) /\ Away(i) \in PositiveNumbers
        BY <1>2, <1>3, <3>1
      <4>2. AtMost(bpm, high)
        BY <2>4, <4>1, AtMostOrders DEF high
      <4> QED BY <1>9, <4>2
    <3>2. CASE i <= 0
      <4> DEFINE j == -i
      <4>1. j \in Nat /\ i = -j
        BY <3>2
      <4> HIDE DEF j
      <4>2. AtMost(Lowered(bpm, j), high)
        BY <1>5, <2>4, <4>1
      <4>3. ~(j < k)
        BY <2>3, <4>1, <4>2
      <4> QED BY <4>1, <4>3
    <3> QED BY <3>1, <3>2
  <2>5. ASSUME NEW i \in Int, InTempoRange(Away(i), settings)
        PROVE  InTempoRange(Away(-k), settings) /\ DistanceOf(-k) <= DistanceOf(i)
    <3>1. AtMost(low, Away(i)) /\ AtMost(Away(i), high)
      BY <1>1, <2>5
    <3>2. i <= -k /\ -k \in Int /\ -k <= 0
      BY <2>4, <3>1
    <3>3. AtMost(Away(i), Away(-k)) /\ Away(-k) \in PositiveNumbers /\ Away(i) \in PositiveNumbers
      BY <1>2, <3>2
    <3>4. AtMost(low, Away(-k))
      BY <3>1, <3>3, AtMostOrders DEF low
    <3>5. AtMost(Away(-k), high)
      BY <1>5, <2>3
    <3> QED BY <1>1, <1>6, <3>2, <3>4, <3>5
  <2>6. ResolveOctaveEquivalent(bpm, settings) = Away(-k) /\ -k \in Int
    BY <1>5, <2>2, <2>3
  <2> QED BY <2>5, <2>6 DEF IsNearest, Away
<1> QED BY <1>7, <1>8, <1>9

-----------------------------------------------------------------------------
(* The median of the tempos is that of the intervals, the longest first.             *)

AtLeast(s, x) == {i \in DOMAIN s : s[i] >= x}
MoreThan(s, x) == {i \in DOMAIN s : s[i] > x}

\* An order of the positions of a list of n numbers, the largest number first.
IsDescending(order, s, n) ==
  /\ order \in [1..n -> 1..n]
  /\ \A p \in 1..n : \E k \in 1..n : order[k] = p
  /\ \A i, j \in 1..n : i < j => order[i] # order[j] /\ s[order[i]] >= s[order[j]]

FirstOf(order, k) == {order[j] : j \in 1..k}

LEMMA FirstPositions ==
  ASSUME NEW n \in Nat, NEW order, NEW s, IsDescending(order, s, n), NEW k \in 0..n
  PROVE  IsFiniteSet(FirstOf(order, k)) /\ Cardinality(FirstOf(order, k)) = k
<1> DEFINE S == 1..k
           T == FirstOf(order, k)
           f == [j \in S |-> order[j]]
<1>1. k \in Nat /\ \A j \in S : j \in 1..n
  OBVIOUS
<1>2. IsFiniteSet(S) /\ Cardinality(S) = k
  BY <1>1, CardinalityOfFirst
<1>3. \A i, j \in S : i # j => f[i] # f[j]
  <2> SUFFICES ASSUME NEW i \in S, NEW j \in S, i # j PROVE order[i] # order[j]
    OBVIOUS
  <2>1. i \in 1..n /\ j \in 1..n /\ (i < j \/ j < i)
    BY <1>1
  <2> QED BY <2>1 DEF IsDescending
<1>4. f \in [S -> T] /\ \A y \in T : \E j \in S : f[j] = y
  BY DEF FirstOf
<1> HIDE DEF S, T, f
<1>5. IsFiniteSet(T) /\ Cardinality(T) = Cardinality(S)
  BY <1>2, <1>3, <1>4, SameCount
<1> QED BY <1>2, <1>5 DEF S, T

LEMMA RankOfPlace ==
  ASSUME NEW n \in Nat, NEW s, DOMAIN s = 1..n, \A i \in 1..n : s[i] \in Nat,
         NEW order, IsDescending(order, s, n), NEW k \in 1..n
  PROVE  KthLongest(s, k) = s[order[k]]
<1> DEFINE a == s[order[k]]
           Ranked(x) == Cardinality(MoreThan(s, x)) < k /\ Cardinality(AtLeast(s, x)) >= k
           before == FirstOf(order, k - 1)
           upto == FirstOf(order, k)
<1>1. /\ order \in [1..n -> 1..n]
      /\ \A p \in 1..n : \E j \in 1..n : order[j] = p
      /\ \A i, j \in 1..n : i < j => s[order[i]] >= s[order[j]]
  BY DEF IsDescending
<1>2. a \in Nat /\ a \in ToSet(s)
  BY <1>1 DEF ToSet
<1>3. \A x \in ToSet(s) : x \in Nat
  BY DEF ToSet
<1>4. \A x : /\ IsFiniteSet(MoreThan(s, x)) /\ Cardinality(MoreThan(s, x)) \in Nat
             /\ IsFiniteSet(AtLeast(s, x)) /\ Cardinality(AtLeast(s, x)) \in Nat
  <2> TAKE x
  <2>1. IsFiniteSet(1..n)
    BY CardinalityOfFirst
  <2>2. MoreThan(s, x) \in SUBSET (1..n) /\ AtLeast(s, x) \in SUBSET (1..n)
    BY DEF MoreThan, AtLeast
  <2>3. IsFiniteSet(MoreThan(s, x)) /\ IsFiniteSet(AtLeast(s, x))
    BY ONLY <2>1, <2>2, FS_Subset
  <2> QED BY <2>3, FS_CardinalityType
<1>5. k \in Nat /\ k - 1 \in 0..n /\ k \in 0..n
  OBVIOUS
<1>6. IsFiniteSet(before) /\ Cardinality(before) = k - 1
  BY ONLY n \in Nat, IsDescending(order, s, n), <1>5, FirstPositions
<1>7. IsFiniteSet(upto) /\ Cardinality(upto) = k
  BY ONLY n \in Nat, IsDescending(order, s, n), <1>5, FirstPositions
<1>8. Ranked(a)
  <2>1. MoreThan(s, a) \subseteq before
    <3> SUFFICES ASSUME NEW i \in 1..n, s[i] > a PROVE i \in before
      BY DEF MoreThan
    <3>1. PICK j \in 1..n : order[j] = i
      BY <1>1
    <3>2. j # k /\ ~(k < j)
      <4>1. s[order[j]] \in Nat
        BY <3>1
      <4>2. s[order[j]] > a
        BY <3>1
      <4>3. k < j => a >= s[order[j]]
        BY <1>1
      <4> HIDE DEF before, upto
      <4> QED BY <1>2, <4>1, <4>2, <4>3
    <3>3. j \in 1..(k - 1)
      BY <3>2
    <3> QED BY <3>1, <3>3 DEF FirstOf
  <2>2. upto \subseteq AtLeast(s, a)
    <3> SUFFICES ASSUME NEW j \in 1..k PROVE order[j] \in 1..n /\ s[order[j]] >= a
      BY DEF AtLeast, FirstOf
    <3>1. j \in 1..n /\ order[j] \in 1..n
      BY <1>1, <1>5
    <3>2. CASE j = k
      BY <1>2, <3>1, <3>2
    <3>3. CASE j # k
      <4>1. j < k
        BY <3>3
      <4> QED BY <1>1, <3>1, <4>1
    <3> QED BY <3>2, <3>3
  <2> HIDE DEF before, upto, a
  <2>3. Cardinality(MoreThan(s, a)) <= Cardinality(before)
    BY <1>6, <2>1, FS_Subset
  <2>4. Cardinality(upto) <= Cardinality(AtLeast(s, a))
    BY <1>4, <2>2, FS_Subset
  <2> QED BY <1>4, <1>5, <1>6, <1>7, <2>3, <2>4
<1> HIDE DEF a, before, upto
<1>9. ASSUME NEW x \in ToSet(s), NEW y \in ToSet(s), Ranked(x), Ranked(y), x < y PROVE FALSE
  <2>1. AtLeast(s, y) \subseteq MoreThan(s, x)
    <3>1. \A i \in 1..n : s[i] >= y => s[i] > x
      BY <1>3, <1>9
    <3> QED BY <3>1 DEF AtLeast, MoreThan
  <2>2. Cardinality(AtLeast(s, y)) <= Cardinality(MoreThan(s, x))
    BY <1>4, <2>1, FS_Subset
  <2> QED BY <1>4, <1>5, <1>9, <2>2
<1>10. \A x \in ToSet(s) : Ranked(x) => x = a
  <2> TAKE x \in ToSet(s)
  <2>1. Ranked(x) => ~(x < a) /\ ~(a < x)
    BY <1>2, <1>8, <1>9
  <2>2. x \in Nat
    BY <1>3
  <2> QED BY <1>2, <2>1, <2>2
<1>11. KthLongest(s, k) = CHOOSE x \in ToSet(s) : Ranked(x)
  BY DEF KthLongest, AtLeast, MoreThan
<1> HIDE DEF Ranked
<1> QED BY <1>2, <1>8, <1>10, <1>11 DEF a

LongestFirst(intervals) ==
  [k \in DOMAIN intervals |-> <<60 * Second, KthLongest(intervals, k)>>]

LEMMA CandidatesRanked ==
  ASSUME NEW intervals \in Seq(Nat \ {0})
  PROVE  CandidateTempos(intervals) = LongestFirst(intervals)
<1> DEFINE n == Len(intervals)
           minute == 60 * Second
           s == [i \in DOMAIN intervals |-> <<minute, intervals[i]>>]
           key == [i \in DOMAIN intervals |-> <<-intervals[i]>>]
           order == SortedPositions(s, key)
           one == 1
           V == {minute} \X (Nat \ {0})
<1>1. n \in Nat /\ DOMAIN intervals = 1..n /\ \A i \in 1..n : intervals[i] \in Nat \ {0}
  OBVIOUS
<1> HIDE DEF minute
<1>2. s \in Seq(V) /\ Len(s) = n /\ DOMAIN s = 1..n /\ \A i \in 1..n : s[i] = <<minute, intervals[i]>>
  BY <1>1
<1>3. key \in PositionKeys(s, one) /\ \A i \in 1..n : key[i] = <<-intervals[i]>>
  <2>1. \A i \in 1..n : <<-intervals[i]>> \in Tuples(one)
    BY <1>1 DEF Tuples
  <2> HIDE DEF s, one
  <2> QED BY <1>1, <1>2, <2>1 DEF PositionKeys
<1> HIDE DEF s, key, one, V
<1>4. one \in Nat
  BY DEF one
<1>5. /\ order \in [1..n -> 1..n]
      /\ \A p \in 1..n : \E k \in 1..n : order[k] = p
      /\ \A i, j \in 1..n : i < j =>
           /\ order[i] # order[j]
           /\ TupleLess(key[order[i]], key[order[j]]) \/ key[order[i]] = key[order[j]]
  <2>1. /\ order \in [1..Len(s) -> 1..Len(s)]
        /\ \A p \in 1..Len(s) : \E k \in 1..Len(s) : order[k] = p
        /\ \A i, j \in 1..Len(s) : i < j =>
             LET p == order[i]
                 q == order[j]
             IN p # q /\ (TupleLess(key[p], key[q]) \/ (key[p] = key[q] /\ p < q))
    BY ONLY <1>2, <1>3, <1>4, SortedPositionsSort
  <2> HIDE DEF order, n
  <2> QED BY <1>2, <2>1
<1>6. CandidateTempos(intervals) = [k \in DOMAIN order |-> s[order[k]]]
  BY DEF CandidateTempos, Sorted, s, key, minute
<1> HIDE DEF order
<1>7. ASSUME NEW p \in 1..n, NEW q \in 1..n, TupleLess(key[p], key[q]) \/ key[p] = key[q]
      PROVE  intervals[p] >= intervals[q]
  <2> DEFINE a == intervals[p]
             b == intervals[q]
  <2>1. a \in Nat /\ b \in Nat /\ key[p] = <<-a>> /\ key[q] = <<-b>>
    BY <1>1, <1>3
  <2> HIDE DEF a, b
  <2>2. TupleLess(<<-a>>, <<-b>>) => -a < -b
    <3>1. Len(<<-a>>) = 1 /\ <<-a>>[1] = -a /\ <<-b>>[1] = -b
      OBVIOUS
    <3> DEFINE s1 == <<-a>>
               s2 == <<-b>>
    <3> HIDE DEF s1, s2
    <3>2. TupleLess(s1, s2) /\ Len(s1) = 1 => s1[1] < s2[1]
      BY DEF TupleLess
    <3> QED BY <3>1, <3>2 DEF s1, s2
  <2>3. <<-a>> = <<-b>> => -a = -b
    OBVIOUS
  <2>4. a >= b
    BY <1>7, <2>1, <2>2, <2>3
  <2> QED BY <2>4 DEF a, b
<1>8. IsDescending(order, intervals, n)
  <2>1. ASSUME NEW i \in 1..n, NEW j \in 1..n, i < j
        PROVE  order[i] # order[j] /\ intervals[order[i]] >= intervals[order[j]]
    BY <1>5, <1>7, <2>1
  <2> HIDE DEF n
  <2> QED BY <1>5, <2>1 DEF IsDescending
<1> HIDE DEF n
<1>9. ASSUME NEW k \in 1..n PROVE s[order[k]] = <<minute, KthLongest(intervals, k)>>
  <2>1. KthLongest(intervals, k) = intervals[order[k]]
    BY <1>1, <1>8, RankOfPlace
  <2>2. order[k] \in 1..n
    BY <1>5
  <2> QED BY <1>2, <2>1, <2>2
<1>10. DOMAIN order = 1..n
  BY <1>5
<1> QED BY <1>1, <1>6, <1>9, <1>10 DEF LongestFirst, minute

-----------------------------------------------------------------------------
LEMMA TempoIsNearest ==
  ASSUME ControlType, Computed, stage = "quantize", Octaves = Int
  PROVE  TempoIsNearestOctave
<1> DEFINE events == local.written.events
           settings == setup.tempo
           intervals == OnsetIntervals(events)
           enough == Len(intervals) >= settings.minimum_interval_count
           median == Median(LongestFirst(intervals))
           octaves == {k \in Octaves : InTempoRange(OctavesAway(median, k), settings)}
           estimate == EstimateTempo(events, settings)
           estimated == ResolveOctaveEquivalent(median, settings)
<1>1. Timed(local) /\ Written(local) /\ setup \in Setups
  BY DEF Computed, Timed
<1>2. Played(events) /\ local.tempo = ResolveTempo(events, settings, setup.fallback)
  BY <1>1, WrittenPlayed DEF Timed
<1>3. /\ settings.minimum_bpm \in PositiveNumbers /\ settings.maximum_bpm \in PositiveNumbers
      /\ settings.minimum_interval_count \in Nat \ {0}
  BY <1>1, PipelineAssumption DEF SetupAccepted, TempoSettingsAccepted
<1>4. intervals \in Seq(Nat \ {0})
  BY <1>2, IntervalsPositive
<1>5. CandidateTempos(intervals) = LongestFirst(intervals)
  BY <1>4, CandidatesRanked
<1>6. LongestFirst(intervals) \in Seq(PositiveNumbers)
      /\ Len(LongestFirst(intervals)) = Len(intervals) /\ Len(intervals) \in Nat
  BY <1>4, <1>5, CandidatesPositive
<1> HIDE DEF intervals, settings, events
<1>7. enough => median \in PositiveNumbers
  <2>1. enough => Len(LongestFirst(intervals)) > 0
    BY <1>3, <1>6
  <2> DEFINE s == LongestFirst(intervals)
  <2> HIDE DEF s
  <2>2. s \in Seq(PositiveNumbers) /\ (enough => Len(s) > 0)
    BY <1>6, <2>1 DEF s
  <2>3. enough => Median(s) \in PositiveNumbers
    BY <2>2, MedianPositive
  <2> QED BY <2>3 DEF s
<1>8. \/ estimate = Unavailable /\ ~(enough /\ InTempoRange(estimated, settings))
      \/ /\ enough /\ InTempoRange(estimated, settings)
         /\ estimate.available = TRUE /\ estimate.tempo_bpm = estimated
  <2>1. ~enough <=> Len(intervals) < settings.minimum_interval_count
    BY <1>3, <1>6
  <2> HIDE DEF enough
  <2> QED BY <1>5, <2>1 DEF EstimateTempo, intervals
<1> HIDE DEF median, estimate, estimated
<1>9. enough => \E k \in Int : IsNearest(k, median, settings)
  BY <1>3, <1>7, NearestOctave
<1>10. CASE ~enough
  <2>1. estimate = Unavailable
    BY <1>8, <1>10
  <2>2. local.tempo = ManualTempo(setup.fallback)
    BY <1>2, <2>1 DEF ResolveTempo, Unavailable, estimate
  <2>3. local.tempo.source = "manual" /\ local.tempo.effective = setup.fallback
    BY <2>2 DEF ManualTempo
  <2> HIDE DEF enough, octaves
  <2>4. ~(enough /\ octaves # {})
    BY <1>10
  <2> QED BY <2>3, <2>4 DEF TempoIsNearestOctave, LongestFirst, enough, octaves, median, intervals,
                            settings, events
<1>11. CASE enough
  <2>1. PICK k \in Int : IsNearest(k, median, settings)
    BY <1>9, <1>11
  <2>2. /\ estimated = OctavesAway(median, k)
        /\ \A i \in Int : InTempoRange(OctavesAway(median, i), settings) =>
             /\ InTempoRange(OctavesAway(median, k), settings)
             /\ DistanceOf(k) <= DistanceOf(i)
    BY <2>1 DEF IsNearest, estimated
  <2>3. octaves # {} <=> InTempoRange(estimated, settings)
    BY <2>2
  <2>4. CASE octaves = {}
    <3>1. estimate = Unavailable
      BY <1>8, <2>3, <2>4
    <3>2. local.tempo = ManualTempo(setup.fallback)
      BY <1>2, <3>1 DEF ResolveTempo, Unavailable, estimate
    <3>3. local.tempo.source = "manual" /\ local.tempo.effective = setup.fallback
      BY <3>2 DEF ManualTempo
    <3> HIDE DEF enough, octaves
    <3>4. ~(enough /\ octaves # {})
      BY <2>4
    <3> QED BY <3>3, <3>4 DEF TempoIsNearestOctave, LongestFirst, enough, octaves, median, intervals,
                              settings, events
  <2>5. CASE octaves # {}
    <3>1. estimate.available = TRUE /\ estimate.tempo_bpm = estimated
      <4> HIDE DEF enough, octaves, settings, events, intervals
      <4>1. InTempoRange(estimated, settings)
        BY <2>3, <2>5
      <4> QED BY ONLY <1>8, <1>11, <4>1
    <3>2. local.tempo = AutomaticTempo(estimate)
      BY <1>2, <3>1 DEF ResolveTempo, estimate
    <3>3. local.tempo.source = "automatic" /\ local.tempo.effective = estimated
      BY <3>1, <3>2 DEF AutomaticTempo
    <3>4. SameNumber(local.tempo.effective, OctavesAway(median, k))
      BY <2>2, <3>3 DEF SameNumber
    <3>5. k \in octaves /\ \A other \in octaves : DistanceOf(k) <= DistanceOf(other)
      BY <2>2, <2>3, <2>5
    <3> HIDE DEF enough, octaves
    <3>6. enough /\ octaves # {}
      BY <1>11, <2>5
    <3> QED BY <3>3, <3>4, <3>5, <3>6
            DEF TempoIsNearestOctave, LongestFirst, DistanceOf, enough, octaves, median, intervals,
                settings, events
  <2> QED BY <2>4, <2>5
<1> QED BY <1>10, <1>11

(* Whatever was transcribed, the tempo of the score is the median beat moved by the       *)
(* fewest octaves that bring it into the range, however many that takes; it is the         *)
(* fallback exactly when there are too few onsets or no octave lies in the range.           *)
THEOREM ScoreTempoIsNearest ==
  ASSUME Octaves = Int
  PROVE  Spec => []TempoIsNearestOctave
<1>1. ControlType /\ Computed => TempoIsNearestOctave
  <2>1. stage # "quantize" => TempoIsNearestOctave
    BY DEF TempoIsNearestOctave
  <2> QED BY <2>1, TempoIsNearest
<1> QED BY <1>1, StagesCompute, PTL
=============================================================================
