------------------------------ MODULE Rounding ------------------------------
(* The arithmetic the note pipeline computes with. The program's floats and   *)
(* its Decimal quotients are exact rationals here: a quotient is a pair of     *)
(* numbers n, d with d > 0, and a result is rounded once, where the program    *)
(* rounds it. Times are whole numbers of time units.                           *)
EXTENDS Integers, Sequences, FiniteSets

\* Decimal.quantize(Decimal(1), rounding=ROUND_HALF_UP) of n / d, n >= 0.
RoundHalfUp(n, d) == (2 * n + d) \div (2 * d)

\* Python's round(n / d) and Decimal's ROUND_HALF_EVEN: ties go to the even number.
RoundHalfEven(n, d) ==
  LET down == n \div d
      twice == 2 * (n % d)
  IN IF twice > d \/ (twice = d /\ down % 2 = 1) THEN down + 1 ELSE down

\* Python's order of two tuples of the same length.
TupleLess(a, b) ==
  \E i \in 1..Len(a) : a[i] < b[i] /\ \A j \in 1..(i - 1) : a[j] = b[j]

(* sorted(S, key=...), for keys that tell the elements apart: the place of an    *)
(* element is the number of elements below it.                                    *)
SortedBy(S, key) ==
  [k \in 1..Cardinality(S) |->
     CHOOSE x \in S : Cardinality({y \in S : TupleLess(key[y], key[x])}) = k - 1]

\* The numbers of a set, lowest first.
Ascending(S) == SortedBy(S, [x \in S |-> <<x>>])

\* A list of the elements of s at some of its positions, as a comprehension with an if.
Pick(s, positions) ==
  LET order == Ascending(positions) IN [k \in DOMAIN order |-> s[order[k]]]

(* sorted(s, key=...) of a list is stable: of two elements with the same key, the  *)
(* one that came first stays first. key has the key of every position.              *)
SortedPositions(s, key) == SortedBy(DOMAIN s, [i \in DOMAIN s |-> Append(key[i], i)])

Sorted(s, key) ==
  LET order == SortedPositions(s, key) IN [k \in DOMAIN order |-> s[order[k]]]

AtMost(a, b) == a[1] * b[2] <= b[1] * a[2]
Below(a, b) == a[1] * b[2] < b[1] * a[2]
SameNumber(a, b) == a[1] * b[2] = b[1] * a[2]
Distance(a, b) ==
  LET difference == a[1] * b[2] - b[1] * a[2]
  IN <<IF difference < 0 THEN -difference ELSE difference, a[2] * b[2]>>
=============================================================================
