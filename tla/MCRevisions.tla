----------------------------- MODULE MCRevisions -----------------------------
(* Model values, small batches and symmetry for the revisions. *)
EXTENDS Revisions, FiniteSets, TLC

CONSTANTS j1, s1, h1, h2, t1, t2, r1, r2, q1, q2

OneJob == {j1}
ModelEvents == {s1}
HumanEvents == {h1, h2}
TwoThreads == {t1, t2}
TwoResults == {r1, r2}
TwoRequests == {q1, q2}

\* A result with a note, and one without: empty results are valid.
Notes == (r1 :> {s1}) @@ (r2 :> {})

NoOperation == [update |-> {}, delete |-> {}, add |-> {}]

\* Single operations, a delete with an add, and an empty request.
SmallBatches ==
  {NoOperation}
    \cup {[NoOperation EXCEPT !.update = {i}] : i \in {s1, h1}}
    \cup {[NoOperation EXCEPT !.delete = {i}] : i \in {s1, h1}}
    \cup {[NoOperation EXCEPT !.add = {i}] : i \in HumanEvents}
    \cup {[update |-> {}, delete |-> {s1}, add |-> {h1}]}

SingleAdd == {[NoOperation EXCEPT !.add = {h1}]}

Symmetry == Permutations(TwoThreads) \cup Permutations(TwoRequests)
=============================================================================
