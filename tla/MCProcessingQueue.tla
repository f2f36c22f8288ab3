-------------------------- MODULE MCProcessingQueue --------------------------
(* Model values and symmetry for the PostgreSQL queue. *)
EXTENDS ProcessingQueue, TLC

CONSTANTS j1, j2, w1, w2

TwoJobs == {j1, j2}
TwoWorkers == {w1, w2}
Symmetry == Permutations(Jobs) \cup Permutations(Workers)
=============================================================================
