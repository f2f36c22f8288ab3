----------------------- MODULE MCTranscriptionWorker -----------------------
(* Model values and symmetry for the worker composition. *)
EXTENDS TranscriptionWorker, TLC

CONSTANTS j1, j2, w1, w2

OneJob == {j1}
TwoJobs == {j1, j2}
OneWorker == {w1}
TwoWorkers == {w1, w2}
OneCode == {"AUDIO_CONTENT_INVALID"}
Symmetry == Permutations(Jobs) \cup Permutations(Workers)
=============================================================================
