---------------------------- MODULE NoteMatching ----------------------------
(* application/note_transcription_evaluation.py and                              *)
(* domain/note_transcription_metrics.py: how well a transcription agrees with a   *)
(* reference, by matching notes of the same pitch one to one.                     *)
EXTENDS NoteEvents, FiniteSetsExt, SequencesExt

CONSTANTS OnsetTolerance, EvaluateOffset, OffsetRatio, OffsetMinimum

ASSUME ToleranceAssumption ==
  /\ OnsetTolerance \in Nat \ {0} /\ EvaluateOffset \in BOOLEAN /\ OffsetMinimum \in Nat \ {0}
  /\ OffsetRatio \in Nat \X (Nat \ {0}) /\ OffsetRatio[1] \in 1..OffsetRatio[2]

OnsetError(reference, candidate) ==
  LET difference == candidate.onset - reference.onset
  IN IF difference < 0 THEN -difference ELSE difference

\* The larger of the two offset tolerances, without the division by OffsetRatio[2].
WithinTolerance(reference, candidate) ==
  LET difference == candidate.offset - reference.offset
      error == IF difference < 0 THEN -difference ELSE difference
  IN /\ OnsetError(reference, candidate) <= OnsetTolerance
     /\ EvaluateOffset => \/ error * OffsetRatio[2] <= OffsetRatio[1] * Duration(reference)
                          \/ error <= OffsetMinimum

\* The positions of the notes of a pitch, in the order of their onsets.
ByOnset(events, pitch) ==
  LET indices == {i \in DOMAIN events : events[i].pitch = pitch}
  IN SortedBy(indices, [i \in indices |-> <<events[i].onset, i>>])

\* Mutation of MatchNext: a note that was taken can be taken again.
MatchNextAgain(reference, estimated, matching, r) ==
  LET candidates == ByOnset(estimated, reference[r].pitch)
      open == Pick(candidates, {k \in DOMAIN candidates :
                                  WithinTolerance(reference[r], estimated[candidates[k]])})
      Error(k) == OnsetError(reference[r], estimated[open[k]])
      best == CHOOSE k \in DOMAIN open :
                \A other \in DOMAIN open :
                  Error(k) < Error(other) \/ (Error(k) = Error(other) /\ k <= other)
  IN IF open = <<>> THEN matching ELSE matching \union {<<r, open[best]>>}

(* One reference note takes the nearest of the notes that are left, the earlier  *)
(* of two at the same distance; a note is taken once.                            *)
MatchNext(reference, estimated, matching, r) ==
  LET taken == {pair[2] : pair \in matching}
      candidates == ByOnset(estimated, reference[r].pitch)
      open == Pick(candidates, {k \in DOMAIN candidates :
                                  /\ candidates[k] \notin taken
                                  /\ WithinTolerance(reference[r], estimated[candidates[k]])})
      Error(k) == OnsetError(reference[r], estimated[open[k]])
      best == CHOOSE k \in DOMAIN open :
                \A other \in DOMAIN open :
                  Error(k) < Error(other) \/ (Error(k) = Error(other) /\ k <= other)
  IN IF open = <<>> THEN matching ELSE matching \union {<<r, open[best]>>}

\* The matched pairs of positions <<reference, estimated>>, over every pitch.
MatchNotes(reference, estimated) ==
  LET pitches == {reference[r].pitch : r \in DOMAIN reference}
      OfPitch(pitch) == FoldLeft(LAMBDA matching, r : MatchNext(reference, estimated, matching, r),
                                 {}, ByOnset(reference, pitch))
  IN UNION {OfPitch(pitch) : pitch \in pitches}

Evaluation(reference, estimated) ==
  LET matching == MatchNotes(reference, estimated)
      both == Len(reference) + Len(estimated)
      Ratio(count) == IF both = 0 THEN <<1, 1>>
                      ELSE IF count = 0 THEN <<0, 1>> ELSE <<Cardinality(matching), count>>
  IN [matching |-> matching, matched |-> Cardinality(matching),
      precision |-> Ratio(Len(estimated)), recall |-> Ratio(Len(reference)),
      f1 |-> IF both = 0 THEN <<1, 1>> ELSE <<2 * Cardinality(matching), both>>,
      errors |-> {OnsetError(reference[p[1]], estimated[p[2]]) : p \in matching}]

MetricsAccepted(metrics, reference, estimated) ==
  /\ metrics.matched <= Min({Len(reference), Len(estimated)})
  /\ \A ratio \in {metrics.precision, metrics.recall, metrics.f1} :
       AtMost(<<0, 1>>, ratio) /\ AtMost(ratio, <<1, 1>>)
  /\ (metrics.matched = 0) <=> (metrics.errors = {})
=============================================================================
