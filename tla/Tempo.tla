------------------------------- MODULE Tempo -------------------------------
(* infrastructure/onset_interval_tempo.py and application/tempo_resolution.py   *)
(* with the contracts of domain/tempo.py. A tempo in beats per minute is a      *)
(* positive rational <<n, d>>; an optional value is a set of at most one.       *)
EXTENDS WrittenPitch

Halve(bpm) == <<bpm[1], 2 * bpm[2]>>
Double(bpm) == <<2 * bpm[1], bpm[2]>>
Quotients == Nat \X Nat

\* Mutation of HalvedTo: the maximum itself is halved.
HalvedBelow(maximum, bpm) ==
  LET halved[q \in Quotients] == IF Below(q, maximum) THEN q ELSE halved[Halve(q)]
  IN halved[bpm]

HalvedTo(maximum, bpm) ==
  LET halved[q \in Quotients] == IF AtMost(q, maximum) THEN q ELSE halved[Halve(q)]
  IN halved[bpm]

DoubledTo(minimum, bpm) ==
  LET doubled[q \in Quotients] == IF AtMost(minimum, q) THEN q ELSE doubled[Double(q)]
  IN doubled[bpm]

TempoSettingsAccepted(settings) ==
  /\ settings.minimum_bpm[1] > 0 /\ Below(settings.minimum_bpm, settings.maximum_bpm)
  /\ settings.minimum_interval_count \in Nat \ {0}
  /\ settings.consensus_tolerance[1] \in 0..settings.consensus_tolerance[2]

(* The tempos an octave apart from bpm that the range admits, lowest first.    *)
OctaveEquivalents(bpm, settings) ==
  LET lowest[q \in Quotients] ==
        IF AtMost(settings.minimum_bpm, Halve(q)) THEN lowest[Halve(q)] ELSE q
      upward[q \in Quotients] ==
        IF AtMost(q, settings.maximum_bpm) THEN <<q>> \o upward[Double(q)] ELSE <<>>
  IN upward[DoubledTo(settings.minimum_bpm, lowest[HalvedTo(settings.maximum_bpm, bpm)])]

ResolveOctaveEquivalent(bpm, settings) ==
  IF AtMost(settings.minimum_bpm, bpm) /\ AtMost(bpm, settings.maximum_bpm) THEN bpm
  ELSE IF Below(bpm, settings.minimum_bpm) THEN DoubledTo(settings.minimum_bpm, bpm)
  ELSE HalvedTo(settings.maximum_bpm, bpm)

InTempoRange(bpm, settings) ==
  AtMost(settings.minimum_bpm, bpm) /\ AtMost(bpm, settings.maximum_bpm)

\* min() keeps the first of two equivalents at the same distance: the lower one.
ClosestEquivalent(equivalents, target) ==
  CHOOSE q \in ToSet(equivalents) :
    \A other \in ToSet(equivalents) \ {q} :
      \/ Below(Distance(q, target), Distance(other, target))
      \/ SameNumber(Distance(q, target), Distance(other, target)) /\ Below(q, other)

\* statistics.median: the middle one, or the mean of the two in the middle.
Median(sorted) ==
  LET half == Len(sorted) \div 2
  IN IF Len(sorted) % 2 = 1 THEN sorted[half + 1]
     ELSE LET a == sorted[half]
              b == sorted[half + 1]
          IN <<a[1] * b[2] + b[1] * a[2], 2 * a[2] * b[2]>>

OnsetIntervals(events) ==
  LET onsets == Ascending({events[i].source.event.onset : i \in DOMAIN events})
  IN [i \in 1..Max({0, Len(onsets) - 1}) |-> onsets[i + 1] - onsets[i]]

IsInlier(candidate, estimated, settings) ==
  LET equivalents == OctaveEquivalents(candidate, settings)
      error == Distance(ClosestEquivalent(equivalents, estimated), estimated)
      tolerance == settings.consensus_tolerance
  IN equivalents # <<>> /\ AtMost(<<error[1] * tolerance[2], error[2] * tolerance[1]>>,
                                  estimated)

\* The tempos the intervals stand for, lowest first: the longest interval is the lowest.
CandidateTempos(intervals) ==
  Sorted([i \in DOMAIN intervals |-> <<60 * Second, intervals[i]>>],
         [i \in DOMAIN intervals |-> <<-intervals[i]>>])

Unavailable == [available |-> FALSE]

EstimateTempo(events, settings) ==
  LET intervals == OnsetIntervals(events)
      candidates == CandidateTempos(intervals)
      estimated == ResolveOctaveEquivalent(Median(candidates), settings)
      inliers == {i \in DOMAIN candidates : IsInlier(candidates[i], estimated, settings)}
  IN IF Len(intervals) < settings.minimum_interval_count THEN Unavailable
     ELSE IF ~InTempoRange(estimated, settings) THEN Unavailable
     ELSE [available |-> TRUE, tempo_bpm |-> estimated,
           confidence |-> <<Cardinality(inliers), Len(intervals)>>,
           unique_onsets |-> Len(intervals) + 1, intervals |-> Len(intervals),
           inliers |-> Cardinality(inliers)]

AutomaticEstimateAccepted(estimate) ==
  /\ estimate.tempo_bpm[1] > 0
  /\ estimate.intervals = estimate.unique_onsets - 1
  /\ estimate.inliers <= estimate.intervals
  /\ SameNumber(estimate.confidence,
                IF estimate.intervals = 0 THEN <<0, 1>>
                ELSE <<estimate.inliers, estimate.intervals>>)

AutomaticTempo(estimate) ==
  [estimates |-> {estimate}, manual |-> {}, effective |-> estimate.tempo_bpm,
   source |-> "automatic", revision |-> 1]

ManualTempo(bpm) ==
  [estimates |-> {}, manual |-> {bpm}, effective |-> bpm, source |-> "manual", revision |-> 1]

\* The fallback the processor configures when there is no estimate.
ResolveTempo(events, settings, fallback) ==
  LET estimate == EstimateTempo(events, settings)
  IN IF estimate.available THEN AutomaticTempo(estimate) ELSE ManualTempo(fallback)

TempoAccepted(tempo) ==
  /\ tempo.effective[1] > 0 /\ tempo.revision >= 1
  /\ \A estimate \in tempo.estimates : AutomaticEstimateAccepted(estimate)
  /\ IF tempo.source = "automatic"
     THEN /\ tempo.manual = {} /\ tempo.revision = 1
          /\ \E estimate \in tempo.estimates : tempo.effective = estimate.tempo_bpm
     ELSE tempo.manual = {tempo.effective}
=============================================================================
