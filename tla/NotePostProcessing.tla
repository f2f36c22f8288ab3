------------------------- MODULE NotePostProcessing -------------------------
(* application/note_event_postprocessing.py and application/note_confidence.py  *)
(* with the contracts of their results: short notes and exact duplicates are    *)
(* removed, and the notes that stay are marked when their confidence is low.    *)
EXTENDS BaselineEngine

CONSTANTS MinimumDuration, LowConfidence

ASSUME PostProcessingAssumption ==
  MinimumDuration \in Nat /\ LowConfidence \in 0..FullConfidence

DuplicateKey(event) == <<event.pitch, event.onset, event.offset>>

\* Mutation of CandidateIsPreferred: the two are swapped.
CandidateIsWorse(candidate, current) ==
  TupleLess(<<candidate.confidence, candidate.velocity>>,
            <<current.confidence, current.velocity>>)

CandidateIsPreferred(candidate, current) ==
  TupleLess(<<current.confidence, current.velocity>>,
            <<candidate.confidence, candidate.velocity>>)

(* Duplicates are looked for one event at a time: the first one of a key takes *)
(* the key's slot in output, a better one that comes later replaces it there.   *)
Deduplicate(done, event) ==
  LET key == DuplicateKey(event)
      slots == {i \in DOMAIN done.output : DuplicateKey(done.output[i]) = key}
  IN IF slots = {} THEN [done EXCEPT !.output = Append(@, event)]
     ELSE LET slot == CHOOSE i \in slots : TRUE
          IN [output |-> IF CandidateIsPreferred(event, done.output[slot])
                         THEN [done.output EXCEPT ![slot] = event] ELSE done.output,
              removed |-> done.removed + 1,
              keys |-> done.keys \union {key}]

PostProcess(events) ==
  LET surviving == Pick(events, {i \in DOMAIN events : Duration(events[i]) >= MinimumDuration})
      done == FoldLeft(Deduplicate, [output |-> <<>>, removed |-> 0, keys |-> {}], surviving)
  IN [notes |-> done.output,
      report |-> [input |-> Len(events), output |-> Len(done.output),
                  short |-> Len(events) - Len(surviving),
                  duplicates |-> done.removed, groups |-> Cardinality(done.keys)]]

PostProcessingReportAccepted(report) ==
  /\ report.input = report.output + report.short + report.duplicates
  /\ IF report.duplicates = 0 THEN report.groups = 0
     ELSE report.groups \in 1..report.duplicates

PostProcessedAccepted(original, result) ==
  /\ NoteBatchAccepted(result.notes)
  /\ PostProcessingReportAccepted(result.report)
  /\ Len(original) = result.report.input
  /\ Len(result.notes) = result.report.output

IsLowConfidence(event) == event.confidence < LowConfidence

MarkLowConfidence(notes) ==
  LET annotated == [i \in DOMAIN notes |->
                      [event |-> notes[i], is_low_confidence |-> IsLowConfidence(notes[i])]]
      low == Cardinality({i \in DOMAIN annotated : annotated[i].is_low_confidence})
  IN [events |-> annotated,
      report |-> [input |-> Len(notes), low |-> low, regular |-> Len(notes) - low]]

ConfidenceReportAccepted(report) == report.input = report.low + report.regular

ConfidenceAccepted(notes, result) ==
  /\ ConfidenceReportAccepted(result.report)
  /\ Len(result.events) = Len(notes) /\ result.report.input = Len(notes)
  /\ \A i \in DOMAIN notes : result.events[i].event = notes[i]
  /\ result.report.low = Cardinality({i \in DOMAIN notes : result.events[i].is_low_confidence})
=============================================================================
