------------------------ MODULE RhythmQuantization ------------------------
(* application/rhythm_quantization.py and its contracts: the notes are snapped  *)
(* to a grid of steps, pushed apart where they overlap, and the gaps are filled *)
(* with rests. The differences in seconds a report adds up are left out: the    *)
(* contract recomputes them with the expression that made them.                 *)
EXTENDS Tempo

SecondsToGridStep(seconds, tempo, subdivisions) ==
  RoundHalfUp(seconds * tempo.effective[1] * subdivisions, Second * 60 * tempo.effective[2])

WorkingNote(events, i, tempo, subdivisions) ==
  LET event == events[i].source.event
      onset == SecondsToGridStep(event.onset, tempo, subdivisions)
      offset == SecondsToGridStep(event.offset, tempo, subdivisions)
  IN [index |-> i, onset |-> onset, offset |-> Max({offset, onset + 1}),
      minimum |-> offset <= onset, overlap |-> FALSE]

CandidateNotes(events, tempo, subdivisions) ==
  LET Key(event) == <<event.onset, event.offset, event.pitch>>
      order == SortedPositions(events, [i \in DOMAIN events |-> Key(events[i].source.event)])
  IN [k \in DOMAIN order |-> WorkingNote(events, order[k], tempo, subdivisions)]

\* Mutation of ResolveOverlap: a note that starts with the one before it cuts it to nothing.
ResolveOverlapCutsEqual(resolved, current) ==
  IF resolved = <<>> \/ current.onset >= Last(resolved).offset THEN Append(resolved, current)
  ELSE IF Last(resolved).onset <= current.onset
  THEN Append([resolved EXCEPT ![Len(resolved)].offset = current.onset,
                               ![Len(resolved)].overlap = TRUE], current)
  ELSE LET onset == Last(resolved).offset
       IN Append(resolved, [current EXCEPT !.onset = onset,
                                           !.offset = Max({current.offset, onset + 1}),
                                           !.overlap = TRUE])

\* Mutation of ResolveOverlap: a note that overlaps the one before it is always moved.
ResolveOverlapMoves(resolved, current) ==
  IF resolved = <<>> \/ current.onset >= Last(resolved).offset THEN Append(resolved, current)
  ELSE LET onset == Last(resolved).offset
       IN Append(resolved, [current EXCEPT !.onset = onset,
                                           !.offset = Max({current.offset, onset + 1}),
                                           !.overlap = TRUE])

(* The note that follows resolved: it fits; or the one before it is cut; or it *)
(* starts no later than the one before it, and is moved behind it.              *)
ResolveOverlap(resolved, current) ==
  IF resolved = <<>> \/ current.onset >= Last(resolved).offset THEN Append(resolved, current)
  ELSE IF Last(resolved).onset < current.onset
  THEN Append([resolved EXCEPT ![Len(resolved)].offset = current.onset,
                               ![Len(resolved)].overlap = TRUE], current)
  ELSE LET onset == Last(resolved).offset
       IN Append(resolved, [current EXCEPT !.onset = onset,
                                           !.offset = Max({current.offset, onset + 1}),
                                           !.overlap = TRUE])

ResolveMonophonicOverlaps(candidates) == FoldLeft(ResolveOverlap, <<>>, candidates)

QuantizedNote(note) ==
  [rest |-> FALSE, onset |-> note.onset, offset |-> note.offset, index |-> note.index]

QuantizedRest(onset, offset) == [rest |-> TRUE, onset |-> onset, offset |-> offset, index |-> 0]

\* A note is put behind the timeline, and a rest before it if there is a gap.
AppendNote(timeline, note) ==
  LET cursor == IF timeline = <<>> THEN 0 ELSE Last(timeline).offset
  IN IF note.onset > cursor
     THEN timeline \o <<QuantizedRest(cursor, note.onset), QuantizedNote(note)>>
     ELSE Append(timeline, QuantizedNote(note))

BuildTimeline(working) == FoldLeft(AppendNote, <<>>, working)

NoteItems(timeline) == Pick(timeline, {i \in DOMAIN timeline : ~timeline[i].rest})

Quantize(events, tempo, subdivisions) ==
  LET working == ResolveMonophonicOverlaps(CandidateNotes(events, tempo, subdivisions))
      timeline == BuildTimeline(working)
      Count(marked) == Cardinality({i \in DOMAIN working : marked[i]})
  IN [timeline |-> timeline,
      report |-> [input |-> Len(working), notes |-> Len(working),
                  rests |-> Cardinality({i \in DOMAIN timeline : timeline[i].rest}),
                  minimum |-> Count([i \in DOMAIN working |-> working[i].minimum]),
                  overlap |-> Count([i \in DOMAIN working |-> working[i].overlap])]]

QuantizedItemAccepted(item) == item.onset >= 0 /\ item.offset > item.onset

QuantizationReportAccepted(report) ==
  /\ report.input = report.notes
  /\ report.minimum <= report.notes /\ report.overlap <= report.notes

QuantizedRhythmAccepted(events, result) ==
  LET timeline == result.timeline
      notes == NoteItems(timeline)
  IN /\ \A i \in DOMAIN timeline : QuantizedItemAccepted(timeline[i])
     /\ QuantizationReportAccepted(result.report)
     /\ result.report.input = Len(events) /\ result.report.notes = Len(notes)
     /\ result.report.rests = Len(timeline) - Len(notes)
     /\ IsInjective([i \in DOMAIN notes |-> notes[i].index])
     /\ {notes[i].index : i \in DOMAIN notes} = DOMAIN events
     /\ timeline # <<>> => Head(timeline).onset = 0 /\ ~Last(timeline).rest
     /\ \A i \in 1..(Len(timeline) - 1) :
          /\ timeline[i].offset = timeline[i + 1].onset
          /\ ~(timeline[i].rest /\ timeline[i + 1].rest)
=============================================================================
