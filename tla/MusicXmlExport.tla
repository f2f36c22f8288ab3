--------------------------- MODULE MusicXmlExport ---------------------------
(* application/musicxml_export.py, domain/musicxml_export.py and                *)
(* infrastructure/musicxml_encoder.py: the timeline cut into measures, the notes *)
(* that cross a bar line into tied segments, and the document written for them.  *)
(* The XML text is a record; what Verovio makes of it is an input.               *)
EXTENDS MidiExport

PitchClassSpellings ==
  <<<<"C", 0>>, <<"D", -1>>, <<"D", 0>>, <<"E", -1>>, <<"E", 0>>, <<"F", 0>>,
    <<"G", -1>>, <<"G", 0>>, <<"A", -1>>, <<"A", 0>>, <<"B", -1>>, <<"B", 0>>>>

\* Mutation of MusicXmlPitch: octaves counted from MIDI note 0.
MusicXmlPitchFromZero(midi) ==
  LET spelling == PitchClassSpellings[(midi % 12) + 1]
  IN [step |-> spelling[1], alter |-> spelling[2], octave |-> midi \div 12]

MusicXmlPitch(midi) ==
  LET spelling == PitchClassSpellings[(midi % 12) + 1]
  IN [step |-> spelling[1], alter |-> spelling[2], octave |-> (midi \div 12) - 1]

\* octave_change is a set of at most one number.
InstrumentSpec ==
  [soprano  |-> [diatonic |-> -1, chromatic |-> -2, octave_change |-> {}],
   alto     |-> [diatonic |-> -5, chromatic |-> -9, octave_change |-> {}],
   tenor    |-> [diatonic |-> -1, chromatic |-> -2, octave_change |-> {-1}],
   baritone |-> [diatonic |-> -5, chromatic |-> -9, octave_change |-> {-1}]]

TotalTransposition(instrument) ==
  instrument.chromatic +
    12 * (IF instrument.octave_change = {} THEN 0 ELSE CHOOSE o \in instrument.octave_change : TRUE)

InstrumentAccepted(instrument, saxophone) ==
  TotalTransposition(instrument) = -WrittenPitchOffset[saxophone]

(* The segments of an item, one for every measure it reaches into.             *)
Segments(item, sequence, capacity) ==
  LET drafts[cursor \in Nat] ==
        IF cursor >= item.offset THEN <<>>
        ELSE LET measure == (cursor \div capacity) + 1
                 end == Min({item.offset, measure * capacity})
             IN <<[measure |-> measure, duration |-> end - cursor]>> \o drafts[end]
      cut == drafts[item.onset]
  IN [k \in DOMAIN cut |->
        [measure |-> cut[k].measure, duration |-> cut[k].duration, item |-> item,
         sequence |-> sequence, index |-> k, count |-> Len(cut)]]

\* Mutation of TieStart: every piece of a note that is split is tied to the next.
TieStartAlways(segment) == ~segment.item.rest /\ segment.count > 1

TieStop(segment) == ~segment.item.rest /\ segment.index > 1
TieStart(segment) == ~segment.item.rest /\ segment.index < segment.count

PlanScore(timeline, subdivisions, beats) ==
  LET capacity == beats * subdivisions
      segments == [i \in DOMAIN timeline |-> Segments(timeline[i], i, capacity)]
      all == FlattenSeq(segments)
      end == IF timeline = <<>> THEN 0 ELSE Last(timeline).offset
      measures == IF timeline = <<>> THEN 1 ELSE ((end - 1) \div capacity) + 1
      Items(rest) == Cardinality({i \in DOMAIN timeline : timeline[i].rest = rest})
      Pieces(rest) == Cardinality({i \in DOMAIN all : all[i].item.rest = rest})
      Split(rest) == Cardinality({i \in DOMAIN timeline :
                                    timeline[i].rest = rest /\ Len(segments[i]) > 1})
  IN [capacity |-> capacity,
      measures |-> [m \in 1..measures |-> Pick(all, {i \in DOMAIN all : all[i].measure = m})],
      report |-> [notes |-> Items(FALSE), rests |-> Items(TRUE), measures |-> measures,
                  note_segments |-> Pieces(FALSE), rest_segments |-> Pieces(TRUE),
                  split_notes |-> Split(FALSE), split_rests |-> Split(TRUE),
                  final_used |-> IF timeline = <<>> THEN 0 ELSE end - (measures - 1) * capacity,
                  capacity |-> capacity]]

NoteElement(segment, events) ==
  [rest |-> segment.item.rest, duration |-> segment.duration,
   pitch |-> IF segment.item.rest THEN {} ELSE {MusicXmlPitch(events[segment.item.index].written)},
   tie_stop |-> TieStop(segment), tie_start |-> TieStart(segment)]

EncodeScore(plan, events, instrument, subdivisions, beats, bpm) ==
  [divisions |-> subdivisions, beats |-> beats, transpose |-> instrument, per_minute |-> bpm,
   measures |-> [m \in DOMAIN plan.measures |->
                   [k \in DOMAIN plan.measures[m] |-> NoteElement(plan.measures[m][k], events)]]]

\* What VerovioMusicXmlReader counts in the document it was given.
ReadScore(document) ==
  LET notes == FlattenSeq(document.measures)
      rests == Cardinality({i \in DOMAIN notes : notes[i].rest})
  IN [parts |-> 1, measures |-> Len(document.measures),
      note_segments |-> Len(notes) - rests, rest_segments |-> rests]

ExportScore(quantized, events, saxophone, subdivisions, beats, bpm) ==
  LET plan == PlanScore(quantized.timeline, subdivisions, beats)
      document == EncodeScore(plan, events, InstrumentSpec[saxophone], subdivisions, beats, bpm)
  IN [instrument |-> InstrumentSpec[saxophone], document |-> document,
      validation |-> ReadScore(document), report |-> plan.report]

ScoreReportAccepted(report) ==
  /\ report.measures > 0 /\ report.capacity > 0
  /\ report.note_segments >= report.notes /\ report.rest_segments >= report.rests
  /\ report.split_notes <= report.notes /\ report.split_rests <= report.rests
  /\ report.final_used <= report.capacity

\* Checked against the plan when the reader answers, and again by the result's contract.
ValidationMatches(validation, report) ==
  /\ validation.parts = 1
  /\ validation.measures = report.measures
  /\ validation.note_segments = report.note_segments
  /\ validation.rest_segments = report.rest_segments

ScoreAccepted(timeline, saxophone, result) ==
  /\ InstrumentAccepted(result.instrument, saxophone)
  /\ ScoreReportAccepted(result.report)
  /\ result.report.notes = Cardinality({i \in DOMAIN timeline : ~timeline[i].rest})
  /\ result.report.rests = Cardinality({i \in DOMAIN timeline : timeline[i].rest})
  /\ ValidationMatches(result.validation, result.report)
=============================================================================
