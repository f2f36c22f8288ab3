----------------------------- MODULE MidiExport -----------------------------
(* application/midi_export.py, domain/midi_export.py and                        *)
(* infrastructure/mido_midi.py: the concert notes in ticks, the order of their   *)
(* messages in the file, and the file read back before it is accepted. The bytes *)
(* of the file are its messages with their delta times; the mido library writes   *)
(* and reads them faithfully.                                                     *)
EXTENDS RhythmQuantization

CONSTANTS TicksPerBeat, MicrosPerSecond, MaxMidiTempo

ASSUME MidiAssumption ==
  TicksPerBeat \in Nat \ {0} /\ MicrosPerSecond \in Nat \ {0} /\ MaxMidiTempo \in Nat \ {0}

MidiBaseMessageCount == 5

TempoMicrosecondsPerBeat(bpm) == RoundHalfEven(60 * MicrosPerSecond * bpm[2], bpm[1])

MidiSettingsAccepted(bpm) == bpm[1] > 0 /\ TempoMicrosecondsPerBeat(bpm) \in 1..MaxMidiTempo

SecondsToMidiTick(seconds, bpm) ==
  RoundHalfEven(seconds * TicksPerBeat * MicrosPerSecond, Second * TempoMicrosecondsPerBeat(bpm))

PlanNote(events, i, bpm) ==
  LET event == events[i].source.event
      onset == SecondsToMidiTick(event.onset, bpm)
      offset == SecondsToMidiTick(event.offset, bpm)
  IN [index |-> i, pitch |-> event.pitch, velocity |-> Max({event.velocity, 1}),
      onset |-> onset, offset |-> Max({onset + 1, offset})]

PlanSortKey(item) == <<item.onset, item.offset, item.pitch, item.index>>

MidiPlan(events, bpm) ==
  LET planned == [i \in DOMAIN events |-> PlanNote(events, i, bpm)]
  IN Sorted(planned, [i \in DOMAIN planned |-> PlanSortKey(planned[i])])

NoteOnPriority == 1

\* Mutation of NoteOffPriority: at one tick, notes begin before others end.
NoteOffLast == 2

NoteOffPriority == 0

NoteMessages(item) ==
  {[tick |-> item.onset, priority |-> NoteOnPriority, index |-> item.index,
    type |-> "note_on", note |-> item.pitch, velocity |-> item.velocity],
   [tick |-> item.offset, priority |-> NoteOffPriority, index |-> item.index,
    type |-> "note_off", note |-> item.pitch, velocity |-> 0]}

OrderedMessages(plan) ==
  LET messages == UNION {NoteMessages(plan[i]) : i \in DOMAIN plan}
  IN SortedBy(messages, [m \in messages |-> <<m.tick, m.priority, m.index>>])

DeltaMessages(plan) ==
  LET ordered == OrderedMessages(plan)
      Before(i) == IF i = 1 THEN 0 ELSE ordered[i - 1].tick
  IN [i \in DOMAIN ordered |->
        [time |-> ordered[i].tick - Before(i), type |-> ordered[i].type,
         note |-> ordered[i].note, velocity |-> ordered[i].velocity]]

EncodeMidi(plan, bpm) ==
  [set_tempo |-> TempoMicrosecondsPerBeat(bpm), track |-> DeltaMessages(plan)]

\* The messages of a file, at the ticks their delta times add up to.
ParseMessage(parsed, message) ==
  LET tick == (IF parsed = <<>> THEN 0 ELSE Last(parsed).tick) + message.time
  IN Append(parsed, [tick |-> tick, type |-> message.type,
                     note |-> message.note, velocity |-> message.velocity])

ParsedMessages(file) == FoldLeft(ParseMessage, <<>>, file.track)

EncodedContentAccepted(file, plan, bpm) ==
  LET parsed == ParsedMessages(file)
      expected == OrderedMessages(plan)
      Of(type) == {i \in DOMAIN parsed : parsed[i].type = type}
  IN /\ \A i \in DOMAIN file.track :
          file.track[i].time >= 0 /\ {file.track[i].note, file.track[i].velocity} \subseteq MidiValues
     /\ file.set_tempo = TempoMicrosecondsPerBeat(bpm)
     /\ Len(parsed) = Len(expected)
     /\ \A i \in DOMAIN parsed :
          /\ parsed[i].tick = expected[i].tick /\ parsed[i].type = expected[i].type
          /\ parsed[i].note = expected[i].note /\ parsed[i].velocity = expected[i].velocity
     /\ Cardinality(Of("note_on")) = Len(plan) /\ Cardinality(Of("note_off")) = Len(plan)

ExportMidi(events, bpm) ==
  LET plan == MidiPlan(events, bpm)
      Adjusted(i) == SecondsToMidiTick(events[i].source.event.offset, bpm) #
                       PlanNote(events, i, bpm).offset
  IN [plan |-> plan, file |-> EncodeMidi(plan, bpm),
      report |-> [input |-> Len(events), exported |-> Len(plan),
                  minimum |-> Cardinality({i \in DOMAIN events : Adjusted(i)}),
                  silent |-> Cardinality({i \in DOMAIN events : events[i].source.event.velocity = 0}),
                  messages |-> MidiBaseMessageCount + 2 * Len(plan)]]

MidiNoteAccepted(item, source) ==
  /\ item.pitch = source.source.event.pitch
  /\ item.velocity \in 1..127
  /\ item.onset >= 0 /\ item.offset > item.onset

MidiReportAccepted(report) ==
  /\ report.input = report.exported
  /\ report.minimum <= report.exported /\ report.silent <= report.exported
  /\ report.messages = MidiBaseMessageCount + 2 * report.exported

MidiAccepted(events, result, bpm) ==
  /\ MidiSettingsAccepted(bpm)
  /\ MidiReportAccepted(result.report) /\ result.report.exported = Len(events)
  /\ Len(result.plan) = Len(events)
  /\ IsInjective([i \in DOMAIN result.plan |-> result.plan[i].index])
  /\ \A i \in DOMAIN result.plan :
       /\ result.plan[i].index \in DOMAIN events
       /\ MidiNoteAccepted(result.plan[i], events[result.plan[i].index])
  /\ EncodedContentAccepted(result.file, result.plan, bpm)
=============================================================================
