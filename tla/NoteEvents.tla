----------------------------- MODULE NoteEvents -----------------------------
(* domain/note_events.py: the note every stage of the pipeline works on, a     *)
(* concert pitch, an onset and an offset in time units (Second of them in one  *)
(* second), a velocity and a confidence out of FullConfidence. An Accepted     *)
(* operator is a __post_init__: false is the exception it raises.              *)
EXTENDS Rounding

CONSTANTS Second, FullConfidence

ASSUME NoteAssumption == Second \in Nat \ {0} /\ FullConfidence \in Nat \ {0}

MidiValues == 0..127

NoteRecords ==
  [pitch : MidiValues, onset : Nat, offset : Nat, velocity : MidiValues,
   confidence : 0..FullConfidence]

NoteEvent(pitch, onset, offset, velocity, confidence) ==
  [pitch |-> pitch, onset |-> onset, offset |-> offset,
   velocity |-> velocity, confidence |-> confidence]

NoteEventAccepted(event) ==
  /\ event.pitch \in MidiValues /\ event.velocity \in MidiValues
  /\ event.onset >= 0 /\ event.offset > event.onset
  /\ event.confidence \in 0..FullConfidence

Duration(event) == event.offset - event.onset

NoteBatchAccepted(events) == \A i \in DOMAIN events : NoteEventAccepted(events[i])
=============================================================================
