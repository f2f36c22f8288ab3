---------------------------- MODULE WrittenPitch ----------------------------
(* domain/transposition.py and application/written_pitch.py: the pitch a       *)
(* saxophone reads for the pitch that sounds. It may leave the MIDI range: that *)
(* is an error of the run, which the worker retries.                            *)
EXTENDS NotePostProcessing

SaxophoneTypes == {"soprano", "alto", "tenor", "baritone"}

WrittenPitchOffset == [soprano |-> 2, alto |-> 9, tenor |-> 14, baritone |-> 21]

TransposeConcertPitch(pitch, saxophone) == pitch + WrittenPitchOffset[saxophone]

WrittenInRange(annotated, saxophone) ==
  \A i \in DOMAIN annotated :
    TransposeConcertPitch(annotated[i].event.pitch, saxophone) \in MidiValues

Transpose(annotated, saxophone) ==
  [saxophone |-> saxophone,
   events |-> [i \in DOMAIN annotated |->
     [source |-> annotated[i],
      written |-> TransposeConcertPitch(annotated[i].event.pitch, saxophone)]]]

WrittenAccepted(annotated, result) ==
  /\ result.saxophone \in SaxophoneTypes
  /\ Len(result.events) = Len(annotated)
  /\ \A i \in DOMAIN annotated :
       /\ result.events[i].source = annotated[i]
       /\ result.events[i].written = TransposeConcertPitch(annotated[i].event.pitch,
                                                           result.saxophone)
       /\ result.events[i].written \in MidiValues
=============================================================================
