-------------------------- MODULE MCScorePipeline --------------------------
(* Small audios with every relation two or three notes can have on the grid, and  *)
(* longer ones that fill measures and give tempos outside the ranges.              *)
EXTENDS ScorePipeline

PinnedBaseline == [version |-> "0.1.1", source |-> "pinned", commit |-> "pinned",
                   size |-> 4, content |-> "pinned"]
TwoPackages == {"hf-midi-transcription", "piano-transcription-inference"}

TempoRange(low, high, intervals) ==
  [minimum_bpm |-> <<low, 1>>, maximum_bpm |-> <<high, 1>>,
   minimum_interval_count |-> intervals, consensus_tolerance |-> <<1, 10>>]

Setup(saxophone, tempo, subdivisions, beats) ==
  [saxophone |-> saxophone, tempo |-> tempo, subdivisions |-> subdivisions, beats |-> beats,
   fallback |-> <<120, 1>>]

\* The second range is narrower than an octave; the last one takes tempos from one interval.
MixedSetups ==
  {Setup("alto", TempoRange(40, 240, 2), 2, 2), Setup("baritone", TempoRange(90, 140, 1), 2, 3),
   Setup("tenor", TempoRange(40, 240, 1), 4, 1), Setup("soprano", TempoRange(60, 120, 2), 3, 4)}

\* Enough for these recordings: a tempo moved further would fail TempoIsNearestOctave.
FiveOctaves == -5..5

ASSUME MixedTempos == \A s \in MixedSetups : TemposWritable(s) /\ TicksFine(s)

GoodVersion == [ran |-> TRUE, return_code |-> 0, named |-> TRUE]
GoodCommand == [ran |-> TRUE, return_code |-> 0, output |-> TRUE]
GoodWav == [readable |-> TRUE, compression |-> "NONE", sample_width |-> 2,
            sample_rate |-> 2, channels |-> 1, frames |-> 6]
GoodConversion ==
  [version |-> GoodVersion, command |-> GoodCommand, wav |-> GoodWav, copied |-> TRUE]
SomeConversions ==
  {GoodConversion,
   [GoodConversion EXCEPT !.version.named = FALSE], [GoodConversion EXCEPT !.command.ran = FALSE],
   [GoodConversion EXCEPT !.command.return_code = 1],
   [GoodConversion EXCEPT !.command.output = FALSE], [GoodConversion EXCEPT !.wav.frames = 0],
   [GoodConversion EXCEPT !.wav.frames = 7], [GoodConversion EXCEPT !.wav.sample_rate = 4],
   [GoodConversion EXCEPT !.copied = FALSE]}

GoodDistribution ==
  [installed |-> TRUE, version |-> "0.1.1",
   direct_url |-> {[source |-> "pinned", vcs |-> "git", commit |-> "pinned"]}]
GoodEngine ==
  [distributions |-> [p \in TwoPackages |-> GoodDistribution],
   checkpoint |-> [found |-> TRUE, size |-> 4, readable |-> TRUE, content |-> "pinned"],
   copied |-> TRUE, initialized |-> TRUE, inferred |-> TRUE, output |-> "of the recording"]
OtherPackage == "piano-transcription-inference"
SomeEngineRuns ==
  {GoodEngine,
   [GoodEngine EXCEPT !.distributions[OtherPackage].direct_url = {}],
   [GoodEngine EXCEPT !.checkpoint.found = FALSE], [GoodEngine EXCEPT !.checkpoint.size = 5],
   [GoodEngine EXCEPT !.checkpoint.content = "other"], [GoodEngine EXCEPT !.copied = FALSE],
   [GoodEngine EXCEPT !.initialized = FALSE], [GoodEngine EXCEPT !.inferred = FALSE]}

GoodToolkit(pages) ==
  [load |-> "loaded", page_count |-> pages, pages |-> [p \in 1..pages |-> "svg"],
   logs |-> [call \in 1..(pages + 2) |-> <<>>]]
SomeToolkits ==
  {GoodToolkit(1), GoodToolkit(2), [GoodToolkit(1) EXCEPT !.load = "rejected"],
   [GoodToolkit(1) EXCEPT !.page_count = 0], [GoodToolkit(2) EXCEPT !.pages[2] = "raises"],
   [GoodToolkit(2) EXCEPT !.pages[1] = "not_svg"],
   [GoodToolkit(1) EXCEPT !.logs = <<<<"warning">>, <<"warning">>, <<"warning", "font">>>>],
   [GoodToolkit(1) EXCEPT !.logs = <<<<"warning">>, <<"font">>, <<"font">>>>]}

Raw(onset, duration, pitch, velocity) ==
  [onset_time |-> onset, offset_time |-> onset + duration, midi_note |-> pitch,
   velocity |-> velocity]

\* The activations differ from frame to frame and from pitch to pitch.
Frames == 16
Matrix == [frame \in 1..Frames |-> [column \in 1..88 |-> (5 * frame + column) % 11]]

Kinds == {Raw(onset, duration, pitch, 64) :
            onset \in {0, 1, 3, 6}, duration \in {1, 2, 5}, pitch \in {60, 61}}
FirstKinds == {Raw(onset, duration, 60, 64) : onset \in {0, 1, 3}, duration \in {1, 2, 5}}
FewKinds == {Raw(0, 2, 60, 64), Raw(0, 5, 60, 64), Raw(1, 2, 60, 64), Raw(1, 4, 61, 64),
             Raw(4, 6, 60, 0), Raw(5, 3, 61, 64)}

Pulse(interval, count) == [i \in 1..count |-> Raw((i - 1) * interval, 2, 58 + i, 64)]

Audios ==
  {<<>>} \union {<<a>> : a \in Kinds} \union {<<a, b>> : a \in FirstKinds, b \in Kinds} \union
  {<<a, b, c>> : a, b, c \in FewKinds} \union
  {Pulse(interval, count) : interval \in {1, 2, 3, 4, 5, 7}, count \in {3, 5}} \union
  {<<Raw(0, 4, 60, 50), Raw(0, 4, 60, 90), Raw(0, 4, 60, 70)>>,
   <<Raw(0, 3, 60, 90), Raw(2, 2, 62, 64), Raw(0, 3, 60, 50), Raw(2, 2, 62, 65)>>,
   <<Raw(0, 24, 49, 127), Raw(26, 4, 87, 1)>>, <<Raw(9, 17, 71, 64)>>,
   <<Raw(0, 3, 107, 64)>>, <<Raw(0, 3, 20, 64)>>, <<Raw(44, 3, 60, 64)>>}

SmallRecordings == [audio \in Audios |-> [events |-> audio, reg_onset |-> Matrix]]

Note(onset, duration, pitch) == NoteEvent(pitch, onset, onset + duration, 64, FullConfidence)
SomeReferences ==
  {<<>>, <<Note(1, 2, 60)>>, <<Note(2, 4, 60), Note(0, 4, 60), Note(1, 2, 60)>>,
   <<Note(0, 2, 60), Note(4, 2, 61)>>}
OneFifth == <<1, 5>>
=============================================================================
