--------------------------- MODULE ScorePipeline ---------------------------
(* MonophonicTranscriptionProcessor.process, from the upload it starts with to   *)
(* the revision it leaves: one audio is read within its size limit, converted,    *)
(* transcribed, and taken through every stage of the note pipeline; the review    *)
(* and the files of revision zero are registered last. Any call may raise; the     *)
(* worker then runs process again, with nothing but the registered results kept.   *)
(*                                                                                *)
(* local holds the local variables of the process call that is under way. The      *)
(* transcription of an audio is chosen when it is first asked for, and is the same *)
(* in every run: the pinned baseline is deterministic.                             *)
EXTENDS ScoreRendering, AudioConversion, NoteMatching

CONSTANTS
  Setups,          \* saxophone, tempo settings, grid, measure and fallback tempo of a processor
  Conversions,     \* what FFmpeg may do
  EngineRuns,      \* what the calls of the baseline adapter may meet
  Recordings,      \* what the external model may answer, by the audio it is asked about
  Toolkits,        \* what Verovio may do with the score
  References,      \* the note batches a transcription is evaluated against
  MaxRuns,         \* how often the worker calls process
  Octaves          \* the octaves TempoIsNearestOctave compares: all of Int, or its bound in a run

PositiveNumbers == (Nat \ {0}) \X (Nat \ {0})

(* What the settings check when they are made, and the numbers an external call  *)
(* answers with: the adapter refuses an output that does not hold numbers.        *)
SetupAccepted(s) ==
  /\ s.saxophone \in SaxophoneTypes /\ s.fallback \in PositiveNumbers
  /\ s.subdivisions \in Nat \ {0} /\ s.beats \in Nat \ {0}
  /\ s.tempo.minimum_bpm \in PositiveNumbers /\ s.tempo.maximum_bpm \in PositiveNumbers
  /\ TempoSettingsAccepted(s.tempo)

RawEvents == [onset_time : Int, offset_time : Int, midi_note : Int, velocity : Int]

ASSUME PipelineAssumption ==
  /\ MaxRuns \in Nat \ {0} /\ Setups # {} /\ \A s \in Setups : SetupAccepted(s)
  /\ \A engine \in EngineRuns : "output" \in DOMAIN engine
  /\ \A audio \in DOMAIN Recordings : Recordings[audio].events \in Seq(RawEvents)
  /\ \A toolkit \in Toolkits : toolkit.page_count \in Int
  /\ \A batch \in References : batch \in Seq(NoteRecords) /\ NoteBatchAccepted(batch)

VARIABLES
  upload,          \* size of the stream, bytes read, verdict
  setup,
  run,             \* the process call under way, or the last one
  stage,           \* the next call, or how the last process call ended
  cause,           \* what raised last, or ""
  local,
  heard,           \* what the audio turned out to be: a set of at most one of Recordings
  review,          \* the run whose written result the review repository holds, 0 for none
  bundle,          \* the registered bundle: a set of at most one
  metrics          \* an evaluation of the transcription: a set of at most one

vars == <<upload, setup, run, stage, cause, local, heard, review, bundle, metrics>>

NoLocals == [name \in {} |-> 0]

Init ==
  /\ setup \in Setups
  /\ upload \in [size : 0..(MaxSizeBytes + 2), read : {0}, verdict : {"reading"}]
  /\ run = 0 /\ stage = "upload" /\ cause = "" /\ local = NoLocals
  /\ heard = {} /\ review = 0 /\ bundle = {} /\ metrics = {}

(* A read answers at most what it was asked for, and nothing at the end.         *)
ReadableBytes == Min({ReadSize(upload.read), upload.size - upload.read})

ReadChunk ==
  /\ stage = "upload" /\ upload.verdict = "reading"
  /\ \E count \in 1..ReadableBytes :
       LET read == upload.read + count
       IN upload' = [upload EXCEPT !.read = read,
                                   !.verdict = IF read > MaxSizeBytes THEN "too_large" ELSE @]
  /\ UNCHANGED <<setup, run, stage, cause, local, heard, review, bundle, metrics>>

FinishUpload ==
  /\ stage = "upload" /\ upload.verdict = "reading" /\ ReadableBytes = 0
  /\ upload' = [upload EXCEPT !.verdict = IF upload.read = 0 THEN "empty" ELSE "accepted"]
  /\ stage' = IF upload.read = 0 THEN stage ELSE "queued"
  /\ UNCHANGED <<setup, run, cause, local, heard, review, bundle, metrics>>

\* Mutation of Claim: a job that ended for good is claimed again.
ClaimAnyJob ==
  /\ stage \in {"queued", "raised", "terminal"}
  /\ run' = run + 1 /\ stage' = "convert" /\ cause' = ""
  /\ UNCHANGED <<upload, setup, local, heard, review, bundle, metrics>>

Claim ==
  /\ stage \in {"queued", "raised"} /\ run < MaxRuns
  /\ run' = run + 1 /\ stage' = "convert" /\ cause' = ""
  /\ UNCHANGED <<upload, setup, local, heard, review, bundle, metrics>>

Raise(reason) == stage' = "raised" /\ cause' = reason /\ local' = NoLocals

Bind(name, value) ==
  local' = [n \in DOMAIN local \union {name} |-> IF n = name THEN value ELSE local[n]]

(* A stage of the pipeline: its result, or the error of the contract it breaks.  *)
Continue(name, value, accepted, next) ==
  IF accepted THEN Bind(name, value) /\ stage' = next /\ UNCHANGED cause ELSE Raise(name)

Kept == UNCHANGED <<upload, setup, run, review, bundle, metrics>>

Convert ==
  /\ stage = "convert"
  /\ \E execution \in Conversions :
       LET verdict == ConversionVerdict(execution)
       IN IF verdict \in TerminalCodes
          THEN stage' = "terminal" /\ cause' = verdict /\ UNCHANGED local
          ELSE IF verdict = "converted" THEN stage' = "transcribe" /\ UNCHANGED <<cause, local>>
          ELSE Raise(verdict)
  /\ Kept /\ UNCHANGED heard

Transcribe ==
  /\ stage = "transcribe"
  /\ \E engine \in EngineRuns :
     \E recording \in IF heard = {} THEN DOMAIN Recordings ELSE heard :
       LET execution == [engine EXCEPT !.output = Recordings[recording]]
           verdict == EngineVerdict(execution)
       IN /\ heard' = IF verdict \in {"transcribed", "invalid_output"} THEN {recording} ELSE heard
          /\ IF verdict = "transcribed"
             THEN LET raw == ConvertBaselineOutput(execution.output)
                  IN Continue("raw", raw, NoteBatchAccepted(raw), "postprocess")
             ELSE Raise(verdict)
  /\ Kept

PostProcessEvents ==
  /\ stage = "postprocess"
  /\ LET processed == PostProcess(local.raw)
     IN Continue("processed", processed, PostProcessedAccepted(local.raw, processed), "confidence")
  /\ Kept /\ UNCHANGED heard

MarkConfidence ==
  /\ stage = "confidence"
  /\ LET notes == local.processed.notes
         marked == MarkLowConfidence(notes)
     IN Continue("confidence", marked, ConfidenceAccepted(notes, marked), "transpose")
  /\ Kept /\ UNCHANGED heard

\* A written pitch above the MIDI range raises, whatever the run.
TransposePitches ==
  /\ stage = "transpose"
  /\ LET annotated == local.confidence.events
         written == Transpose(annotated, setup.saxophone)
     IN IF ~WrittenInRange(annotated, setup.saxophone) THEN Raise("written_range")
        ELSE Continue("written", written, WrittenAccepted(annotated, written), "tempo")
  /\ Kept /\ UNCHANGED heard

FindTempo ==
  /\ stage = "tempo"
  /\ LET tempo == ResolveTempo(local.written.events, setup.tempo, setup.fallback)
     IN Continue("tempo", tempo, TempoSettingsAccepted(setup.tempo) /\ TempoAccepted(tempo),
                 "quantize")
  /\ Kept /\ UNCHANGED heard

QuantizeRhythm ==
  /\ stage = "quantize"
  /\ LET events == local.written.events
         quantized == Quantize(events, local.tempo, setup.subdivisions)
     IN Continue("quantized", quantized, QuantizedRhythmAccepted(events, quantized), "midi")
  /\ Kept /\ UNCHANGED heard

WriteMidi ==
  /\ stage = "midi"
  /\ LET bpm == local.tempo.effective
         midi == ExportMidi(local.written.events, bpm)
     IN Continue("midi", midi, MidiAccepted(local.written.events, midi, bpm), "musicxml")
  /\ Kept /\ UNCHANGED heard

\* Verovio may fail to read the document back.
WriteScore ==
  /\ stage = "musicxml"
  /\ \E loaded \in BOOLEAN :
       LET score == ExportScore(local.quantized, local.written.events, setup.saxophone,
                                setup.subdivisions, setup.beats, local.tempo.effective)
       IN IF loaded
          THEN Continue("musicxml", score,
                        ScoreAccepted(local.quantized.timeline, setup.saxophone, score), "render")
          ELSE Raise("reader")
  /\ Kept /\ UNCHANGED heard

RenderPages ==
  /\ stage = "render"
  /\ \E toolkit \in Toolkits :
       Bind("rendered", Render(toolkit, local.musicxml.document, local.tempo))
  /\ stage' = "bundle" /\ UNCHANGED cause
  /\ Kept /\ UNCHANGED heard

(* The files of revision zero: the MIDI, the MusicXML and the pages there are.   *)
RevisionZeroBundle(midi, document, rendered) ==
  LET Artifact(id, content, order) == [id |-> id, content |-> content, order |-> order]
      pages == IF rendered = {} THEN <<>> ELSE (CHOOSE result \in rendered : TRUE).pages
      svg == [p \in DOMAIN pages |->
                Artifact(<<"svg-page", pages[p].page_number>>, pages[p], p + 1)]
  IN <<Artifact(<<"midi">>, midi, 0), Artifact(<<"musicxml">>, document, 1)>> \o svg

BundleAccepted(artifacts) ==
  /\ artifacts # <<>>
  /\ IsInjective([i \in DOMAIN artifacts |-> artifacts[i].id])
  /\ \A i \in DOMAIN artifacts : artifacts[i].order = i - 1

BuildBundle ==
  /\ stage = "bundle"
  /\ LET artifacts == RevisionZeroBundle(local.midi.file, local.musicxml.document, local.rendered)
     IN Continue("artifacts", artifacts, BundleAccepted(artifacts), "review")
  /\ Kept /\ UNCHANGED heard

\* Mutation of ReviewAccepted: the review of a later run is taken without a word.
AnyReviewAccepted == TRUE

(* The in-memory repository accepts the very object it already holds, and no     *)
(* other: the result of another run is another object.                           *)
ReviewAccepted == review \in {0, run}

RegisterReview ==
  /\ stage = "review"
  /\ \E available \in BOOLEAN :
       IF available /\ ReviewAccepted
       THEN review' = run /\ stage' = "register" /\ UNCHANGED <<cause, local>>
       ELSE Raise(IF available THEN "other_review" ELSE "unavailable") /\ UNCHANGED review
  /\ UNCHANGED <<upload, setup, run, heard, bundle, metrics>>

\* The save may fail before or after the rows are there.
RegisterArtifacts ==
  /\ stage = "register"
  /\ \E saved, answered \in BOOLEAN :
       /\ answered => saved
       /\ bundle' = IF saved THEN {[run |-> run, artifacts |-> local.artifacts]} ELSE bundle
       /\ IF answered THEN stage' = "observe" /\ UNCHANGED <<cause, local>> ELSE Raise("unavailable")
  /\ UNCHANGED <<upload, setup, run, heard, review, metrics>>

\* The diagnostics observer is called last, and what it raises is raised by process.
Observe ==
  /\ stage = "observe"
  /\ \E raises \in BOOLEAN :
       IF raises THEN Raise("observer") ELSE stage' = "returned" /\ UNCHANGED <<cause, local>>
  /\ Kept /\ UNCHANGED heard

Evaluate ==
  /\ stage = "returned" /\ metrics = {}
  /\ \E reference \in References :
       LET evaluation == Evaluation(reference, local.processed.notes)
       IN metrics' = {[reference |-> reference, evaluation |-> evaluation,
                       accepted |-> MetricsAccepted(evaluation, reference, local.processed.notes)]}
  /\ UNCHANGED <<upload, setup, run, stage, cause, local, heard, review, bundle>>

Next ==
  \/ ReadChunk \/ FinishUpload \/ Claim \/ Convert \/ Transcribe
  \/ PostProcessEvents \/ MarkConfidence \/ TransposePitches \/ FindTempo
  \/ QuantizeRhythm \/ WriteMidi \/ WriteScore \/ RenderPages \/ BuildBundle
  \/ RegisterReview \/ RegisterArtifacts \/ Observe \/ Evaluate

Spec == Init /\ [][Next]_vars

-----------------------------------------------------------------------------
Stages == {"upload", "queued", "convert", "transcribe", "postprocess", "confidence",
           "transpose", "tempo", "quantize", "midi", "musicxml", "render", "bundle",
           "review", "register", "observe", "returned", "terminal", "raised"}

ToolCauses == {"tool_failed", "output_missing", "output_invalid", "copy_failed"}
EngineCauses == {"engine_unavailable", "checkpoint_download", "checkpoint_mismatch",
                 "inference", "model_initialization", "invalid_output"}
ExternalCauses == ToolCauses \union EngineCauses \union {"reader", "unavailable", "observer"}
\* A written pitch above the MIDI range, and a review of another run: what the code
\* refuses by its rules, and would refuse again in every retry.
KnownRefusals == {"written_range", "other_review"}
StageNames == {"raw", "processed", "confidence", "written", "tempo", "quantized", "midi",
               "musicxml", "rendered", "artifacts"}

(* The control state is within its ranges, and the stages bind their results in  *)
(* the order of process.                                                          *)
TypeOK ==
  /\ upload.size \in 0..(MaxSizeBytes + 2) /\ upload.read \in 0..upload.size
  /\ upload.verdict \in {"reading", "accepted", "empty", "too_large"}
  /\ setup \in Setups /\ run \in 0..MaxRuns /\ stage \in Stages
  /\ DOMAIN local \subseteq StageNames
  /\ heard \subseteq DOMAIN Recordings /\ review \in 0..MaxRuns
  /\ Cardinality(bundle) <= 1 /\ Cardinality(metrics) <= 1

(* The MIDI file has 24 bits for a tempo, which no setting of a processor is checked *)
(* against: with these settings every tempo it may come to can be written.           *)
TemposWritable(s) ==
  \A bpm \in {s.fallback, s.tempo.minimum_bpm, s.tempo.maximum_bpm} : MidiSettingsAccepted(bpm)

(* A note that post-processing keeps lasts longer than a tick of the MIDI file, whatever *)
(* the tempo. Like the above, no setting is checked against it: the defaults leave a      *)
(* note 30 ms, and a tick of 40 beats a minute, 480 to the beat, lasts 3.125 ms.           *)
LongerThanTick(bpm) ==
  MinimumDuration * TicksPerBeat * MicrosPerSecond > Second * TempoMicrosecondsPerBeat(bpm)

TicksFine(s) == \A bpm \in {s.fallback, s.tempo.minimum_bpm} : LongerThanTick(bpm)

(* Whatever the model heard and however its reads were cut, process raises for one *)
(* of two rules the code states, or because of something outside the pipeline: no   *)
(* stage hands a later one, or its own contract, any other result that is refused.  *)
OnlyKnownRefusals ==
  /\ stage = "raised" => cause \in ExternalCauses \union KnownRefusals
  /\ \A m \in metrics : m.accepted

(* An upload is accepted exactly when its size is within the limit, however short *)
(* the reads were, and at most one byte too many is read of one that is not.       *)
SizeLimitExact ==
  /\ upload.read <= MaxSizeBytes + 1
  /\ upload.verdict = "accepted" => upload.size \in 1..MaxSizeBytes /\ upload.read = upload.size
  /\ upload.verdict = "empty" => upload.size = 0
  /\ upload.verdict = "too_large" => upload.size > MaxSizeBytes

(* Removing short notes and exact duplicates keeps one note of every pitch and     *)
(* interval that is long enough, the best of those that were heard, in the order    *)
(* of the transcription.                                                            *)
BestOfDuplicates ==
  stage = "confidence" =>
    LET notes == local.processed.notes
        long == {i \in DOMAIN local.raw : Duration(local.raw[i]) >= MinimumDuration}
        Better(a, b) == TupleLess(<<a.confidence, a.velocity>>, <<b.confidence, b.velocity>>)
    IN /\ \A n \in DOMAIN notes : \E i \in long : local.raw[i] = notes[n]
       /\ \A i \in long : \E n \in DOMAIN notes :
            /\ DuplicateKey(notes[n]) = DuplicateKey(local.raw[i])
            /\ ~Better(notes[n], local.raw[i])
       /\ \A n, m \in DOMAIN notes : n < m =>
            TupleLess(<<notes[n].onset, notes[n].pitch, notes[n].offset>>,
                      <<notes[m].onset, notes[m].pitch, notes[m].offset>>)

TwoTo[k \in Nat] == IF k = 0 THEN 1 ELSE 2 * TwoTo[k - 1]

OctavesAway(bpm, k) ==
  IF k >= 0 THEN <<bpm[1] * TwoTo[k], bpm[2]>> ELSE <<bpm[1], bpm[2] * TwoTo[-k]>>

\* The k-th longest of the intervals, each counted as often as it occurs.
KthLongest(intervals, k) ==
  CHOOSE x \in ToSet(intervals) :
    /\ Cardinality({i \in DOMAIN intervals : intervals[i] > x}) < k
    /\ Cardinality({i \in DOMAIN intervals : intervals[i] >= x}) >= k

(* The tempo of a score is the median beat, moved by the fewest octaves that bring *)
(* it into the range; it is the fallback exactly when there are too few onsets or   *)
(* the range has no octave of it.                                                   *)
TempoIsNearestOctave ==
  stage = "quantize" =>
    LET intervals == OnsetIntervals(local.written.events)
        enough == Len(intervals) >= setup.tempo.minimum_interval_count
        median == Median([k \in DOMAIN intervals |-> <<60 * Second, KthLongest(intervals, k)>>])
        octaves == {k \in Octaves : InTempoRange(OctavesAway(median, k), setup.tempo)}
        Size(k) == IF k < 0 THEN -k ELSE k
    IN IF enough /\ octaves # {}
       THEN /\ local.tempo.source = "automatic"
            /\ \E k \in octaves :
                 /\ SameNumber(local.tempo.effective, OctavesAway(median, k))
                 /\ \A other \in octaves : Size(k) <= Size(other)
       ELSE local.tempo.source = "manual" /\ local.tempo.effective = setup.fallback

(* In the quantized score the notes keep the order they were heard in. A note      *)
(* starts where it snaps to the grid unless the note before it starts there or      *)
(* later, and then it starts where that one ends. It lasts as long as it snapped to, *)
(* at least a step, unless the next note cuts it. The report counts the notes that   *)
(* were moved or cut.                                                                *)
MovedOnlyWhenForced ==
  stage = "midi" =>
    LET events == local.written.events
        notes == NoteItems(local.quantized.timeline)
        Heard(k) == events[notes[k].index].source.event
        Snap(seconds) == SecondsToGridStep(seconds, local.tempo, setup.subdivisions)
        On(k) == Snap(Heard(k).onset)
        moved == {k \in DOMAIN notes : notes[k].onset # On(k)}
        cut == {k \in DOMAIN notes : notes[k].offset # Max({Snap(Heard(k).offset),
                                                            notes[k].onset + 1})}
    IN /\ \A k \in 1..(Len(notes) - 1) : Heard(k).onset <= Heard(k + 1).onset
       /\ \A k \in moved : /\ k > 1 /\ notes[k].onset > On(k)
                           /\ notes[k].onset = notes[k - 1].offset /\ notes[k - 1].onset >= On(k)
       /\ \A k \in cut : /\ k < Len(notes) /\ notes[k].offset = notes[k + 1].onset
                         /\ notes[k].offset < Snap(Heard(k).offset)
       /\ local.quantized.report.overlap = Cardinality(moved \union cut)

(* In the MIDI file the messages of a pitch whose notes do not overlap go on, off,  *)
(* on, off: no note of it is cut short by one that ends at the same tick.            *)
RepeatedPitchNotCut ==
  stage = "musicxml" =>
    LET events == local.written.events
        Heard(i) == events[i].source.event
        track == local.midi.file.track
    IN \A pitch \in {Heard(i).pitch : i \in DOMAIN events} :
         LET notes == {i \in DOMAIN events : Heard(i).pitch = pitch}
             messages == Pick(track, {k \in DOMAIN track : track[k].note = pitch})
         IN (\A i, j \in notes : i # j => \/ Heard(i).offset <= Heard(j).onset
                                          \/ Heard(j).offset <= Heard(i).onset)
            => /\ Len(messages) = 2 * Cardinality(notes)
               /\ \A k \in DOMAIN messages :
                    messages[k].type = IF k % 2 = 1 THEN "note_on" ELSE "note_off"

Lengthen(length, element) == length + element.duration
Length(elements) == FoldLeft(Lengthen, 0, elements)

\* Every measure but the last is full.
MeasuresFull(measures, report) ==
  \A m \in DOMAIN measures :
    Length(measures[m]) = IF m < Len(measures) THEN report.capacity ELSE report.final_used

Sounding(elements) == {k \in DOMAIN elements : ~elements[k].rest}

TiesJoin(elements) ==
  \A k \in Sounding(elements) :
    /\ elements[k].tie_start => k + 1 \in Sounding(elements) /\ elements[k + 1].tie_stop
    /\ elements[k].tie_stop => k - 1 \in Sounding(elements) /\ elements[k - 1].tie_start

\* The elements that begin a note, and the last one of the ties of an element.
Beginnings(elements) == {k \in Sounding(elements) : ~elements[k].tie_stop}
TieEnd(elements, k) == Min({j \in Sounding(elements) : j >= k /\ ~elements[j].tie_start})

\* The n-th element that begins a note begins and ends with the n-th note.
NotesLast(elements, notes) ==
  /\ Cardinality(Beginnings(elements)) = Len(notes)
  /\ \A k \in Beginnings(elements) :
       LET note == notes[Cardinality({j \in Beginnings(elements) : j < k}) + 1]
       IN /\ Length(SubSeq(elements, 1, k - 1)) = note.onset
          /\ Length(SubSeq(elements, k, TieEnd(elements, k))) = note.offset - note.onset

(* Every measure of the score but the last is full, the last one holds something     *)
(* unless the score is silent, and the ties put together exactly the pieces of one     *)
(* note: as many pitches begin as there are notes, and each lasts as long as its note. *)
ScoreAddsUp ==
  stage = "render" =>
    LET measures == local.musicxml.document.measures
        report == local.musicxml.report
        timeline == local.quantized.timeline
    IN /\ MeasuresFull(measures, report)
       /\ timeline # <<>> => report.final_used > 0
       /\ TiesJoin(FlattenSeq(measures))
       /\ NotesLast(FlattenSeq(measures), NoteItems(timeline))

PitchClass == [C |-> 0, D |-> 2, E |-> 4, F |-> 5, G |-> 7, A |-> 9, B |-> 11]

\* The MIDI note a reader of the score hears for a pitch of a transposing instrument.
Sounds(pitch, instrument) ==
  12 * (pitch.octave + 1) + PitchClass[pitch.step] + pitch.alter + TotalTransposition(instrument)

(* What the score spells, read with the transposition it prints for the instrument, *)
(* is the concert pitch that was heard, for every note and piece of a note.           *)
SoundsAsHeard ==
  stage = "render" =>
    LET document == local.musicxml.document
        plan == PlanScore(local.quantized.timeline, setup.subdivisions, setup.beats)
    IN \A m \in DOMAIN document.measures : \A k \in DOMAIN document.measures[m] :
         \A pitch \in document.measures[m][k].pitch :
           LET segment == plan.measures[m][k]
           IN Sounds(pitch, document.transpose) =
                local.written.events[segment.item.index].source.event.pitch

(* A run that returned registered its own review and its own bundle. No bundle is    *)
(* ever there without the review of the run that made it, whichever runs failed in    *)
(* between; and a bundle has the MIDI file, the score, and every page or none.         *)
RegisteredTogether ==
  /\ stage = "returned" => review = run /\ \E b \in bundle : b.run = run
  /\ \A b \in bundle :
       LET pages == {i \in DOMAIN b.artifacts : Head(b.artifacts[i].id) = "svg-page"}
       IN /\ b.run = review
          /\ b.artifacts[1].id = <<"midi">> /\ b.artifacts[2].id = <<"musicxml">>
          /\ \A i \in pages : /\ b.artifacts[i].id[2] = i - 2
                              /\ b.artifacts[i].content.page_count = Cardinality(pages)

(* The notes of a transcription and of a reference are matched one to one, within     *)
(* the tolerance, and no two notes that would match are both left over.                *)
MatchingMaximal ==
  \A m \in metrics :
    LET matching == m.evaluation.matching
        estimated == local.processed.notes
        CouldMatch(r, e) == /\ m.reference[r].pitch = estimated[e].pitch
                            /\ WithinTolerance(m.reference[r], estimated[e])
    IN /\ \A p, q \in matching : p # q => p[1] # q[1] /\ p[2] # q[2]
       /\ \A p \in matching : CouldMatch(p[1], p[2])
       /\ \A r \in DOMAIN m.reference, e \in DOMAIN estimated :
            CouldMatch(r, e) => \E p \in matching : p[1] = r \/ p[2] = e
=============================================================================
