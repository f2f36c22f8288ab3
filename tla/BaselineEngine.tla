--------------------------- MODULE BaselineEngine ---------------------------
(* The baseline transcription engine, infrastructure/hf_*.py: the pinned       *)
(* runtime packages, the pinned checkpoint, the canonical audio copied into a   *)
(* workspace, the external model, and the conversion of what it answers. The    *)
(* model itself is external: a run of it is a record of what each call meets.   *)
EXTENDS NoteEvents, FiniteSetsExt, SequencesExt

CONSTANTS
  FramesPerSecond,       \* of the activation matrix
  Packages,              \* the distributions BASELINE_RUNTIME_REQUIREMENTS names
  Pinned                 \* what each must be, and what the checkpoint must be

BeginMidiNote == 21

ASSUME EngineAssumption == FramesPerSecond \in Nat \ {0}

(* distribution is what importlib.metadata finds installed for a package.      *)
DistributionVerified(distribution) ==
  /\ distribution.installed
  /\ distribution.version = Pinned.version
  /\ distribution.direct_url # {}
  /\ \A url \in distribution.direct_url :
       url = [source |-> Pinned.source, vcs |-> "git", commit |-> Pinned.commit]

RuntimeAvailable(distributions) ==
  \A package \in Packages : DistributionVerified(distributions[package])

\* hf_hub_download answers a file or raises; its size is checked before its bytes are read.
CheckpointVerdict(file) ==
  IF ~file.found THEN "checkpoint_download"
  ELSE IF file.size # Pinned.size THEN "checkpoint_mismatch"
  ELSE IF ~file.readable THEN "checkpoint_download"
  ELSE IF file.content # Pinned.content THEN "checkpoint_mismatch" ELSE "verified"

\* A row per frame, a column per pitch of the model; the rows are of one width.
OnsetMatrixAccepted(matrix) ==
  /\ Len(matrix) > 0
  /\ \A frame \in DOMAIN matrix : Len(matrix[frame]) = Len(matrix[1]) /\ Len(matrix[1]) > 0

ActivationWindow(onset, matrix) ==
  LET center == RoundHalfEven(onset * FramesPerSecond, Second)
  IN Max({0, center - 2})..(Min({Len(matrix), center + 3}) - 1)

Activations(matrix, onset, pitch) ==
  {matrix[frame + 1][pitch - BeginMidiNote + 1] : frame \in ActivationWindow(onset, matrix)}

HasConfidence(matrix, onset, pitch) ==
  /\ onset >= 0
  /\ pitch - BeginMidiNote \in 0..(Len(matrix[1]) - 1)
  /\ ActivationWindow(onset, matrix) # {}
  /\ Activations(matrix, onset, pitch) \subseteq 0..FullConfidence

ConvertEvent(raw, matrix) ==
  NoteEvent(raw.midi_note, raw.onset_time, raw.offset_time, raw.velocity,
            Max(Activations(matrix, raw.onset_time, raw.midi_note)))

OutputAccepted(output) ==
  /\ OnsetMatrixAccepted(output.reg_onset)
  /\ \A i \in DOMAIN output.events :
       LET raw == output.events[i]
       IN /\ HasConfidence(output.reg_onset, raw.onset_time, raw.midi_note)
          /\ NoteEventAccepted(ConvertEvent(raw, output.reg_onset))

OutputKey(event) == <<event.onset, event.pitch, event.offset, event.velocity>>

ConvertBaselineOutput(output) ==
  LET converted == [i \in DOMAIN output.events |->
                      ConvertEvent(output.events[i], output.reg_onset)]
  IN Sorted(converted, [i \in DOMAIN converted |-> OutputKey(converted[i])])

(* transcribe: the first call that fails names the error the worker sees.      *)
EngineVerdict(execution) ==
  LET checkpoint == CheckpointVerdict(execution.checkpoint) IN
  IF ~RuntimeAvailable(execution.distributions) THEN "engine_unavailable"
  ELSE IF checkpoint # "verified" THEN checkpoint
  ELSE IF ~execution.copied THEN "inference"
  ELSE IF ~execution.initialized THEN "model_initialization"
  ELSE IF ~execution.inferred THEN "inference"
  ELSE IF ~OutputAccepted(execution.output) THEN "invalid_output" ELSE "transcribed"
=============================================================================
