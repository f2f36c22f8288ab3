-------------------------- MODULE AudioConversion --------------------------
(* infrastructure/hashing.py, infrastructure/ffmpeg.py and the error mapping of  *)
(* the processor: how much of an upload is read, and what the external converter  *)
(* makes of the audio. A run of FFmpeg is a record of what each step of convert    *)
(* meets; the standard error text and the workspace are left out.                  *)
EXTENDS Integers

CONSTANTS
  ChunkSize, MaxSizeBytes,     \* of Sha256AudioContentHasher
  SampleRate, Channels,        \* of CanonicalAudioSettings
  MaxDuration                  \* of AudioProcessingLimits, in seconds

ASSUME AudioAssumption ==
  /\ ChunkSize \in Nat \ {0} /\ MaxSizeBytes \in Nat \ {0}
  /\ SampleRate \in Nat \ {0} /\ MaxDuration \in Nat \ {0}

\* Mutation of ReadSize: never more than the limit is asked for.
ReadSizeToLimit(read) ==
  LET remaining == MaxSizeBytes - read
  IN IF ChunkSize < remaining THEN ChunkSize ELSE remaining

\* How many bytes inspect asks for when it has read so many: one too many ends the upload.
ReadSize(read) ==
  LET remaining == MaxSizeBytes - read + 1
  IN IF ChunkSize < remaining THEN ChunkSize ELSE remaining

VersionAvailable(execution) ==
  execution.version.ran /\ execution.version.return_code = 0 /\ execution.version.named

WavAccepted(wav) ==
  /\ wav.readable /\ wav.compression = "NONE" /\ wav.sample_width = 2
  /\ wav.sample_rate = SampleRate /\ wav.channels = Channels /\ wav.frames > 0

(* convert: two failures belong to the audio and end the job, every other one   *)
(* belongs to the tool and is retried.                                           *)
ConversionVerdict(execution) ==
  IF ~VersionAvailable(execution) THEN "tool_failed"
  ELSE IF ~execution.command.ran THEN "tool_failed"
  ELSE IF execution.command.return_code # 0 THEN "AUDIO_CONTENT_INVALID"
  ELSE IF ~execution.command.output THEN "output_missing"
  ELSE IF ~WavAccepted(execution.wav) THEN "output_invalid"
  ELSE IF execution.wav.frames > MaxDuration * execution.wav.sample_rate
  THEN "AUDIO_DURATION_LIMIT_EXCEEDED"
  ELSE IF ~execution.copied THEN "copy_failed" ELSE "converted"

TerminalCodes == {"AUDIO_CONTENT_INVALID", "AUDIO_DURATION_LIMIT_EXCEEDED"}
=============================================================================
