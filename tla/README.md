# A formal model of the InstrumentalSW AI module

The AI module takes recordings of a saxophone, transcribes them in the
background and serves the transcription for review: a FastAPI application
accepts an upload and stores it, worker processes claim the job from a
PostgreSQL queue, run the audio-to-score pipeline and register review, revision
zero and artifacts, and reviewers append revisions over HTTP.

This directory holds TLA+ modules translated from the Python code under
`src/src/saxo_ai`, TLC configurations that check them on small instances, and
TLAPS proofs for all instances. `PROJECT.json` lists, for every definition, the
source lines it models, and for every property a mutation of the model that
violates it.

## 1. The system and its hard parts

| Part | State | Operations | Interacts with | Hard part, and what makes it correct |
|---|---|---|---|---|
| Upload (`application/services.py`) | none of its own; writes original, job, row | `CreateTranscriptionJob.execute` | original store, job repository, queue | three separate writes that may stop in between; an accepted job must have a row and an original |
| Job value and repository (`domain/models.py`, `postgres_transcription_job_repository.py`) | one row per job, saved whole | `mark_*`, `save` (upsert), `get` | every other part | no version column: the last `save` wins, however old its copy |
| Queue (`application/ports.py`, `postgres_processing_queue.py`) | one row per job: attempt_count, available_at, claimed_at | `enqueue`, `claim`, `ack`, `retry` | worker, upload | several workers, leases that expire under a running worker, host clocks; a claim must be fenced |
| Worker (`application/processing.py`) | its local message and job copy | `run_once` | queue, job repository, original store, processor | queue operation and job save are separate; stops in between, stale copies; at most one verdict, honest and never lost |
| Monophonic processor (`application/monophonic_processor.py`) | none | `process` | converter, baseline, exporters, review and artifact registration | partial success of a run the worker will repeat, two overlapping runs of one job |
| Reviews and revisions (`transcription_review.py`, `transcription_revisions.py`, `infrastructure/repositories.py`) | review and history per job, regeneration requests | `initialize`, `append`, `save`, reads | HTTP threads, processor | concurrent edits from the same base; a history that is only appended to; one request per revision |
| Revision artifacts (`revision_artifacts.py`, `object_storage_revision_artifact_repository.py`) | rows in PostgreSQL, bytes in object storage | `save`, `get_bundle`, `get_artifact` | processor, HTTP threads | no transaction spans both stores; rows must describe the bytes |
| Audio (`ffmpeg.py`, `hashing.py`) | temporary files | canonicalise, hash | upload, processor | a size limit kept over short reads; a subprocess that may fail at every step, for the audio's fault or its own |
| Note events, confidence, written pitch, tempo, rhythm, MIDI, MusicXML, score | none (pure) | one use case each | chained by the processor; each checks its own result by a contract | boundaries: duplicates, overlaps, zero durations, measure splits, ordering at equal ticks; no stage may refuse what another makes |
| Metrics | none (pure) | `EvaluateNoteTranscription` | tests and evaluations | one-to-one matching |
| Dataset tools (`prepare_filosax_dataset.py`, `split_filosax_dataset.py`) | a directory, manifest and plan files | manifest, verify, split | the operator, who changes the directory | a walk that takes time; plans that must agree with one another |
| Baseline adapter (`hf_*.py`) | checkpoint file | download, verify, transcribe | processor | failures that must be told apart, an output that need not have the expected fields |
| HTTP API, wiring, configuration, migrations, scripts | none | | all use cases | request parsing and status codes |

## 2. Modules

| Module | Models | Kind |
|---|---|---|
| `LeaseQueue` | `TranscriptionProcessingQueue`, the port: rows fenced by attempt tokens, no time | abstract specification |
| `ProcessingQueue` | `PostgresTranscriptionProcessingQueue`: columns, row locks, clocks | detailed; implements `LeaseQueue` |
| `TranscriptionJob` | `TranscriptionJob`, `JobStatus`, `JobFailureCode`, the `mark_*` methods | data |
| `TranscriptionWorker` | uploads and `run_once` of several workers over `LeaseQueue`, job table and original store | composition |
| `RevisionHistory` | what the revision contract promises: a history per job, opened once, edited one atomic edit at a time | abstract specification |
| `Revisions` | review, revision and regeneration repositories under HTTP threads and processor runs | detailed; implements `RevisionHistory` |
| `ArtifactRegistry` | what a caller of `save` may rely on: the answers of `InMemoryRevisionArtifactRepository`, and the errors that two stores add | abstract specification |
| `ArtifactStore` | `ObjectStorageRevisionArtifactRepository`: rows in PostgreSQL, bytes in object storage | detailed; implements `ArtifactRegistry` |
| `ScorePipeline` | `MonophonicTranscriptionProcessor.process` from the upload's bytes to the registered bundle, run by run | composition of the next ten |
| `AudioConversion`, `BaselineEngine`, `ScoreRendering` | FFmpeg, the transcription model and Verovio: what each call may meet and what becomes of it | operators |
| `NoteEvents`, `NotePostProcessing`, `WrittenPitch`, `Tempo`, `RhythmQuantization`, `MidiExport`, `MusicXmlExport` | the stages of the note pipeline with the contracts of their results, each extending the one before | pure algorithms |
| `NoteMatching` | `EvaluateNoteTranscription` | pure algorithm |
| `Rounding` | quotients, `ROUND_HALF_UP` and `round`, the order of tuples, `sorted` | operators |
| `DatasetTools` | manifest, verification and split plans over a directory that changes | system |
| `ProcessingQueueProofs`, `TranscriptionWorkerProofs` (which has the proofs about `LeaseQueue` too), `RevisionsProofs`, `ArtifactStoreProofs`, `ScorePipelineProofs`, `ScoreFilesProofs`, `DatasetToolsProofs` | theorems about the above | proofs |
| `SequenceLemmas` | what folds, sorting, picking and recursive functions compute, for sequences of every length | lemmas |
| `MCProcessingQueue`, `MCTranscriptionWorker`, `MCRevisions`, `MCArtifactStore`, `MCScorePipeline`, `MCDatasetTools` | model values, small data, symmetry | for TLC |

### The queue: `LeaseQueue` and `ProcessingQueue`

A row is *absent*, *ready* (`claimed_at` is NULL) or *held*, and counts its
attempts. `Claim` and `Reclaim` raise the counter and give the worker the new
value; `Ack` deletes and `Retry` releases the row whose counter still equals the
worker's message. `Reclaim` is always enabled: in the abstract queue a lease may
end at any time, so that whatever is proved of it holds for every lease and for
every clock. An id is enqueued by one upload only (`uuid4()` in
`CreateTranscriptionJob.execute`); `Enqueue` is guarded accordingly.

`ProcessingQueue` has the columns. `claim` is two actions, `ClaimSelect` (which
locks the row, skipping locked ones, in the order of `available_at`) and
`ClaimCommit`, because only the row lock makes them one step; `ack` and `retry`
wait for that lock. The clock is read *before* the transaction starts and on
the worker's own host: the reading is up to `MaxLag` ticks old when the
statement runs and up to `MaxSkew` off. `AbstractRow` maps a table row to a row
of `LeaseQueue`; selecting a row, losing the connection and the passing of time
are stuttering steps.

### Uploads and workers: `TranscriptionWorker`

`pc[w]` is the next call of `run_once`; `task`, `seen` and `verdict` are its
locals: the message, the job copy that later `mark_*` calls start from, and the
job value to save once the ack (or retry) has succeeded. One action per call of
a repository or of the queue:

| Action | `processing.py` | Action | `services.py` |
|---|---|---|---|
| `ClaimRow`, `ClaimAbandonedRow`, `ClaimExpiredRow` | 41-43 | `StoreOriginal` | 60, 74-84 |
| `GetJob` | 45-48 | `SaveQueued` | 65-66 |
| `GetSource` | 50-51 | `EnqueueJob` | 67-68, 72 |
| `MarkProcessing`, `MarkRaises` | 56-57 | `EnqueueFails` | 68-69 |
| `ProcessSucceeds`, `ProcessFailsForGood`, `ProcessFails` | 58-65 | `SaveUploaded` | 69-71 |
| `AckMessage`, `RetryMessage` | 47, 52, 61, 66, 68, 72 | `UploadAborts` | between any two |
| `SaveVerdict` | 53, 62, 67, 69, 73 | | |

`Abort` ends a run between any two calls: the process dies, or a repository
raises (`run_once` catches exceptions of the processor only). The processor is
the choice of its outcome: it returns, raises `TerminalProcessingError` with a
code of `TerminalCodes`, or raises anything else. Claims come in three actions
that differ only in why the row can be claimed; separating the lease that ends
under a *running* worker lets a run exclude or bound that fault.

`faults` counts stops, early lease ends and lost originals against `MaxAborts`,
`MaxExpiries`, `MaxAudioLosses`. `succeeded`, `winner` and `tainted` are history
variables that no guard reads.

### Reviews and revisions: `RevisionHistory` and `Revisions`

The endpoints are plain functions, which the framework runs in a pool of
threads; each call of a review or revision repository is one step under the
shared lock, and `CreateTranscriptionRevision.execute` makes three:

| Action | Code |
|---|---|
| `Register` | `repositories.py` 128-166: review and revision zero in one snapshot, or an error |
| `ReceiveEdit`, `ReceiveRegeneration` | `routes.py` 176-192, 216-231 |
| `ReadLatest`, `ReadHistory`, `AppendRevision` | `transcription_revisions.py` 113-125, 127-129, 130-162 |
| `LookUp`, `SaveLooks`, `SaveStores` | `transcription_revisions.py` 294-297, `repositories.py` 228, 231 |

`RequestArtifactRegeneration` and its repository take no lock, so the look-up
and the assignment inside `save` are steps of their own. An event is its id and
the number of the revision that last wrote it, which stands for its pitches and
times; invalid pitches or times are rejected like any other unaccepted batch.
The new ids of an edit are chosen freely among the human ids, taken ones
included: what keeps them apart is the code's own check. `uuid4` is trusted for
the ids of regeneration requests. Everything here lives in memory: a behaviour
is one life of the process, and a restart is the initial state.

### Artifacts: `ArtifactRegistry` and `ArtifactStore`

One revision, several runs. `save` looks for rows (`SelectRows`), re-reads their
bytes (`FetchObject`) if there are any, else puts each object (`PutObject`) and
inserts all rows in one transaction (`InsertRows`). A row stands for descriptor
and digest, so its bytes are right when the object under its key has its
content. `Break` makes any call raise, or the process die, anywhere; the reply
may be all that was lost, so that the object is there, or the rows are
committed, all the same. What becomes effective only after the caller has been
told of a failure is not modelled. A run may register its bundle again whatever
became of it before: in one process the review repository refuses that
(`RegisterReview` of `ScorePipeline`), but reviews live in memory and artifacts
do not, so a restarted worker gets here again.

`ArtifactRegistry` has the answers of the in-memory repository, `Register` and
`Answer`, and one action for each way in which the stored one departs from it.
`Race`: a run that had looked before another registered ends in an
`IntegrityError`, also if the bundles are equal. `Misread`: the registered bytes
cannot be compared, which happens only if runs disagree on an artifact of the
bundle. `Break`: a store raised, and a run that had found nothing registered may
have registered its bundle. The refinement maps `rows` to `bundle` and the runs
that are past an empty `SelectRows` to `looked`; puts and reads are stutters. It
says nothing of the bytes: `AgreedRowsDescribeBytes` does, and
`LosingRunOverwritesBytes` shows what becomes of the others.

### The pipeline: `ScorePipeline` and its stages

A behaviour starts with the stream of one upload, which `ReadChunk` reads in
pieces as short as the stream likes, and goes on with up to `MaxRuns` runs of
`process` on the original. One action per call of `process`:

| Action | `monophonic_processor.py` | Result in `local` |
|---|---|---|
| `Convert` | 112-129 | |
| `Transcribe` | 130-131 | `raw` |
| `PostProcessEvents`, `MarkConfidence`, `TransposePitches`, `FindTempo`, `QuantizeRhythm` | 132-140 | `processed`, `confidence`, `written`, `tempo`, `quantized` |
| `WriteMidi`, `WriteScore`, `RenderPages` | 141-152 | `midi`, `musicxml`, `rendered` |
| `BuildBundle` | 153-164 | `artifacts` |
| `RegisterReview`, `RegisterArtifacts`, `Observe` | 165, 166, 167-184 | |

Each stage is an operator (`PostProcess`, `Quantize`, `ExportScore`, ...) with a
second one for the `__post_init__` contracts of its result (`...Accepted`):
`Continue` binds the result if its contract accepts it, and raises otherwise.
What raises is recorded in `cause`. A run that raised is followed by another,
which starts with nothing but the registered review and bundle. `Evaluate`
compares the notes with a reference, which the system itself does not do.

External programs are records of what each of their calls meets: a return code,
a missing output, a page that is not SVG, a log after each call. The recording
is chosen when the model first answers and stays the same in later runs, because
the pinned baseline is deterministic. The review repository accepts the object
it already holds and no other; a run's result is such an object, so it is
represented by the number of its run. All other comparisons "is the same object"
in the contracts are comparisons of values here.

Numbers. Times are whole units, `Second` of them in one second; floats and
Decimals are exact quotients, rounded once, where and how the program rounds
them (`RoundHalfUp`, `RoundHalfEven`). What binary floats add to that is not
modelled. The sizes are scaled down together: `MicrosPerSecond` and `TicksPerBeat`
keep a beat longer than a tick at every tempo of the setups, and
`MinimumDuration` is longer than a tick at the slowest of them (`TicksFine`), as
with the defaults of the program (`RepeatedPitchNotCut` needs it: a note shorter
than a tick is stretched to one).
The differences in seconds that the quantization report adds up are left out:
the contract recomputes them with the expression that made them.

Two things the pipeline does that its documents leave open: of two notes that
snap to one grid step the second is put behind the *whole* of the first, so
chords become arpeggios; and duplicates share pitch and onset, hence the window
of activations and the confidence, so that the velocity always decides.

### The dataset tools: `DatasetTools`

The directory maps each path to a content, and `Change` may happen between any
two steps. A command checks the registry (`RunManifest`, `RunVerify`), then reads
one file after another (`OpenFile`, `CloseFile`) and finishes. A file that is
written while it is read has one of the digests of its contents or `Mixed`, that
of a torn read; different contents have different digests. `steady` are the paths
that held a file throughout, which the walk must have met; others it may have
missed. Writing the manifest may stop half-way, which leaves a file that does
not load. `SplitManifest` needs the manifest only. The hash of a seed and a group
is an arbitrary function, `Bucket`.

## 3. Properties and runs

| Run | Instance | Checks |
|---|---|---|
| `PostgresQueue` | 2 rows, 2 workers, 3 claims, lease 3, delay 3, skew 1, lag 1, time 4 | `ImplementsLeaseQueue`, `OnTimeHolderOwns`, `RetryDelayRespected` |
| `WorkerFaults` | 1 job, 2 workers, 3 attempts, 5 claims, 2 stops, 2 lease ends, 1 loss, lost replies | `TokensUnique`, `OnlyHeldRowsMatch`, `ConsumedStaysAbsent`, `OneFinalVerdict`, `FinalStatusHonest`, `VerdictIsLegal`, `StrandedOnlyByTaint` |
| `WorkersFinish` | 2 jobs, 2 workers, 2 attempts, 4 claims, 1 stop, 1 loss | `AcceptedFinishes`, `RowsDrain` |
| `Revisions` | 1 job, 2 threads, 2 results, 1 model and 2 human ids, 4 revisions | `ImplementsHistory`, `IdsNeverReused`, `NothingOverwritten`, `OnlyAppended`, `ReviewIsRevisionZero`, `AnsweredIsRequested` |
| `ArtifactStore` | 3 runs, one without a score, one with another MusicXML; 3 calls that raise | `ImplementsRegistry`, `RowsHaveBytes`, `AgreedRowsDescribeBytes` |
| `ScorePipeline` | some 400 recordings of up to 5 notes, 4 setups, 2 runs, 9 conversions, 8 runs of the model, 8 of the renderer, 4 references | `OnlyKnownRefusals`, `SizeLimitExact`, `BestOfDuplicates`, `TempoIsNearestOctave`, `MovedOnlyWhenForced`, `RepeatedPitchNotCut`, `ScoreAddsUp`, `SoundsAsHeard`, `RegisteredTogether`, `MatchingMaximal` |
| `DatasetTools` | 4 files in 2 groups, 1 with a name no manifest accepts, 2 contents, 5 registries, 3 changes, 2 plans | `VerifyExact`, `SplitsStable` |

Each of them checks the type invariant of its module as well.

What they show:

* `OneFinalVerdict`: however leases end, one worker at most is about to save a
  final status, and it is the one whose ack removed the row.
* `FinalStatusHonest`: `COMPLETED` is saved only when the processor returned
  under the claim whose ack removed the row, `PROCESSING_FAILED` only after
  `max_attempts` claims, `SOURCE_AUDIO_MISSING` only when the original is gone;
  and never while the row still exists.
* `VerdictIsLegal`: the `mark_*` call after the ack never raises. That call
  comes after the row is gone, so a `ValueError` would lose the verdict, and it
  starts from a copy that may be many steps old.
* `StrandedOnlyByTaint`: a job without a row and without a final status (the
  "reconciliation" of the queue contract) comes from nothing but a stop between
  ack and save or a save by a worker that had lost its claim.
* `OnTimeHolderOwns`: a worker that settles within the lease (less twice the
  clock difference) of *calling* `claim` still owns its row, although the
  timestamp it stored may be older than the claim itself.
* `TokensUnique`, `OnlyHeldRowsMatch`, `ConsumedStaysAbsent`: no two workers hold
  the same claim, a released row matches nobody's message, a deleted row stays
  deleted. `ack` and `retry` need not look at `claimed_at`.
* `AcceptedFinishes`: every accepted job ends `COMPLETED` or `FAILED` and stays so,
  unless it is tainted: a worker stopped between ack and save, or saved without
  owning the row. `LateRequeueReopensJob` shows such a job.
* `RowsDrain`: a row whose workers die is claimed again until it is removed.
* `ImplementsHistory`: although an edit reads the latest revision, then the whole
  history, and appends in a third call, an edit that is answered with a revision
  took effect at one instant on the revision before it. The two reads may see
  different histories; the compare in `append` makes that harmless.
* `IdsNeverReused`, `NothingOverwritten`, `OnlyAppended`: an id dropped by a
  revision never comes back, what an edit did not write it took over, and no
  revision is ever changed.
* `ReviewIsRevisionZero`: readers of either repository see a review together
  with the revision zero built of it, whichever result a run tries to register.
* `AnsweredIsRequested`: a revision whose regeneration was answered stays
  requested, although the request itself may be replaced (see below).
* `RowsHaveBytes`: no row ever lacks its bytes. `AgreedRowsDescribeBytes`: they
  are the bytes the row was made of, if all runs agree on the bytes of that
  artifact, even if they disagree on others or lack some.
  `ImplementsRegistry`: the rows of the first bundle stay, all of them or none are
  there after a failure, and who looks them up later is told whether its own
  bundle is equal. A run that is repeated after a break, on either side of the
  commit, is answered like any other.
* `OnlyKnownRefusals`: no stage of the pipeline refuses the result of another, or
  its own. What makes `process` raise comes from outside (FFmpeg, the model,
  Verovio, a repository that cannot be reached, the observer) with two exceptions,
  both refusals that every retry of the job meets again: a written pitch above the
  MIDI range, and the review of another run.
* `SizeLimitExact`: the limit is exact, and one byte beyond it is the most that is
  read, however short the reads are.
* `BestOfDuplicates`, `TempoIsNearestOctave`, `MovedOnlyWhenForced`,
  `RepeatedPitchNotCut`, `ScoreAddsUp`, `SoundsAsHeard`, `MatchingMaximal`: each
  states what a stage is for without repeating how it computes it. Duplicates
  leave their best note, the tempo is the median beat moved by the fewest octaves,
  notes are moved or cut only where the grid forces it, repeated pitches are heard
  again, ties add up to the notes, what is written sounds as it was heard, and no
  two notes that match are both left over.
* `RegisteredTogether`: review and bundle are of one run, with every page or none.
  That the identity check refuses each run after the first that got as far as
  `RegisterReview` is why; it is also why such runs fail until the attempts are
  used up, even when only the observer had raised. (The contract of the processor,
  monophonic-processor-v1.md:87, says that diagnostics do not change retries.)
* `VerifyExact`: `verify` answers exactly whether the directory is that of the
  manifest if the directory held still, and what it found reproduced was there at
  some time of the walk whatever happened.
* `SplitsStable`: files that come and go, of other groups or of its own, move no
  group to another split, and two files of a group are never in different ones.

### Disagreements between the code and its documents

Five runs expect a violation; `PROJECT.json` ("findings") quotes the documents.

* `LateRequeueReopensJob`: `retry` releases the row before `QUEUED` is saved
  (processing.py:66-67); another worker may finish the job in between, and
  `COMPLETED` is overwritten without any lease having ended. The save of
  `PROCESSING` (processing.py:57) does not look at the claim either, and does the
  same once a lease has ended.
* `CrashBypassesAttemptLimit`: `max_attempts` bounds failures of the processor,
  not claims; a job whose worker crashes is tried for ever.
* `LostEnqueueReply`: an `enqueue` that commits and then raises leaves a
  claimable row whose job is `UPLOADED` (services.py:70). `mark_processing`
  raises on it in every run, and the row is never removed.
* `TwoRegenerationRequests`: two threads that ask for the same regeneration at
  the same time are given different requests (repositories.py:228, no lock).
* `LosingRunOverwritesBytes`: the objects are put before the insert decides which
  run wins, so a loser with other bytes corrupts the registered bundle
  (object_storage_revision_artifact_repository.py:40).

The contract of the artifacts also says that saving an identical bundle is a no-op
that returns the existing one. Of two equal saves at the same time the second
ends in an `IntegrityError` (ibid.:43), outcome `raced`; `Race` of
`ArtifactRegistry` says which runs it can meet. A later repetition of that run is
answered with the registered bundle.

### Bounds

`MaxClaims` is above `MaxAttempts` in the worker runs, so that claims beyond the
limit occur, and high enough that no fault within its own bound uses it up in
`WorkersFinish`: two attempts, one abandoned claim and one to spare. Two workers
suffice for the hazards at hand, all of which are between a stale worker and the
current one; jobs meet only in the workers that serve them, so one job is enough
for the deep safety run, and the liveness run takes two. Two faults of a kind
let a fault hit the worker that took over from a first one. The clock bounds let
a row be claimed, expire or be retried, and be claimed again (time 4 with lease
and delay 3) with a reading as old as `MaxLag` and as far off as `MaxSkew`.
Four revisions are the fewest in which an id can be added, dropped and used
again. One revision whose regeneration is asked for (`MaxRegenerated`) is enough
since requests of different revisions share nothing. Three failures
(`MaxFailures`) let each of three runs of `ArtifactStore` break once, or one run
three times.
`CHECK_DEADLOCK FALSE` appears in every run but `DatasetTools` and `ArtifactStore`:
all work may be done, and then nothing is left to do. `WorkersFinish` has no lost replies of `enqueue`:
`LostEnqueueReply` shows a row that is never removed. Symmetry is used where no liveness is checked.

The recordings of `ScorePipeline` are all pairs out of a set of notes that puts
onsets, offsets and pitches in every order, on and between the steps of the grid,
triples of a smaller set, pulses whose tempo lies below, inside and above the
ranges of the setups, exact duplicates with other notes between them, notes over
several measures, and pitches at the limits of saxophone and model. The setups
cover the four saxophones, a tempo range narrower than an octave and four grids
and measures. Two runs (`MaxRuns`) let a second run meet what any first one left.
`Octaves` is every octave within five: TLC cannot try all of `Int`, and a tempo moved
further would make `TempoIsNearestOctave` fail. The stream is up to two bytes longer than a limit that is not a multiple of what
is left after a read. `DatasetTools` has two files of one group, a file of another,
one outside `SafePaths`, and groups whose hashes are on the edges of the proportions
(the first bucket of test, the last of train); three changes are enough to leave a file as it was
after two others, or to change it twice while it is read.

### Fairness

`FairSpec` has weak fairness of each upload's and of each worker's own steps.
Workers are meant to poll `run_once` in a loop, and a request runs to its end
unless it stops; a worker that polls meets every claimable row because nothing
but a claim makes a row unclaimable. No fairness is assumed of faults, and none
of the processor's outcome: it may fail each time it is called. That a worker
with an endless supply of other rows never reaches one is not excluded by the
code; the instances have as many rows as jobs.

## 4. Proofs

All theorems hold for every set of jobs and workers and every value of the
constants that satisfies the named assumptions (`QueueAssumption`,
`WorkerAssumption`, `TableAssumption`, `ClockAssumption`, `HistoryAssumption`,
`RevisionsAssumption`, `StoreAssumption`, `DatasetAssumption`, and those of the
pipeline's modules). Every invariant and every action property that a passing run
checks is the subject of one of them.

* `TranscriptionWorkerProofs`, about the queue: `QueueTypeCorrect`, `QueueFencing`. `QueueSafety` with the
  type invariant is inductive: tokens are unique because no message runs ahead of
  its row, and a message that equals a released row's counter cannot exist.
* `ProcessingQueueProofs`: `TypeCorrect`, `LeaseIsSafe`, `RetryDelayKept`,
  `Refinement`. The inductive invariant adds that an open claim transaction
  excludes others on its row, that its reading is no older than the lag and skew
  allow, and that the stored `claimed_at` is not before `since - MaxSkew` for the
  row's current holder. `Refinement` maps every step to one of `LeaseQueue` or
  to a stutter.
* `TranscriptionWorkerProofs`, about the workers: `TypeCorrect`, `FinalVerdictUnique`,
  `FinalStatusIsHonest`, `VerdictAlwaysLegal`, `StrandingExplained`,
  `WorkerUsesQueue`. The properties are not inductive alone. `IInv` adds what the
  locals of `run_once` mean at each label (`Locals`), that a row's job is known
  (`KnownJobs`), that a copy read after the claim is not a final one as long as
  the claim is the current one (`SeenCopies`), and what each verdict presupposes
  (`Verdicts`). One lemma per action, combined in `Invariance`.

* `RevisionsProofs`: `IdsStayUnique`, `EditsKept` and `HistoryKept` are proved of
  the abstract history (`HIInv`) and inherited through `Refinement`. The latter
  needs `EditHeld`: a thread's working copy is the revision it was read with, and
  if the history has not grown since, its `taken` ids are all historical ones.
  Hence the compare in `append` implies that both reads saw the history that is
  being extended. `TypeCorrect`, `ReviewMatches` and `AnswerKept` are conjuncts
  of the same invariant, `RInv`.
* `ArtifactStoreProofs`: `TypeCorrect`, `BytesExist`, `BytesAsDescribed`,
  `Refinement`. `Locals` says which objects a run has put by the time it is at a
  label; `Origin`, that every object is some run's artifact, from which
  `BytesAsDescribed` follows for artifacts that all runs agree on. `Refinement`
  has one lemma for each action of the store. It needs the invariant in one place:
  a run that finds other bytes than a row's (`FetchRefines`) has found an
  artifact that runs disagree on, which is what `Misread` claims.
* `ScorePipelineProofs` and `ScoreFilesProofs`: the pipeline, below.
* `DatasetToolsProofs`: `DatasetTypesKept`, `GroupsKeepTheirSplit`, and
  `VerificationIsExact`. The invariant of the last, `WalkInv`, says what a walk has
  met (`WalkedWasShown`), that a walk of a directory that held still has hashed
  what is there (`QuietWalk`), and when the manifest is that of the directory
  (`FaithfulManifest`); the history variables `quiet`, `shown` and `faithful` carry
  it from one step to the next.

In `TranscriptionWorkerProofs`, `OnlyHeldRowsAreSettled` and `ConsumedNeverReturns`
carry the properties of `LeaseQueue` over to the workers.

### The pipeline

The control of `process` has invariants of its own: `PipelineTypesKept`,
`SizeLimitHolds` (`UploadInv`: while the stream is read, what was read is within the
limit, so the next read asks for at least one byte) and `ReviewAndFilesTogether`
(`TogetherInv`: from `register` on the review is the run's own, and only then a bundle
is saved; the numbering of the pages, for any number of them, is
`RevisionZeroHasAllPages`).

Everything else is about values, and rests on one inductive invariant,
`Computed` (`StagesCompute`): whatever stage is next, `local` holds what the stages
before it computed, each from the results of the ones before, and every contract
checked on the way is satisfied. With it a property of a stage is a statement about
its operators, for all notes, tempos and grids:

| Theorem | Property | Argument |
|---|---|---|
| `BestNotesKept` | `BestOfDuplicates` | the fold that drops duplicates has, after each note, the best note of every key met so far |
| `ScoreTempoIsNearest` | `TempoIsNearestOctave` | the candidates are the intervals by rank; doubling (halving) stops at the first octave that is not below (above) the range, and an octave on the other side is further |
| `NotesMovedOnlyWhenForced` | `MovedOnlyWhenForced` | a row of the working notes, one for each step of the fold: step k changes notes k - 1 and k only (`OverlapIsResolved`), and the next changes no more than the end of k |
| `RepeatedPitchesSound` | `RepeatedPitchNotCut` | notes longer than a tick keep their order in ticks, and at one tick ends come first; the position of the message of a note among those of its pitch is odd or even by counting the notes that end before it |
| `ScoreLasts` | `ScoreAddsUp` | the items are cut at the bars into pieces, each inside a measure and joined to the next by ties; the measures are the groups of pieces between bars |
| `ScoreSoundsAsHeard` | `SoundsAsHeard` | each piece is of an item of the timeline, whose written pitch spelled and read with the printed transposition is the concert pitch (`SpellingSounds`) |
| `MatchingsMaximal` | `MatchingMaximal` | `EvaluationsCompute`, and the fold over the candidate pairs: a pair that is left over met a note that was taken |
| `NoStageFails` | `OnlyKnownRefusals` | every contract holds of what its stage computes, so `Continue` raises for nothing but a written pitch above the MIDI range (`FailedOutside`, with `Evaluated` for the metrics) |

`PipelineAssumption` says what the program checks before `process` runs or while it
reads an answer: the settings satisfy their `__post_init__` (domain/tempo.py:48-56,
80-107), and an output of the model holds numbers in the fields the adapter reads
(hf_output.py:47-91). Three theorems need more, stated as their hypothesis:

* `NoStageFails`: `TemposWritable` for every setup. A MIDI file has 24 bits for the
  microseconds of a beat, a limit no setting of a processor is checked against; a
  minimum of less than 3.6 beats per minute could be accepted and then refused by
  the MIDI stage.
* `RepeatedPitchesSound`: `TicksFine` for every setup. `minimum_duration_seconds` may be
  0 (domain/note_event_postprocessing.py:18-28), and a note shorter than a tick is
  stretched to one and may then overlap the next of its pitch. The defaults keep far
  away from it: 30 ms, and 3.125 ms for a tick at 40 beats per minute.
* `ScoreTempoIsNearest`: `Octaves = Int`, which is what the property means; the run has
  a finite part of it.

The setups of the run satisfy the first two (`MixedTempos`, which TLC evaluates).

The stages are folds, sorts and recursive functions over sequences of any length, and
the library's induction theorems, which take an operator as a parameter, cannot be
used. `SequenceLemmas` gets around that with sets: `LeastNumber` (from the
well-foundedness of the natural numbers) gives induction over the set of numbers with
a property, and recursion over a measure gives the functions that `LET f[x \in S]`
chooses. So a fold is a row of its intermediate results, `sorted` is the one order of
the positions by key, flattening has a row of the offsets at which its parts begin.

Only model-checked: the liveness properties `AcceptedFinishes` and `RowsDrain`
(fairness is out of the prover's reach) and the five counterexamples.

## 5. Not modelled

The modules above are separate where the code's parts meet only through values:
`TranscriptionWorker` has only the outcomes of the processor, `ScorePipeline` runs
one job's runs one after the other, and `Revisions` and `ArtifactStore` have the
runs that overlap after an expired lease. A module that composes all four would
multiply their states without a property that spans more than two of them.

* What is not wired to the program: `ValidateTranscriptionAudio`,
  `OverrideEstimatedTempo`, `ExportTempoResolvedMidi`, `dataset_layout.py` and
  the loading of split plans are called by tests only.
* Text and bytes: JSON serialisation, the XML of a score beyond its elements, the
  bytes of a MIDI file, SVG, the forms of URLs, dates and slugs.
* What the libraries do: ffmpeg, mido, Verovio, the model runtime, the Hugging Face
  cache. They are inputs of the models, with every failure the code tells apart.
* HTTP parsing, schemas and status codes; configuration, which is read once; DDL.
* The upload's branch without a queue, which only saves `UPLOADED`.
* Rounding errors of binary floats.

What could follow: the reads that combine several snapshots
(`GetTranscriptionReview` and the history endpoint), and a bound on how long a
row waits, which needs a promise about the order of claims that the code does
not make.
