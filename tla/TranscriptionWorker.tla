------------------------ MODULE TranscriptionWorker ------------------------
(***************************************************************************)
(* Uploads, workers, the queue and the job repository together.            *)
(* CreateTranscriptionJob stores the original, saves the job QUEUED and    *)
(* enqueues it; TranscriptionWorker.run_once claims a row, loads job and   *)
(* original, runs the processor and settles.  Every call to the database   *)
(* or the object storage is a step of its own: other workers act between   *)
(* any two, the process may stop between any two, and a job is always      *)
(* saved from the copy the worker read after its claim.                    *)
(***************************************************************************)
EXTENDS LeaseQueue, TranscriptionJob

CONSTANTS
  MaxAttempts,     \* max_attempts of the worker
  TerminalCodes,   \* failure codes the processor raises as terminal
  MaxAborts,       \* bound: runs and uploads that stop between two steps
  MaxExpiries,     \* bound: leases that run out while their worker still runs
  MaxAudioLosses,  \* bound: originals that disappear from the object storage
  LostReplies      \* TRUE if an enqueue may commit and still raise

ASSUME WorkerAssumption ==
  /\ MaxAttempts \in Nat \ {0}
  /\ TerminalCodes \subseteq JobFailureCode
  /\ TerminalCodes \cap {"SOURCE_AUDIO_MISSING", "PROCESSING_FAILED"} = {}
  /\ MaxAborts \in Nat /\ MaxExpiries \in Nat /\ MaxAudioLosses \in Nat
  /\ LostReplies \in BOOLEAN

VARIABLES
  jobs,        \* the transcription_jobs table
  audio,       \* jobs whose original is in the object storage
  upload,      \* how far the upload of each job is
  pc,          \* the next step of each worker's run_once
  task,        \* run_once's local message
  seen,        \* run_once's local job: the copy read, then the one marked
  verdict,     \* the job value to save after a successful ack or retry
  faults,      \* how many aborts, early expiries and losses happened
  succeeded,   \* history: messages under which the processor returned
  winner,      \* history: the attempt whose ack deleted the job's row
  tainted      \* history: jobs written by a worker that had lost its claim,
               \* or abandoned between the ack and the final save

jobVars == <<jobs, audio>>
workVars == <<pc, task, seen, verdict>>
historyVars == <<succeeded, winner, tainted>>
vars == <<queueVars, jobVars, upload, workVars, faults, historyVars>>

UploadState ==
  {"new", "stored", "saved", "enqueue_failed", "accepted", "rejected", "crashed"}
Label ==
  {"idle", "get_job", "get_source", "mark", "process", "settle", "save"}
Fault == {"abort", "expiry", "loss"}

TypeOK ==
  /\ QueueTypeOK
  /\ jobs \in [Jobs -> Job \cup {NoJob}]
  /\ audio \in SUBSET Jobs
  /\ upload \in [Jobs -> UploadState]
  /\ pc \in [Workers -> Label]
  /\ task \in [Workers -> Message \cup {NoMessage}]
  /\ seen \in [Workers -> Job \cup {NoJob}]
  /\ verdict \in [Workers -> Job \cup {NoJob}]
  /\ faults \in [Fault -> Nat]
  /\ succeeded \in SUBSET Message
  /\ winner \in [Jobs -> 0..MaxClaims]
  /\ tainted \in SUBSET Jobs

Init ==
  /\ QueueInit
  /\ jobs = [j \in Jobs |-> NoJob]
  /\ audio = {}
  /\ upload = [j \in Jobs |-> "new"]
  /\ pc = [w \in Workers |-> "idle"]
  /\ task = [w \in Workers |-> NoMessage]
  /\ seen = [w \in Workers |-> NoJob]
  /\ verdict = [w \in Workers |-> NoJob]
  /\ faults = [f \in Fault |-> 0]
  /\ succeeded = {}
  /\ winner = [j \in Jobs |-> 0]
  /\ tainted = {}

Suffer(f) == faults' = [faults EXCEPT ![f] = @ + 1]

(***************************************************************************)
(* Uploads: CreateTranscriptionJob.execute with a queue configured.        *)
(***************************************************************************)

Upload(j, from, to) ==
  /\ upload[j] = from
  /\ upload' = [upload EXCEPT ![j] = to]
  /\ UNCHANGED <<workVars, historyVars>>

StoreOriginal(j) ==
  /\ Upload(j, "new", "stored")
  /\ audio' = audio \cup {j}
  /\ UNCHANGED <<queueVars, jobs, faults>>

SaveQueued(j) ==
  /\ Upload(j, "stored", "saved")
  /\ jobs' = [jobs EXCEPT ![j] = Queued]
  /\ UNCHANGED <<queueVars, audio, faults>>

EnqueueJob(j) ==
  /\ Upload(j, "saved", "accepted")
  /\ Enqueue(j)
  /\ UNCHANGED <<jobVars, faults>>

\* enqueue raises: before its commit, or (a lost reply) after it.
EnqueueFails(j) ==
  /\ faults["abort"] < MaxAborts
  /\ Suffer("abort")
  /\ Upload(j, "saved", "enqueue_failed")
  /\ \/ UNCHANGED queueVars
     \/ LostReplies /\ Enqueue(j)
  /\ UNCHANGED jobVars

\* The except branch of execute: the job goes back to UPLOADED.
SaveUploaded(j) ==
  /\ Upload(j, "enqueue_failed", "rejected")
  /\ jobs' = [jobs EXCEPT ![j] = Uploaded]
  /\ UNCHANGED <<queueVars, audio, faults>>

UploadAborts(j) ==
  /\ faults["abort"] < MaxAborts
  /\ Suffer("abort")
  /\ upload[j] \in {"stored", "saved", "enqueue_failed"}
  /\ upload' = [upload EXCEPT ![j] = "crashed"]
  /\ UNCHANGED <<queueVars, jobVars, workVars, historyVars>>

(***************************************************************************)
(* The worker: TranscriptionWorker.run_once.                               *)
(***************************************************************************)

Goto(w, from, to) ==
  /\ pc[w] = from
  /\ pc' = [pc EXCEPT ![w] = to]

Claimed(w, j) ==
  /\ Goto(w, "idle", "get_job")
  /\ task' = [task EXCEPT ![w] = msg'[w]]
  /\ UNCHANGED <<jobVars, upload, seen, verdict, historyVars>>

ClaimRow(w, j) ==
  /\ Claim(w, j)
  /\ Claimed(w, j)
  /\ UNCHANGED faults

\* A worker still holds the row's current claim.
Owned(j) == \E w \in Workers : Matches(msg[w]) /\ msg[w].job = j

\* The lease of an abandoned claim runs out: nobody holds it any more.
ClaimAbandonedRow(w, j) ==
  /\ ~Owned(j)
  /\ Reclaim(w, j)
  /\ Claimed(w, j)
  /\ UNCHANGED faults

\* The lease of a worker that still runs runs out (a long run, a slow disk).
ClaimExpiredRow(w, j) ==
  /\ Owned(j)
  /\ faults["expiry"] < MaxExpiries
  /\ Suffer("expiry")
  /\ Reclaim(w, j)
  /\ Claimed(w, j)

GetJob(w) ==
  /\ pc[w] = "get_job"
  /\ seen' = [seen EXCEPT ![w] = jobs[task[w].job]]
  /\ verdict' = [verdict EXCEPT ![w] = NoJob]
  /\ pc' = [pc EXCEPT ![w] =
       IF jobs[task[w].job] = NoJob THEN "settle" ELSE "get_source"]
  /\ UNCHANGED <<queueVars, jobVars, upload, task, faults, historyVars>>

\* Mutation of GetSource: a missing original is dropped like a missing job.
GetSourceDrops(w) ==
  /\ pc[w] = "get_source"
  /\ IF task[w].job \in audio
     THEN pc' = [pc EXCEPT ![w] = "mark"]
     ELSE pc' = [pc EXCEPT ![w] = "settle"]
  /\ UNCHANGED <<queueVars, jobVars, upload, task, seen, verdict, faults, historyVars>>

GetSource(w) ==
  /\ pc[w] = "get_source"
  /\ IF task[w].job \in audio
     THEN /\ pc' = [pc EXCEPT ![w] = "mark"]
          /\ UNCHANGED verdict
     ELSE /\ pc' = [pc EXCEPT ![w] = "settle"]
          /\ verdict' = [verdict EXCEPT ![w] = Failed("SOURCE_AUDIO_MISSING")]
  /\ UNCHANGED <<queueVars, jobVars, upload, task, seen, faults, historyVars>>

\* Mutation of MarkProcessing: the later transitions start from the copy that
\* was read, not from the one that was marked.
MarkProcessingKeepsCopy(w) ==
  /\ Goto(w, "mark", "process")
  /\ MayMark(seen[w], "PROCESSING")
  /\ jobs' = [jobs EXCEPT ![task[w].job] = Processing]
  /\ tainted' = IF Matches(msg[w]) THEN tainted ELSE tainted \cup {task[w].job}
  /\ UNCHANGED <<queueVars, audio, upload, task, seen, verdict, faults,
                 succeeded, winner>>

\* The save is not guarded by the claim: it happens whether or not the worker
\* still owns the row.
MarkProcessing(w) ==
  /\ Goto(w, "mark", "process")
  /\ MayMark(seen[w], "PROCESSING")
  /\ seen' = [seen EXCEPT ![w] = Processing]
  /\ jobs' = [jobs EXCEPT ![task[w].job] = Processing]
  /\ tainted' = IF Matches(msg[w]) THEN tainted ELSE tainted \cup {task[w].job}
  /\ UNCHANGED <<queueVars, audio, upload, task, verdict, faults,
                 succeeded, winner>>

\* run_once returns: its locals are gone.
Leave(w) ==
  /\ pc' = [pc EXCEPT ![w] = "idle"]
  /\ task' = [task EXCEPT ![w] = NoMessage]
  /\ seen' = [seen EXCEPT ![w] = NoJob]
  /\ verdict' = [verdict EXCEPT ![w] = NoJob]

\* mark_processing raises ValueError and nothing in run_once catches it: the
\* row stays claimed until its lease runs out.
MarkRaises(w) ==
  /\ pc[w] = "mark"
  /\ ~MayMark(seen[w], "PROCESSING")
  /\ Forget(w)
  /\ Leave(w)
  /\ UNCHANGED <<jobVars, upload, faults, historyVars>>

Decide(w, v) ==
  /\ Goto(w, "process", "settle")
  /\ verdict' = [verdict EXCEPT ![w] = v]
  /\ UNCHANGED <<queueVars, jobVars, upload, task, seen, faults, winner, tainted>>

ProcessSucceeds(w) ==
  /\ Decide(w, Completed)
  /\ succeeded' = succeeded \cup {task[w]}

ProcessFailsForGood(w) ==
  /\ \E code \in TerminalCodes : Decide(w, Failed(code))
  /\ UNCHANGED succeeded

\* Mutation of ProcessFails: gives up one attempt early.
ProcessFailsEarly(w) ==
  /\ Decide(w, IF task[w].attempt + 1 < MaxAttempts
               THEN Queued ELSE Failed("PROCESSING_FAILED"))
  /\ UNCHANGED succeeded

\* Mutation of ProcessFails: the final failure carries no failure code.
ProcessFailsWithoutCode(w) ==
  /\ Decide(w, IF task[w].attempt < MaxAttempts
               THEN Queued ELSE WithStatus("FAILED"))
  /\ UNCHANGED succeeded

\* Any other exception: retried below max_attempts, final at it.
ProcessFails(w) ==
  /\ Decide(w, IF task[w].attempt < MaxAttempts
               THEN Queued ELSE Failed("PROCESSING_FAILED"))
  /\ UNCHANGED succeeded

\* Mutation of AckMessage: the result of ack is not looked at.
AckMessageUnchecked(w) ==
  /\ pc[w] = "settle" /\ verdict[w] # Queued
  /\ Ack(w)
  /\ winner' = IF Matches(msg[w])
               THEN [winner EXCEPT ![task[w].job] = task[w].attempt] ELSE winner
  /\ IF verdict[w] # NoJob
     THEN Goto(w, "settle", "save") /\ UNCHANGED <<task, seen, verdict>>
     ELSE Leave(w)
  /\ UNCHANGED <<jobVars, upload, faults, succeeded, tainted>>

\* queue.ack(message).  Without the row, or without a job, run_once is done.
AckMessage(w) ==
  /\ pc[w] = "settle" /\ verdict[w] # Queued
  /\ Ack(w)
  /\ winner' = IF Matches(msg[w])
               THEN [winner EXCEPT ![task[w].job] = task[w].attempt] ELSE winner
  /\ IF Matches(msg[w]) /\ verdict[w] # NoJob
     THEN Goto(w, "settle", "save") /\ UNCHANGED <<task, seen, verdict>>
     ELSE Leave(w)
  /\ UNCHANGED <<jobVars, upload, faults, succeeded, tainted>>

\* Mutation of RetryMessage: the failed run acknowledges its message.
RetryMessageAcks(w) ==
  /\ pc[w] = "settle" /\ verdict[w] = Queued
  /\ Ack(w)
  /\ IF Matches(msg[w])
     THEN Goto(w, "settle", "save") /\ UNCHANGED <<task, seen, verdict>>
     ELSE Leave(w)
  /\ UNCHANGED <<jobVars, upload, faults, historyVars>>

\* queue.retry(message).
RetryMessage(w) ==
  /\ pc[w] = "settle" /\ verdict[w] = Queued
  /\ Retry(w)
  /\ IF Matches(msg[w])
     THEN Goto(w, "settle", "save") /\ UNCHANGED <<task, seen, verdict>>
     ELSE Leave(w)
  /\ UNCHANGED <<jobVars, upload, faults, historyVars>>

\* Between retry and the save the row is claimable: the save is stale when
\* another worker has taken it since.
RowReleasedBy(m) == row[m.job] = [phase |-> "ready", attempt |-> m.attempt]

SaveVerdict(w) ==
  /\ pc[w] = "save"
  /\ MayMark(seen[w], verdict[w].status)
  /\ jobs' = [jobs EXCEPT ![task[w].job] = verdict[w]]
  /\ tainted' = IF verdict[w] = Queued /\ ~RowReleasedBy(task[w])
                THEN tainted \cup {task[w].job} ELSE tainted
  /\ Leave(w)
  /\ UNCHANGED <<queueVars, audio, upload, faults, succeeded, winner>>

\* The process dies, or the database or the storage raises: run_once catches
\* exceptions of the processor only.
Abort(w) ==
  /\ pc[w] # "idle"
  /\ faults["abort"] < MaxAborts
  /\ Suffer("abort")
  /\ IF msg[w] = NoMessage THEN UNCHANGED queueVars ELSE Forget(w)
  /\ tainted' = IF pc[w] = "save" /\ Terminal(verdict[w])
                THEN tainted \cup {task[w].job} ELSE tainted
  /\ Leave(w)
  /\ UNCHANGED <<jobVars, upload, succeeded, winner>>

\* The object storage loses an original.
LoseOriginal(j) ==
  /\ faults["loss"] < MaxAudioLosses
  /\ Suffer("loss")
  /\ j \in audio
  /\ audio' = audio \ {j}
  /\ UNCHANGED <<queueVars, jobs, upload, workVars, historyVars>>

UploadStep(j) ==
  StoreOriginal(j) \/ SaveQueued(j) \/ EnqueueJob(j) \/ SaveUploaded(j)

WorkerStep(w) ==
  \/ \E j \in Jobs : ClaimRow(w, j) \/ ClaimAbandonedRow(w, j)
  \/ GetJob(w) \/ GetSource(w) \/ MarkProcessing(w) \/ MarkRaises(w)
  \/ ProcessSucceeds(w) \/ ProcessFailsForGood(w) \/ ProcessFails(w)
  \/ AckMessage(w) \/ RetryMessage(w) \/ SaveVerdict(w)

FaultStep ==
  \/ \E j \in Jobs : EnqueueFails(j) \/ UploadAborts(j) \/ LoseOriginal(j)
  \/ \E w \in Workers : Abort(w) \/ \E j \in Jobs : ClaimExpiredRow(w, j)

Next ==
  \/ \E j \in Jobs : UploadStep(j)
  \/ \E w \in Workers : WorkerStep(w)
  \/ FaultStep

Spec == Init /\ [][Next]_vars

\* Workers poll run_once in a loop and an upload runs its request to the end;
\* nothing obliges a fault to happen.
Fairness ==
  /\ \A j \in Jobs : WF_vars(UploadStep(j))
  /\ \A w \in Workers : WF_vars(WorkerStep(w))

FairSpec == Spec /\ Fairness

(***************************************************************************)
(* Safety.                                                                 *)
(***************************************************************************)

\* A worker about to save a final status is alone in it: its ack removed the
\* row, no claim of the job can be settled any more, and no other worker is
\* about to save a final status of the same job.
OneFinalVerdict ==
  \A w \in Workers :
    pc[w] = "save" /\ Terminal(verdict[w]) =>
      /\ task[w].job \in consumed /\ winner[task[w].job] = task[w].attempt
      /\ \A v \in Workers \ {w} :
           pc[v] = "save" /\ task[v].job = task[w].job => verdict[v] = Queued

\* A final status tells the truth: COMPLETED means the processor returned
\* under the very claim that removed the row, PROCESSING_FAILED that at least
\* MaxAttempts claims were used, SOURCE_AUDIO_MISSING that the original is
\* gone; and no final status is published while the row can be claimed.
FinalStatusHonest ==
  \A j \in Jobs :
    /\ Terminal(jobs[j]) => j \in consumed
    /\ jobs[j] = Completed => [job |-> j, attempt |-> winner[j]] \in succeeded
    /\ jobs[j] = Failed("PROCESSING_FAILED") => winner[j] >= MaxAttempts
    /\ jobs[j] = Failed("SOURCE_AUDIO_MISSING") => j \notin audio

\* The mark_* call that follows a successful ack or retry never raises, though
\* it is applied to a copy of the job that may be many steps old.
VerdictIsLegal ==
  \A w \in Workers : pc[w] = "save" => MayMark(seen[w], verdict[w].status)

\* A job that was accepted and whose row is gone, that nobody is about to give
\* its final status, and that still reads QUEUED or PROCESSING.
Stranded(j) ==
  /\ upload[j] = "accepted" /\ row[j].phase = "absent"
  /\ jobs[j].status \in {"QUEUED", "PROCESSING"}
  /\ ~\E w \in Workers :
        pc[w] = "save" /\ task[w].job = j /\ Terminal(verdict[w])

\* The only ways to strand an accepted job are the two the contract leaves
\* open: a stop between the ack and the final save, and a save by a worker
\* that no longer owned the row.
StrandedOnlyByTaint == \A j \in Jobs : Stranded(j) => j \in tainted

(***************************************************************************)
(* What the documents say, and the code does not do.                       *)
(***************************************************************************)

\* COMPLETED and FAILED have no successor in the lifecycle of the queue
\* contract: a finished job keeps its status.
FinalStatusIsFinal ==
  [][\A j \in Jobs : Terminal(jobs[j]) => jobs'[j] = jobs[j]]_vars

\* The worker bounds the number of attempts: no run beyond max_attempts.
AttemptsBounded ==
  \A w \in Workers : pc[w] = "process" => task[w].attempt <= MaxAttempts

\* A claimable row belongs to a job that was persisted as QUEUED.
ClaimableWasQueued == \A j \in Jobs : row[j].phase = "ready" => jobs[j] # Uploaded

(***************************************************************************)
(* Liveness.                                                               *)
(***************************************************************************)

\* Every accepted job ends COMPLETED or FAILED and stays so, unless it is
\* tainted: workers that stop and originals that are lost only delay it.
AcceptedFinishes ==
  \A j \in Jobs :
    (upload[j] = "accepted") ~> ([]Terminal(jobs[j]) \/ j \in tainted)

\* Whatever workers die, every row is claimed again until it is removed.
RowsDrain == \A j \in Jobs : (row[j].phase # "absent") ~> (row[j].phase = "absent")
=============================================================================
