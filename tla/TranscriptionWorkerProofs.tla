---------------------- MODULE TranscriptionWorkerProofs ----------------------
(***************************************************************************)
(* First the queue of the port alone: type correctness and fencing, for    *)
(* any number of jobs, workers and claims.  Then the worker on that queue: *)
(* type correctness, the honesty of final statuses, the uniqueness of the  *)
(* final verdict and the characterisation of stranded jobs, for any number *)
(* of jobs, workers, attempts and faults.                                  *)
(***************************************************************************)
EXTENDS TranscriptionWorker, TLAPS

\* The queue.  QueueIInv is inductive as it stands: the bound of a message by
\* its row (OnlyHeldRowsMatch) is what makes a new token differ from all older
\* ones.
QueueIInv == QueueTypeOK /\ QueueSafety

\* What a claim of either kind does: the row is not consumed, its attempt
\* grows by one, and the worker's token is that new attempt.
LEMMA TakePreserves ==
  ASSUME QueueIInv, NEW w \in Workers, NEW j \in Jobs,
         row[j].phase # "absent", Take(w, j)
  PROVE  QueueIInv'
<1> DEFINE n == row[j].attempt + 1
           m == [job |-> j, attempt |-> n]
<1>1. j \notin consumed
  BY DEF QueueIInv, QueueSafety, ConsumedStaysAbsent, Absent
<1>2. n \in 1..MaxClaims /\ m \in Message
  BY QueueAssumption DEF QueueIInv, QueueTypeOK, Take, Message
<1>3. QueueTypeOK'
  BY <1>2 DEF QueueIInv, QueueTypeOK, Take, Phase
<1>4. row' = [row EXCEPT ![j] = [phase |-> "held", attempt |-> n]]
      /\ msg' = [msg EXCEPT ![w] = m] /\ consumed' = consumed
  BY DEF QueueIInv, QueueTypeOK, Take
<1>5. TokensUnique'
  <2> SUFFICES ASSUME NEW u \in Workers, NEW v \in Workers, u # v, msg'[u] # NoMessage
               PROVE  msg'[u] # msg'[v]
    BY DEF TokensUnique
  <2>1. \A x \in Workers : msg[x] # m
    BY <1>1, <1>2, QueueAssumption
    DEF QueueIInv, QueueTypeOK, QueueSafety, OnlyHeldRowsMatch, Message
  <2>2. QED
    BY <1>4, <2>1 DEF QueueIInv, QueueTypeOK, QueueSafety, TokensUnique
<1>6. OnlyHeldRowsMatch'
  <2> SUFFICES ASSUME NEW v \in Workers, msg'[v] # NoMessage, msg'[v].job \notin consumed
               PROVE  /\ row'[msg'[v].job].phase # "absent"
                      /\ msg'[v].attempt <= row'[msg'[v].job].attempt
                      /\ msg'[v].attempt = row'[msg'[v].job].attempt
                           => row'[msg'[v].job].phase = "held"
    BY <1>4 DEF OnlyHeldRowsMatch
  <2>1. CASE v = w
    BY <1>2, <1>4, <2>1 DEF QueueIInv, QueueTypeOK
  <2>2. CASE v # w
    <3>1. msg'[v] = msg[v] /\ msg[v] \in Message
      BY <1>4, <2>2 DEF QueueIInv, QueueTypeOK
    <3>2. /\ row[msg[v].job].phase # "absent"
          /\ msg[v].attempt <= row[msg[v].job].attempt
          /\ msg[v].attempt = row[msg[v].job].attempt => row[msg[v].job].phase = "held"
      BY <3>1 DEF QueueIInv, QueueSafety, OnlyHeldRowsMatch
    <3>3. CASE msg[v].job = j
      BY <1>4, <3>1, <3>2, <3>3 DEF QueueIInv, QueueTypeOK, Message
    <3>4. CASE msg[v].job # j
      BY <1>4, <3>1, <3>2, <3>4 DEF QueueIInv, QueueTypeOK, Message
    <3>5. QED BY <3>3, <3>4
  <2>3. QED BY <2>1, <2>2
<1>7. ConsumedStaysAbsent'
  BY <1>1, <1>4 DEF QueueIInv, QueueTypeOK, QueueSafety, ConsumedStaysAbsent
<1>8. QED
  BY <1>3, <1>5, <1>6, <1>7 DEF QueueIInv, QueueSafety

LEMMA QueueInitInv == QueueInit => QueueIInv
<1> SUFFICES ASSUME QueueInit PROVE QueueIInv
  OBVIOUS
<1>1. QueueTypeOK
  BY QueueAssumption DEF QueueInit, QueueTypeOK, Absent, Phase
<1>2. QueueSafety
  BY DEF QueueInit, QueueSafety, TokensUnique, OnlyHeldRowsMatch, ConsumedStaysAbsent
<1>3. QED
  BY <1>1, <1>2 DEF QueueIInv

LEMMA EnqueuePreserves ==
  ASSUME QueueIInv, NEW j \in Jobs, Enqueue(j) PROVE QueueIInv'
<1>1. QueueTypeOK'
  BY QueueAssumption DEF QueueIInv, QueueTypeOK, Enqueue, Phase
<1>2. TokensUnique' /\ ConsumedStaysAbsent'
  BY DEF QueueIInv, QueueTypeOK, QueueSafety, Enqueue, TokensUnique, ConsumedStaysAbsent
<1>3. OnlyHeldRowsMatch'
  BY DEF QueueIInv, QueueTypeOK, QueueSafety, Enqueue, OnlyHeldRowsMatch, Message
<1>4. QED
  BY <1>1, <1>2, <1>3 DEF QueueIInv, QueueSafety

LEMMA SettlePreserves ==
  ASSUME QueueIInv, NEW w \in Workers, Ack(w) \/ Retry(w) \/ Forget(w)
  PROVE  QueueIInv'
<1> DEFINE m == msg[w]
<1>1. m \in Message /\ m # NoMessage /\ msg' = [msg EXCEPT ![w] = NoMessage]
  BY DEF QueueIInv, QueueTypeOK, Ack, Retry, Forget
<1>2. TokensUnique'
  BY <1>1 DEF QueueIInv, QueueTypeOK, QueueSafety, TokensUnique
\* Only the holder itself matches the row's token.
<1>3. ASSUME Matches(m), NEW v \in Workers \ {w}, msg[v] # NoMessage, msg[v].job = m.job,
             m.job \notin consumed
      PROVE  msg[v].attempt < row[m.job].attempt
  BY <1>1, <1>3 DEF QueueIInv, QueueTypeOK, QueueSafety, TokensUnique, OnlyHeldRowsMatch,
                    Matches, Message
<1>4. Matches(m) => m.job \notin consumed
  BY DEF QueueIInv, QueueSafety, ConsumedStaysAbsent, Matches, Absent
<1>5. CASE ~Matches(m) \/ Forget(w)
  <2>1. row' = row /\ consumed' = consumed
    BY <1>5 DEF Ack, Retry, Forget, Matches
  <2>2. QED
    BY <1>1, <1>2, <2>1
    DEF QueueIInv, QueueTypeOK, QueueSafety, OnlyHeldRowsMatch, ConsumedStaysAbsent
<1>6. CASE Matches(m) /\ Ack(w)
  <2>1. row' = [row EXCEPT ![m.job] = Absent] /\ consumed' = consumed \cup {m.job}
    BY <1>6 DEF Ack
  <2>2. QueueTypeOK'
    BY <1>1, <2>1, QueueAssumption DEF QueueIInv, QueueTypeOK, Absent, Phase, Message
  <2>3. OnlyHeldRowsMatch'
    BY <1>1, <2>1 DEF QueueIInv, QueueTypeOK, QueueSafety, OnlyHeldRowsMatch, Message
  <2>4. ConsumedStaysAbsent'
    BY <1>1, <2>1 DEF QueueIInv, QueueTypeOK, QueueSafety, ConsumedStaysAbsent, Message
  <2>5. QED
    BY <1>2, <2>2, <2>3, <2>4 DEF QueueIInv, QueueSafety
<1>7. CASE Matches(m) /\ Retry(w)
  <2>1. row' = [row EXCEPT ![m.job].phase = "ready"] /\ consumed' = consumed
    BY <1>7 DEF Retry
  <2>2. QueueTypeOK'
    BY <1>1, <2>1 DEF QueueIInv, QueueTypeOK, Phase, Message
  <2>3. OnlyHeldRowsMatch'
    <3> SUFFICES ASSUME NEW v \in Workers, msg'[v] # NoMessage, msg'[v].job \notin consumed
                 PROVE  /\ row'[msg'[v].job].phase # "absent"
                        /\ msg'[v].attempt <= row'[msg'[v].job].attempt
                        /\ msg'[v].attempt = row'[msg'[v].job].attempt
                             => row'[msg'[v].job].phase = "held"
      BY <2>1 DEF OnlyHeldRowsMatch
    <3>1. v # w /\ msg'[v] = msg[v] /\ msg[v] \in Message
      BY <1>1 DEF QueueIInv, QueueTypeOK
    <3>2. /\ row[msg[v].job].phase # "absent"
          /\ msg[v].attempt <= row[msg[v].job].attempt
          /\ msg[v].attempt = row[msg[v].job].attempt => row[msg[v].job].phase = "held"
      BY <3>1 DEF QueueIInv, QueueSafety, OnlyHeldRowsMatch
    <3>3. CASE msg[v].job = m.job
      <4>1. msg[v].attempt < row[m.job].attempt
        BY <1>3, <1>4, <1>7, <3>1, <3>3
      <4>2. row'[m.job].attempt = row[m.job].attempt /\ row'[m.job].phase = "ready"
        BY <1>1, <2>1 DEF QueueIInv, QueueTypeOK, Message
      <4>3. row[m.job].attempt \in Nat /\ msg[v].attempt \in Nat
        BY <1>1, <3>1, QueueAssumption DEF QueueIInv, QueueTypeOK, Message
      <4>4. QED BY <3>1, <3>3, <4>1, <4>2, <4>3
    <3>4. CASE msg[v].job # m.job
      BY <1>1, <2>1, <3>1, <3>2, <3>4 DEF QueueIInv, QueueTypeOK, Message
    <3>5. QED BY <3>3, <3>4
  <2>4. ConsumedStaysAbsent'
    BY <1>1, <1>4, <1>7, <2>1 DEF QueueIInv, QueueTypeOK, QueueSafety, ConsumedStaysAbsent, Message
  <2>5. QED
    BY <1>2, <2>2, <2>3, <2>4 DEF QueueIInv, QueueSafety
<1>8. QED
  BY <1>5, <1>6, <1>7

LEMMA QueueNextPreserves == QueueIInv /\ [QueueNext]_queueVars => QueueIInv'
<1> SUFFICES ASSUME QueueIInv, [QueueNext]_queueVars PROVE QueueIInv'
  OBVIOUS
<1>1. CASE UNCHANGED queueVars
  BY <1>1 DEF queueVars, QueueIInv, QueueTypeOK, QueueSafety, TokensUnique,
              OnlyHeldRowsMatch, ConsumedStaysAbsent
<1>2. ASSUME NEW j \in Jobs, Enqueue(j) PROVE QueueIInv'
  BY <1>2, EnqueuePreserves
<1>3. ASSUME NEW w \in Workers, NEW j \in Jobs, Claim(w, j) \/ Reclaim(w, j)
      PROVE  QueueIInv'
  BY <1>3, TakePreserves DEF Claim, Reclaim
<1>4. ASSUME NEW w \in Workers, Ack(w) \/ Retry(w) \/ Forget(w) PROVE QueueIInv'
  BY <1>4, SettlePreserves
<1>5. QED
  BY <1>1, <1>2, <1>3, <1>4 DEF QueueNext

\* The variables of the queue keep their types.
THEOREM QueueTypeCorrect == QueueSpec => []QueueTypeOK
<1>1. QueueIInv => QueueTypeOK
  BY DEF QueueIInv
<1>2. QED
  BY <1>1, QueueInitInv, QueueNextPreserves, PTL DEF QueueSpec

\* No two workers ever hold the same claim, a released row matches nobody's
\* message, and a row deleted by an ack never returns.
THEOREM QueueFencing ==
  QueueSpec => [](TokensUnique /\ OnlyHeldRowsMatch /\ ConsumedStaysAbsent)
<1>1. QueueIInv => TokensUnique /\ OnlyHeldRowsMatch /\ ConsumedStaysAbsent
  BY DEF QueueIInv, QueueSafety
<1>2. QED
  BY <1>1, QueueInitInv, QueueNextPreserves, PTL DEF QueueSpec

-----------------------------------------------------------------------------
\* The worker.

Working == {"get_job", "get_source", "mark", "process", "settle"}

\* run_once's locals at each label: the message it holds is its task until
\* it settles, and gone while it saves the verdict.
Locals ==
  \A w \in Workers :
    /\ pc[w] = "idle" => task[w] = NoMessage /\ msg[w] = NoMessage
    /\ pc[w] \in Working => task[w] \in Message /\ msg[w] = task[w]
    /\ pc[w] = "save" => task[w] \in Message /\ msg[w] = NoMessage

\* The queue and the workers know a job only after its upload called enqueue.
Enqueued(j) == upload[j] \in {"enqueue_failed", "accepted", "rejected", "crashed"}
KnownJobs ==
  /\ \A j \in Jobs : row[j].phase # "absent" \/ j \in consumed => Enqueued(j)
  /\ \A w \in Workers : pc[w] # "idle" => Enqueued(task[w].job)
  /\ \A j \in Jobs : row[j].phase # "absent" \/ j \in consumed => jobs[j] # NoJob
  /\ \A w \in Workers : pc[w] # "idle" => jobs[task[w].job] # NoJob
  /\ \A j \in Jobs : upload[j] \in {"saved", "enqueue_failed"} => jobs[j] # NoJob

\* A copy of the job that shows a final status was read after its row had gone.
SeenCopies ==
  \A w \in Workers :
    /\ pc[w] \notin {"idle", "get_job"} =>
         seen[w] # NoJob /\ (Terminal(seen[w]) => task[w].job \in consumed)
    /\ pc[w] = "process" => seen[w] = Processing

\* Each verdict has its reason.
Reasoned(w) ==
  \/ seen[w] = Processing /\ verdict[w] = Queued
  \/ seen[w] = Processing /\ verdict[w] = Completed /\ task[w] \in succeeded
  \/ /\ seen[w] = Processing /\ verdict[w] = Failed("PROCESSING_FAILED")
     /\ task[w].attempt >= MaxAttempts
  \/ seen[w] = Processing /\ \E c \in TerminalCodes : verdict[w] = Failed(c)
  \/ /\ verdict[w] = Failed("SOURCE_AUDIO_MISSING") /\ task[w].job \notin audio
     /\ pc[w] = "save" => seen[w].status # "COMPLETED"
Verdicts == \A w \in Workers : pc[w] \in {"settle", "save"} => Reasoned(w)

IInv ==
  /\ TypeOK /\ QueueSafety
  /\ Locals /\ KnownJobs /\ SeenCopies /\ Verdicts
  /\ OneFinalVerdict /\ FinalStatusHonest /\ StrandedOnlyByTaint

(***************************************************************************)
(* Facts about job values, so that the proofs below need not unfold them.  *)
(***************************************************************************)

LEMMA JobFacts ==
  /\ {Uploaded, Queued, Processing, Completed} \subseteq Job
  /\ \A c \in JobFailureCode : Failed(c) \in Job
  /\ "SOURCE_AUDIO_MISSING" \in JobFailureCode /\ "PROCESSING_FAILED" \in JobFailureCode
  /\ NoJob \notin Job
  /\ ~Terminal(Uploaded) /\ ~Terminal(Queued) /\ ~Terminal(Processing) /\ ~Terminal(NoJob)
  /\ Terminal(Completed) /\ \A c : Terminal(Failed(c)) /\ Failed(c) # Completed
  /\ \A c, d : Failed(c) = Failed(d) => c = d
  /\ Queued.status = "QUEUED" /\ Processing.status = "PROCESSING"
  /\ \A job : job.status = "COMPLETED" => Terminal(job)
BY DEF Uploaded, Queued, Processing, Completed, Failed, NoJob, WithStatus, NoFailure,
       Job, JobStatus, JobFailureCode, Terminal

\* Uploads and workers touch the queue through its operations only.
LEMMA QueueActs == IInv /\ [Next]_vars => [QueueNext]_queueVars
<1> SUFFICES ASSUME IInv, [Next]_vars PROVE [QueueNext]_queueVars
  OBVIOUS
<1>1. CASE UNCHANGED vars
  BY <1>1 DEF vars
<1>2. ASSUME NEW j \in Jobs, UploadStep(j) PROVE [QueueNext]_queueVars
  BY <1>2 DEF UploadStep, StoreOriginal, SaveQueued, EnqueueJob, SaveUploaded, QueueNext
<1>3. ASSUME NEW w \in Workers, WorkerStep(w) PROVE [QueueNext]_queueVars
  BY <1>3 DEF WorkerStep, QueueNext, ClaimRow, ClaimAbandonedRow, GetJob, GetSource,
       MarkProcessing, MarkRaises, ProcessSucceeds, ProcessFailsForGood, ProcessFails,
       Decide, AckMessage, RetryMessage, SaveVerdict
<1>4. CASE FaultStep
  BY <1>4 DEF FaultStep, QueueNext, EnqueueFails, UploadAborts, LoseOriginal, Abort,
       ClaimExpiredRow
<1>5. QED
  BY <1>1, <1>2, <1>3, <1>4 DEF Next

LEMMA TypeStep == IInv /\ QueueTypeOK' /\ Next => TypeOK'
<1> SUFFICES ASSUME IInv, QueueTypeOK', Next PROVE TypeOK'
  OBVIOUS
<1> USE JobFacts, WorkerAssumption DEF IInv, TypeOK, Label, Fault, UploadState,
        queueVars, jobVars, workVars, historyVars
<1>0. \A w \in Workers : pc[w] # "idle" =>
            task[w] \in Message /\ task[w].job \in Jobs /\ task[w].attempt \in 0..MaxClaims
  BY QueueAssumption DEF Locals, Working, Message
<1>1. ASSUME NEW j \in Jobs, StoreOriginal(j) PROVE TypeOK'
  BY <1>0, <1>1 DEF StoreOriginal, Upload
<1>2. ASSUME NEW j \in Jobs, SaveQueued(j) PROVE TypeOK'
  BY <1>0, <1>2 DEF SaveQueued, Upload
<1>3. ASSUME NEW j \in Jobs, EnqueueJob(j) PROVE TypeOK'
  BY <1>0, <1>3 DEF EnqueueJob, Upload, Enqueue
<1>4. ASSUME NEW j \in Jobs, EnqueueFails(j) PROVE TypeOK'
  BY <1>0, <1>4 DEF EnqueueFails, Upload, Suffer
<1>5. ASSUME NEW j \in Jobs, SaveUploaded(j) PROVE TypeOK'
  BY <1>0, <1>5 DEF SaveUploaded, Upload
<1>6. ASSUME NEW j \in Jobs, UploadAborts(j) PROVE TypeOK'
  BY <1>0, <1>6 DEF UploadAborts, Suffer
<1>7. ASSUME NEW j \in Jobs, LoseOriginal(j) PROVE TypeOK'
  BY <1>0, <1>7 DEF LoseOriginal, Suffer
<1>8. ASSUME NEW w \in Workers, NEW j \in Jobs, ClaimRow(w, j) PROVE TypeOK'
  BY <1>0, <1>8 DEF ClaimRow, Claim, Take, Claimed, Goto, QueueTypeOK
<1>9. ASSUME NEW w \in Workers, NEW j \in Jobs, ClaimAbandonedRow(w, j) PROVE TypeOK'
  BY <1>0, <1>9 DEF ClaimAbandonedRow, Reclaim, Take, Claimed, Goto, QueueTypeOK
<1>10. ASSUME NEW w \in Workers, NEW j \in Jobs, ClaimExpiredRow(w, j) PROVE TypeOK'
  BY <1>0, <1>10 DEF ClaimExpiredRow, Reclaim, Take, Claimed, Goto, Suffer, QueueTypeOK
<1>11. ASSUME NEW w \in Workers, GetJob(w) PROVE TypeOK'
  BY <1>0, <1>11 DEF GetJob
<1>12. ASSUME NEW w \in Workers, GetSource(w) PROVE TypeOK'
  BY <1>0, <1>12 DEF GetSource
<1>13. ASSUME NEW w \in Workers, MarkProcessing(w) PROVE TypeOK'
  BY <1>0, <1>13 DEF MarkProcessing, Goto, MayMark, Matches
<1>14. ASSUME NEW w \in Workers, MarkRaises(w) PROVE TypeOK'
  BY <1>0, <1>14 DEF MarkRaises, Forget, Leave
<1>15. ASSUME NEW w \in Workers, ProcessSucceeds(w) PROVE TypeOK'
  BY <1>0, <1>15 DEF ProcessSucceeds, Decide, Goto
<1>16. ASSUME NEW w \in Workers, ProcessFailsForGood(w) PROVE TypeOK'
  BY <1>0, <1>16 DEF ProcessFailsForGood, Decide, Goto
<1>17. ASSUME NEW w \in Workers, ProcessFails(w) PROVE TypeOK'
  BY <1>0, <1>17 DEF ProcessFails, Decide, Goto
<1>18. ASSUME NEW w \in Workers, AckMessage(w) PROVE TypeOK'
  <2>1. UNCHANGED <<jobs, audio, upload, faults, succeeded, tainted>>
    BY <1>18 DEF AckMessage
  <2>2. winner' \in [Jobs -> 0..MaxClaims]
    BY <1>0, <1>18 DEF AckMessage
  <2>3. CASE Matches(msg[w]) /\ verdict[w] # NoJob
    BY <1>18, <2>1, <2>2, <2>3 DEF AckMessage, Goto
  <2>4. CASE ~(Matches(msg[w]) /\ verdict[w] # NoJob)
    BY <1>18, <2>1, <2>2, <2>4 DEF AckMessage, Leave
  <2>5. QED BY <2>3, <2>4
<1>19. ASSUME NEW w \in Workers, RetryMessage(w) PROVE TypeOK'
  <2>1. UNCHANGED <<jobs, audio, upload, faults, succeeded, winner, tainted>>
    BY <1>19 DEF RetryMessage
  <2>2. CASE Matches(msg[w])
    BY <1>19, <2>1, <2>2 DEF RetryMessage, Goto
  <2>3. CASE ~Matches(msg[w])
    BY <1>19, <2>1, <2>3 DEF RetryMessage, Leave
  <2>4. QED BY <2>2, <2>3
<1>20. ASSUME NEW w \in Workers, SaveVerdict(w) PROVE TypeOK'
  BY <1>0, <1>20 DEF SaveVerdict, Leave, MayMark, RowReleasedBy
<1>21. ASSUME NEW w \in Workers, Abort(w) PROVE TypeOK'
  BY <1>0, <1>21 DEF Abort, Suffer, Leave
<1>22. QED
  BY <1>1, <1>2, <1>3, <1>4, <1>5, <1>6, <1>7, <1>8, <1>9, <1>10, <1>11, <1>12,
       <1>13, <1>14, <1>15, <1>16, <1>17, <1>18, <1>19, <1>20, <1>21
  DEF Next, UploadStep, WorkerStep, FaultStep

LEMMA StoreOriginalPreserves ==
  ASSUME IInv, TypeOK', QueueSafety', NEW j \in Jobs, StoreOriginal(j)
  PROVE  IInv'
<1> USE JobFacts, WorkerAssumption, QueueAssumption
    DEF IInv, TypeOK, QueueTypeOK, Message, StoreOriginal, Upload,
        queueVars, jobVars, workVars, historyVars
<1>1. Locals'
  BY DEF Locals
<1>2. KnownJobs'
  BY DEF KnownJobs, Enqueued
<1>3. SeenCopies'
  BY DEF SeenCopies
<1>4. Verdicts'
  BY DEF Verdicts, Reasoned, KnownJobs, Enqueued
<1>5. OneFinalVerdict'
  BY DEF OneFinalVerdict
<1>6. FinalStatusHonest'
  BY DEF FinalStatusHonest, Reasoned, KnownJobs, Enqueued
<1>7. StrandedOnlyByTaint'
  BY DEF StrandedOnlyByTaint, Stranded
<1>8. QED
  BY <1>1, <1>2, <1>3, <1>4, <1>5, <1>6, <1>7

LEMMA SaveQueuedPreserves ==
  ASSUME IInv, TypeOK', QueueSafety', NEW j \in Jobs, SaveQueued(j)
  PROVE  IInv'
<1> USE JobFacts, WorkerAssumption, QueueAssumption
    DEF IInv, TypeOK, QueueTypeOK, Message, SaveQueued, Upload,
        queueVars, jobVars, workVars, historyVars
<1>1. Locals'
  BY DEF Locals
<1>2. KnownJobs'
  BY DEF KnownJobs, Enqueued
<1>3. SeenCopies'
  BY DEF SeenCopies
<1>4. Verdicts'
  BY DEF Verdicts, Reasoned
<1>5. OneFinalVerdict'
  BY DEF OneFinalVerdict
<1>6. FinalStatusHonest'
  BY DEF FinalStatusHonest
<1>7. StrandedOnlyByTaint'
  BY DEF StrandedOnlyByTaint, Stranded
<1>8. QED
  BY <1>1, <1>2, <1>3, <1>4, <1>5, <1>6, <1>7

LEMMA EnqueueJobPreserves ==
  ASSUME IInv, TypeOK', QueueSafety', NEW j \in Jobs, EnqueueJob(j)
  PROVE  IInv'
<1> USE JobFacts, WorkerAssumption, QueueAssumption
    DEF IInv, TypeOK, QueueTypeOK, Message, EnqueueJob, Upload, Enqueue,
        queueVars, jobVars, workVars, historyVars
<1>1. Locals'
  BY DEF Locals
<1>2. KnownJobs'
  BY DEF KnownJobs, Enqueued
<1>3. SeenCopies'
  BY DEF SeenCopies
<1>4. Verdicts'
  BY DEF Verdicts, Reasoned
<1>5. OneFinalVerdict'
  BY DEF OneFinalVerdict
<1>6. FinalStatusHonest'
  BY DEF FinalStatusHonest
<1>7. StrandedOnlyByTaint'
  BY DEF StrandedOnlyByTaint, Stranded
<1>8. QED
  BY <1>1, <1>2, <1>3, <1>4, <1>5, <1>6, <1>7

LEMMA EnqueueFailsPreserves ==
  ASSUME IInv, TypeOK', QueueSafety', NEW j \in Jobs, EnqueueFails(j)
  PROVE  IInv'
<1> USE JobFacts, WorkerAssumption, QueueAssumption
    DEF IInv, TypeOK, QueueTypeOK, Message, EnqueueFails, Upload, Suffer,
        queueVars, jobVars, workVars, historyVars
<1>1. /\ \A k \in Jobs \ {j} : row'[k] = row[k]
      /\ msg' = msg /\ consumed' = consumed
  BY DEF Enqueue
<1>2. Locals'
  BY <1>1 DEF Locals
<1>3. KnownJobs'
  BY <1>1 DEF KnownJobs, Enqueued
<1>4. SeenCopies'
  BY <1>1 DEF SeenCopies
<1>5. Verdicts'
  BY <1>1 DEF Verdicts, Reasoned
<1>6. OneFinalVerdict'
  BY <1>1 DEF OneFinalVerdict
<1>7. FinalStatusHonest'
  BY <1>1 DEF FinalStatusHonest
<1>8. StrandedOnlyByTaint'
  BY <1>1 DEF StrandedOnlyByTaint, Stranded
<1>9. QED
  BY <1>2, <1>3, <1>4, <1>5, <1>6, <1>7, <1>8

LEMMA SaveUploadedPreserves ==
  ASSUME IInv, TypeOK', QueueSafety', NEW j \in Jobs, SaveUploaded(j)
  PROVE  IInv'
<1> USE JobFacts, WorkerAssumption, QueueAssumption
    DEF IInv, TypeOK, QueueTypeOK, Message, SaveUploaded, Upload,
        queueVars, jobVars, workVars, historyVars
<1>1. Locals'
  BY DEF Locals
<1>2. KnownJobs'
  BY DEF KnownJobs, Enqueued
<1>3. SeenCopies'
  BY DEF SeenCopies
<1>4. Verdicts'
  BY DEF Verdicts, Reasoned
<1>5. OneFinalVerdict'
  BY DEF OneFinalVerdict
<1>6. FinalStatusHonest'
  BY DEF FinalStatusHonest
<1>7. StrandedOnlyByTaint'
  BY DEF StrandedOnlyByTaint, Stranded
<1>8. QED
  BY <1>1, <1>2, <1>3, <1>4, <1>5, <1>6, <1>7

LEMMA UploadAbortsPreserves ==
  ASSUME IInv, TypeOK', QueueSafety', NEW j \in Jobs, UploadAborts(j)
  PROVE  IInv'
<1> USE JobFacts, WorkerAssumption, QueueAssumption
    DEF IInv, TypeOK, QueueTypeOK, Message, UploadAborts, Suffer,
        queueVars, jobVars, workVars, historyVars
<1>1. Locals'
  BY DEF Locals
<1>2. KnownJobs'
  BY DEF KnownJobs, Enqueued
<1>3. SeenCopies'
  BY DEF SeenCopies
<1>4. Verdicts'
  BY DEF Verdicts, Reasoned
<1>5. OneFinalVerdict'
  BY DEF OneFinalVerdict
<1>6. FinalStatusHonest'
  BY DEF FinalStatusHonest
<1>7. StrandedOnlyByTaint'
  BY DEF StrandedOnlyByTaint, Stranded
<1>8. QED
  BY <1>1, <1>2, <1>3, <1>4, <1>5, <1>6, <1>7

LEMMA LoseOriginalPreserves ==
  ASSUME IInv, TypeOK', QueueSafety', NEW j \in Jobs, LoseOriginal(j)
  PROVE  IInv'
<1> USE JobFacts, WorkerAssumption, QueueAssumption
    DEF IInv, TypeOK, QueueTypeOK, Message, LoseOriginal, Suffer,
        queueVars, jobVars, workVars, historyVars
<1>1. Locals'
  BY DEF Locals
<1>2. KnownJobs'
  BY DEF KnownJobs, Enqueued
<1>3. SeenCopies'
  BY DEF SeenCopies
<1>4. Verdicts'
  BY DEF Verdicts, Reasoned
<1>5. OneFinalVerdict'
  BY DEF OneFinalVerdict
<1>6. FinalStatusHonest'
  BY DEF FinalStatusHonest
<1>7. StrandedOnlyByTaint'
  BY DEF StrandedOnlyByTaint, Stranded
<1>8. QED
  BY <1>1, <1>2, <1>3, <1>4, <1>5, <1>6, <1>7

LEMMA ClaimRowPreserves ==
  ASSUME IInv, TypeOK', QueueSafety', NEW w \in Workers, NEW j \in Jobs, ClaimRow(w, j)
  PROVE  IInv'
<1> USE JobFacts, WorkerAssumption, QueueAssumption
    DEF IInv, TypeOK, QueueTypeOK, Message, ClaimRow, Claim, Take, Claimed, Goto,
        queueVars, jobVars, workVars, historyVars
<1>1. Locals'
  BY DEF Locals
<1>2. KnownJobs'
  BY DEF KnownJobs, Enqueued
<1>3. SeenCopies'
  BY DEF SeenCopies
<1>4. Verdicts'
  BY DEF Verdicts, Reasoned
<1>5. OneFinalVerdict'
  BY DEF OneFinalVerdict
<1>6. FinalStatusHonest'
  BY DEF FinalStatusHonest
<1>7. StrandedOnlyByTaint'
  BY DEF StrandedOnlyByTaint, Stranded
<1>8. QED
  BY <1>1, <1>2, <1>3, <1>4, <1>5, <1>6, <1>7

LEMMA ClaimAbandonedRowPreserves ==
  ASSUME IInv, TypeOK', QueueSafety', NEW w \in Workers, NEW j \in Jobs,
       ClaimAbandonedRow(w, j)
  PROVE  IInv'
<1> USE JobFacts, WorkerAssumption, QueueAssumption
    DEF IInv, TypeOK, QueueTypeOK, Message, ClaimAbandonedRow, Reclaim, Take,
         Claimed, Goto,
        queueVars, jobVars, workVars, historyVars
<1>1. Locals'
  BY DEF Locals
<1>2. KnownJobs'
  BY DEF KnownJobs, Enqueued
<1>3. SeenCopies'
  BY DEF SeenCopies
<1>4. Verdicts'
  BY DEF Verdicts, Reasoned
<1>5. OneFinalVerdict'
  BY DEF OneFinalVerdict
<1>6. FinalStatusHonest'
  BY DEF FinalStatusHonest
<1>7. StrandedOnlyByTaint'
  BY DEF StrandedOnlyByTaint, Stranded
<1>8. QED
  BY <1>1, <1>2, <1>3, <1>4, <1>5, <1>6, <1>7

LEMMA ClaimExpiredRowPreserves ==
  ASSUME IInv, TypeOK', QueueSafety', NEW w \in Workers, NEW j \in Jobs,
       ClaimExpiredRow(w, j)
  PROVE  IInv'
<1> USE JobFacts, WorkerAssumption, QueueAssumption
    DEF IInv, TypeOK, QueueTypeOK, Message, ClaimExpiredRow, Reclaim, Take, Claimed,
         Goto, Suffer,
        queueVars, jobVars, workVars, historyVars
<1>1. Locals'
  BY DEF Locals
<1>2. KnownJobs'
  BY DEF KnownJobs, Enqueued
<1>3. SeenCopies'
  BY DEF SeenCopies
<1>4. Verdicts'
  BY DEF Verdicts, Reasoned
<1>5. OneFinalVerdict'
  BY DEF OneFinalVerdict
<1>6. FinalStatusHonest'
  BY DEF FinalStatusHonest
<1>7. StrandedOnlyByTaint'
  BY DEF StrandedOnlyByTaint, Stranded
<1>8. QED
  BY <1>1, <1>2, <1>3, <1>4, <1>5, <1>6, <1>7

LEMMA GetJobPreserves ==
  ASSUME IInv, TypeOK', QueueSafety', NEW w \in Workers, GetJob(w)
  PROVE  IInv'
<1> USE JobFacts, WorkerAssumption, QueueAssumption
    DEF IInv, TypeOK, QueueTypeOK, Message, GetJob,
        queueVars, jobVars, workVars, historyVars
<1>1. task[w] \in Message /\ jobs[task[w].job] # NoJob
  BY DEF Locals, Working, KnownJobs
<1>2. Locals'
  BY <1>1 DEF Locals, Working
<1>3. KnownJobs'
  BY <1>1 DEF KnownJobs, Enqueued
<1>4. SeenCopies'
  BY <1>1 DEF SeenCopies, FinalStatusHonest
<1>5. Verdicts'
  BY <1>1 DEF Verdicts, Reasoned
<1>6. OneFinalVerdict'
  BY <1>1 DEF OneFinalVerdict
<1>7. FinalStatusHonest'
  BY <1>1 DEF FinalStatusHonest
<1>8. StrandedOnlyByTaint'
  BY <1>1 DEF StrandedOnlyByTaint, Stranded
<1>9. QED
  BY <1>2, <1>3, <1>4, <1>5, <1>6, <1>7, <1>8

LEMMA GetSourcePreserves ==
  ASSUME IInv, TypeOK', QueueSafety', NEW w \in Workers, GetSource(w)
  PROVE  IInv'
<1> USE JobFacts, WorkerAssumption, QueueAssumption
    DEF IInv, TypeOK, QueueTypeOK, Message, GetSource,
        queueVars, jobVars, workVars, historyVars
<1>1. Locals'
  BY DEF Locals, Working
<1>2. KnownJobs'
  BY DEF KnownJobs, Enqueued
<1>3. SeenCopies'
  BY DEF SeenCopies
<1>4. Verdicts'
  BY DEF Verdicts, Reasoned
<1>5. OneFinalVerdict'
  BY DEF OneFinalVerdict
<1>6. FinalStatusHonest'
  BY DEF FinalStatusHonest
<1>7. StrandedOnlyByTaint'
  BY DEF StrandedOnlyByTaint, Stranded
<1>8. QED
  BY <1>1, <1>2, <1>3, <1>4, <1>5, <1>6, <1>7

LEMMA MarkProcessingPreserves ==
  ASSUME IInv, TypeOK', QueueSafety', NEW w \in Workers, MarkProcessing(w)
  PROVE  IInv'
<1> USE JobFacts, WorkerAssumption, QueueAssumption
    DEF IInv, TypeOK, QueueTypeOK, Message, MarkProcessing, Goto, MayMark, Matches,
        queueVars, jobVars, workVars, historyVars
<1>1. Locals'
  BY DEF Locals, Working
<1>2. KnownJobs'
  BY DEF KnownJobs, Enqueued
<1>3. SeenCopies'
  BY DEF SeenCopies
<1>4. Verdicts'
  BY DEF Verdicts, Reasoned
<1>5. OneFinalVerdict'
  BY DEF OneFinalVerdict
<1>6. FinalStatusHonest'
  BY DEF FinalStatusHonest
<1>7. StrandedOnlyByTaint'
  BY DEF StrandedOnlyByTaint, Stranded, Locals, Working
<1>8. QED
  BY <1>1, <1>2, <1>3, <1>4, <1>5, <1>6, <1>7

LEMMA MarkRaisesPreserves ==
  ASSUME IInv, TypeOK', QueueSafety', NEW w \in Workers, MarkRaises(w)
  PROVE  IInv'
<1> USE JobFacts, WorkerAssumption, QueueAssumption
    DEF IInv, TypeOK, QueueTypeOK, Message, MarkRaises, Forget, Leave,
        queueVars, jobVars, workVars, historyVars
<1>1. Locals'
  BY DEF Locals, Working
<1>2. KnownJobs'
  BY DEF KnownJobs, Enqueued
<1>3. SeenCopies'
  BY DEF SeenCopies
<1>4. Verdicts'
  BY DEF Verdicts, Reasoned
<1>5. OneFinalVerdict'
  BY DEF OneFinalVerdict
<1>6. FinalStatusHonest'
  BY DEF FinalStatusHonest
<1>7. StrandedOnlyByTaint'
  BY DEF StrandedOnlyByTaint, Stranded
<1>8. QED
  BY <1>1, <1>2, <1>3, <1>4, <1>5, <1>6, <1>7

LEMMA ProcessSucceedsPreserves ==
  ASSUME IInv, TypeOK', QueueSafety', NEW w \in Workers, ProcessSucceeds(w)
  PROVE  IInv'
<1> USE JobFacts, WorkerAssumption, QueueAssumption
    DEF IInv, TypeOK, QueueTypeOK, Message, ProcessSucceeds, Decide, Goto,
        queueVars, jobVars, workVars, historyVars
<1>1. Locals'
  BY DEF Locals, Working
<1>2. KnownJobs'
  BY DEF KnownJobs, Enqueued
<1>3. SeenCopies'
  BY DEF SeenCopies
<1>4. Verdicts'
  BY DEF Verdicts, Reasoned, SeenCopies
<1>5. OneFinalVerdict'
  BY DEF OneFinalVerdict
<1>6. FinalStatusHonest'
  BY DEF FinalStatusHonest
<1>7. StrandedOnlyByTaint'
  BY DEF StrandedOnlyByTaint, Stranded
<1>8. QED
  BY <1>1, <1>2, <1>3, <1>4, <1>5, <1>6, <1>7

LEMMA ProcessFailsForGoodPreserves ==
  ASSUME IInv, TypeOK', QueueSafety', NEW w \in Workers, ProcessFailsForGood(w)
  PROVE  IInv'
<1> USE JobFacts, WorkerAssumption, QueueAssumption
    DEF IInv, TypeOK, QueueTypeOK, Message, ProcessFailsForGood, Decide, Goto,
        queueVars, jobVars, workVars, historyVars
<1>1. Locals'
  BY DEF Locals, Working
<1>2. KnownJobs'
  BY DEF KnownJobs, Enqueued
<1>3. SeenCopies'
  BY DEF SeenCopies
<1>4. Verdicts'
  BY DEF Verdicts, Reasoned, SeenCopies
<1>5. OneFinalVerdict'
  BY DEF OneFinalVerdict
<1>6. FinalStatusHonest'
  BY DEF FinalStatusHonest
<1>7. StrandedOnlyByTaint'
  BY DEF StrandedOnlyByTaint, Stranded
<1>8. QED
  BY <1>1, <1>2, <1>3, <1>4, <1>5, <1>6, <1>7

LEMMA ProcessFailsPreserves ==
  ASSUME IInv, TypeOK', QueueSafety', NEW w \in Workers, ProcessFails(w)
  PROVE  IInv'
<1> USE JobFacts, WorkerAssumption, QueueAssumption
    DEF IInv, TypeOK, QueueTypeOK, Message, ProcessFails, Decide, Goto,
        queueVars, jobVars, workVars, historyVars
<1>1. Locals'
  BY DEF Locals, Working
<1>2. KnownJobs'
  BY DEF KnownJobs, Enqueued
<1>3. SeenCopies'
  BY DEF SeenCopies
<1>4. Verdicts'
  BY DEF Verdicts, Reasoned, Locals, Working, SeenCopies
<1>5. OneFinalVerdict'
  BY DEF OneFinalVerdict
<1>6. FinalStatusHonest'
  BY DEF FinalStatusHonest
<1>7. StrandedOnlyByTaint'
  BY DEF StrandedOnlyByTaint, Stranded
<1>8. QED
  BY <1>1, <1>2, <1>3, <1>4, <1>5, <1>6, <1>7

LEMMA AckMessagePreserves ==
  ASSUME IInv, TypeOK', QueueSafety', NEW w \in Workers, AckMessage(w)
  PROVE  IInv'
<1> DEFINE j == task[w].job
<1> USE JobFacts DEF IInv, TypeOK, QueueTypeOK, Message, queueVars, jobVars,
     workVars, historyVars
<1>1. /\ pc[w] = "settle" /\ task[w] \in Message /\ msg[w] = task[w] /\ Reasoned(w)
      /\ verdict[w] # NoJob /\ verdict[w] # Queued
      /\ UNCHANGED <<jobs, audio, upload, faults, succeeded, tainted>>
      /\ msg' = [msg EXCEPT ![w] = NoMessage]
  BY DEF AckMessage, Ack, Locals, Working, Verdicts, Reasoned
\* A stale claim: nothing changes but the worker's locals.
<1>2. CASE ~Matches(msg[w])
  <2>1. UNCHANGED <<row, consumed, winner>> /\ Leave(w)
    BY <1>2 DEF AckMessage, Ack
  <2>2. Locals' /\ KnownJobs' /\ SeenCopies'
    BY <1>1, <2>1 DEF Leave, Locals, Working, KnownJobs, Enqueued, SeenCopies
  <2>3. Verdicts'
    BY <1>1, <2>1 DEF Leave, Verdicts, Reasoned
  <2>4. OneFinalVerdict' /\ FinalStatusHonest'
    BY <1>1, <2>1 DEF Leave, OneFinalVerdict, FinalStatusHonest
  <2>5. StrandedOnlyByTaint'
    BY <1>1, <2>1 DEF Leave, StrandedOnlyByTaint, Stranded
  <2>6. QED BY <2>2, <2>3, <2>4, <2>5
\* The current claim: the row goes, and the worker is alone in its verdict.
<1>3. CASE Matches(msg[w])
  <2>1. /\ row' = [row EXCEPT ![j] = Absent] /\ consumed' = consumed \cup {j}
        /\ winner' = [winner EXCEPT ![j] = task[w].attempt]
        /\ pc' = [pc EXCEPT ![w] = "save"] /\ UNCHANGED <<task, seen, verdict>>
    BY <1>1, <1>3 DEF AckMessage, Ack, Goto
  <2>2. row[j].phase # "absent" /\ j \notin consumed
    BY <1>1, <1>3 DEF Matches, QueueSafety, ConsumedStaysAbsent, Absent
  <2>3. Locals'
    BY <1>1, <2>1 DEF Locals, Working
  <2>4. KnownJobs'
    <3>1. Enqueued(j) /\ jobs[j] # NoJob
      BY <1>1, <2>2 DEF KnownJobs
    <3>2. \A k \in Jobs : row'[k].phase # "absent" \/ k \in consumed' =>
                           row[k].phase # "absent" \/ k \in consumed \/ k = j
      BY <1>1, <2>1
    <3>3. QED
      BY <1>1, <2>1, <3>1, <3>2 DEF KnownJobs, Enqueued
  <2>5. SeenCopies'
    BY <1>1, <2>1 DEF SeenCopies
  <2>6. Verdicts'
    BY <1>1, <2>1, <2>2 DEF Verdicts, Reasoned, SeenCopies
  <2>7. OneFinalVerdict'
    <3> SUFFICES ASSUME NEW u \in Workers, pc'[u] = "save", Terminal(verdict'[u])
                 PROVE  /\ task'[u].job \in consumed'
                        /\ winner'[task'[u].job] = task'[u].attempt
                        /\ \A v \in Workers \ {u} : pc'[v] = "save" /\ task'[v].job = task'[u].job
                                                 => verdict'[v] = Queued
      BY DEF OneFinalVerdict
    \* Anybody else about to save a verdict of j did not remove its row.
    <3>1. ASSUME NEW v \in Workers \ {w}, pc[v] = "save",
         task[v].job = j PROVE verdict[v] = Queued
      <4>1. ~Terminal(verdict[v])
        BY <2>2, <3>1 DEF OneFinalVerdict
      <4>2. QED
        BY <3>1, <4>1 DEF Verdicts, Reasoned
    <3>2. CASE u = w
      BY <1>1, <2>1, <3>1, <3>2
    <3>3. CASE u # w
      <4>1. pc[u] = "save" /\ Terminal(verdict[u]) /\ task[u].job # j
        BY <2>1, <3>1, <3>3
      <4>2. task[u] \in Message
        BY <4>1 DEF Locals
      <4>3. QED
        BY <1>1, <2>1, <3>3, <4>1, <4>2 DEF OneFinalVerdict
    <3>4. QED BY <3>2, <3>3
  <2>8. FinalStatusHonest'
    <3>1. \A k \in Jobs : Terminal(jobs[k]) => k # j /\ winner'[k] = winner[k]
      BY <1>1, <2>1, <2>2 DEF FinalStatusHonest
    <3>2. QED
      BY <1>1, <2>1, <3>1 DEF FinalStatusHonest
  <2>9. StrandedOnlyByTaint'
    <3> SUFFICES ASSUME NEW k \in Jobs, Stranded(k)' PROVE k \in tainted'
      BY DEF StrandedOnlyByTaint
    <3>1. Terminal(verdict[w])
      BY <1>1 DEF Reasoned
    <3>2. k # j
      BY <1>1, <2>1, <3>1 DEF Stranded
    <3>3. Stranded(k)
      BY <1>1, <2>1, <3>2 DEF Stranded
    <3>4. QED
      BY <1>1, <3>3 DEF StrandedOnlyByTaint
  <2>10. QED BY <2>3, <2>4, <2>5, <2>6, <2>7, <2>8, <2>9
<1>4. QED BY <1>2, <1>3

LEMMA RetryMessagePreserves ==
  ASSUME IInv, TypeOK', QueueSafety', NEW w \in Workers, RetryMessage(w)
  PROVE  IInv'
<1> USE JobFacts, WorkerAssumption, QueueAssumption
    DEF IInv, TypeOK, QueueTypeOK, Message, RetryMessage, Goto, Leave,
        queueVars, jobVars, workVars, historyVars
<1>1. /\ \A j \in Jobs : row'[j].phase = "absent" <=> row[j].phase = "absent"
      /\ msg' = [msg EXCEPT ![w] = NoMessage] /\ consumed' = consumed
  BY DEF Retry, Matches
<1>2. Locals'
  BY <1>1 DEF Locals, Working
<1>3. KnownJobs'
  BY <1>1 DEF KnownJobs, Enqueued
<1>4. SeenCopies'
  BY <1>1 DEF SeenCopies, KnownJobs
<1>5. Verdicts'
  BY <1>1 DEF Verdicts, Reasoned
<1>6. OneFinalVerdict'
  <2>1. \A u \in Workers \ {w} : pc'[u] = pc[u] /\ task'[u] = task[u] /\ verdict'[u] = verdict[u]
    OBVIOUS
  <2>2. pc'[w] = "save" => verdict'[w] = Queued
    OBVIOUS
  <2>3. consumed' = consumed /\ winner' = winner
    BY <1>1
  <2>4. QED
    <3> SUFFICES ASSUME NEW u \in Workers, pc'[u] = "save", Terminal(verdict'[u])
                 PROVE  /\ task'[u].job \in consumed'
                        /\ winner'[task'[u].job] = task'[u].attempt
                        /\ \A v \in Workers \ {u} :
                             pc'[v] = "save" /\ task'[v].job = task'[u].job
                               => verdict'[v] = Queued
      BY DEF OneFinalVerdict
    <3>1. u # w /\ pc[u] = "save" /\ Terminal(verdict[u]) /\ task'[u] = task[u]
      BY <2>1, <2>2
    <3>2. /\ task[u].job \in consumed /\ winner[task[u].job] = task[u].attempt
          /\ \A v \in Workers \ {u} : pc[v] = "save" /\ task[v].job = task[u].job
                                     => verdict[v] = Queued
      BY <3>1 DEF OneFinalVerdict
    <3>3. QED
      BY <2>1, <2>2, <2>3, <3>1, <3>2
<1>7. FinalStatusHonest'
  BY <1>1 DEF FinalStatusHonest
<1>8. StrandedOnlyByTaint'
  BY <1>1 DEF StrandedOnlyByTaint, Stranded, Locals
<1>9. QED
  BY <1>2, <1>3, <1>4, <1>5, <1>6, <1>7, <1>8

LEMMA SaveVerdictPreserves ==
  ASSUME IInv, TypeOK', QueueSafety', NEW w \in Workers, SaveVerdict(w)
  PROVE  IInv'
<1> USE JobFacts, WorkerAssumption, QueueAssumption
    DEF IInv, TypeOK, QueueTypeOK, Message, SaveVerdict, Leave, MayMark, RowReleasedBy,
        queueVars, jobVars, workVars, historyVars
<1>1. Locals'
  BY DEF Locals, Working
<1>2. KnownJobs'
  <2>1. verdict[w] # NoJob
    BY DEF Verdicts, Reasoned
  <2>2. \A k \in Jobs : jobs[k] # NoJob => jobs'[k] # NoJob
    BY <2>1
  <2>3. \A v \in Workers : pc'[v] # "idle" => pc[v] # "idle" /\ task'[v] = task[v]
                                           /\ task[v] \in Message
    BY DEF Locals, Working, Label
  <2>4. QED
    BY <2>2, <2>3 DEF KnownJobs, Enqueued
<1>3. SeenCopies'
  BY DEF SeenCopies
<1>4. Verdicts'
  BY DEF Verdicts, Reasoned
<1>5. OneFinalVerdict'
  BY DEF OneFinalVerdict
<1>6. FinalStatusHonest'
  BY DEF FinalStatusHonest, Verdicts, Reasoned, OneFinalVerdict
<1>7. StrandedOnlyByTaint'
  <2> DEFINE j == task[w].job
  <2> SUFFICES ASSUME NEW k \in Jobs, Stranded(k)' PROVE k \in tainted'
    BY DEF StrandedOnlyByTaint
  <2>1. pc[w] = "save" /\ task[w] \in Message /\ Reasoned(w)
        /\ jobs' = [jobs EXCEPT ![j] = verdict[w]]
        /\ \A v \in Workers \ {w} :
             pc'[v] = pc[v] /\ task'[v] = task[v] /\ verdict'[v] = verdict[v]
    BY DEF Locals, Verdicts
  <2>2. CASE k = j
    <3>1. ~Terminal(verdict[w])
      BY <2>1, <2>2 DEF Stranded, Terminal
    <3>2. verdict[w] = Queued
      BY <2>1, <3>1 DEF Reasoned
    <3>3. row[j].phase = "absent"
      BY <2>2 DEF Stranded
    <3>4. QED
      BY <2>2, <3>2, <3>3
  <2>3. CASE k # j
    <3>1. Stranded(k)
      BY <2>1, <2>3 DEF Stranded
    <3>2. QED
      BY <2>1, <3>1 DEF StrandedOnlyByTaint
  <2>4. QED BY <2>2, <2>3
<1>8. QED
  BY <1>1, <1>2, <1>3, <1>4, <1>5, <1>6, <1>7

LEMMA AbortPreserves ==
  ASSUME IInv, TypeOK', QueueSafety', NEW w \in Workers, Abort(w)
  PROVE  IInv'
<1> USE JobFacts, WorkerAssumption, QueueAssumption
    DEF IInv, TypeOK, QueueTypeOK, Message, Abort, Suffer, Leave,
        queueVars, jobVars, workVars, historyVars
<1>1. row' = row /\ consumed' = consumed /\ msg' = [msg EXCEPT ![w] = NoMessage]
  BY DEF Forget
<1>2. Locals'
  BY <1>1 DEF Locals, Working
<1>3. KnownJobs'
  BY <1>1 DEF KnownJobs, Enqueued
<1>4. SeenCopies'
  BY <1>1 DEF SeenCopies
<1>5. Verdicts'
  BY <1>1 DEF Verdicts, Reasoned
<1>6. OneFinalVerdict'
  BY <1>1 DEF OneFinalVerdict
<1>7. FinalStatusHonest'
  BY <1>1 DEF FinalStatusHonest
<1>8. StrandedOnlyByTaint'
  BY <1>1 DEF StrandedOnlyByTaint, Stranded
<1>9. QED
  BY <1>2, <1>3, <1>4, <1>5, <1>6, <1>7, <1>8

LEMMA InitInv == Init => IInv
<1> SUFFICES ASSUME Init PROVE IInv
  OBVIOUS
<1>1. QueueTypeOK /\ QueueSafety
  BY QueueInitInv DEF Init, QueueIInv
<1>2. TypeOK
  BY <1>1, QueueAssumption DEF Init, TypeOK, UploadState, Label
<1>3. Locals /\ KnownJobs /\ SeenCopies /\ Verdicts
  BY <1>2 DEF Init, QueueInit, Locals, Working, KnownJobs, SeenCopies, Verdicts, Absent
<1>4. OneFinalVerdict /\ FinalStatusHonest /\ StrandedOnlyByTaint
  BY JobFacts, <1>2 DEF Init, OneFinalVerdict, FinalStatusHonest, StrandedOnlyByTaint, Stranded
<1>5. QED
  BY <1>1, <1>2, <1>3, <1>4 DEF IInv

LEMMA NextInv == IInv /\ [Next]_vars => IInv'
<1> SUFFICES ASSUME IInv, [Next]_vars PROVE IInv'
  OBVIOUS
<1>1. QueueTypeOK' /\ QueueSafety'
  BY QueueActs, QueueNextPreserves DEF IInv, TypeOK, QueueIInv
<1>2. CASE UNCHANGED vars
  BY <1>1, <1>2
     DEF vars, jobVars, workVars, historyVars, queueVars, IInv, TypeOK, Locals,
         KnownJobs, Enqueued, SeenCopies, Verdicts, Reasoned, OneFinalVerdict,
         FinalStatusHonest, StrandedOnlyByTaint, Stranded
<1>3. CASE Next
  <2>1. TypeOK'
    BY <1>1, <1>3, TypeStep
  <2>2. ASSUME NEW j \in Jobs, UploadStep(j) PROVE IInv'
    BY <1>1, <2>1, <2>2, StoreOriginalPreserves, SaveQueuedPreserves, EnqueueJobPreserves,
       SaveUploadedPreserves DEF UploadStep
  <2>3. ASSUME NEW w \in Workers, WorkerStep(w) PROVE IInv'
    BY <1>1, <2>1, <2>3, ClaimRowPreserves, ClaimAbandonedRowPreserves, GetJobPreserves,
       GetSourcePreserves, MarkProcessingPreserves, MarkRaisesPreserves,
       ProcessSucceedsPreserves, ProcessFailsForGoodPreserves, ProcessFailsPreserves,
       AckMessagePreserves, RetryMessagePreserves, SaveVerdictPreserves DEF WorkerStep
  <2>4. ASSUME FaultStep PROVE IInv'
    BY <1>1, <2>1, <2>4, EnqueueFailsPreserves, UploadAbortsPreserves, LoseOriginalPreserves,
       AbortPreserves, ClaimExpiredRowPreserves DEF FaultStep
  <2>5. QED
    BY <1>3, <2>2, <2>3, <2>4 DEF Next
<1>4. QED BY <1>2, <1>3

LEMMA Invariance == Spec => []IInv
  BY InitInv, NextInv, PTL DEF Spec

\* Every variable keeps its type, whatever fails.
THEOREM TypeCorrect == Spec => []TypeOK
<1>1. IInv => TypeOK
  BY DEF IInv
<1>2. QED
  BY <1>1, Invariance, PTL

\* At most one worker ever gives a job its final status.
THEOREM FinalVerdictUnique == Spec => []OneFinalVerdict
<1>1. IInv => OneFinalVerdict
  BY DEF IInv
<1>2. QED
  BY <1>1, Invariance, PTL

\* A final status tells why the job ended, and never precedes the removal of
\* the row.
THEOREM FinalStatusIsHonest == Spec => []FinalStatusHonest
<1>1. IInv => FinalStatusHonest
  BY DEF IInv
<1>2. QED
  BY <1>1, Invariance, PTL

\* After a successful ack or retry the transition of the stale job copy is legal.
THEOREM VerdictAlwaysLegal == Spec => []VerdictIsLegal
<1>1. IInv => VerdictIsLegal
  <2> SUFFICES ASSUME IInv, NEW w \in Workers, pc[w] = "save"
               PROVE  MayMark(seen[w], verdict[w].status)
    BY DEF VerdictIsLegal
  <2>1. Reasoned(w)
    BY DEF IInv, Verdicts
  <2>2. CASE seen[w] = Processing /\ verdict[w] \in {Queued, Completed}
    BY <2>2 DEF MayMark, Processing, Queued, Completed, WithStatus
  <2>3. CASE seen[w].status # "COMPLETED" /\ \E c : verdict[w] = Failed(c)
    BY <2>3 DEF MayMark, Failed
  <2>4. QED
    BY <2>1, <2>2, <2>3, JobFacts DEF Reasoned
<1>2. QED
  BY <1>1, Invariance, PTL

\* An accepted job is stranded only by a stop between ack and save or by a
\* save of a worker that had lost its claim.
THEOREM StrandingExplained == Spec => []StrandedOnlyByTaint
<1>1. IInv => StrandedOnlyByTaint
  BY DEF IInv
<1>2. QED
  BY <1>1, Invariance, PTL

\* A message a worker holds never runs ahead of its row, and it matches the row
\* only while the row is held: the WHERE clauses of ack and retry are enough.
THEOREM OnlyHeldRowsAreSettled == Spec => []OnlyHeldRowsMatch
<1>1. IInv => OnlyHeldRowsMatch
  BY DEF IInv, QueueSafety
<1>2. QED
  BY <1>1, Invariance, PTL

\* The row of a job whose message was consumed never comes back.
THEOREM ConsumedNeverReturns == Spec => []ConsumedStaysAbsent
<1>1. IInv => ConsumedStaysAbsent
  BY DEF IInv, QueueSafety
<1>2. QED
  BY <1>1, Invariance, PTL

\* The worker and the uploads are clients of the queue: whatever they do, and
\* whatever fails, is a behaviour of LeaseQueue.
THEOREM WorkerUsesQueue == Spec => QueueSpec
<1>1. Init => QueueInit
  BY DEF Init
<1>2. QED
  BY <1>1, QueueActs, Invariance, PTL DEF Spec, QueueSpec

=============================================================================
