-------------------------- MODULE TranscriptionJob --------------------------
(***************************************************************************)
(* The job value of domain/models.py: a status with its failure code, and  *)
(* the transitions its mark_* methods allow.  The fields no transition     *)
(* touches (file name, size, digest, saxophone type, input mode) are left  *)
(* out.                                                                    *)
(***************************************************************************)

JobStatus == {"UPLOADED", "QUEUED", "PROCESSING", "COMPLETED", "FAILED"}

JobFailureCode ==
  {"AUDIO_CONTENT_INVALID", "AUDIO_DURATION_LIMIT_EXCEEDED",
   "SOURCE_AUDIO_MISSING", "PROCESSING_FAILED"}

NoFailure == "none"

\* What __post_init__ accepts: a failure code exactly when FAILED.
Job ==
  {job \in [status: JobStatus, failure_code: JobFailureCode \cup {NoFailure}] :
     job.status = "FAILED" <=> job.failure_code # NoFailure}

\* The value of a repository that has no row for the job.
NoJob == [status |-> "none", failure_code |-> NoFailure]

\* replace(self, status=..., failure_code=None) and mark_failed.
WithStatus(s) == [status |-> s, failure_code |-> NoFailure]
Failed(code) == [status |-> "FAILED", failure_code |-> code]

Uploaded == WithStatus("UPLOADED")
Queued == WithStatus("QUEUED")
Processing == WithStatus("PROCESSING")
Completed == WithStatus("COMPLETED")

Terminal(job) == job.status \in {"COMPLETED", "FAILED"}

\* Mutation of MayMark: a job that is PROCESSING cannot be started again.
MayMarkOnce(job, target) ==
  \/ target = "QUEUED" /\ job.status \in {"UPLOADED", "PROCESSING"}
  \/ target = "PROCESSING" /\ job.status = "QUEUED"
  \/ target = "COMPLETED" /\ job.status = "PROCESSING"
  \/ target = "FAILED" /\ job.status # "COMPLETED"

\* The transitions that do not raise ValueError.
MayMark(job, target) ==
  \/ target = "QUEUED" /\ job.status \in {"UPLOADED", "PROCESSING"}
  \/ target = "PROCESSING" /\ job.status \in {"PROCESSING", "QUEUED"}
  \/ target = "COMPLETED" /\ job.status = "PROCESSING"
  \/ target = "FAILED" /\ job.status # "COMPLETED"
=============================================================================
