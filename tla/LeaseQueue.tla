----------------------------- MODULE LeaseQueue -----------------------------
(***************************************************************************)
(* What the port TranscriptionProcessingQueue (application/ports.py)       *)
(* promises the transcription worker: a durable set of rows, one per job,  *)
(* whose attempt counter is also the fencing token of the current claim.   *)
(* Time does not appear: a held row may be claimed again at any moment,    *)
(* as if its lease had just run out.  ProcessingQueue is the detailed      *)
(* specification, with clock, lease and row locks, that implements this.   *)
(***************************************************************************)
EXTENDS Naturals, FiniteSets

CONSTANTS
  Jobs,        \* job ids (fresh UUIDs: an id is enqueued by one upload only)
  Workers,     \* processes that call run_once
  MaxClaims,   \* bound on the attempt counter of a row, for model checking
  NoMessage    \* the value of a worker that holds no message

Message == [job: Jobs, attempt: 1..MaxClaims]

ASSUME QueueAssumption ==
  /\ MaxClaims \in Nat \ {0}
  /\ NoMessage \notin Message

VARIABLES
  row,         \* the table: phase of the row of each job, and its attempt_count
  msg,         \* the message each worker holds, between claim and ack / retry
  consumed     \* history: jobs whose row a successful ack has deleted

queueVars == <<row, msg, consumed>>

Phase == {"absent", "ready", "held"}
Absent == [phase |-> "absent", attempt |-> 0]

QueueTypeOK ==
  /\ row \in [Jobs -> [phase: Phase, attempt: 0..MaxClaims]]
  /\ msg \in [Workers -> Message \cup {NoMessage}]
  /\ consumed \in SUBSET Jobs

QueueInit ==
  /\ row = [j \in Jobs |-> Absent]
  /\ msg = [w \in Workers |-> NoMessage]
  /\ consumed = {}

(***************************************************************************)
(* Operations.                                                             *)
(***************************************************************************)

\* The WHERE clause of ack and of retry: job id and attempt count match.
Matches(m) ==
  /\ m # NoMessage
  /\ row[m.job].phase # "absent"
  /\ row[m.job].attempt = m.attempt

\* INSERT ... ON CONFLICT DO NOTHING.  The id of a job that was consumed is
\* never enqueued again, because each upload draws a new UUID.
Enqueue(j) ==
  /\ j \notin consumed
  /\ row' = IF row[j].phase = "absent"
            THEN [row EXCEPT ![j] = [phase |-> "ready", attempt |-> 0]]
            ELSE row
  /\ UNCHANGED <<msg, consumed>>

\* The update both kinds of claim make: the attempt counter grows and the
\* worker receives the new value as its token.
Take(w, j) ==
  /\ msg[w] = NoMessage
  /\ row[j].attempt < MaxClaims
  /\ row' = [row EXCEPT ![j] = [phase |-> "held", attempt |-> @.attempt + 1]]
  /\ msg' = [msg EXCEPT ![w] = [job |-> j, attempt |-> row[j].attempt + 1]]
  /\ UNCHANGED consumed

Claim(w, j) == row[j].phase = "ready" /\ Take(w, j)

\* The lease of the current holder has run out, whether or not it still works.
Reclaim(w, j) == row[j].phase = "held" /\ Take(w, j)

\* DELETE of the row the message matches; its result is Matches(msg[w]).  The
\* worker settles a message once, so it no longer holds it afterwards.
Ack(w) ==
  /\ msg[w] # NoMessage
  /\ msg' = [msg EXCEPT ![w] = NoMessage]
  /\ IF Matches(msg[w])
     THEN /\ row' = [row EXCEPT ![msg[w].job] = Absent]
          /\ consumed' = consumed \cup {msg[w].job}
     ELSE UNCHANGED <<row, consumed>>

\* Mutation of Retry: the released row starts counting attempts again.
RetryFromZero(w) ==
  /\ msg[w] # NoMessage
  /\ msg' = [msg EXCEPT ![w] = NoMessage]
  /\ row' = IF Matches(msg[w])
            THEN [row EXCEPT ![msg[w].job] = [phase |-> "ready", attempt |-> 0]]
            ELSE row
  /\ UNCHANGED consumed

\* Mutation of Retry: the row is written back whether or not it matches.
RetryUpserts(w) ==
  /\ msg[w] # NoMessage
  /\ msg' = [msg EXCEPT ![w] = NoMessage]
  /\ row' = [row EXCEPT ![msg[w].job] =
               [phase |-> "ready", attempt |-> msg[w].attempt]]
  /\ UNCHANGED consumed

\* Mutation of Retry: the WHERE clause lacks the attempt.
RetryUnfenced(w) ==
  /\ msg[w] # NoMessage
  /\ msg' = [msg EXCEPT ![w] = NoMessage]
  /\ row' = IF row[msg[w].job].phase = "held"
            THEN [row EXCEPT ![msg[w].job].phase = "ready"]
            ELSE row
  /\ UNCHANGED consumed

\* UPDATE ... SET claimed_at = NULL of the row the message matches.
Retry(w) ==
  /\ msg[w] # NoMessage
  /\ msg' = [msg EXCEPT ![w] = NoMessage]
  /\ row' = IF Matches(msg[w])
            THEN [row EXCEPT ![msg[w].job].phase = "ready"]
            ELSE row
  /\ UNCHANGED consumed

\* The worker dies, or run_once ends in an exception: the row stays as it is.
Forget(w) ==
  /\ msg[w] # NoMessage
  /\ msg' = [msg EXCEPT ![w] = NoMessage]
  /\ UNCHANGED <<row, consumed>>

QueueNext ==
  \/ \E j \in Jobs : Enqueue(j)
  \/ \E w \in Workers, j \in Jobs : Claim(w, j) \/ Reclaim(w, j)
  \/ \E w \in Workers : Ack(w) \/ Retry(w) \/ Forget(w)

QueueSpec == QueueInit /\ [][QueueNext]_queueVars

(***************************************************************************)
(* Safety.                                                                 *)
(***************************************************************************)

\* No two workers ever hold the same claim of the same job, however leases
\* expire, so at most one of them can delete or release the row.
TokensUnique ==
  \A v, w \in Workers :
    v # w /\ msg[v] # NoMessage => msg[v] # msg[w]

\* A message never runs ahead of its row, and a row that was released or
\* enqueued and not yet claimed matches no message at all: the WHERE clauses
\* of ack and retry need not look at claimed_at.
OnlyHeldRowsMatch ==
  \A w \in Workers :
    msg[w] # NoMessage /\ msg[w].job \notin consumed =>
      /\ row[msg[w].job].phase # "absent"
      /\ msg[w].attempt <= row[msg[w].job].attempt
      /\ msg[w].attempt = row[msg[w].job].attempt
           => row[msg[w].job].phase = "held"

\* A job is removed once: its row never comes back, so no second worker can
\* settle it.
ConsumedStaysAbsent == \A j \in consumed : row[j] = Absent

QueueSafety == TokensUnique /\ OnlyHeldRowsMatch /\ ConsumedStaysAbsent
=============================================================================
