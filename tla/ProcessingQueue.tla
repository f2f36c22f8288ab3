--------------------------- MODULE ProcessingQueue ---------------------------
(***************************************************************************)
(* PostgresTranscriptionProcessingQueue: rows with attempt_count,          *)
(* available_at and claimed_at, claimed by SELECT ... FOR UPDATE SKIP      *)
(* LOCKED followed by an UPDATE in the same transaction.                   *)
(*                                                                         *)
(* Each worker reads its own host's clock before its transaction starts:   *)
(* the reading may be MaxLag ticks old when the statement runs, and        *)
(* MaxSkew ticks off the true time `now'.                                  *)
(***************************************************************************)
EXTENDS Integers

CONSTANTS
  Jobs, Workers, MaxClaims, NoMessage,   \* as in LeaseQueue
  Lease,        \* lease_seconds
  RetryDelay,   \* retry_delay_seconds
  MaxSkew,      \* bound on |host clock - true time|
  MaxLag,       \* bound on the age of a clock reading when it is used
  MaxTime       \* bound on the true time, for model checking

ASSUME TableAssumption ==
  /\ Jobs # {} /\ MaxClaims \in Nat \ {0}
  /\ NoMessage \notin [job: Jobs, attempt: 1..MaxClaims]

ASSUME ClockAssumption ==
  /\ Lease \in Nat \ {0} /\ RetryDelay \in Nat
  /\ MaxSkew \in Nat /\ MaxLag \in Nat /\ MaxTime \in Nat

VARIABLES
  table,      \* transcription_processing_queue
  now,        \* the true time
  locking,    \* the row each worker's open claim transaction has locked
  msg,        \* the message each worker holds
  consumed,   \* history: jobs whose row a successful ack has deleted
  since,      \* history: the true time at which the worker called claim()
  released    \* history: the true time of the last retry of each row

queueVars == <<table, msg, consumed>>
vars == <<table, now, locking, msg, consumed, since, released>>

Null == -1     \* SQL NULL of claimed_at, and "no" in the history variables
NoRow == [present |-> FALSE, attempt_count |-> 0,
          available_at |-> 0, claimed_at |-> Null]
NoLock == [on |-> FALSE, job |-> CHOOSE j \in Jobs : TRUE,
           read_at |-> 0, reading |-> 0]
Message == [job: Jobs, attempt: 1..MaxClaims]

TypeOK ==
  /\ table \in [Jobs -> [present: BOOLEAN, attempt_count: 0..MaxClaims,
                         available_at: Nat, claimed_at: Nat \cup {Null}]]
  /\ now \in Nat
  /\ locking \in [Workers -> [on: BOOLEAN, job: Jobs, read_at: Nat, reading: Nat]]
  /\ msg \in [Workers -> Message \cup {NoMessage}]
  /\ consumed \in SUBSET Jobs
  /\ since \in [Workers -> Nat]
  /\ released \in [Jobs -> Nat \cup {Null}]

Init ==
  /\ table = [j \in Jobs |-> NoRow]
  /\ now = MaxSkew + MaxLag
  /\ locking = [w \in Workers |-> NoLock]
  /\ msg = [w \in Workers |-> NoMessage]
  /\ consumed = {}
  /\ since = [w \in Workers |-> 0]
  /\ released = [j \in Jobs |-> Null]

\* The instants at which the clock may have been read, and what it may have shown.
ReadInstants == (now - MaxLag)..now
Readings(instant) == (instant - MaxSkew)..(instant + MaxSkew)

Locked(j) == \E w \in Workers : locking[w].on /\ locking[w].job = j

Matches(m) ==
  /\ m # NoMessage
  /\ table[m.job].present
  /\ table[m.job].attempt_count = m.attempt

(***************************************************************************)
(* Operations.                                                             *)
(***************************************************************************)

EnqueueRow(j) ==
  /\ j \notin consumed
  /\ \E s \in ReadInstants : \E t \in Readings(s) :
       table' = IF table[j].present THEN table
                ELSE [table EXCEPT ![j] =
                        [present |-> TRUE, attempt_count |-> 0,
                         available_at |-> t, claimed_at |-> Null]]
  /\ UNCHANGED <<now, locking, msg, consumed, since, released>>

\* Mutation of Claimable: available_at is not compared.
ClaimableAtOnce(j, t) ==
  /\ table[j].present
  /\ \/ table[j].claimed_at = Null
     \/ table[j].claimed_at + Lease <= t

\* The WHERE clause of the claim, for a worker whose clock showed t.
Claimable(j, t) ==
  /\ table[j].present
  /\ table[j].available_at <= t
  /\ \/ table[j].claimed_at = Null
     \/ table[j].claimed_at + Lease <= t

\* Mutation of ClaimSelect: FOR UPDATE is left out, the row is not locked.
ClaimSelectUnlocked(w) ==
  /\ msg[w] = NoMessage /\ ~locking[w].on
  /\ \E s \in ReadInstants : \E t \in Readings(s) : \E j \in Jobs :
       /\ Claimable(j, t)
       /\ table[j].attempt_count < MaxClaims
       /\ \A k \in Jobs : Claimable(k, t)
                            => table[j].available_at <= table[k].available_at
       /\ locking' = [locking EXCEPT ![w] =
                        [on |-> TRUE, job |-> j, read_at |-> s, reading |-> t]]
  /\ UNCHANGED <<now, queueVars, since, released>>

\* SELECT ... ORDER BY available_at, job_id FOR UPDATE SKIP LOCKED LIMIT 1.
\* Job ids are random, so the second key is left open.
ClaimSelect(w) ==
  /\ msg[w] = NoMessage /\ ~locking[w].on
  /\ \E s \in ReadInstants : \E t \in Readings(s) : \E j \in Jobs :
       /\ Claimable(j, t) /\ ~Locked(j)
       /\ table[j].attempt_count < MaxClaims
       /\ \A k \in Jobs : Claimable(k, t) /\ ~Locked(k)
                            => table[j].available_at <= table[k].available_at
       /\ locking' = [locking EXCEPT ![w] =
                        [on |-> TRUE, job |-> j, read_at |-> s, reading |-> t]]
  /\ UNCHANGED <<now, queueVars, since, released>>

Unlock(w) == locking' = [locking EXCEPT ![w] = NoLock]

\* Mutation of ClaimCommit: the attempt is counted at the select as well.
ClaimCommitCountsTwice(w) ==
  /\ locking[w].on
  /\ LET j == locking[w].job
         attempt == table[j].attempt_count + 1
     IN /\ table' = [table EXCEPT ![j].attempt_count = attempt + 1,
                                  ![j].claimed_at = locking[w].reading]
        /\ msg' = [msg EXCEPT ![w] = [job |-> j, attempt |-> attempt]]
  /\ since' = [since EXCEPT ![w] = locking[w].read_at]
  /\ Unlock(w)
  /\ UNCHANGED <<now, consumed, released>>

\* UPDATE ... SET attempt_count = attempt_count + 1, claimed_at = now; COMMIT.
ClaimCommit(w) ==
  /\ locking[w].on
  /\ LET j == locking[w].job
         attempt == table[j].attempt_count + 1
     IN /\ table' = [table EXCEPT ![j].attempt_count = attempt,
                                  ![j].claimed_at = locking[w].reading]
        /\ msg' = [msg EXCEPT ![w] = [job |-> j, attempt |-> attempt]]
  /\ since' = [since EXCEPT ![w] = locking[w].read_at]
  /\ Unlock(w)
  /\ UNCHANGED <<now, consumed, released>>

\* The connection is lost before the commit: PostgreSQL rolls back.
ClaimRollback(w) ==
  /\ locking[w].on
  /\ Unlock(w)
  /\ UNCHANGED <<now, queueVars, since, released>>

\* Mutation of Ack: DELETE ... WHERE job_id = ..., without the attempt.
AckAnyAttempt(w) ==
  /\ msg[w] # NoMessage /\ ~Locked(msg[w].job)
  /\ msg' = [msg EXCEPT ![w] = NoMessage]
  /\ table' = [table EXCEPT ![msg[w].job] = NoRow]
  /\ consumed' = consumed \cup {msg[w].job}
  /\ UNCHANGED <<now, locking, since, released>>

\* DELETE and UPDATE wait for a claim transaction that has locked the row,
\* then look at the row again.
Ack(w) ==
  /\ msg[w] # NoMessage /\ ~Locked(msg[w].job)
  /\ msg' = [msg EXCEPT ![w] = NoMessage]
  /\ IF Matches(msg[w])
     THEN /\ table' = [table EXCEPT ![msg[w].job] = NoRow]
          /\ consumed' = consumed \cup {msg[w].job}
     ELSE UNCHANGED <<table, consumed>>
  /\ UNCHANGED <<now, locking, since, released>>

Retry(w) ==
  /\ msg[w] # NoMessage /\ ~Locked(msg[w].job)
  /\ msg' = [msg EXCEPT ![w] = NoMessage]
  /\ IF Matches(msg[w])
     THEN \E s \in ReadInstants : \E t \in Readings(s) :
            /\ table' = [table EXCEPT ![msg[w].job].claimed_at = Null,
                                      ![msg[w].job].available_at = t + RetryDelay]
            /\ released' = [released EXCEPT ![msg[w].job] = s]
     ELSE UNCHANGED <<table, released>>
  /\ UNCHANGED <<now, locking, consumed, since>>

Forget(w) ==
  /\ msg[w] # NoMessage
  /\ msg' = [msg EXCEPT ![w] = NoMessage]
  /\ UNCHANGED <<table, now, locking, consumed, since, released>>

Tick ==
  /\ now < MaxTime
  /\ now' = now + 1
  /\ UNCHANGED <<queueVars, locking, since, released>>

Next ==
  \/ \E j \in Jobs : EnqueueRow(j)
  \/ \E w \in Workers :
       \/ ClaimSelect(w) \/ ClaimCommit(w) \/ ClaimRollback(w)
       \/ Ack(w) \/ Retry(w) \/ Forget(w)
  \/ Tick

Spec == Init /\ [][Next]_vars

(***************************************************************************)
(* Properties.                                                             *)
(***************************************************************************)

\* A worker that settles within Lease - 2 * MaxSkew of calling claim() still
\* owns its row, however stale its clock reading was when the claim ran and
\* however long its claim transaction stayed open.
OnTimeHolderOwns ==
  \A w \in Workers :
    msg[w] # NoMessage /\ now < since[w] + Lease - 2 * MaxSkew => Matches(msg[w])

\* A retried row is not handed out again before its delay has passed, up to
\* the difference of the two clocks.
RetryDelayRespected ==
  \A w \in Workers :
    LET j == locking[w].job IN
    locking[w].on /\ released[j] # Null =>
      now >= released[j] + RetryDelay - 2 * MaxSkew

\* The row of LeaseQueue that a table row stands for.
AbstractRow ==
  [j \in Jobs |->
     IF ~table[j].present THEN [phase |-> "absent", attempt |-> 0]
     ELSE [phase |-> IF table[j].claimed_at = Null THEN "ready" ELSE "held",
           attempt |-> table[j].attempt_count]]

Abstract == INSTANCE LeaseQueue WITH row <- AbstractRow

\* Seen through AbstractRow, the table behaves as LeaseQueue promises.
ImplementsLeaseQueue == Abstract!QueueSpec
=============================================================================
