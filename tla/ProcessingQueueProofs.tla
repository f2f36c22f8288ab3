------------------------ MODULE ProcessingQueueProofs ------------------------
(***************************************************************************)
(* For any number of jobs, workers and claims, any lease, retry delay,     *)
(* clock skew and clock lag: the PostgreSQL queue implements LeaseQueue,   *)
(* a worker that is on time still owns its row, and a retried row waits.   *)
(***************************************************************************)
EXTENDS ProcessingQueue, TLAPS

\* A locked row is present, was claimable for the clock reading of its locker,
\* and is locked by one worker.
LockInv ==
  /\ \A w \in Workers : locking[w].on =>
       LET j == locking[w].job IN
       /\ Claimable(j, locking[w].reading)
       /\ table[j].attempt_count < MaxClaims
       /\ msg[w] = NoMessage
       /\ locking[w].read_at <= now
       /\ locking[w].reading <= locking[w].read_at + MaxSkew
       /\ locking[w].reading >= locking[w].read_at - MaxSkew
  /\ \A v, w \in Workers :
       v # w /\ locking[v].on /\ locking[w].on => locking[v].job # locking[w].job

\* The fencing of LeaseQueue, said of the table.
TokenInv ==
  /\ \A v, w \in Workers : v # w /\ msg[v] # NoMessage => msg[v] # msg[w]
  /\ \A w \in Workers : msg[w] # NoMessage /\ msg[w].job \notin consumed =>
       LET r == table[msg[w].job] IN
       /\ r.present /\ msg[w].attempt <= r.attempt_count
       /\ msg[w].attempt = r.attempt_count => r.claimed_at # Null
  /\ \A j \in consumed : table[j] = NoRow

\* claimed_at is at most MaxSkew earlier than the moment its holder called
\* claim(), and available_at at most MaxSkew earlier than the end of the delay.
TimeInv ==
  /\ now >= MaxSkew + MaxLag
  /\ \A w \in Workers : msg[w] # NoMessage /\ Matches(msg[w]) =>
       table[msg[w].job].claimed_at >= since[w] - MaxSkew
  /\ \A j \in Jobs : released[j] # Null =>
       table[j].present \/ j \in consumed
  /\ \A j \in Jobs : released[j] # Null /\ table[j].present =>
       table[j].available_at >= released[j] + RetryDelay - MaxSkew

IInv == TypeOK /\ LockInv /\ TokenInv /\ TimeInv /\ OnTimeHolderOwns

USE TableAssumption, ClockAssumption DEF Null, NoRow, Message

LEMMA InitInv == Init => IInv
<1> SUFFICES ASSUME Init PROVE IInv
  OBVIOUS
<1>1. NoLock \in [on: BOOLEAN, job: Jobs, read_at: Nat, reading: Nat] /\ ~NoLock.on
  BY DEF NoLock
<1>2. TypeOK
  BY <1>1 DEF Init, TypeOK
<1>3. LockInv /\ TokenInv /\ TimeInv /\ OnTimeHolderOwns
  BY <1>1 DEF Init, LockInv, TokenInv, TimeInv, OnTimeHolderOwns
<1>4. QED
  BY <1>2, <1>3 DEF IInv

LEMMA EnqueueRowInv ==
  ASSUME IInv, NEW j \in Jobs, EnqueueRow(j) PROVE IInv'
<1> USE DEF IInv, EnqueueRow, ReadInstants, Readings
<1>1. TypeOK'
  BY DEF TypeOK, TimeInv
<1>2. LockInv'
  BY DEF TypeOK, LockInv, Claimable
<1>3. TokenInv'
  BY DEF TypeOK, TokenInv
<1>4. TimeInv' /\ OnTimeHolderOwns'
  BY DEF TypeOK, TimeInv, TokenInv, OnTimeHolderOwns, Matches
<1>5. QED
  BY <1>1, <1>2, <1>3, <1>4

LEMMA ClaimSelectInv ==
  ASSUME IInv, NEW w \in Workers, ClaimSelect(w) PROVE IInv'
<1>1. PICK s \in ReadInstants : \E t \in Readings(s), j \in Jobs :
        /\ Claimable(j, t) /\ ~Locked(j) /\ table[j].attempt_count < MaxClaims
        /\ locking' = [locking EXCEPT ![w] =
                         [on |-> TRUE, job |-> j, read_at |-> s, reading |-> t]]
  BY DEF ClaimSelect
<1>2. PICK t \in Readings(s), j \in Jobs :
        /\ Claimable(j, t) /\ ~Locked(j) /\ table[j].attempt_count < MaxClaims
        /\ locking' = [locking EXCEPT ![w] =
                         [on |-> TRUE, job |-> j, read_at |-> s, reading |-> t]]
  BY <1>1
<1>3. msg[w] = NoMessage /\ UNCHANGED <<table, now, msg, consumed, since, released>>
  BY DEF ClaimSelect, queueVars
<1>4. s \in Nat /\ t \in Nat /\ s <= now /\ t <= s + MaxSkew /\ t >= s - MaxSkew
  BY DEF IInv, TypeOK, TimeInv, ReadInstants, Readings
<1>5. TypeOK'
  BY <1>2, <1>3, <1>4 DEF IInv, TypeOK
<1>6. LockInv'
  BY <1>2, <1>3, <1>4 DEF IInv, TypeOK, LockInv, Locked, Claimable
<1>7. TokenInv' /\ TimeInv' /\ OnTimeHolderOwns'
  BY <1>3 DEF IInv, TokenInv, TimeInv, OnTimeHolderOwns, Matches
<1>8. QED
  BY <1>5, <1>6, <1>7 DEF IInv

LEMMA ClaimRollbackInv ==
  ASSUME IInv, NEW w \in Workers, ClaimRollback(w) PROVE IInv'
<1>1. UNCHANGED <<table, now, msg, consumed, since, released>>
      /\ locking' = [locking EXCEPT ![w] = NoLock]
      /\ NoLock \in [on: BOOLEAN, job: Jobs, read_at: Nat, reading: Nat] /\ ~NoLock.on
  BY DEF ClaimRollback, Unlock, queueVars, NoLock
<1>2. TypeOK'
  BY <1>1 DEF IInv, TypeOK
<1>3. LockInv'
  BY <1>1 DEF IInv, TypeOK, LockInv, Claimable
<1>4. TokenInv' /\ TimeInv' /\ OnTimeHolderOwns'
  BY <1>1 DEF IInv, TokenInv, TimeInv, OnTimeHolderOwns, Matches
<1>5. QED
  BY <1>2, <1>3, <1>4 DEF IInv

\* The commit of a claim: no lock of another worker is on the row, its new
\* attempt exceeds every message, and a holder it displaces was late.
LEMMA ClaimCommitInv ==
  ASSUME IInv, NEW w \in Workers, ClaimCommit(w) PROVE IInv'
<1> DEFINE j == locking[w].job
           n == table[j].attempt_count + 1
           t == locking[w].reading
<1>1. /\ locking[w].on /\ j \in Jobs /\ t \in Nat /\ n \in 1..MaxClaims
      /\ Claimable(j, t) /\ msg[w] = NoMessage /\ j \notin consumed
      /\ locking[w].read_at \in Nat /\ locking[w].read_at <= now
      /\ t <= now + MaxSkew /\ t >= locking[w].read_at - MaxSkew
  BY DEF ClaimCommit, IInv, TypeOK, LockInv, Claimable, TokenInv
<1>2. /\ msg' = [msg EXCEPT ![w] = [job |-> j, attempt |-> n]]
      /\ since' = [since EXCEPT ![w] = locking[w].read_at]
      /\ locking' = [locking EXCEPT ![w] = NoLock]
      /\ UNCHANGED <<now, consumed, released>>
      /\ NoLock \in [on: BOOLEAN, job: Jobs, read_at: Nat, reading: Nat] /\ ~NoLock.on
  BY DEF ClaimCommit, Unlock, NoLock
<1>3. table' = [table EXCEPT ![j] = [present |-> TRUE, attempt_count |-> n,
                     available_at |-> table[j].available_at, claimed_at |-> t]]
  <2>1. table' = [table EXCEPT ![j].attempt_count = n, ![j].claimed_at = t]
    BY DEF ClaimCommit
  <2>2. table[j] \in [present: BOOLEAN, attempt_count: 0..MaxClaims,
                      available_at: Nat, claimed_at: Nat \cup {Null}] /\ table[j].present
    BY <1>1 DEF IInv, TypeOK, Claimable
  <2>3. table'[j] = [present |-> TRUE, attempt_count |-> n,
                     available_at |-> table[j].available_at, claimed_at |-> t]
    BY <1>1, <2>1, <2>2 DEF IInv, TypeOK
  <2>4. \A k \in Jobs \ {j} : table'[k] = table[k]
    BY <2>1 DEF IInv, TypeOK
  <2>5. table' = [k \in Jobs |-> table'[k]]
    BY <2>1 DEF IInv, TypeOK
  <2>6. QED
    BY <1>1, <2>3, <2>4, <2>5 DEF IInv, TypeOK
<1>4. TypeOK'
  BY <1>1, <1>2, <1>3 DEF IInv, TypeOK
<1>5. LockInv'
  <2>1. \A v \in Workers \ {w} : locking'[v] = locking[v] /\ (locking[v].on => locking[v].job # j)
    BY <1>1, <1>2 DEF IInv, TypeOK, LockInv
  <2>2. ~locking'[w].on
    BY <1>2 DEF IInv, TypeOK
  <2>3. QED
    BY <1>2, <1>3, <2>1, <2>2 DEF IInv, TypeOK, LockInv, Claimable
<1>6. TokenInv'
  <2>1. \A v \in Workers : msg[v] # NoMessage /\ msg[v].job = j => msg[v].attempt < n
    BY <1>1 DEF IInv, TypeOK, TokenInv
  <2>2. \A v \in Workers \ {w} : msg'[v] = msg[v]
    BY <1>2 DEF IInv, TypeOK
  <2>3. msg'[w] = [job |-> j, attempt |-> n]
    BY <1>2 DEF IInv, TypeOK
  <2>4. \A v \in Workers : msg[v] # NoMessage => msg[v] \in Message
    BY DEF IInv, TypeOK
  <2>5. \A u, v \in Workers : u # v /\ msg'[u] # NoMessage => msg'[u] # msg'[v]
    <3> SUFFICES ASSUME NEW u \in Workers, NEW v \in Workers, u # v, msg'[u] # NoMessage,
                        msg'[u] = msg'[v]
                 PROVE  FALSE
      OBVIOUS
    <3>1. CASE u # w /\ v # w
      BY <2>2, <3>1 DEF IInv, TokenInv
    <3>2. CASE u = w \/ v = w
      <4>1. \E x \in Workers \ {w} : msg[x] # NoMessage /\ msg[x] = [job |-> j, attempt |-> n]
        BY <2>2, <2>3, <3>2
      <4>2. QED
        BY <1>1, <2>1, <4>1
    <3>3. QED BY <3>1, <3>2
  <2>6. ASSUME NEW v \in Workers, msg'[v] # NoMessage, msg'[v].job \notin consumed'
        PROVE  LET r == table'[msg'[v].job] IN
               /\ r.present /\ msg'[v].attempt <= r.attempt_count
               /\ msg'[v].attempt = r.attempt_count => r.claimed_at # Null
    <3>1. CASE v = w
      BY <1>1, <1>3, <2>3, <3>1 DEF IInv, TypeOK
    <3>2. CASE v # w /\ msg[v].job = j
      BY <1>1, <1>3, <2>1, <2>2, <2>4, <2>6, <3>2 DEF IInv, TypeOK
    <3>3. CASE v # w /\ msg[v].job # j
      BY <1>2, <1>3, <2>2, <2>4, <2>6, <3>3 DEF IInv, TypeOK, TokenInv
    <3>4. QED BY <3>1, <3>2, <3>3
  <2>7. \A k \in consumed' : table'[k] = NoRow
    BY <1>1, <1>2, <1>3 DEF IInv, TypeOK, TokenInv
  <2>8. QED
    BY <2>5, <2>6, <2>7 DEF TokenInv
<1>7. TimeInv'
  BY <1>1, <1>2, <1>3 DEF IInv, TypeOK, TimeInv, TokenInv, Matches
<1>8. OnTimeHolderOwns'
  <2> SUFFICES ASSUME NEW v \in Workers, msg'[v] # NoMessage, now < since'[v] + Lease - 2 * MaxSkew
               PROVE  Matches(msg[v])'
    BY <1>2 DEF OnTimeHolderOwns
  <2>1. CASE v = w
    BY <1>1, <1>2, <1>3, <2>1 DEF IInv, TypeOK, Matches
  <2>2. CASE v # w
    <3>1. msg'[v] = msg[v] /\ since'[v] = since[v]
      BY <1>2, <2>2 DEF IInv, TypeOK
    <3>2. Matches(msg[v])
      BY <3>1 DEF IInv, OnTimeHolderOwns
    <3>3. CASE msg[v].job = j
      <4>1. table[j].claimed_at # Null /\ table[j].claimed_at >= since[v] - MaxSkew
        BY <3>1, <3>2, <3>3, <1>1 DEF IInv, TimeInv, TokenInv, Matches
      <4>2. table[j].claimed_at + Lease <= t
        BY <1>1, <4>1 DEF Claimable
      <4>3. QED
        BY <1>1, <3>1, <4>1, <4>2 DEF IInv, TypeOK
    <3>4. CASE msg[v].job # j
      BY <1>3, <3>1, <3>2, <3>4 DEF IInv, TypeOK, Matches
    <3>5. QED BY <3>3, <3>4
  <2>3. QED BY <2>1, <2>2
<1>9. QED
  BY <1>4, <1>5, <1>6, <1>7, <1>8 DEF IInv

\* What retry writes when its message matches: the attempt count stays.
LEMMA RetryTable ==
  ASSUME IInv, NEW w \in Workers, Retry(w), Matches(msg[w])
  PROVE  \E s \in Nat, t \in Nat :
           /\ s <= now /\ t >= s - MaxSkew
           /\ released' = [released EXCEPT ![msg[w].job] = s]
           /\ table' = [table EXCEPT ![msg[w].job] =
                          [present |-> TRUE, attempt_count |-> table[msg[w].job].attempt_count,
                           available_at |-> t + RetryDelay, claimed_at |-> Null]]
<1> DEFINE j == msg[w].job
<1>1. PICK s \in ReadInstants : \E t \in Readings(s) :
        /\ table' = [table EXCEPT ![j].claimed_at = Null, ![j].available_at = t + RetryDelay]
        /\ released' = [released EXCEPT ![j] = s]
  BY DEF Retry
<1>2. PICK t \in Readings(s) :
        /\ table' = [table EXCEPT ![j].claimed_at = Null, ![j].available_at = t + RetryDelay]
        /\ released' = [released EXCEPT ![j] = s]
  BY <1>1
<1>3. s \in Nat /\ t \in Nat /\ s <= now /\ t >= s - MaxSkew
  BY DEF IInv, TypeOK, TimeInv, ReadInstants, Readings
<1>4. j \in Jobs /\ table[j].present
      /\ table[j] \in [present: BOOLEAN, attempt_count: 0..MaxClaims, available_at: Nat,
                       claimed_at: Nat \cup {Null}]
  BY DEF IInv, TypeOK, Matches
<1>5. table'[j] = [present |-> TRUE, attempt_count |-> table[j].attempt_count,
                   available_at |-> t + RetryDelay, claimed_at |-> Null]
  BY <1>2, <1>4 DEF IInv, TypeOK
<1>6. /\ \A k \in Jobs \ {j} : table'[k] = table[k]
      /\ table' = [k \in Jobs |-> table'[k]]
  BY <1>2 DEF IInv, TypeOK
<1>7. table' = [table EXCEPT ![j] =
                 [present |-> TRUE, attempt_count |-> table[j].attempt_count,
                  available_at |-> t + RetryDelay, claimed_at |-> Null]]
  BY <1>4, <1>5, <1>6 DEF IInv, TypeOK
<1>8. QED
  BY <1>2, <1>3, <1>7

\* ack and retry of a message: nobody else's message matches the row, and no
\* claim transaction has it locked.
LEMMA SettleInv ==
  ASSUME IInv, NEW w \in Workers, Ack(w) \/ Retry(w) \/ Forget(w) PROVE IInv'
<1> DEFINE m == msg[w]
<1>1. /\ m \in Message /\ m # NoMessage /\ msg' = [msg EXCEPT ![w] = NoMessage]
      /\ now' = now /\ locking' = locking /\ since' = since
  BY DEF IInv, TypeOK, Ack, Retry, Forget
<1>2. \A v \in Workers : msg'[v] # NoMessage => v # w /\ msg'[v] = msg[v]
  BY <1>1 DEF IInv, TypeOK
<1>3. CASE UNCHANGED <<table, consumed, released>>
  <2>1. TypeOK' /\ LockInv' /\ TokenInv'
    BY <1>1, <1>2, <1>3 DEF IInv, TypeOK, LockInv, TokenInv, Claimable
  <2>2. TimeInv' /\ OnTimeHolderOwns'
    BY <1>1, <1>2, <1>3 DEF IInv, TimeInv, OnTimeHolderOwns, Matches
  <2>3. QED
    BY <2>1, <2>2 DEF IInv
<1>4. ASSUME Matches(m), ~Locked(m.job) PROVE
        /\ table[m.job].present /\ m.job \notin consumed
        /\ \A v \in Workers : locking[v].on => locking[v].job # m.job
        /\ \A v \in Workers \ {w} : msg[v] # NoMessage /\ msg[v].job = m.job =>
             msg[v].attempt < table[m.job].attempt_count /\ ~Matches(msg[v])
  <2>1. table[m.job].present /\ m.job \notin consumed
    BY <1>4 DEF IInv, TokenInv, Matches
  <2>2. \A v \in Workers : locking[v].on => locking[v].job # m.job
    BY <1>4 DEF Locked
  <2>3. ASSUME NEW v \in Workers \ {w}, msg[v] # NoMessage, msg[v].job = m.job
        PROVE  msg[v].attempt < table[m.job].attempt_count
    <3>1. msg[v] \in Message /\ msg[v] # m
      BY <1>1, <2>3 DEF IInv, TypeOK, TokenInv
    <3>2. msg[v].attempt # m.attempt
      BY <1>1, <2>3, <3>1
    <3>3. msg[v].attempt <= table[m.job].attempt_count
      BY <2>1, <2>3 DEF IInv, TokenInv
    <3>4. m.attempt = table[m.job].attempt_count /\ m.attempt \in Nat /\ msg[v].attempt \in Nat
      BY <1>1, <1>4, <3>1 DEF Matches
    <3>5. QED BY <3>2, <3>3, <3>4
  <2>4. \A v \in Workers : msg[v] # NoMessage => msg[v] \in Message
    BY DEF IInv, TypeOK
  <2>5. table[m.job].attempt_count \in Nat
    BY <1>1 DEF IInv, TypeOK
  <2>6. QED
    BY <2>1, <2>2, <2>3, <2>4, <2>5 DEF Matches
<1>5. CASE Matches(m) /\ Ack(w)
  <2>1. /\ table' = [table EXCEPT ![m.job] = NoRow] /\ consumed' = consumed \cup {m.job}
        /\ released' = released /\ ~Locked(m.job)
    BY <1>5 DEF Ack
  <2>2. TypeOK'
    BY <1>1, <2>1 DEF IInv, TypeOK
  <2>3. LockInv'
    BY <1>1, <1>2, <1>4, <1>5, <2>1 DEF IInv, TypeOK, LockInv, Claimable
  <2>4. TokenInv'
    BY <1>1, <1>2, <2>1 DEF IInv, TypeOK, TokenInv
  <2>5. TimeInv'
    BY <1>1, <1>2, <2>1 DEF IInv, TypeOK, TimeInv, Matches
  <2>6. OnTimeHolderOwns'
    BY <1>1, <1>2, <1>4, <1>5, <2>1 DEF IInv, TypeOK, OnTimeHolderOwns, Matches
  <2>7. QED
    BY <2>2, <2>3, <2>4, <2>5, <2>6 DEF IInv
<1>6. CASE Matches(m) /\ Retry(w)
  <2>1. ~Locked(m.job) /\ consumed' = consumed
    BY <1>6 DEF Retry
  <2>2. PICK s \in Nat, t \in Nat :
          /\ s <= now /\ t >= s - MaxSkew
          /\ released' = [released EXCEPT ![m.job] = s]
          /\ table' = [table EXCEPT ![m.job] =
                         [present |-> TRUE, attempt_count |-> table[m.job].attempt_count,
                          available_at |-> t + RetryDelay, claimed_at |-> Null]]
    BY <1>6, RetryTable
  <2>3. TypeOK'
    BY <1>1, <2>1, <2>2 DEF IInv, TypeOK
  <2>4. LockInv'
    BY <1>1, <1>2, <1>4, <1>6, <2>1, <2>2 DEF IInv, TypeOK, LockInv, Claimable
  <2>5. TokenInv'
    BY <1>1, <1>2, <1>4, <1>6, <2>1, <2>2 DEF IInv, TypeOK, TokenInv
  <2>6. TimeInv'
    <3>1. ASSUME NEW v \in Workers, msg'[v] # NoMessage, Matches(msg[v])'
          PROVE  table'[msg'[v].job].claimed_at >= since'[v] - MaxSkew
      <4>1. msg'[v] = msg[v] /\ msg[v] \in Message /\ since'[v] = since[v] /\ v # w
        BY <1>1, <1>2, <3>1 DEF IInv, TypeOK
      <4>2. msg[v].job # m.job
        BY <1>1, <1>4, <1>6, <2>1, <2>2, <3>1, <4>1 DEF IInv, TypeOK, Matches
      <4>3. table'[msg[v].job] = table[msg[v].job]
        BY <1>1, <2>2, <4>1, <4>2 DEF IInv, TypeOK
      <4>4. QED
        BY <3>1, <4>1, <4>3 DEF IInv, TimeInv, Matches
    <3>2. \A k \in Jobs : released'[k] # Null /\ table'[k].present =>
            table'[k].available_at >= released'[k] + RetryDelay - MaxSkew
      BY <1>1, <2>2 DEF IInv, TypeOK, TimeInv
    <3>3. \A k \in Jobs : released'[k] # Null => table'[k].present \/ k \in consumed'
      BY <1>1, <2>1, <2>2 DEF IInv, TypeOK, TimeInv
    <3>4. QED
      BY <1>1, <3>1, <3>2, <3>3 DEF IInv, TimeInv
  <2>7. OnTimeHolderOwns'
    BY <1>1, <1>2, <1>4, <1>6, <2>1, <2>2 DEF IInv, TypeOK, OnTimeHolderOwns, Matches
  <2>8. QED
    BY <2>3, <2>4, <2>5, <2>6, <2>7 DEF IInv
<1>7. QED
  BY <1>3, <1>5, <1>6 DEF Ack, Retry, Forget

LEMMA TickInv == ASSUME IInv, Tick PROVE IInv'
  BY DEF IInv, TypeOK, LockInv, TokenInv, TimeInv, OnTimeHolderOwns, Tick, queueVars,
         Claimable, Matches

LEMMA NextInv == IInv /\ [Next]_vars => IInv'
<1> SUFFICES ASSUME IInv, [Next]_vars PROVE IInv'
  OBVIOUS
<1>1. CASE UNCHANGED vars
  BY <1>1 DEF vars, IInv, TypeOK, LockInv, TokenInv, TimeInv, OnTimeHolderOwns, Claimable, Matches
<1>2. CASE Next
  BY <1>2, EnqueueRowInv, ClaimSelectInv, ClaimCommitInv, ClaimRollbackInv, SettleInv, TickInv
  DEF Next
<1>3. QED BY <1>1, <1>2

LEMMA Invariance == Spec => []IInv
  BY InitInv, NextInv, PTL DEF Spec

\* The columns of the table and the messages keep their types.
THEOREM TypeCorrect == Spec => []TypeOK
<1>1. IInv => TypeOK
  BY DEF IInv
<1>2. QED
  BY <1>1, Invariance, PTL

\* Settling within Lease - 2 * MaxSkew of calling claim() is never too late.
THEOREM LeaseIsSafe == Spec => []OnTimeHolderOwns
<1>1. IInv => OnTimeHolderOwns
  BY DEF IInv
<1>2. QED
  BY <1>1, Invariance, PTL

\* A retried row is not handed out before its delay.
THEOREM RetryDelayKept == Spec => []RetryDelayRespected
<1>1. IInv => RetryDelayRespected
  <2> SUFFICES ASSUME IInv, NEW w \in Workers, locking[w].on, released[locking[w].job] # Null
               PROVE  now >= released[locking[w].job] + RetryDelay - 2 * MaxSkew
    BY DEF RetryDelayRespected
  <2> DEFINE j == locking[w].job
  <2>1. /\ table[j].present /\ table[j].available_at <= locking[w].reading
        /\ locking[w].reading <= now + MaxSkew
    BY DEF IInv, TypeOK, LockInv, Claimable
  <2>2. table[j].available_at >= released[j] + RetryDelay - MaxSkew
    BY <2>1 DEF IInv, TypeOK, TimeInv
  <2>3. QED
    BY <2>1, <2>2 DEF IInv, TypeOK
<1>2. QED
  BY <1>1, Invariance, PTL

(***************************************************************************)
(* Refinement: every step of the table is a step of LeaseQueue or leaves   *)
(* what LeaseQueue sees unchanged.                                         *)
(***************************************************************************)

LEMMA AbstractRowValue ==
  ASSUME NEW j \in Jobs
  PROVE  /\ AbstractRow[j].phase = "absent" <=> ~table[j].present
         /\ ~table[j].present => AbstractRow[j] = [phase |-> "absent", attempt |-> 0]
         /\ table[j].present =>
              /\ AbstractRow[j].attempt = table[j].attempt_count
              /\ AbstractRow[j].phase = "held" <=> table[j].claimed_at # Null
              /\ AbstractRow[j].phase = "ready" <=> table[j].claimed_at = Null
  BY DEF AbstractRow

LEMMA StepRefines == IInv /\ [Next]_vars => [Abstract!QueueNext]_(Abstract!queueVars)
<1> SUFFICES ASSUME IInv, [Next]_vars PROVE [Abstract!QueueNext]_(Abstract!queueVars)
  OBVIOUS
<1> USE DEF Abstract!QueueNext, Abstract!queueVars
<1>1. ASSUME UNCHANGED <<table, msg, consumed>> PROVE UNCHANGED Abstract!queueVars
  BY <1>1 DEF AbstractRow
<1>2. ASSUME NEW j \in Jobs, EnqueueRow(j) PROVE [Abstract!QueueNext]_(Abstract!queueVars)
  <2>1. CASE table[j].present
    BY <1>1, <1>2, <2>1 DEF EnqueueRow
  <2>2. CASE ~table[j].present
    <3>1. AbstractRow' = [AbstractRow EXCEPT ![j] = [phase |-> "ready", attempt |-> 0]]
      <4>1. \A k \in Jobs : AbstractRow'[k] = IF k = j THEN [phase |-> "ready", attempt |-> 0]
                                               ELSE AbstractRow[k]
        BY <1>2, <2>2 DEF EnqueueRow, AbstractRow, IInv, TypeOK
      <4>2. QED
        BY <4>1 DEF AbstractRow
    <3>2. Abstract!Enqueue(j)
      BY <1>2, <2>2, <3>1, AbstractRowValue DEF EnqueueRow, Abstract!Enqueue
    <3>3. QED BY <3>2
  <2>3. QED BY <2>1, <2>2
<1>3. ASSUME NEW w \in Workers, ClaimCommit(w) PROVE [Abstract!QueueNext]_(Abstract!queueVars)
  <2> DEFINE j == locking[w].job
  <2>1. /\ j \in Jobs /\ table[j].present /\ table[j].attempt_count < MaxClaims
        /\ msg[w] = NoMessage /\ locking[w].reading # Null
    BY <1>3 DEF ClaimCommit, IInv, TypeOK, LockInv, Claimable
  <2>2. AbstractRow' = [AbstractRow EXCEPT ![j] =
                          [phase |-> "held", attempt |-> table[j].attempt_count + 1]]
    BY <1>3, <2>1 DEF ClaimCommit, AbstractRow, IInv, TypeOK
  <2>3. Abstract!Take(w, j)
    BY <1>3, <2>1, <2>2, AbstractRowValue DEF ClaimCommit, Abstract!Take, AbstractRow
  <2>4. Abstract!Claim(w, j) \/ Abstract!Reclaim(w, j)
    BY <2>1, <2>3, AbstractRowValue DEF Abstract!Claim, Abstract!Reclaim
  <2>5. QED BY <2>1, <2>4
<1>4. ASSUME NEW w \in Workers, Ack(w) \/ Retry(w) \/ Forget(w)
      PROVE  Abstract!Ack(w) \/ Abstract!Retry(w) \/ Abstract!Forget(w)
  <2>1. msg[w] \in Message /\ msg[w].job \in Jobs /\ msg[w] # NoMessage
    BY <1>4 DEF Ack, Retry, Forget, IInv, TypeOK
  <2>2. Matches(msg[w]) <=> Abstract!Matches(msg[w])
    BY <2>1, AbstractRowValue DEF Matches, Abstract!Matches
  <2>3. CASE Ack(w)
    <3>1. ASSUME Matches(msg[w])
          PROVE  AbstractRow' = [AbstractRow EXCEPT ![msg[w].job] = [phase |-> "absent", attempt |-> 0]]
      <4>1. \A k \in Jobs : AbstractRow'[k] = IF k = msg[w].job
                                               THEN [phase |-> "absent", attempt |-> 0]
                                               ELSE AbstractRow[k]
        BY <2>1, <2>3, <3>1 DEF Ack, AbstractRow, IInv, TypeOK
      <4>2. QED
        BY <2>1, <4>1 DEF AbstractRow
    <3>2. ~Matches(msg[w]) => AbstractRow' = AbstractRow
      BY <2>3 DEF Ack, AbstractRow
    <3>3. Abstract!Ack(w)
      BY <2>2, <2>3, <3>1, <3>2 DEF Ack, Abstract!Ack, Abstract!Absent
    <3>4. QED BY <3>3
  <2>4. CASE Retry(w)
    <3>1. ASSUME Matches(msg[w])
          PROVE  AbstractRow' = [AbstractRow EXCEPT ![msg[w].job].phase = "ready"]
      <4>1. /\ table'[msg[w].job].present /\ table'[msg[w].job].claimed_at = Null
            /\ table'[msg[w].job].attempt_count = table[msg[w].job].attempt_count
            /\ \A k \in Jobs \ {msg[w].job} : table'[k] = table[k]
        <5>1. PICK s \in Nat, t \in Nat :
                table' = [table EXCEPT ![msg[w].job] =
                           [present |-> TRUE, attempt_count |-> table[msg[w].job].attempt_count,
                            available_at |-> t + RetryDelay, claimed_at |-> Null]]
          BY <2>4, <3>1, RetryTable
        <5>2. QED
          BY <2>1, <5>1 DEF IInv, TypeOK
      <4>2. \A k \in Jobs : AbstractRow'[k] =
                IF k = msg[w].job
                THEN [phase |-> "ready", attempt |-> AbstractRow[k].attempt]
                ELSE AbstractRow[k]
        BY <2>1, <3>1, <4>1 DEF AbstractRow, Matches
      <4>3. [AbstractRow[msg[w].job] EXCEPT !.phase = "ready"]
              = [phase |-> "ready", attempt |-> AbstractRow[msg[w].job].attempt]
        BY <2>1, <3>1 DEF AbstractRow, Matches
      <4>4. AbstractRow = [k \in Jobs |-> AbstractRow[k]]
            /\ AbstractRow' = [k \in Jobs |-> AbstractRow'[k]]
        BY DEF AbstractRow
      <4>5. QED
        BY <2>1, <4>2, <4>3, <4>4
    <3>2. ~Matches(msg[w]) => AbstractRow' = AbstractRow
      BY <2>4 DEF Retry, AbstractRow
    <3>3. Abstract!Retry(w)
      BY <2>2, <2>4, <3>1, <3>2 DEF Retry, Abstract!Retry
    <3>4. QED BY <3>3
  <2>5. CASE Forget(w)
    BY <2>5 DEF Forget, Abstract!Forget, AbstractRow
  <2>6. QED BY <1>4, <2>3, <2>4, <2>5
<1>5. ASSUME NEW w \in Workers, ClaimSelect(w) \/ ClaimRollback(w) PROVE UNCHANGED Abstract!queueVars
  BY <1>1, <1>5 DEF ClaimSelect, ClaimRollback, queueVars
<1>6. ASSUME Tick PROVE UNCHANGED Abstract!queueVars
  BY <1>1, <1>6 DEF Tick, queueVars
<1>7. ASSUME UNCHANGED vars PROVE UNCHANGED Abstract!queueVars
  BY <1>1, <1>7 DEF vars
<1>8. QED
  BY <1>2, <1>3, <1>4, <1>5, <1>6, <1>7 DEF Next

\* PostgresTranscriptionProcessingQueue keeps the promise of the port.
THEOREM Refinement == Spec => ImplementsLeaseQueue
<1>1. Init => Abstract!QueueInit
  BY DEF Init, Abstract!QueueInit, AbstractRow, Abstract!Absent
<1>2. QED
  BY <1>1, StepRefines, Invariance, PTL DEF Spec, ImplementsLeaseQueue, Abstract!QueueSpec

=============================================================================
