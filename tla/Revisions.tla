------------------------------ MODULE Revisions ------------------------------
(***************************************************************************)
(* Reviews, revisions and regeneration requests of one AI process, used by *)
(* several HTTP threads and by processor runs at the same time.            *)
(*                                                                         *)
(* The review and revision repositories share one snapshot behind a lock,  *)
(* so each call is one step; CreateTranscriptionRevision makes three such  *)
(* calls and RequestArtifactRegeneration reads and writes a dictionary     *)
(* without any lock.  Restarting the process loses everything; a behaviour *)
(* of this module is one life of the process.                              *)
(***************************************************************************)
EXTENDS RevisionHistory

CONSTANTS
  Threads,       \* HTTP threads
  Results,       \* result objects of processor runs (compared by identity)
  EventsOf,      \* the model event ids of each result
  RequestIds,    \* ids of regeneration requests (fresh UUIDs)
  MaxRegenerated,   \* bound on the revisions whose regeneration is asked for
  None           \* Python's None

ASSUME RevisionsAssumption ==
  /\ EventsOf \in [Results -> SUBSET ModelIds]
  /\ None \notin Results /\ None \notin RequestIds
  /\ MaxRegenerated \in 0..MaxRevisions

VARIABLES
  reviews,       \* the reviews of the shared snapshot
  requests,      \* the dictionary of regeneration requests
  pc,            \* the next call of each thread
  edit,          \* the edit request a thread works on
  working,       \* latest.events, and the revision number it was read with
  taken,         \* all_historical_ids
  wanted,        \* the regeneration a thread works on, and its new request's id
  answers        \* history: which request was returned for which revision

store == <<reviews, history>>
threadVars == <<pc, edit, working, taken, wanted>>
vars == <<store, requests, threadVars, answers>>

EditRequest == [job: Jobs, base: Nat, batch: Batches]
Working == [number: Nat, events: SUBSET Event]
Wanted == [job: Jobs, number: Nat, id: RequestIds \cup {None}]
Label == {"idle", "latest", "list", "append", "look_up", "save", "store"}

TypeOK ==
  /\ HistoryTypeOK
  /\ reviews \in [Jobs -> Results \cup {None}]
  /\ requests \in [Jobs -> [0..MaxRevisions -> RequestIds \cup {None}]]
  /\ pc \in [Threads -> Label]
  /\ edit \in [Threads -> EditRequest \cup {None}]
  /\ working \in [Threads -> Working \cup {None}]
  /\ taken \in [Threads -> SUBSET Ids]
  /\ wanted \in [Threads -> Wanted \cup {None}]
  /\ answers \subseteq [job: Jobs, number: Nat, id: RequestIds]

Init ==
  /\ HistoryInit
  /\ reviews = [j \in Jobs |-> None]
  /\ requests = [j \in Jobs |-> [n \in 0..MaxRevisions |-> None]]
  /\ pc = [t \in Threads |-> "idle"]
  /\ edit = [t \in Threads |-> None]
  /\ working = [t \in Threads |-> None]
  /\ taken = [t \in Threads |-> {}]
  /\ wanted = [t \in Threads |-> None]
  /\ answers = {}

(***************************************************************************)
(* Registration of a result, by a processor run.                           *)
(***************************************************************************)

\* Mutation of Register: a result of a later run replaces the review.
RegisterAnyway(j, r) ==
  /\ reviews' = [reviews EXCEPT ![j] = r]
  /\ history' = IF history[j] = <<>>
                THEN [history EXCEPT ![j] = <<RevisionZero(EventsOf[r])>>]
                ELSE history
  /\ UNCHANGED <<requests, threadVars, answers>>

\* Mutation of Register: registering the same result again starts over.
RegisterStartsOver(j, r) ==
  /\ reviews[j] \in {None, r}
  /\ reviews' = [reviews EXCEPT ![j] = r]
  /\ history' = [history EXCEPT ![j] = <<RevisionZero(EventsOf[r])>>]
  /\ UNCHANGED <<requests, threadVars, answers>>

\* InMemoryTranscriptionReviewRegistrationRepository.initialize.  Anything but
\* the very same result object raises and changes nothing.
Register(j, r) ==
  /\ reviews[j] \in {None, r}
  /\ history[j] # <<>> => history[j][1] = RevisionZero(EventsOf[r])
  /\ reviews' = [reviews EXCEPT ![j] = r]
  /\ history' = IF history[j] = <<>>
                THEN [history EXCEPT ![j] = <<RevisionZero(EventsOf[r])>>]
                ELSE history
  /\ UNCHANGED <<requests, threadVars, answers>>

(***************************************************************************)
(* CreateTranscriptionRevision.execute.                                    *)
(***************************************************************************)

Goto(t, from, to) ==
  /\ pc[t] = from
  /\ pc' = [pc EXCEPT ![t] = to]

\* A request whose job has a review (_require_review); others get an error.
ReceiveEdit(t, j) ==
  /\ reviews[j] # None
  /\ Goto(t, "idle", "latest")
  /\ \E base \in 0..(MaxRevisions - 1), batch \in Batches :
       edit' = [edit EXCEPT ![t] = [job |-> j, base |-> base, batch |-> batch]]
  /\ UNCHANGED <<store, requests, working, taken, wanted, answers>>

\* The request has been answered: its locals are gone.
Answer(t) ==
  /\ pc' = [pc EXCEPT ![t] = "idle"]
  /\ edit' = [edit EXCEPT ![t] = None]
  /\ working' = [working EXCEPT ![t] = None]
  /\ taken' = [taken EXCEPT ![t] = {}]
  /\ wanted' = [wanted EXCEPT ![t] = None]

\* Mutation of ReadLatest: the base of the request is not compared.
ReadLatestAnyBase(t) ==
  /\ Goto(t, "latest", "list")
  /\ LET revisions == history[edit[t].job] IN
       /\ revisions # <<>>
       /\ working' = [working EXCEPT ![t] =
            [number |-> edit[t].base, events |-> Latest(revisions)]]
  /\ UNCHANGED <<store, requests, edit, taken, wanted, answers>>

\* self._revisions.latest(job_id), the comparison with the request's base, and
\* the refusal of a request without operations.
ReadLatest(t) ==
  /\ pc[t] = "latest"
  /\ LET revisions == history[edit[t].job] IN
       IF /\ revisions # <<>> /\ edit[t].base = Len(revisions) - 1
          /\ HasOperations(edit[t].batch)
       THEN /\ Goto(t, "latest", "list")
            /\ working' = [working EXCEPT ![t] =
                 [number |-> edit[t].base, events |-> Latest(revisions)]]
            /\ UNCHANGED <<edit, taken, wanted>>
       ELSE Answer(t)
  /\ UNCHANGED <<store, requests, answers>>

\* self._revisions.list(job_id): the history may have grown since ReadLatest.
ReadHistory(t) ==
  /\ Goto(t, "list", "append")
  /\ taken' = [taken EXCEPT ![t] = HistoricalIds(history[edit[t].job])]
  /\ UNCHANGED <<store, requests, edit, working, wanted, answers>>

\* Mutation of AppendRevision: append does not compare expected_latest_revision.
AppendUnchecked(t) ==
  /\ pc[t] = "append"
  /\ LET j == edit[t].job
         number == working[t].number + 1
     IN IF Accepted(edit[t].batch, working[t].events, taken[t])
        THEN /\ Len(history[j]) < MaxRevisions
             /\ history' = [history EXCEPT ![j] =
                  Append(@, Edited(edit[t].batch, working[t].events, number))]
        ELSE UNCHANGED history
  /\ Answer(t)
  /\ UNCHANGED <<reviews, requests, answers>>

\* The operations applied to the working copy and append(), which compares
\* expected_latest_revision under the lock.  Any error leaves the store alone
\* (that a pitch or a time is out of range is one more batch not accepted).
AppendRevision(t) ==
  /\ pc[t] = "append"
  /\ LET j == edit[t].job
         number == working[t].number + 1
     IN IF /\ Accepted(edit[t].batch, working[t].events, taken[t])
           /\ history[j] # <<>> /\ Len(history[j]) = number
        THEN /\ Len(history[j]) < MaxRevisions
             /\ history' = [history EXCEPT ![j] =
                  Append(@, Edited(edit[t].batch, working[t].events, number))]
        ELSE UNCHANGED history
  /\ Answer(t)
  /\ UNCHANGED <<reviews, requests, answers>>

(***************************************************************************)
(* RequestArtifactRegeneration.execute.                                    *)
(***************************************************************************)

\* A request for a revision that exists; others get an error.
ReceiveRegeneration(t, j) ==
  /\ reviews[j] # None
  /\ Goto(t, "idle", "look_up")
  /\ \E n \in 0..(MaxRegenerated - 1) :
       /\ n < Len(history[j])
       /\ wanted' = [wanted EXCEPT ![t] = [job |-> j, number |-> n, id |-> None]]
  /\ UNCHANGED <<store, requests, edit, working, taken, answers>>

Found(t) == requests[wanted[t].job][wanted[t].number]

Return(t, id) ==
  /\ answers' = answers \cup
       {[job |-> wanted[t].job, number |-> wanted[t].number, id |-> id]}
  /\ Answer(t)

\* uuid4 never returns the id of a request that exists or is being built.
FreshId(id) ==
  /\ \A a \in answers : a.id # id
  /\ \A t \in Threads : wanted[t] # None => wanted[t].id # id
  /\ \A j \in Jobs, n \in 0..MaxRevisions : requests[j][n] # id

\* Mutation of LookUp: what is found is returned, even None.
LookUpReturnsNone(t) ==
  /\ pc[t] = "look_up"
  /\ Return(t, Found(t))
  /\ UNCHANGED <<store, requests>>

\* self._requests.get; without a request, a new one is built.
LookUp(t) ==
  /\ pc[t] = "look_up"
  /\ IF Found(t) # None
     THEN Return(t, Found(t))
     ELSE /\ Goto(t, "look_up", "save")
          /\ \E id \in RequestIds :
               /\ FreshId(id)
               /\ wanted' = [wanted EXCEPT ![t].id = id]
          /\ UNCHANGED <<edit, working, taken, answers>>
  /\ UNCHANGED <<store, requests>>

\* Mutation of SaveLooks: the request is returned without being stored.
SaveLooksReturnsNew(t) ==
  /\ pc[t] = "save"
  /\ Return(t, IF Found(t) # None THEN Found(t) ELSE wanted[t].id)
  /\ UNCHANGED <<store, requests>>

\* save: existing = self._requests.get(key).
SaveLooks(t) ==
  /\ pc[t] = "save"
  /\ IF Found(t) # None
     THEN Return(t, Found(t))
     ELSE /\ Goto(t, "save", "store")
          /\ UNCHANGED <<edit, working, taken, wanted, answers>>
  /\ UNCHANGED <<store, requests>>

\* save: self._requests[key] = request.
SaveStores(t) ==
  /\ pc[t] = "store"
  /\ requests' = [requests EXCEPT ![wanted[t].job][wanted[t].number] = wanted[t].id]
  /\ Return(t, wanted[t].id)
  /\ UNCHANGED store

Next ==
  \/ \E j \in Jobs, r \in Results : Register(j, r)
  \/ \E t \in Threads, j \in Jobs : ReceiveEdit(t, j) \/ ReceiveRegeneration(t, j)
  \/ \E t \in Threads :
       \/ ReadLatest(t) \/ ReadHistory(t) \/ AppendRevision(t)
       \/ LookUp(t) \/ SaveLooks(t) \/ SaveStores(t)

Spec == Init /\ [][Next]_vars

(***************************************************************************)
(* Properties.                                                             *)
(***************************************************************************)

\* Readers never see a review without revision zero, revision zero without its
\* review, or a review that is not the source of its revision zero.
ReviewIsRevisionZero ==
  \A j \in Jobs :
    IF reviews[j] = None THEN history[j] = <<>>
    ELSE history[j] # <<>> /\ history[j][1] = RevisionZero(EventsOf[reviews[j]])

\* A reviewer who was told that regeneration is requested sees it requested in
\* every later read: no interleaving loses the last request of a revision.
AnsweredIsRequested == \A a \in answers : requests[a.job][a.number] # None

\* However the calls of several edits interleave, each edit that is answered
\* with a revision took effect at one instant, on the revision before it.
ImplementsHistory == HistorySpec

(***************************************************************************)
(* What the contract says, and the code does not do.                       *)
(***************************************************************************)

\* One request per revision: repeating the call returns the existing request.
OneRequestPerRevision ==
  \A a, b \in answers : a.job = b.job /\ a.number = b.number => a.id = b.id
=============================================================================
