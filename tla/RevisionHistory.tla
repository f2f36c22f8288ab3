--------------------------- MODULE RevisionHistory ---------------------------
(***************************************************************************)
(* What the revisions of a transcription promise a reviewer (the contract  *)
(* transcription-revisions-api-v1): revision zero is the model's result,   *)
(* each later revision is one batch of operations applied to the one       *)
(* before it, at one instant, and nothing is ever changed or removed.      *)
(* Revisions is the detailed specification that implements this.           *)
(*                                                                         *)
(* An event is its id and the number of the revision that last wrote it,   *)
(* which stands for its pitches and times.  The order of the events of a   *)
(* revision is left out: no operation depends on it.                       *)
(***************************************************************************)
EXTENDS Naturals, Sequences

CONSTANTS
  Jobs,          \* job ids
  ModelIds,      \* event ids "source-N"
  HumanIds,      \* event ids "human-UUID"
  Batches,       \* what a request may ask for: the operations of one edit
  MaxRevisions   \* bound on the revisions of a job, for model checking

Ids == ModelIds \cup HumanIds
Event == [id: Ids, wrote: Nat]
Batch == [update: SUBSET Ids, delete: SUBSET Ids, add: SUBSET HumanIds]

ASSUME HistoryAssumption ==
  /\ ModelIds \cap HumanIds = {}
  /\ Batches \subseteq Batch
  /\ MaxRevisions \in Nat

VARIABLE history     \* the revisions of each job; revision n is at index n + 1

IdsOf(events) == {e.id : e \in events}
HistoricalIds(revisions) == UNION {IdsOf(revisions[k]) : k \in 1..Len(revisions)}
Latest(revisions) == revisions[Len(revisions)]

\* build_revision_zero: the events of the model, numbered by their index.
RevisionZero(ids) == {[id |-> i, wrote |-> 0] : i \in ids}

(***************************************************************************)
(* One edit.                                                               *)
(***************************************************************************)

HasOperations(batch) == batch.update \cup batch.delete \cup batch.add # {}

\* Mutation of Accepted: new ids are compared with the working copy only.
AcceptedIfUnused(batch, events, used) ==
  /\ HasOperations(batch)
  /\ batch.update \cap batch.delete = {}
  /\ batch.update \cup batch.delete \subseteq IdsOf(events)
  /\ batch.add \cap IdsOf(events) = {}

\* The checks of CreateTranscriptionRevision.execute: at least one operation,
\* no target twice, no unknown target, no id of any earlier revision.
Accepted(batch, events, used) ==
  /\ HasOperations(batch)
  /\ batch.update \cap batch.delete = {}
  /\ batch.update \cup batch.delete \subseteq IdsOf(events)
  /\ batch.add \cap (used \cup IdsOf(events)) = {}

\* The operations on the working copy, for the revision with this number.
Edited(batch, events, number) ==
  {e \in events : e.id \notin batch.update \cup batch.delete}
    \cup {[id |-> i, wrote |-> number] : i \in batch.update \cup batch.add}

HistoryTypeOK == history \in [Jobs -> Seq(SUBSET Event)]

HistoryInit == history = [j \in Jobs |-> <<>>]

Open(j) ==
  /\ history[j] = <<>>
  /\ \E ids \in SUBSET ModelIds : history' = [history EXCEPT ![j] = <<RevisionZero(ids)>>]

Edit(j) ==
  /\ Len(history[j]) \in 1..(MaxRevisions - 1)
  /\ \E batch \in Batches :
       /\ Accepted(batch, Latest(history[j]), HistoricalIds(history[j]))
       /\ history' = [history EXCEPT ![j] =
            Append(@, Edited(batch, Latest(@), Len(@)))]

HistoryNext == \E j \in Jobs : Open(j) \/ Edit(j)

HistorySpec == HistoryInit /\ [][HistoryNext]_history

(***************************************************************************)
(* Safety.                                                                 *)
(***************************************************************************)

\* An id identifies one event of the job for ever: the event of an id that was
\* deleted never comes back as another one.
IdsNeverReused ==
  \A j \in Jobs : \A a, b, c \in 1..Len(history[j]) :
    a < b /\ b < c =>
      IdsOf(history[j][a]) \cap IdsOf(history[j][c]) \subseteq IdsOf(history[j][b])

\* No silent overwrite: what a revision did not write itself it took over from
\* the revision before it, and no id stands for two events.
NothingOverwritten ==
  \A j \in Jobs : \A n \in 1..Len(history[j]) :
    /\ \A e \in history[j][n] :
         e.wrote = n - 1 \/ (n > 1 /\ e \in history[j][n - 1])
    /\ \A d, e \in history[j][n] : d.id = e.id => d = e

\* Existing revisions are never modified or removed.
OnlyAppended ==
  [][\A j \in Jobs :
       /\ Len(history'[j]) >= Len(history[j])
       /\ \A n \in 1..Len(history[j]) : history'[j][n] = history[j][n]]_history
=============================================================================
