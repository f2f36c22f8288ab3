---------------------------- MODULE ArtifactStore ----------------------------
(***************************************************************************)
(* ObjectStorageRevisionArtifactRepository: the artifacts of one revision, *)
(* their descriptors in PostgreSQL and their bytes in an object storage.   *)
(* save() looks for a registered bundle, puts the bytes one object at a    *)
(* time and inserts the rows in one transaction.  No lock and no           *)
(* transaction spans the two stores; the primary key of the bundle table   *)
(* is all that separates two runs that register the same revision.         *)
(*                                                                         *)
(* The digest and size of a descriptor stand for the content they were     *)
(* computed from, so a row is an artifact: its bytes are the right ones if *)
(* the object of its key has this content.                                 *)
(***************************************************************************)
EXTENDS Naturals, Sequences

CONSTANTS
  Runs,         \* processor runs that register a bundle of this revision
  Names,        \* artifact ids, which are also the storage keys
  Contents,     \* what the bytes of an artifact may be
  BundleOf,     \* the bundle of each run, in the order of its artifacts
  Missing,      \* no object under a key
  MaxFailures   \* bound on the store calls that raise and the runs that die

Artifact == [name: Names, content: Contents]

\* RevisionArtifactBundle.__post_init__: not empty, ids unique.
ASSUME StoreAssumption ==
  /\ BundleOf \in [Runs -> Seq(Artifact)]
  /\ \A r \in Runs :
       /\ BundleOf[r] # <<>>
       /\ \A k, l \in 1..Len(BundleOf[r]) :
            BundleOf[r][k].name = BundleOf[r][l].name => k = l
  /\ Missing \notin Contents
  /\ MaxFailures \in Nat

VARIABLES
  rows,       \* revision_artifacts of this revision, in their order
  objects,    \* the object storage
  pc,         \* the next call of each run's save()
  index,      \* the artifact the loop of save() or get_bundle() is at
  found,      \* the rows get_bundle() selected
  outcome,    \* how the last save of each run ended
  failures    \* how many store calls raised or runs died

runVars == <<pc, index, found>>
vars == <<rows, objects, runVars, outcome, failures>>

Label == {"idle", "select", "fetch", "put", "insert"}
Outcome == {"none", "saved", "conflict", "raced", "unreadable", "broken"}

TypeOK ==
  /\ rows \in Seq(Artifact)
  /\ objects \in [Names -> Contents \cup {Missing}]
  /\ pc \in [Runs -> Label]
  /\ index \in [Runs -> Nat \ {0}]
  /\ found \in [Runs -> Seq(Artifact)]
  /\ outcome \in [Runs -> Outcome]
  /\ failures \in Nat

Init ==
  /\ rows = <<>>
  /\ objects = [n \in Names |-> Missing]
  /\ pc = [r \in Runs |-> "idle"]
  /\ index = [r \in Runs |-> 1]
  /\ found = [r \in Runs |-> <<>>]
  /\ outcome = [r \in Runs |-> "none"]
  /\ failures = 0

Goto(r, to, k) ==
  /\ pc' = [pc EXCEPT ![r] = to]
  /\ index' = [index EXCEPT ![r] = k]

\* save() returns or raises.
End(r, how) ==
  /\ Goto(r, "idle", 1)
  /\ found' = [found EXCEPT ![r] = <<>>]
  /\ outcome' = [outcome EXCEPT ![r] = how]

\* A processor run registers its bundle.  The same bundle may come again, whatever
\* became of it: a restarted process has no review that would stop it before this.
CallSave(r) ==
  /\ pc[r] = "idle"
  /\ Goto(r, "select", 1)
  /\ UNCHANGED <<rows, objects, found, outcome, failures>>

\* Mutation of SelectRows: the loops start at index 0.
SelectRowsFromZero(r) ==
  /\ pc[r] = "select"
  /\ found' = [found EXCEPT ![r] = rows]
  /\ Goto(r, IF rows = <<>> THEN "put" ELSE "fetch", 0)
  /\ UNCHANGED <<rows, objects, outcome, failures>>

\* get_bundle: SELECT of the rows; without any, save() goes on to the puts.
SelectRows(r) ==
  /\ pc[r] = "select"
  /\ found' = [found EXCEPT ![r] = rows]
  /\ Goto(r, IF rows = <<>> THEN "put" ELSE "fetch", 1)
  /\ UNCHANGED <<rows, objects, outcome, failures>>

\* get_bundle: the bytes of one row.  Missing bytes raise RuntimeError, bytes
\* of another digest InvalidRevisionArtifactError; after the last row the
\* bundles are compared.
FetchObject(r) ==
  /\ pc[r] = "fetch"
  /\ LET row == found[r][index[r]] IN
       IF objects[row.name] # row.content
       THEN End(r, "unreadable")
       ELSE IF index[r] < Len(found[r])
       THEN Goto(r, "fetch", index[r] + 1) /\ UNCHANGED <<found, outcome>>
       ELSE End(r, IF found[r] = BundleOf[r] THEN "saved" ELSE "conflict")
  /\ UNCHANGED <<rows, objects, failures>>

Put(r) ==
  LET artifact == BundleOf[r][index[r]] IN
    objects' = [objects EXCEPT ![artifact.name] = artifact.content]

\* Mutation of PutObject: the last object is put after the insert.
PutObjectSkipsLast(r) ==
  /\ pc[r] = "put"
  /\ IF index[r] < Len(BundleOf[r])
     THEN Put(r) /\ Goto(r, "put", index[r] + 1)
     ELSE UNCHANGED objects /\ Goto(r, "insert", 1)
  /\ UNCHANGED <<rows, found, outcome, failures>>

\* storage.put of one artifact: it replaces the object under its key.
PutObject(r) ==
  /\ pc[r] = "put"
  /\ Put(r)
  /\ IF index[r] < Len(BundleOf[r])
     THEN Goto(r, "put", index[r] + 1)
     ELSE Goto(r, "insert", 1)
  /\ UNCHANGED <<rows, found, outcome, failures>>

\* Mutation of InsertRows: the rows are replaced (ON CONFLICT DO UPDATE).
InsertRowsUpserts(r) ==
  /\ pc[r] = "insert"
  /\ rows' = BundleOf[r]
  /\ End(r, "saved")
  /\ UNCHANGED <<objects, failures>>

\* One transaction.  With a bundle registered since SelectRows the primary key
\* is violated: IntegrityError, and nothing is inserted.
InsertRows(r) ==
  /\ pc[r] = "insert"
  /\ IF rows = <<>>
     THEN rows' = BundleOf[r] /\ End(r, "saved")
     ELSE UNCHANGED rows /\ End(r, "raced")
  /\ UNCHANGED <<objects, failures>>

\* A call of either store raises, or the process dies.  The reply may be all that
\* was lost: the object is there, or the transaction was committed.
Break(r) ==
  /\ pc[r] # "idle"
  /\ failures < MaxFailures
  /\ failures' = failures + 1
  /\ End(r, "broken")
  /\ \/ UNCHANGED <<rows, objects>>
     \/ pc[r] = "put" /\ Put(r) /\ UNCHANGED rows
     \/ pc[r] = "insert" /\ rows = <<>> /\ rows' = BundleOf[r] /\ UNCHANGED objects

SaveStep(r) ==
  CallSave(r) \/ SelectRows(r) \/ FetchObject(r) \/ PutObject(r) \/ InsertRows(r)

Next == \E r \in Runs : SaveStep(r) \/ Break(r)

Spec == Init /\ [][Next]_vars

(***************************************************************************)
(* Properties.                                                             *)
(***************************************************************************)

\* A metadata row can never point at bytes that do not exist: save() puts every
\* object before it inserts the rows, whichever run's rows come first.
RowsHaveBytes == \A k \in 1..Len(rows) : objects[rows[k].name] # Missing

RowDescribesBytes(k) == objects[rows[k].name] = rows[k].content

\* Runs that have found no rows and have not ended.
Looked == {r \in Runs : pc[r] \in {"put", "insert"}}

Abstract == INSTANCE ArtifactRegistry WITH bundle <- rows, looked <- Looked

\* Overlapping and repeated runs leave a registered row with the bytes it
\* describes, whatever they do to the other artifacts, if they agree on it.
AgreedRowsDescribeBytes ==
  \A k \in 1..Len(rows) : Abstract!Agreed(rows[k].name) => RowDescribesBytes(k)

\* What save() registers and answers.  The rows of the first bundle stay.  A run that
\* looks them up afterwards is told that its own is equal or in conflict, unless the
\* runs disagree on an artifact; the error of the primary key meets only runs that
\* had looked before.  A store that raises leaves all of the rows or none.  This is
\* about the rows: the bytes are the subject of the properties above and below.
ImplementsRegistry == Abstract!RegistrySpec

(***************************************************************************)
(* What the contract says, and the code does not do.                       *)
(***************************************************************************)

\* A row describes the bytes under its key: its digest and size are theirs.
RowsDescribeBytes == \A k \in 1..Len(rows) : RowDescribesBytes(k)
=============================================================================
