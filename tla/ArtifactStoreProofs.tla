------------------------- MODULE ArtifactStoreProofs -------------------------
(***************************************************************************)
(* Proofs about ArtifactStore: no row lacks its bytes, rows describe their *)
(* bytes if the runs agree on them, and what becomes of the rows is what   *)
(* ArtifactRegistry allows.                                                *)
(***************************************************************************)
EXTENDS ArtifactStore, TLAPS

\* What save() has done when it is at a label.
Locals ==
  \A r \in Runs :
    /\ pc[r] = "fetch" =>
         rows # <<>> /\ found[r] = rows /\ index[r] \in 1..Len(rows)
    /\ pc[r] = "put" => index[r] \in 1..Len(BundleOf[r])
    /\ pc[r] \in {"put", "insert"} =>
         \A k \in 1..Len(BundleOf[r]) :
           pc[r] = "insert" \/ k < index[r]
             => objects[BundleOf[r][k].name] # Missing

\* The registered bundle is a run's, and each object was put by a run.
Origin ==
  /\ rows = <<>> \/ \E r \in Runs : rows = BundleOf[r]
  /\ \A n \in Names : objects[n] # Missing =>
       \E r \in Runs : \E k \in 1..Len(BundleOf[r]) :
         BundleOf[r][k] = [name |-> n, content |-> objects[n]]

IInv == TypeOK /\ Locals /\ Origin /\ RowsHaveBytes

LEMMA InitInv == Init => IInv
<1> SUFFICES ASSUME Init PROVE IInv
  OBVIOUS
<1>1. TypeOK
  BY DEF Init, TypeOK, Label, Outcome
<1>2. Locals /\ Origin /\ RowsHaveBytes
  BY DEF Init, Locals, Origin, RowsHaveBytes
<1>3. QED
  BY <1>1, <1>2 DEF IInv

\* A save() that ends keeps the types of its locals.
LEMMA EndTypeOK ==
  ASSUME TypeOK, NEW r \in Runs, NEW how \in Outcome, End(r, how),
         rows' \in Seq(Artifact), objects' \in [Names -> Contents \cup {Missing}],
         failures' \in Nat
  PROVE  TypeOK'
<1>1. <<>> \in Seq(Artifact)
  OBVIOUS
<1>2. QED
  BY <1>1 DEF TypeOK, End, Goto, Label

LEMMA NamesOfBundles ==
  \A s \in Runs : \A k \in 1..Len(BundleOf[s]) : BundleOf[s][k].name \in Names
<1> SUFFICES ASSUME NEW s \in Runs, NEW k \in 1..Len(BundleOf[s])
             PROVE  BundleOf[s][k].name \in Names
  OBVIOUS
<1>1. BundleOf[s] \in Seq(Artifact)
  BY StoreAssumption
<1>2. BundleOf[s][k] \in Artifact
  BY <1>1
<1>3. QED
  BY <1>2 DEF Artifact

\* A save() that ends forgets its locals.  The other runs keep what they know, if no
\* object is taken away and rows are inserted where there were none.
LEMMA EndLocals ==
  ASSUME IInv, NEW r \in Runs, NEW how, End(r, how),
         \A n \in Names : objects[n] # Missing => objects'[n] # Missing,
         rows' = rows \/ rows = <<>>
  PROVE  Locals'
<1>1. /\ pc' = [pc EXCEPT ![r] = "idle"] /\ index' = [index EXCEPT ![r] = 1]
      /\ found' = [found EXCEPT ![r] = <<>>]
  BY DEF End, Goto
<1>2. pc'[r] = "idle"
  BY <1>1 DEF IInv, TypeOK
<1>3. ASSUME NEW s \in Runs, s # r
      PROVE  pc'[s] = pc[s] /\ index'[s] = index[s] /\ found'[s] = found[s]
  BY <1>1, <1>3 DEF IInv, TypeOK
<1>4. ASSUME NEW s \in Runs, s # r, pc[s] = "fetch" PROVE rows' = rows
  BY <1>4 DEF IInv, Locals
<1>5. QED
  BY <1>2, <1>3, <1>4, NamesOfBundles DEF IInv, Locals

LEMMA CallSavePreserves ==
  ASSUME IInv, NEW r \in Runs, CallSave(r)
  PROVE  IInv'
<1>1. TypeOK'
  BY DEF IInv, TypeOK, CallSave, Goto, Label
<1>2. Locals'
  BY DEF IInv, TypeOK, Locals, CallSave, Goto
<1>3. Origin' /\ RowsHaveBytes'
  BY DEF IInv, Origin, RowsHaveBytes, CallSave
<1>4. QED
  BY <1>1, <1>2, <1>3 DEF IInv

LEMMA SelectRowsPreserves ==
  ASSUME IInv, NEW r \in Runs, SelectRows(r)
  PROVE  IInv'
<1>1. TypeOK'
  BY DEF IInv, TypeOK, SelectRows, Goto, Label
<1>2. Locals'
  <2> SUFFICES ASSUME NEW s \in Runs
               PROVE  /\ pc'[s] = "fetch" =>
                           rows' # <<>> /\ found'[s] = rows' /\ index'[s] \in 1..Len(rows')
                      /\ pc'[s] = "put" => index'[s] \in 1..Len(BundleOf[s])
                      /\ pc'[s] \in {"put", "insert"} =>
                           \A k \in 1..Len(BundleOf[s]) :
                             pc'[s] = "insert" \/ k < index'[s]
                               => objects'[BundleOf[s][k].name] # Missing
    BY DEF Locals
  <2>1. CASE s = r
    <3>1. /\ pc'[r] = IF rows = <<>> THEN "put" ELSE "fetch"
          /\ index'[r] = 1 /\ found'[r] = rows /\ rows' = rows
      BY DEF IInv, TypeOK, SelectRows, Goto
    <3>2. rows # <<>> => 1 \in 1..Len(rows)
      BY DEF IInv, TypeOK
    <3>3. 1 \in 1..Len(BundleOf[r])
      BY StoreAssumption
    <3>4. QED
      BY <2>1, <3>1, <3>2, <3>3
  <2>2. CASE s # r
    BY <2>2 DEF IInv, TypeOK, Locals, SelectRows, Goto
  <2>3. QED
    BY <2>1, <2>2
<1>3. Origin' /\ RowsHaveBytes'
  BY DEF IInv, Origin, RowsHaveBytes, SelectRows
<1>4. QED
  BY <1>1, <1>2, <1>3 DEF IInv

LEMMA FetchObjectPreserves ==
  ASSUME IInv, NEW r \in Runs, FetchObject(r)
  PROVE  IInv'
<1>1. TypeOK'
  <2>1. UNCHANGED <<rows, objects, failures>>
    BY DEF FetchObject
  <2>2. ASSUME NEW how \in Outcome, End(r, how) PROVE TypeOK'
    BY <2>1, <2>2, EndTypeOK DEF IInv, TypeOK
  <2>3. CASE Goto(r, "fetch", index[r] + 1) /\ UNCHANGED <<found, outcome>>
    <3>1. index[r] + 1 \in Nat \ {0}
      BY DEF IInv, TypeOK
    <3>2. QED
      BY <2>1, <2>3, <3>1 DEF IInv, TypeOK, Goto, Label
  <2>4. QED
    BY <2>2, <2>3 DEF FetchObject, Outcome
<1>2. Locals'
  <2>1. rows' = rows /\ objects' = objects /\ pc[r] = "fetch"
    BY DEF FetchObject
  <2>2. ASSUME NEW how, End(r, how) PROVE Locals'
    BY <2>1, <2>2, EndLocals
  <2>3. CASE objects[found[r][index[r]].name] = found[r][index[r]].content
             /\ index[r] < Len(found[r])
    BY <2>1, <2>3 DEF IInv, TypeOK, Locals, FetchObject, Goto
  <2>4. QED
    BY <2>2, <2>3 DEF FetchObject
<1>3. Origin' /\ RowsHaveBytes'
  BY DEF IInv, Origin, RowsHaveBytes, FetchObject
<1>4. QED
  BY <1>1, <1>2, <1>3 DEF IInv

\* A put stores one artifact of the run, and leaves the other objects.
LEMMA PutStores ==
  ASSUME TypeOK, NEW r \in Runs, index[r] \in 1..Len(BundleOf[r]), Put(r)
  PROVE  /\ BundleOf[r][index[r]] \in Artifact
         /\ objects'[BundleOf[r][index[r]].name] = BundleOf[r][index[r]].content
         /\ \A n \in Names : n # BundleOf[r][index[r]].name => objects'[n] = objects[n]
         /\ objects' \in [Names -> Contents \cup {Missing}]
<1>1. BundleOf[r][index[r]] \in Artifact
  BY StoreAssumption
<1>2. QED
  BY <1>1 DEF TypeOK, Put, Artifact

\* Whether its call returns or not, a put takes no object away.
LEMMA PutKeeps ==
  ASSUME IInv, NEW r \in Runs, pc[r] = "put", Put(r), rows' = rows
  PROVE  /\ index[r] \in 1..Len(BundleOf[r])
         /\ objects' \in [Names -> Contents \cup {Missing}]
         /\ objects'[BundleOf[r][index[r]].name] # Missing
         /\ \A n \in Names : objects[n] # Missing => objects'[n] # Missing
         /\ Origin' /\ RowsHaveBytes'
<1> DEFINE artifact == BundleOf[r][index[r]]
<1>1. index[r] \in 1..Len(BundleOf[r])
  BY DEF IInv, Locals
<1>2. /\ artifact \in Artifact
      /\ objects'[artifact.name] = artifact.content
      /\ \A n \in Names : n # artifact.name => objects'[n] = objects[n]
      /\ objects' \in [Names -> Contents \cup {Missing}]
  BY <1>1, PutStores DEF IInv
<1>3. artifact.name \in Names /\ artifact.content # Missing
  BY <1>2, StoreAssumption DEF Artifact
<1>4. \A n \in Names : objects[n] # Missing => objects'[n] # Missing
  BY <1>2, <1>3
<1>5. Origin'
  <2>1. ASSUME NEW n \in Names, objects'[n] # Missing
        PROVE  \E s \in Runs : \E k \in 1..Len(BundleOf[s]) :
                 BundleOf[s][k] = [name |-> n, content |-> objects'[n]]
    <3>1. CASE n = artifact.name
      <4>1. BundleOf[r][index[r]] = [name |-> n, content |-> objects'[n]]
        BY <1>2, <3>1 DEF Artifact
      <4>2. QED
        BY <1>1, <4>1
    <3>2. CASE n # artifact.name
      BY <1>2, <2>1, <3>2 DEF IInv, Origin
    <3>3. QED
      BY <3>1, <3>2
  <2>2. QED
    BY <2>1 DEF IInv, Origin
<1>6. RowsHaveBytes'
  <2>1. ASSUME NEW k \in 1..Len(rows) PROVE rows[k].name \in Names
    <3>1. rows[k] \in Artifact
      BY DEF IInv, TypeOK
    <3>2. QED
      BY <3>1 DEF Artifact
  <2>2. QED
    BY <1>4, <2>1 DEF IInv, RowsHaveBytes
<1>7. QED
  BY <1>1, <1>2, <1>3, <1>4, <1>5, <1>6

LEMMA PutObjectPreserves ==
  ASSUME IInv, NEW r \in Runs, PutObject(r)
  PROVE  IInv'
<1>1. pc[r] = "put" /\ Put(r) /\ rows' = rows
  BY DEF PutObject
<1>2. /\ index[r] \in 1..Len(BundleOf[r])
      /\ objects' \in [Names -> Contents \cup {Missing}]
      /\ objects'[BundleOf[r][index[r]].name] # Missing
      /\ \A n \in Names : objects[n] # Missing => objects'[n] # Missing
      /\ Origin' /\ RowsHaveBytes'
  BY <1>1, PutKeeps
<1>3. TypeOK'
  <2>1. index[r] + 1 \in Nat \ {0} /\ 1 \in Nat \ {0}
    BY DEF IInv, TypeOK
  <2>2. pc' \in [Runs -> Label] /\ index' \in [Runs -> Nat \ {0}]
    BY <2>1 DEF IInv, TypeOK, PutObject, Goto, Label
  <2>3. QED
    BY <1>2, <2>2 DEF IInv, TypeOK, PutObject
<1>4. Locals'
  <2> SUFFICES ASSUME NEW s \in Runs
               PROVE  /\ pc'[s] = "fetch" =>
                           rows' # <<>> /\ found'[s] = rows' /\ index'[s] \in 1..Len(rows')
                      /\ pc'[s] = "put" => index'[s] \in 1..Len(BundleOf[s])
                      /\ pc'[s] \in {"put", "insert"} =>
                           \A k \in 1..Len(BundleOf[s]) :
                             pc'[s] = "insert" \/ k < index'[s]
                               => objects'[BundleOf[s][k].name] # Missing
    BY DEF Locals
  <2>1. CASE s = r
    <3>1. \A k \in 1..Len(BundleOf[r]) :
            k <= index[r] => objects'[BundleOf[r][k].name] # Missing
      <4> SUFFICES ASSUME NEW k \in 1..Len(BundleOf[r]), k <= index[r]
                   PROVE  objects'[BundleOf[r][k].name] # Missing
        OBVIOUS
      <4>1. CASE k = index[r]
        BY <1>2, <4>1
      <4>2. CASE k < index[r]
        BY <1>1, <1>2, NamesOfBundles, <4>2 DEF IInv, Locals
      <4>3. QED
        BY <1>2, <4>1, <4>2
    <3>2. Len(BundleOf[r]) \in Nat /\ index[r] \in Nat
      BY StoreAssumption DEF IInv, TypeOK
    <3>3. CASE index[r] < Len(BundleOf[r])
      <4>1. pc'[r] = "put" /\ index'[r] = index[r] + 1
        BY <3>3 DEF IInv, TypeOK, PutObject, Goto
      <4>2. QED
        BY <2>1, <3>1, <3>2, <3>3, <4>1
    <3>4. CASE ~(index[r] < Len(BundleOf[r]))
      <4>1. pc'[r] = "insert" /\ index[r] = Len(BundleOf[r])
        BY <1>2, <3>2, <3>4 DEF IInv, TypeOK, PutObject, Goto
      <4>2. QED
        BY <2>1, <3>1, <3>2, <4>1
    <3>5. QED
      BY <3>3, <3>4
  <2>2. CASE s # r
    <3>1. pc'[s] = pc[s] /\ index'[s] = index[s] /\ found' = found /\ rows' = rows
      BY <2>2 DEF IInv, TypeOK, PutObject, Goto
    <3>2. QED
      BY <1>2, NamesOfBundles, <3>1 DEF IInv, Locals
  <2>3. QED
    BY <2>1, <2>2
<1>5. QED
  BY <1>2, <1>3, <1>4 DEF IInv

\* The rows of a run whose objects are all there.
LEMMA InsertedHaveBytes ==
  ASSUME IInv, NEW r \in Runs, pc[r] = "insert", rows' = BundleOf[r], objects' = objects
  PROVE  rows' \in Seq(Artifact) /\ Origin' /\ RowsHaveBytes'
<1>1. rows' \in Seq(Artifact)
  BY StoreAssumption
<1>2. Origin'
  BY DEF IInv, Origin
<1>3. RowsHaveBytes'
  BY DEF IInv, Locals, RowsHaveBytes
<1>4. QED
  BY <1>1, <1>2, <1>3

LEMMA InsertRowsPreserves ==
  ASSUME IInv, NEW r \in Runs, InsertRows(r)
  PROVE  IInv'
<1>1. pc[r] = "insert" /\ objects' = objects /\ failures' = failures
  BY DEF InsertRows
<1>2. PICK how \in Outcome : End(r, how)
  BY DEF InsertRows, Outcome
<1>3. rows' = rows \/ (rows = <<>> /\ rows' = BundleOf[r])
  BY DEF InsertRows
<1>4. rows' \in Seq(Artifact) /\ Origin' /\ RowsHaveBytes'
  <2>1. CASE rows' = rows
    BY <1>1, <2>1 DEF IInv, TypeOK, Origin, RowsHaveBytes
  <2>2. CASE rows' = BundleOf[r]
    BY <1>1, <2>2, InsertedHaveBytes
  <2>3. QED
    BY <1>3, <2>1, <2>2
<1>5. TypeOK'
  <2>1. objects' \in [Names -> Contents \cup {Missing}] /\ failures' \in Nat
    BY <1>1 DEF IInv, TypeOK
  <2>2. QED
    BY <1>2, <1>4, <2>1, EndTypeOK DEF IInv
<1>6. Locals'
  BY <1>1, <1>2, <1>3, EndLocals
<1>7. QED
  BY <1>4, <1>5, <1>6 DEF IInv

\* What took effect before a call raised is what the call would have done.
LEMMA BreakPreserves ==
  ASSUME IInv, NEW r \in Runs, Break(r)
  PROVE  IInv'
<1>1. End(r, "broken") /\ failures' \in Nat
  BY DEF IInv, TypeOK, Break
<1>2. /\ rows' \in Seq(Artifact) /\ objects' \in [Names -> Contents \cup {Missing}]
      /\ \A n \in Names : objects[n] # Missing => objects'[n] # Missing
      /\ rows' = rows \/ rows = <<>>
      /\ Origin' /\ RowsHaveBytes'
  <2>1. CASE UNCHANGED <<rows, objects>>
    BY <2>1 DEF IInv, TypeOK, Origin, RowsHaveBytes
  <2>2. CASE pc[r] = "put" /\ Put(r) /\ UNCHANGED rows
    BY <2>2, PutKeeps DEF IInv, TypeOK
  <2>3. CASE pc[r] = "insert" /\ rows = <<>> /\ rows' = BundleOf[r] /\ UNCHANGED objects
    BY <2>3, InsertedHaveBytes DEF IInv, TypeOK
  <2>4. QED
    BY <2>1, <2>2, <2>3 DEF Break
<1>3. TypeOK'
  BY <1>1, <1>2, EndTypeOK DEF IInv, Outcome
<1>4. Locals'
  BY <1>1, <1>2, EndLocals
<1>5. QED
  BY <1>2, <1>3, <1>4 DEF IInv

LEMMA NextPreserves == IInv /\ [Next]_vars => IInv'
<1> SUFFICES ASSUME IInv, [Next]_vars PROVE IInv'
  OBVIOUS
<1>1. ASSUME NEW r \in Runs, SaveStep(r) PROVE IInv'
  BY <1>1, CallSavePreserves, SelectRowsPreserves, FetchObjectPreserves,
     PutObjectPreserves, InsertRowsPreserves DEF SaveStep
<1>2. ASSUME NEW r \in Runs, Break(r) PROVE IInv'
  BY <1>2, BreakPreserves
<1>3. CASE UNCHANGED vars
  BY <1>3 DEF IInv, TypeOK, Locals, Origin, RowsHaveBytes, vars, runVars
<1>4. QED
  BY <1>1, <1>2, <1>3 DEF Next

LEMMA Invariance == Spec => []IInv
BY InitInv, NextPreserves, PTL DEF Spec

\* Rows, objects and the locals of save() keep their types.
THEOREM TypeCorrect == Spec => []TypeOK
<1>1. IInv => TypeOK
  BY DEF IInv
<1>2. QED
  BY <1>1, Invariance, PTL

\* However runs overlap and wherever they break off, no row lacks its bytes.
THEOREM BytesExist == Spec => []RowsHaveBytes
<1>1. IInv => RowsHaveBytes
  BY DEF IInv
<1>2. QED
  BY <1>1, Invariance, PTL

LEMMA AgreedBytes == IInv => AgreedRowsDescribeBytes
<1> SUFFICES ASSUME IInv, NEW k \in 1..Len(rows), Abstract!Agreed(rows[k].name)
             PROVE  objects[rows[k].name] = rows[k].content
  BY DEF AgreedRowsDescribeBytes, RowDescribesBytes
<1>1. rows[k] \in Artifact /\ objects[rows[k].name] # Missing
  BY DEF IInv, TypeOK, RowsHaveBytes
<1>2. PICK r \in Runs : rows = BundleOf[r]
  BY DEF IInv, Origin
<1>3. PICK s \in Runs : \E l \in 1..Len(BundleOf[s]) :
        BundleOf[s][l] = [name |-> rows[k].name, content |-> objects[rows[k].name]]
  BY <1>1 DEF IInv, Origin, Artifact
<1>4. PICK l \in 1..Len(BundleOf[s]) :
        BundleOf[s][l] = [name |-> rows[k].name, content |-> objects[rows[k].name]]
  BY <1>3
<1>5. BundleOf[r][k].content = BundleOf[s][l].content
  BY <1>2, <1>4 DEF Abstract!Agreed
<1>6. QED
  BY <1>2, <1>4, <1>5

\* A row of an artifact that all runs agree on is never left to describe other
\* bytes than those under its key.
THEOREM BytesAsDescribed == Spec => []AgreedRowsDescribeBytes
BY AgreedBytes, Invariance, PTL

(***************************************************************************)
(* The refinement.                                                         *)
(***************************************************************************)

\* A run that ends is not among those that have looked.
LEMMA EndEnds ==
  ASSUME IInv, NEW r \in Runs, NEW how, End(r, how)
  PROVE  Abstract!Ends(r, how)
<1>1. pc' = [pc EXCEPT ![r] = "idle"] /\ outcome' = [outcome EXCEPT ![r] = how]
  BY DEF End, Goto
<1>2. Looked' = Looked \ {r}
  BY <1>1 DEF IInv, TypeOK, Looked
<1>3. QED
  BY <1>1, <1>2 DEF Abstract!Ends

\* The calls that only look or put.
LEMMA CallsRefine ==
  ASSUME IInv, NEW r \in Runs, CallSave(r) \/ SelectRows(r) \/ PutObject(r)
  PROVE  UNCHANGED <<rows, Looked, outcome>> \/ Abstract!LookUp(r)
<1>1. CASE CallSave(r)
  BY <1>1 DEF CallSave, Goto, IInv, TypeOK, Looked
<1>2. CASE SelectRows(r)
  <2>1. UNCHANGED <<rows, outcome>>
    BY <1>2 DEF SelectRows
  <2>2. CASE rows = <<>>
    <3>1. Looked' = Looked \cup {r}
      BY <1>2, <2>2 DEF SelectRows, Goto, IInv, TypeOK, Looked
    <3>2. QED
      BY <2>1, <2>2, <3>1 DEF Abstract!LookUp
  <2>3. CASE rows # <<>>
    <3>1. Looked' = Looked
      BY <1>2, <2>3 DEF SelectRows, Goto, IInv, TypeOK, Looked
    <3>2. QED
      BY <2>1, <3>1
  <2>4. QED
    BY <2>2, <2>3
<1>3. CASE PutObject(r)
  BY <1>3 DEF PutObject, Goto, IInv, TypeOK, Looked
<1>4. QED
  BY <1>1, <1>2, <1>3

\* A run that has found rows answers, or cannot read bytes that runs disagree on.
LEMMA FetchRefines ==
  ASSUME IInv, NEW r \in Runs, FetchObject(r)
  PROVE  \/ UNCHANGED <<rows, Looked, outcome>>
         \/ Abstract!Answer(r) \/ Abstract!Misread(r)
<1>1. /\ pc[r] = "fetch" /\ rows # <<>> /\ found[r] = rows /\ index[r] \in 1..Len(rows)
      /\ rows' = rows
  BY DEF FetchObject, IInv, Locals
<1>2. r \notin Looked
  BY <1>1 DEF Looked
<1>3. CASE objects[rows[index[r]].name] # rows[index[r]].content
  <2>1. End(r, "unreadable")
    BY <1>1, <1>3 DEF FetchObject
  <2>2. ~Abstract!Agreed(rows[index[r]].name)
    BY <1>1, <1>3, AgreedBytes DEF AgreedRowsDescribeBytes, RowDescribesBytes
  <2>3. QED
    BY <1>1, <1>2, <2>1, <2>2, EndEnds DEF Abstract!Misread
<1>4. CASE Goto(r, "fetch", index[r] + 1) /\ UNCHANGED <<found, outcome>>
  BY <1>1, <1>4 DEF Goto, IInv, TypeOK, Looked
<1>5. CASE End(r, IF found[r] = BundleOf[r] THEN "saved" ELSE "conflict")
  BY <1>1, <1>2, <1>5, EndEnds DEF Abstract!Answer
<1>6. QED
  BY <1>1, <1>3, <1>4, <1>5 DEF FetchObject

LEMMA InsertRefines ==
  ASSUME IInv, NEW r \in Runs, InsertRows(r)
  PROVE  Abstract!Register(r) \/ Abstract!Race(r)
<1>1. r \in Looked
  BY DEF InsertRows, Looked
<1>2. CASE rows = <<>>
  <2>1. rows' = BundleOf[r] /\ End(r, "saved")
    BY <1>2 DEF InsertRows
  <2>2. QED
    BY <1>1, <1>2, <2>1, EndEnds DEF Abstract!Register
<1>3. CASE rows # <<>>
  <2>1. rows' = rows /\ End(r, "raced")
    BY <1>3 DEF InsertRows
  <2>2. QED
    BY <1>1, <1>3, <2>1, EndEnds DEF Abstract!Race
<1>4. QED
  BY <1>2, <1>3

LEMMA BreakRefines ==
  ASSUME IInv, NEW r \in Runs, Break(r)
  PROVE  Abstract!Break(r)
<1>1. Abstract!Ends(r, "broken")
  BY EndEnds DEF Break
<1>2. rows' = rows \/ (r \in Looked /\ rows = <<>> /\ rows' = BundleOf[r])
  BY DEF Break, Looked
<1>3. QED
  BY <1>1, <1>2 DEF Abstract!Break

\* Every step leaves the registry alone or is one of its actions.
LEMMA StepRefines ==
  ASSUME IInv, [Next]_vars
  PROVE  [Abstract!RegistryNext]_(Abstract!registryVars)
<1> USE DEF Abstract!registryVars, Abstract!RegistryNext
<1>1. ASSUME NEW r \in Runs, SaveStep(r)
      PROVE  [Abstract!RegistryNext]_(Abstract!registryVars)
  <2>1. CASE CallSave(r) \/ SelectRows(r) \/ PutObject(r)
    BY <2>1, CallsRefine
  <2>2. CASE FetchObject(r)
    BY <2>2, FetchRefines
  <2>3. CASE InsertRows(r)
    BY <2>3, InsertRefines
  <2>4. QED
    BY <1>1, <2>1, <2>2, <2>3 DEF SaveStep
<1>2. ASSUME NEW r \in Runs, Break(r)
      PROVE  [Abstract!RegistryNext]_(Abstract!registryVars)
  BY <1>2, BreakRefines
<1>3. CASE UNCHANGED vars
  BY <1>3 DEF vars, runVars, Looked
<1>4. QED
  BY <1>1, <1>2, <1>3 DEF Next

\* However saves overlap, break off or are repeated, what is registered and what is
\* answered follows ArtifactRegistry.
THEOREM Refinement == Spec => ImplementsRegistry
<1>1. Init => Abstract!RegistryInit
  BY DEF Init, Abstract!RegistryInit, Looked
<1>2. QED
  BY <1>1, StepRefines, Invariance, PTL DEF Spec, ImplementsRegistry, Abstract!RegistrySpec
=============================================================================
