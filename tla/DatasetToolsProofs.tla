------------------------- MODULE DatasetToolsProofs -------------------------
(* Proofs about the dataset tools: the types, that the splits of two plans agree  *)
(* on the groups they share, and what a verification answers about a directory     *)
(* that may change while it is walked.                                              *)
EXTENDS DatasetTools, FiniteSetTheorems, TLAPS

LEMMA SplitIsASplit ==
  ASSUME NEW fraction, NEW proportions
  PROVE  SplitAt(fraction, proportions) \in Splits
BY DEF SplitAt, Splits

LEMMA AssignedType ==
  ASSUME NEW files \in [Paths -> Digests \union {Nothing}], NEW proportions, NEW seed
  PROVE  AssignSplits(files, proportions, seed) \in [Paths -> Splits \union {Nothing}]
BY SplitIsASplit DEF AssignSplits

LEMMA TypeInit ==
  ASSUME Init PROVE TypeOK
<1>1. walked \in [Paths -> Digests \union {Nothing}]
  BY DEF Init, Empty
<1>2. changes \in 0..MaxChanges
  BY DatasetAssumption DEF Init
<1>3. raw \in [Paths -> Contents \union {Nothing}] /\ registry \in Registries
  BY DEF Init
<1>4. plans \in SUBSET Plan /\ shown \in SUBSET (Paths \X Contents) /\ steady \in SUBSET Paths
  BY DEF Init
<1> QED BY <1>1, <1>2, <1>3, <1>4 DEF Init, TypeOK

LEMMA TypeStep ==
  ASSUME TypeOK, [Next]_vars PROVE TypeOK'
<1>1. ASSUME NEW p \in Paths, NEW content \in Contents \union {Nothing}, Change(p, content)
      PROVE  TypeOK'
  <2>1. raw' \in [Paths -> Contents \union {Nothing}] /\ steady' \in SUBSET Paths
    BY <1>1 DEF TypeOK, Change
  <2>2. shown' \in SUBSET (Paths \X Contents)
    BY <1>1 DEF TypeOK, Change
  <2>3. opened' \in [path : Paths, versions : SUBSET Contents] \union {NoFile}
    BY <1>1 DEF TypeOK, Change
  <2>4. changes' \in 0..MaxChanges
    BY <1>1, DatasetAssumption DEF TypeOK, Change
  <2> QED BY <1>1, <2>1, <2>2, <2>3, <2>4 DEF TypeOK, Change
<1>2. ASSUME Fail PROVE TypeOK'
  BY <1>2 DEF TypeOK, Fail, directory
<1>3. ASSUME NEW command \in {"manifest", "verify"}, Start(command) PROVE TypeOK'
  <2>1. shown' \in SUBSET (Paths \X Contents)
    BY <1>3 DEF TypeOK, Start, Present
  <2> QED BY <1>3, <2>1 DEF TypeOK, Start, Empty, Present
<1>4. ASSUME RunManifest \/ RunVerify PROVE TypeOK'
  BY <1>2, <1>3, <1>4 DEF RunManifest, RunVerify
<1>5. ASSUME NEW p \in Paths, OpenFile(p) PROVE TypeOK'
  <2>1. opened' \in [path : Paths, versions : SUBSET Contents]
    BY <1>5 DEF TypeOK, OpenFile
  <2> QED BY <1>5, <2>1 DEF TypeOK, OpenFile, directory
<1>6. ASSUME NEW p \in Paths, OpenFails(p) PROVE TypeOK'
  BY <1>2, <1>6 DEF OpenFails
<1>7. ASSUME CloseFile, ~Fail PROVE TypeOK'
  <2>1. opened \in [path : Paths, versions : SUBSET Contents]
    BY <1>7 DEF TypeOK, CloseFile
  <2>2. PICK digest \in opened.versions \union {Mixed} :
          walked' = [walked EXCEPT ![opened.path] = digest]
    BY <1>7 DEF CloseFile
  <2>3. walked' \in [Paths -> Digests \union {Nothing}]
    BY <2>1, <2>2 DEF TypeOK, Digests
  <2> QED BY <1>7, <2>3 DEF TypeOK, CloseFile, directory
<1>8. ASSUME FinishManifest, ~Fail PROVE TypeOK'
  BY <1>8 DEF TypeOK, FinishManifest, directory
<1>9. ASSUME FinishVerify, ~Fail PROVE TypeOK'
  BY <1>9 DEF TypeOK, FinishVerify, directory
<1>10. ASSUME NEW proportions \in Proportions, NEW seed \in Seeds,
              SplitManifest(proportions, seed)
       PROVE  TypeOK'
  <2>1. AssignSplits(manifest, proportions, seed) \in [Paths -> Splits \union {Nothing}]
    BY <1>10, AssignedType DEF TypeOK, SplitManifest
  <2>2. plans' \in SUBSET Plan
    BY <1>10, <2>1 DEF TypeOK, SplitManifest, Plan
  <2> QED BY <1>10, <2>2 DEF TypeOK, SplitManifest, directory
<1>11. ASSUME UNCHANGED vars PROVE TypeOK'
  BY <1>11 DEF TypeOK, vars
<1> QED
  BY <1>1, <1>2, <1>4, <1>5, <1>6, <1>7, <1>8, <1>9, <1>10, <1>11 DEF Next

(* The directory, the walk, the manifest and the plans keep their types.          *)
THEOREM DatasetTypesKept == Spec => []TypeOK
<1>1. Init => TypeOK
  BY TypeInit
<1>2. TypeOK /\ [Next]_vars => TypeOK'
  BY TypeStep
<1> QED BY <1>1, <1>2, PTL DEF Spec

-----------------------------------------------------------------------------
(* A file is assigned by its group, the seed and the proportions alone.           *)
AssignedByGroup ==
  \A plan \in plans : \A p \in Paths :
    plan.assigned[p] # Nothing =>
      plan.assigned[p] = SplitAt(Bucket[plan.seed][Group[p]], plan.proportions)

LEMMA AssignedByGroupStep ==
  ASSUME AssignedByGroup, [Next]_vars PROVE AssignedByGroup'
<1>1. ASSUME plans' = plans PROVE AssignedByGroup'
  BY <1>1 DEF AssignedByGroup
<1>2. ASSUME NEW proportions \in Proportions, NEW seed \in Seeds,
             SplitManifest(proportions, seed)
      PROVE  AssignedByGroup'
  <2> DEFINE assigned == AssignSplits(manifest, proportions, seed)
             plan == [proportions |-> proportions, seed |-> seed, assigned |-> assigned]
  <2>1. plans' = plans \union {plan}
    BY <1>2 DEF SplitManifest
  <2>2. ASSUME NEW p \in Paths, plan.assigned[p] # Nothing
        PROVE  plan.assigned[p] = SplitAt(Bucket[plan.seed][Group[p]], plan.proportions)
    BY <2>2 DEF AssignSplits
  <2> HIDE DEF plan
  <2> QED BY <2>1, <2>2 DEF AssignedByGroup
<1>3. \/ plans' = plans
      \/ \E proportions \in Proportions, seed \in Seeds : SplitManifest(proportions, seed)
  BY DEF Next, vars, Change, RunManifest, RunVerify, Start, Fail, OpenFile, OpenFails, CloseFile,
         FinishManifest, FinishVerify
<1> QED BY <1>1, <1>2, <1>3

(* However the directory changes between two manifests, the plans made of them     *)
(* with one seed and the same proportions put a group into the same split.          *)
THEOREM GroupsKeepTheirSplit == Spec => []SplitsStable
<1>1. Init => AssignedByGroup
  BY DEF Init, AssignedByGroup
<1>2. AssignedByGroup /\ [Next]_vars => AssignedByGroup'
  BY AssignedByGroupStep
<1>3. AssignedByGroup => SplitsStable
  BY DEF AssignedByGroup, SplitsStable
<1> QED BY <1>1, <1>2, <1>3, PTL DEF Spec

-----------------------------------------------------------------------------
\* What a walk has hashed, or is reading, was there at some time since it began.
WalkedWasShown ==
  tool # "idle" =>
    /\ \A p \in Paths : raw[p] # Nothing => <<p, raw[p]>> \in shown
    /\ \A p \in Paths : walked[p] \in Contents => <<p, walked[p]>> \in shown
    /\ opened # NoFile => \A content \in opened.versions : <<opened.path, content>> \in shown

\* A walk of a directory that holds still has met what the directory holds.
QuietWalk ==
  tool # "idle" /\ quiet =>
    /\ steady = Present
    /\ \A p \in Paths : walked[p] \in {Nothing, raw[p]}
    /\ opened # NoFile => opened.versions = {raw[opened.path]}

\* A manifest is that of the directory as long as the directory holds still.
FaithfulManifest ==
  /\ faithful => manifest \in {raw, NoManifest}
  /\ tool # "idle" /\ faithful => quiet
  /\ tool = "verify" => manifest # NoManifest

WalkInv == TypeOK /\ WalkedWasShown /\ QuietWalk /\ FaithfulManifest

LEMMA WalkInvInit ==
  ASSUME Init PROVE WalkInv
BY TypeInit DEF WalkInv, Init, WalkedWasShown, QuietWalk, FaithfulManifest

\* A walk that is done, of a directory that held still, has hashed all of it.
LEMMA QuietWalkMeetsAll ==
  ASSUME TypeOK, QuietWalk, tool # "idle", quiet, WalkDone
  PROVE  walked = raw
<1>1. ASSUME NEW p \in Paths PROVE walked[p] = raw[p]
  <2>1. walked[p] \in {Nothing, raw[p]}
    BY DEF QuietWalk
  <2>2. CASE raw[p] = Nothing
    BY <2>1, <2>2
  <2>3. CASE raw[p] # Nothing
    BY <2>1, <2>3 DEF QuietWalk, WalkDone, Present
  <2> QED BY <2>2, <2>3
<1> QED BY <1>1 DEF TypeOK

LEMMA WalkInvStep ==
  ASSUME WalkInv, [Next]_vars PROVE WalkInv'
<1>0. TypeOK'
  BY TypeStep DEF WalkInv
<1>1. ASSUME NEW p \in Paths, NEW content \in Contents \union {Nothing}, Change(p, content)
      PROVE  WalkInv'
  <2>1. QuietWalk' /\ FaithfulManifest'
    BY <1>1 DEF WalkInv, Change, QuietWalk, FaithfulManifest
  <2>2. shown \subseteq shown' /\ (content # Nothing => <<p, content>> \in shown')
    BY <1>1 DEF Change
  <2>3. raw' = [raw EXCEPT ![p] = content] /\ raw \in [Paths -> Contents \union {Nothing}]
    BY <1>1 DEF WalkInv, TypeOK, Change
  <2>4. ASSUME tool # "idle", NEW q \in Paths, raw'[q] # Nothing
        PROVE  <<q, raw'[q]>> \in shown'
    <3>1. CASE q = p
      BY <2>2, <2>3, <2>4, <3>1
    <3>2. CASE q # p
      BY <2>2, <2>3, <2>4, <3>2 DEF WalkInv, WalkedWasShown
    <3> QED BY <3>1, <3>2
  <2>5. ASSUME tool # "idle", NEW q \in Paths, walked'[q] \in Contents
        PROVE  <<q, walked'[q]>> \in shown'
    BY <1>1, <2>2, <2>5 DEF WalkInv, WalkedWasShown, Change
  <2>6. ASSUME tool # "idle", opened' # NoFile, NEW c \in opened'.versions
        PROVE  <<opened'.path, c>> \in shown'
    <3>1. CASE opened # NoFile /\ opened.path = p /\ content # Nothing
      <4>1. opened \in [path : Paths, versions : SUBSET Contents]
        BY <3>1 DEF WalkInv, TypeOK
      <4>2. opened'.path = p /\ opened'.versions = opened.versions \union {content}
        BY <1>1, <3>1, <4>1 DEF Change
      <4> QED BY <2>2, <2>6, <3>1, <4>2 DEF WalkInv, WalkedWasShown
    <3>2. CASE ~(opened # NoFile /\ opened.path = p /\ content # Nothing)
      <4>1. opened' = opened
        BY <1>1, <3>2 DEF Change
      <4> QED BY <2>2, <2>6, <4>1 DEF WalkInv, WalkedWasShown
    <3> QED BY <3>1, <3>2
  <2>7. tool' = tool
    BY <1>1 DEF Change
  <2>8. WalkedWasShown'
    BY <2>4, <2>5, <2>6, <2>7 DEF WalkedWasShown
  <2> QED BY <1>0, <2>1, <2>8 DEF WalkInv
<1>2. ASSUME Fail PROVE WalkInv'
  BY <1>0, <1>2 DEF WalkInv, Fail, directory, WalkedWasShown, QuietWalk, FaithfulManifest
<1>3. ASSUME NEW command \in {"manifest", "verify"}, Start(command),
             command = "verify" => manifest # NoManifest
      PROVE  WalkInv'
  <2>1. WalkedWasShown'
    BY <1>3, DatasetAssumption DEF Start, WalkedWasShown, Empty, Present, Digests
  <2>2. QuietWalk'
    BY <1>3 DEF Start, QuietWalk, Empty, Present
  <2>3. FaithfulManifest'
    BY <1>3 DEF WalkInv, Start, FaithfulManifest
  <2> QED BY <1>0, <2>1, <2>2, <2>3 DEF WalkInv
<1>4. ASSUME RunManifest \/ RunVerify PROVE WalkInv'
  BY <1>2, <1>3, <1>4 DEF RunManifest, RunVerify
<1>5. ASSUME NEW p \in Paths, OpenFile(p) PROVE WalkInv'
  <2>1. opened'.path = p /\ opened'.versions = {raw[p]}
    BY <1>5 DEF OpenFile
  <2>2. WalkedWasShown'
    BY <1>5, <2>1 DEF WalkInv, OpenFile, directory, WalkedWasShown
  <2>3. QuietWalk'
    BY <1>5, <2>1 DEF WalkInv, OpenFile, directory, QuietWalk, Present
  <2>4. FaithfulManifest'
    BY <1>5 DEF WalkInv, OpenFile, directory, FaithfulManifest
  <2> QED BY <1>0, <2>2, <2>3, <2>4 DEF WalkInv
<1>6. ASSUME NEW p \in Paths, OpenFails(p) PROVE WalkInv'
  BY <1>2, <1>6 DEF OpenFails
<1>7. ASSUME CloseFile, ~Fail PROVE WalkInv'
  <2>1. opened \in [path : Paths, versions : SUBSET Contents]
    BY <1>7 DEF WalkInv, TypeOK, CloseFile
  <2>2. PICK digest \in IF Cardinality(opened.versions) > 1
                        THEN opened.versions \union {Mixed} ELSE opened.versions :
          walked' = [walked EXCEPT ![opened.path] = digest]
    BY <1>7 DEF CloseFile
  <2>3. /\ opened # NoFile /\ opened' = NoFile /\ tool' = tool /\ raw' = raw /\ steady' = steady
        /\ shown' = shown /\ quiet' = quiet /\ faithful' = faithful /\ manifest' = manifest
    BY <1>7 DEF CloseFile, directory
  <2>4. walked \in [Paths -> Digests \union {Nothing}]
    BY DEF WalkInv, TypeOK
  <2>5. WalkedWasShown'
    BY <2>1, <2>2, <2>3, <2>4, DatasetAssumption DEF WalkInv, WalkedWasShown
  <2>6. ASSUME tool # "idle", quiet PROVE digest = raw[opened.path]
    <3>1. opened.versions = {raw[opened.path]}
      BY <2>3, <2>6 DEF WalkInv, QuietWalk
    <3>2. Cardinality(opened.versions) = 1
      BY <3>1, FS_Singleton
    <3> QED BY <2>2, <3>1, <3>2
  <2>7. QuietWalk'
    BY <2>1, <2>2, <2>3, <2>4, <2>6 DEF WalkInv, QuietWalk, Present
  <2>8. FaithfulManifest'
    BY <2>3 DEF WalkInv, FaithfulManifest
  <2> QED BY <1>0, <2>5, <2>7, <2>8 DEF WalkInv
<1>8. ASSUME FinishManifest, ~Fail PROVE WalkInv'
  <2>1. quiet => walked = raw
    BY <1>8, QuietWalkMeetsAll DEF WalkInv, FinishManifest
  <2> QED
    BY <1>0, <1>8, <2>1
    DEF WalkInv, FinishManifest, directory, WalkedWasShown, QuietWalk, FaithfulManifest
<1>9. ASSUME FinishVerify, ~Fail PROVE WalkInv'
  BY <1>0, <1>9
  DEF WalkInv, FinishVerify, directory, WalkedWasShown, QuietWalk, FaithfulManifest
<1>10. ASSUME NEW proportions \in Proportions, NEW seed \in Seeds,
              SplitManifest(proportions, seed)
       PROVE  WalkInv'
  BY <1>0, <1>10
  DEF WalkInv, SplitManifest, directory, WalkedWasShown, QuietWalk, FaithfulManifest
<1>11. ASSUME UNCHANGED vars PROVE WalkInv'
  BY <1>0, <1>11 DEF WalkInv, vars, WalkedWasShown, QuietWalk, FaithfulManifest, Present
<1> QED
  BY <1>1, <1>2, <1>4, <1>5, <1>6, <1>7, <1>8, <1>9, <1>10, <1>11 DEF Next

\* Nothing missing, unexpected or mismatched: the two listings are the same.
LEMMA ReproducibleIsEqual ==
  ASSUME NEW expected \in [Paths -> Digests \union {Nothing}],
         NEW actual \in [Paths -> Digests \union {Nothing}]
  PROVE  IsReproducible(Comparison(expected, actual)) <=> expected = actual
BY DEF IsReproducible, Comparison

Answered(answer) ==
  /\ quiet => (answer = "reproducible" <=> raw = manifest)
  /\ faithful => answer = "reproducible"
  /\ answer = "reproducible" =>
       \A p \in Paths : manifest[p] \in Contents => <<p, manifest[p]>> \in shown

LEMMA VerifyStep ==
  ASSUME WalkInv, FinishVerify, ~Fail PROVE Answered(verdict')
<1>1. manifest \in [Paths -> Digests \union {Nothing}] /\ walked \in [Paths -> Digests \union {Nothing}]
  BY DEF WalkInv, TypeOK, FinishVerify, FaithfulManifest
<1>2. verdict' = "reproducible" <=> manifest = walked
  BY <1>1, ReproducibleIsEqual DEF FinishVerify
<1>3. quiet => walked = raw
  BY QuietWalkMeetsAll DEF WalkInv, FinishVerify
<1>4. faithful => quiet /\ manifest = raw
  BY DEF WalkInv, FaithfulManifest, FinishVerify
<1>5. \A p \in Paths : walked[p] \in Contents => <<p, walked[p]>> \in shown
  BY DEF WalkInv, WalkedWasShown, FinishVerify
<1> QED BY <1>2, <1>3, <1>4, <1>5 DEF Answered

(* What verify answers is exact for a directory that holds still, whatever is in it *)
(* and however many files there are, and never vouches for a content that no file    *)
(* held during the walk.                                                              *)
THEOREM VerificationIsExact == Spec => VerifyExact
<1>1. Init => WalkInv
  BY WalkInvInit
<1>2. WalkInv /\ [Next]_vars => WalkInv'
  BY WalkInvStep
<1>3. ASSUME WalkInv, [Next]_vars, verdict = "none", verdict' \in {"reproducible", "different"}
      PROVE  Answered(verdict')
  <2>1. FinishVerify /\ ~Fail
    BY <1>3 DEF Next, vars, Change, RunManifest, RunVerify, Start, Fail, OpenFile, OpenFails,
                CloseFile, FinishManifest, SplitManifest
  <2> QED BY <1>3, <2>1, VerifyStep
<1>4. WalkInv /\ [Next]_vars =>
        [verdict = "none" /\ verdict' \in {"reproducible", "different"} =>
           /\ quiet => (verdict' = "reproducible" <=> raw = manifest)
           /\ faithful => verdict' = "reproducible"
           /\ verdict' = "reproducible" =>
                \A p \in Paths : manifest[p] \in Contents => <<p, manifest[p]>> \in shown]_vars
  BY <1>3 DEF Answered
<1> QED BY <1>1, <1>2, <1>4, PTL DEF Spec, VerifyExact
=============================================================================
