---------------------------- MODULE DatasetTools ----------------------------
(* The two command lines over a local copy of a dataset, with the modules they   *)
(* call: scripts/prepare_filosax_dataset.py writes the manifest of a directory    *)
(* and verifies the directory against it, scripts/split_filosax_dataset.py plans   *)
(* the splits of a manifest. The directory is walked and hashed file by file, and   *)
(* may change in between. A file whose digest is not that of any of its contents,   *)
(* because it was written while it was read, has the digest Mixed.                   *)
EXTENDS Naturals, FiniteSets, Sequences, Functions

CONSTANTS
  Paths,           \* the relative paths a file may have
  SafePaths,       \* those a manifest accepts
  Group,           \* the first segment of a path, in the order of its text
  Contents,        \* what a file may hold; different contents have different digests
  Nothing, Mixed,  \* no file, and the digest of a torn read
  NoManifest,      \* the manifest has not been written, or cannot be loaded
  NoFile,          \* the walk has no file open
  Registries,      \* registry files the gate may find
  DatasetId,       \* "filosax"
  DatasetUses,     \* DatasetUse, in its order
  Seeds, Proportions, BucketRange,
  Bucket,          \* SHA-256 of a seed and a group, in 0..BucketRange - 1
  MaxChanges, MaxPlans

Digests == Contents \union {Mixed}
Splits == {"train", "validation", "test"}

ASSUME DatasetAssumption ==
  /\ SafePaths \subseteq Paths /\ Group \in [Paths -> Nat]
  /\ Nothing \notin Digests /\ Mixed \notin Contents
  /\ NoManifest \notin [Paths -> Digests \union {Nothing}]
  /\ NoFile \notin [path : Paths, versions : SUBSET Contents]
  /\ BucketRange \in Nat \ {0}
  /\ Bucket \in [Seeds -> [Range(Group) -> 0..(BucketRange - 1)]]
  /\ MaxChanges \in Nat /\ MaxPlans \in Nat

VARIABLES
  raw,             \* the directory: what each path holds, or Nothing
  registry,
  tool,            \* the command that walks the directory, or "idle"
  walked,          \* the digest of each file the walk has hashed
  opened,          \* the file being read, and what it held since it was opened
  steady,          \* paths that have held a file ever since the walk began
  manifest,
  verdict,         \* of the verification under way, or of the last command
  plans,           \* every split plan written so far
  changes,         \* how often the directory has changed
  quiet,           \* history: the directory has not changed since the walk began
  shown,           \* history: what each path held at some time of this walk
  faithful         \* history: the directory has not changed since the walk of manifest began

directory == <<raw, steady, changes>>
vars == <<raw, registry, tool, walked, opened, steady, manifest, verdict, plans, changes,
          quiet, shown, faithful>>

-----------------------------------------------------------------------------
(* The governance registry. What only concerns the form of a text is left out.   *)
UseRuleAccepted(rule) ==
  /\ rule.decision = "not_stated" => rule.conditions = {}
  /\ rule.decision \in {"allowed_with_conditions", "requires_permission"} => rule.conditions # {}

LicenseAccepted(license) ==
  /\ license.identifier_kind = license.kind
  /\ license.attribution_required => license.required_citation # ""

RecordAccepted(record) ==
  /\ record.creators # <<>> /\ IsInjective(record.creators)
  /\ LicenseAccepted(record.license)
  /\ [i \in DOMAIN record.use_rules |-> record.use_rules[i].use] = DatasetUses
  /\ \A i \in DOMAIN record.use_rules : UseRuleAccepted(record.use_rules[i])
  /\ record.evidence # <<>> /\ IsInjective(record.evidence)

\* The ids of the datasets are numbers, in the order of their text.
RegistryAccepted(file) ==
  /\ file.readable /\ file.datasets # <<>>
  /\ \A i \in DOMAIN file.datasets : RecordAccepted(file.datasets[i])
  /\ \A i, j \in DOMAIN file.datasets :
       i < j => file.datasets[i].dataset_id < file.datasets[j].dataset_id

Registered(file) ==
  /\ RegistryAccepted(file)
  /\ \E i \in DOMAIN file.datasets : file.datasets[i].dataset_id = DatasetId

-----------------------------------------------------------------------------
Comparison(expected, actual) ==
  [missing |-> {p \in Paths : expected[p] # Nothing /\ actual[p] = Nothing},
   unexpected |-> {p \in Paths : expected[p] = Nothing /\ actual[p] # Nothing},
   mismatched |-> {p \in Paths : /\ expected[p] # Nothing /\ actual[p] # Nothing
                                 /\ expected[p] # actual[p]}]

\* Mutation of IsReproducible: files the manifest does not list are not looked at.
IsReproducibleSubset(comparison) == comparison.missing = {} /\ comparison.mismatched = {}

IsReproducible(comparison) ==
  comparison.missing = {} /\ comparison.unexpected = {} /\ comparison.mismatched = {}

\* Shares of the bucket range, each less than all of it; their sum may be off by 1e-6.
ProportionsAccepted(proportions) ==
  LET total == proportions.train + proportions.validation + proportions.test
      Tolerated(error) == 1000000 * error <= BucketRange
  IN /\ \A part \in {proportions.train, proportions.validation, proportions.test} :
          part \in 1..(BucketRange - 1)
     /\ Tolerated(total - BucketRange) /\ Tolerated(BucketRange - total)

SplitAt(fraction, proportions) ==
  IF fraction < proportions.train THEN "train"
  ELSE IF fraction < proportions.train + proportions.validation THEN "validation" ELSE "test"

\* Mutation of AssignSplits: the number of listed files of a group goes into its hash.
AssignSplitsBySize(files, proportions, seed) ==
  LET Size(group) == Cardinality({p \in Paths : files[p] # Nothing /\ Group[p] = group})
      Fraction(group) == (Bucket[seed][group] + Size(group) - 1) % BucketRange
  IN [p \in Paths |-> IF files[p] = Nothing THEN Nothing
                      ELSE SplitAt(Fraction(Group[p]), proportions)]

\* Mutation of AssignSplits: files that are not listed are assigned as well.
AssignSplitsToGroups(files, proportions, seed) ==
  [p \in Paths |-> IF files[p] = Nothing THEN Mixed ELSE SplitAt(Bucket[seed][Group[p]], proportions)]

\* Every file goes where the hash of its group falls.
AssignSplits(files, proportions, seed) ==
  [p \in Paths |-> IF files[p] = Nothing THEN Nothing
                   ELSE SplitAt(Bucket[seed][Group[p]], proportions)]

PlanAccepted(assigned) ==
  LET listed == {p \in Paths : assigned[p] # Nothing}
  IN listed # {} /\ \A p, q \in listed : Group[p] = Group[q] => assigned[p] = assigned[q]

-----------------------------------------------------------------------------
Empty == [p \in Paths |-> Nothing]

Init ==
  /\ raw \in [Paths -> Contents \union {Nothing}]
  /\ registry \in Registries
  /\ tool = "idle" /\ walked = Empty /\ opened = NoFile /\ steady = {}
  /\ manifest = NoManifest /\ verdict = "none" /\ plans = {} /\ changes = 0
  /\ quiet = TRUE /\ shown = {} /\ faithful = FALSE

Present == {p \in Paths : raw[p] # Nothing}

\* A file appears, is written or disappears, whatever the tools are doing.
Change(p, content) ==
  /\ changes < MaxChanges /\ content # raw[p]
  /\ raw' = [raw EXCEPT ![p] = content] /\ changes' = changes + 1
  /\ steady' = IF content = Nothing THEN steady \ {p} ELSE steady
  /\ shown' = IF content = Nothing THEN shown ELSE shown \union {<<p, content>>}
  /\ opened' = IF opened # NoFile /\ opened.path = p /\ content # Nothing
               THEN [opened EXCEPT !.versions = @ \union {content}] ELSE opened
  /\ quiet' = FALSE /\ faithful' = FALSE
  /\ UNCHANGED <<registry, tool, walked, manifest, verdict, plans>>

Fail ==
  /\ tool' = "idle" /\ verdict' = "failed" /\ opened' = NoFile
  /\ UNCHANGED <<registry, walked, manifest, plans, quiet, shown, faithful>> /\ UNCHANGED directory

Start(command) ==
  /\ tool' = command /\ verdict' = "none" /\ walked' = Empty /\ opened' = NoFile
  /\ steady' = Present /\ quiet' = TRUE
  /\ shown' = {<<p, raw[p]>> : p \in Present}
  /\ UNCHANGED <<raw, registry, manifest, plans, changes, faithful>>

RunManifest ==
  /\ tool = "idle"
  /\ IF Registered(registry) THEN Start("manifest") ELSE Fail

\* The manifest is loaded before the directory is walked.
RunVerify ==
  /\ tool = "idle"
  /\ IF Registered(registry) /\ manifest # NoManifest THEN Start("verify") ELSE Fail

OpenFile(p) ==
  /\ tool # "idle" /\ opened = NoFile
  /\ raw[p] # Nothing /\ walked[p] = Nothing
  /\ opened' = [path |-> p, versions |-> {raw[p]}]
  /\ UNCHANGED <<registry, tool, walked, manifest, verdict, plans, quiet, shown, faithful>>
  /\ UNCHANGED directory

\* A file that was listed is gone when it is opened.
OpenFails(p) ==
  /\ tool # "idle" /\ opened = NoFile
  /\ raw[p] = Nothing /\ walked[p] = Nothing /\ \E content \in Contents : <<p, content>> \in shown
  /\ Fail

\* An entry with an unsafe path ends the walk.
CloseFile ==
  /\ tool # "idle" /\ opened # NoFile
  /\ IF opened.path \notin SafePaths THEN Fail
     ELSE /\ \E digest \in IF Cardinality(opened.versions) > 1
                           THEN opened.versions \union {Mixed} ELSE opened.versions :
               walked' = [walked EXCEPT ![opened.path] = digest]
          /\ opened' = NoFile
          /\ UNCHANGED <<registry, tool, manifest, verdict, plans, quiet, shown, faithful>>
          /\ UNCHANGED directory

\* A file that came or went during the walk may have been missed; the others were hashed.
WalkDone == opened = NoFile /\ \A p \in steady : walked[p] # Nothing

\* The text is written in place: a stop in between leaves a file that cannot be loaded.
FinishManifest ==
  /\ tool = "manifest" /\ WalkDone
  /\ IF walked = Empty THEN Fail
     ELSE /\ manifest' \in {walked, NoManifest}
          /\ faithful' = quiet /\ tool' = "idle"
          /\ UNCHANGED <<registry, walked, opened, verdict, plans, quiet, shown>>
          /\ UNCHANGED directory

FinishVerify ==
  /\ tool = "verify" /\ WalkDone
  /\ IF walked = Empty THEN Fail
     ELSE /\ verdict' = IF IsReproducible(Comparison(manifest, walked))
                        THEN "reproducible" ELSE "different"
          /\ tool' = "idle"
          /\ UNCHANGED <<registry, walked, opened, manifest, plans, quiet, shown, faithful>>
          /\ UNCHANGED directory

\* The plan of the manifest there is; the directory is not looked at.
SplitManifest(proportions, seed) ==
  /\ tool = "idle" /\ manifest # NoManifest /\ Cardinality(plans) < MaxPlans
  /\ ProportionsAccepted(proportions)
  /\ LET assigned == AssignSplits(manifest, proportions, seed)
     IN /\ PlanAccepted(assigned)
        /\ plans' = plans \union {[proportions |-> proportions, seed |-> seed,
                                   assigned |-> assigned]}
  /\ UNCHANGED <<registry, tool, walked, opened, manifest, verdict, quiet, shown, faithful>>
  /\ UNCHANGED directory

Next ==
  \/ \E p \in Paths, content \in Contents \union {Nothing} : Change(p, content)
  \/ RunManifest \/ RunVerify
  \/ \E p \in Paths : OpenFile(p) \/ OpenFails(p)
  \/ CloseFile \/ FinishManifest \/ FinishVerify
  \/ \E proportions \in Proportions, seed \in Seeds : SplitManifest(proportions, seed)

Spec == Init /\ [][Next]_vars

-----------------------------------------------------------------------------
Plan == [proportions : Proportions, seed : Seeds, assigned : [Paths -> Splits \union {Nothing}]]

(* The directory, the walk and the manifest keep their types, and a plan assigns   *)
(* the files of a manifest to the three splits and nothing else.                    *)
TypeOK ==
  /\ raw \in [Paths -> Contents \union {Nothing}] /\ registry \in Registries
  /\ tool \in {"idle", "manifest", "verify"}
  /\ walked \in [Paths -> Digests \union {Nothing}]
  /\ opened \in [path : Paths, versions : SUBSET Contents] \union {NoFile}
  /\ steady \in SUBSET Paths /\ shown \in SUBSET (Paths \X Contents)
  /\ manifest \in [Paths -> Digests \union {Nothing}] \union {NoManifest}
  /\ verdict \in {"none", "reproducible", "different", "failed"}
  /\ plans \in SUBSET Plan
  /\ changes \in 0..MaxChanges /\ quiet \in BOOLEAN /\ faithful \in BOOLEAN

(* What verify answers. If the directory held still while it was walked, the answer *)
(* is whether it is exactly what the manifest lists; if it held still since the       *)
(* manifest was made, the answer is that it is. And whatever changed in between,       *)
(* every file of a manifest that was reproduced had the listed content at some time     *)
(* of the walk.                                                                          *)
VerifyExact ==
  [][verdict = "none" /\ verdict' \in {"reproducible", "different"} =>
       /\ quiet => (verdict' = "reproducible" <=> raw = manifest)
       /\ faithful => verdict' = "reproducible"
       /\ verdict' = "reproducible" =>
            \A p \in Paths : manifest[p] \in Contents => <<p, manifest[p]>> \in shown]_vars

(* The files of a group are in one split, in one plan and from one plan to the next: *)
(* files that come and go between the manifests of two plans move no other group.     *)
SplitsStable ==
  \A one, other \in plans :
    one.proportions = other.proportions /\ one.seed = other.seed =>
      \A p, q \in Paths :
        Group[p] = Group[q] /\ one.assigned[p] # Nothing /\ other.assigned[q] # Nothing
        => one.assigned[p] = other.assigned[q]
=============================================================================
