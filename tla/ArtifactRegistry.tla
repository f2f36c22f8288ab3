-------------------------- MODULE ArtifactRegistry --------------------------
(***************************************************************************)
(* What a caller of RevisionArtifactRepository.save may rely on when the   *)
(* registry of a revision is kept outside the process.  Register and       *)
(* Answer together are save() of InMemoryRevisionArtifactRepository: the   *)
(* first bundle stays, saving an equal one returns it, saving another one  *)
(* is a conflict.  A repository over other stores may also raise; the      *)
(* remaining actions say when, and what is registered then.                *)
(***************************************************************************)
EXTENDS Naturals, Sequences

CONSTANTS
  Runs,       \* processor runs that register a bundle of this revision
  BundleOf    \* the bundle of each run, in the order of its artifacts

VARIABLES
  bundle,     \* the registered bundle, <<>> if there is none
  looked,     \* runs whose save() under way has found nothing registered
  outcome     \* how the last save of each run ended

registryVars == <<bundle, looked, outcome>>

Outcome == {"none", "saved", "conflict", "raced", "unreadable", "broken"}

\* All runs that produce an artifact of this name produce the same bytes.
Agreed(name) ==
  \A r, s \in Runs : \A k \in 1..Len(BundleOf[r]), l \in 1..Len(BundleOf[s]) :
    BundleOf[r][k].name = name /\ BundleOf[s][l].name = name
      => BundleOf[r][k].content = BundleOf[s][l].content

RegistryInit ==
  /\ bundle = <<>>
  /\ looked = {}
  /\ outcome = [r \in Runs |-> "none"]

LookUp(r) ==
  /\ bundle = <<>>
  /\ looked' = looked \cup {r}
  /\ UNCHANGED <<bundle, outcome>>

Ends(r, how) ==
  /\ looked' = looked \ {r}
  /\ outcome' = [outcome EXCEPT ![r] = how]

Register(r) ==
  /\ r \in looked /\ bundle = <<>>
  /\ bundle' = BundleOf[r]
  /\ Ends(r, "saved")

Answer(r) ==
  /\ r \notin looked /\ bundle # <<>>
  /\ Ends(r, IF bundle = BundleOf[r] THEN "saved" ELSE "conflict")
  /\ UNCHANGED bundle

\* Another run has registered its bundle, equal or not, since this one looked.
Race(r) ==
  /\ r \in looked /\ bundle # <<>>
  /\ Ends(r, "raced")
  /\ UNCHANGED bundle

\* The registered bytes cannot be compared: only if runs disagree on an artifact.
Misread(r) ==
  /\ r \notin looked
  /\ \E k \in 1..Len(bundle) : ~Agreed(bundle[k].name)
  /\ Ends(r, "unreadable")
  /\ UNCHANGED bundle

\* A store raised, or the process died: a run that had found nothing registered
\* may have registered its bundle all the same.
Break(r) ==
  /\ Ends(r, "broken")
  /\ \/ UNCHANGED bundle
     \/ r \in looked /\ bundle = <<>> /\ bundle' = BundleOf[r]

RegistryNext ==
  \E r \in Runs : LookUp(r) \/ Register(r) \/ Answer(r) \/ Race(r) \/ Misread(r) \/ Break(r)

RegistrySpec == RegistryInit /\ [][RegistryNext]_registryVars
=============================================================================
