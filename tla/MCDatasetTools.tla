--------------------------- MODULE MCDatasetTools ---------------------------
(* Two files of one group, one of another, and one with a name no manifest accepts. *)
EXTENDS DatasetTools, TLC

CONSTANTS a1, b1, b2, unsafe, c1, c2

MCPaths == {a1, b1, b2, unsafe}
MCContents == {c1, c2}
MCSafePaths == {a1, b1, b2}
MCGroup == (a1 :> 1) @@ (b1 :> 2) @@ (b2 :> 2) @@ (unsafe :> 1)

Uses == <<"download", "redistribution">>
Rule(use, decision, conditions) ==
  [use |-> use, decision |-> decision, conditions |-> conditions]
Dataset(id) ==
  [dataset_id |-> id, creators |-> <<"author">>,
   license |-> [kind |-> "custom", identifier_kind |-> "custom", attribution_required |-> TRUE,
                required_citation |-> "paper"],
   use_rules |-> <<Rule("download", "requires_permission", {"request"}),
                   Rule("redistribution", "not_stated", {})>>,
   evidence |-> <<"paper", "record">>]
File(datasets) == [readable |-> TRUE, datasets |-> datasets]
MCRegistries ==
  {File(<<Dataset(1), Dataset(2)>>), File(<<Dataset(1)>>), File(<<Dataset(2), Dataset(1)>>),
   File(<<[Dataset(2) EXCEPT !.use_rules[2].conditions = {"implied"}]>>),
   File(<<[Dataset(2) EXCEPT !.license.required_citation = ""]>>)}

\* The first group is the first of test, the second the last of train.
FortyThirtyThirty == [train |-> 8, validation |-> 6, test |-> 6]
NotWhole == [train |-> 8, validation |-> 6, test |-> 5]
MCProportions == {FortyThirtyThirty, NotWhole}
MCBucket == [seed \in Seeds |-> [group \in 1..2 |-> IF group = 1 THEN 14 ELSE 7]]

Symmetry == Permutations(MCContents) \union Permutations({b1, b2})
=============================================================================
