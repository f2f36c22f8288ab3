--------------------------- MODULE MCArtifactStore ---------------------------
(* Bundles of three processor runs of the same job. *)
EXTENDS ArtifactStore, TLC

CONSTANTS a, b, c, midi, musicxml, svg, x, y

ThreeRuns == {a, b, c}
TwoRuns == {a, b}
ThreeNames == {midi, musicxml, svg}
TwoNames == {midi, musicxml}
TwoContents == {x, y}

File(name, content) == [name |-> name, content |-> content]

\* The score could not be rendered in run b; run c has another MusicXML.
MixedRuns ==
  LET full == <<File(midi, x), File(musicxml, x), File(svg, x)>>
      degraded == <<File(midi, x), File(musicxml, x)>>
      other == <<File(midi, x), File(musicxml, y)>>
  IN (a :> full) @@ (b :> degraded) @@ (c :> other)

\* The baseline gave different notes in the second run.
DifferentRuns ==
  (a :> <<File(midi, x), File(musicxml, x)>>) @@ (b :> <<File(midi, y), File(musicxml, y)>>)
=============================================================================
