--------------------------- MODULE ScoreRendering ---------------------------
(* infrastructure/verovio_svg.py, application/score_rendering.py and             *)
(* domain/score_rendering.py: the document drawn page by page by an external      *)
(* toolkit. A run of the toolkit is a record: whether it loads the document, the  *)
(* page count it gives, what each page comes out as, and its log after each call. *)
EXTENDS MusicXmlExport

\* The log buffer grows, or is replaced by one that does not begin with the old one.
NewLogContent(current, previous) ==
  IF previous # <<>> /\ IsPrefix(previous, current)
  THEN SubSeq(current, Len(previous) + 1, Len(current))
  ELSE IF current = previous THEN <<>> ELSE current

\* What each call added to the log, for the calls that did: the entries of the diagnostics.
CaptureLogs(logs) ==
  LET Before(i) == IF i = 1 THEN <<>> ELSE logs[i - 1]
  IN SelectSeq([i \in DOMAIN logs |-> NewLogContent(logs[i], Before(i))],
               LAMBDA message : message # <<>>)

\* Load, page count and every page in turn: the first failure discards all of them.
RenderVerdict(toolkit) ==
  IF toolkit.load # "loaded" THEN "load"
  ELSE IF toolkit.page_count <= 0 THEN "page_count"
  ELSE IF \E p \in 1..toolkit.page_count : toolkit.pages[p] \in {"raises", "empty"} THEN "page"
  ELSE "rendered"

\* A page must parse as SVG, and the message of a log entry must not be empty.
RendererOutputAccepted(toolkit) ==
  /\ \A p \in 1..toolkit.page_count : toolkit.pages[p] = "svg"
  /\ \A i \in DOMAIN CaptureLogs(toolkit.logs) : CaptureLogs(toolkit.logs)[i] # <<>>

BuildPages(toolkit) ==
  [p \in 1..toolkit.page_count |-> [page_number |-> p, page_count |-> toolkit.page_count]]

RenderScore(toolkit, document, tempo) ==
  LET pages == BuildPages(toolkit)
  IN [pages |-> pages, logs |-> CaptureLogs(toolkit.logs),
      report |-> [page_count |-> Len(pages), source_musicxml |-> document,
                  source_tempo_revision |-> tempo.revision]]

RenderResultAccepted(result, document, tempo) ==
  /\ result.pages # <<>>
  /\ \A p \in DOMAIN result.pages :
       /\ result.pages[p].page_number = p
       /\ result.pages[p].page_count = Len(result.pages)
  /\ result.report.page_count = Len(result.pages)
  /\ result.report.source_musicxml = document
  /\ result.report.source_tempo_revision = tempo.revision

\* The processor goes on without pages when the renderer or its output fails.
Render(toolkit, document, tempo) ==
  IF RenderVerdict(toolkit) = "rendered" /\ RendererOutputAccepted(toolkit)
     /\ RenderResultAccepted(RenderScore(toolkit, document, tempo), document, tempo)
  THEN {RenderScore(toolkit, document, tempo)} ELSE {}
=============================================================================
