------------------------ MODULE ScorePipelineProofs ------------------------
(* Proofs about the note pipeline: the types of its control state, the limit on   *)
(* the size of an upload, that a review and the files of its revision zero are     *)
(* registered together, and lemmas about single notes that hold for every note.     *)
EXTENDS ScorePipeline, SequenceLemmas

\* A call binds its own result, or unbinds everything when it raises.
LEMMA BindDomain ==
  ASSUME NEW name, NEW value, Bind(name, value)
  PROVE  DOMAIN local' = DOMAIN local \union {name} /\ local'[name] = value
BY DEF Bind

LEMMA MinOfTwo ==
  ASSUME NEW a \in Int, NEW b \in Int
  PROVE  Min({a, b}) = IF a <= b THEN a ELSE b
BY DEF Min

LEMMA ReadableBytesBounds ==
  ASSUME upload.size \in Nat, upload.read \in 0..upload.size
  PROVE  /\ ReadableBytes \in Int
         /\ ReadableBytes <= upload.size - upload.read
         /\ ReadableBytes <= MaxSizeBytes - upload.read + 1
         /\ ReadableBytes = 0 /\ upload.read <= MaxSizeBytes => upload.read = upload.size
<1>1. ReadSize(upload.read) \in Int
  BY AudioAssumption DEF ReadSize
<1>2. ReadSize(upload.read) <= MaxSizeBytes - upload.read + 1
  BY AudioAssumption DEF ReadSize
<1>3. upload.read <= MaxSizeBytes => ReadSize(upload.read) > 0
  BY AudioAssumption DEF ReadSize
<1> DEFINE wanted == ReadSize(upload.read)
           left == upload.size - upload.read
<1>4. ReadableBytes = IF wanted <= left THEN wanted ELSE left
  BY <1>1, MinOfTwo DEF ReadableBytes
<1> HIDE DEF wanted
<1>5. wanted \in Int /\ wanted <= MaxSizeBytes - upload.read + 1
      /\ (upload.read <= MaxSizeBytes => wanted > 0)
  BY <1>1, <1>2, <1>3 DEF wanted
<1> QED BY <1>4, <1>5, AudioAssumption

-----------------------------------------------------------------------------
UploadType ==
  upload \in [size : 0..(MaxSizeBytes + 2), read : Nat,
              verdict : {"reading", "accepted", "empty", "too_large"}]

(* An upload is within its limit until it is found to be too large, and its        *)
(* verdict is about all of it.                                                      *)
UploadInv ==
  /\ UploadType
  /\ upload.read <= upload.size
  /\ upload.verdict = "reading" => upload.read <= MaxSizeBytes
  /\ SizeLimitExact

LEMMA UploadInvInit ==
  ASSUME Init PROVE UploadInv
<1>1. PICK s \in 0..(MaxSizeBytes + 2) : upload = [size |-> s, read |-> 0, verdict |-> "reading"]
  BY DEF Init
<1> QED BY <1>1, AudioAssumption DEF UploadInv, UploadType, SizeLimitExact

LEMMA UploadInvStep ==
  ASSUME UploadInv, [Next]_vars PROVE UploadInv'
<1> USE AudioAssumption
<1>1. ASSUME ReadChunk PROVE UploadInv'
  <2>1. PICK count \in 1..ReadableBytes :
          upload' = [upload EXCEPT !.read = upload.read + count,
                                   !.verdict = IF upload.read + count > MaxSizeBytes
                                               THEN "too_large" ELSE @]
    BY <1>1 DEF ReadChunk
  <2>2. /\ upload.size \in 0..(MaxSizeBytes + 2) /\ upload.read \in 0..upload.size
        /\ upload.verdict = "reading"
    BY <1>1 DEF ReadChunk, UploadInv, UploadType
  <2>3. /\ count \in Nat \ {0} /\ count <= upload.size - upload.read
        /\ count <= MaxSizeBytes - upload.read + 1
    BY <2>1, <2>2, ReadableBytesBounds
  <2> DEFINE verdict == IF upload.read + count > MaxSizeBytes THEN "too_large" ELSE "reading"
  <2>4. upload' = [size |-> upload.size, read |-> upload.read + count, verdict |-> verdict]
    BY <2>1, <2>2 DEF UploadInv, UploadType
  <2>5. UploadType'
    BY <2>2, <2>3, <2>4 DEF UploadType
  <2>6. /\ upload'.size = upload.size /\ upload'.read = upload.read + count
        /\ upload'.verdict = verdict
    BY <2>4
  <2> QED BY <2>2, <2>3, <2>5, <2>6 DEF UploadInv, SizeLimitExact
<1>2. ASSUME FinishUpload PROVE UploadInv'
  <2>1. /\ upload.size \in 0..(MaxSizeBytes + 2) /\ upload.read \in 0..upload.size
        /\ upload.verdict = "reading" /\ upload.read <= MaxSizeBytes
    BY <1>2 DEF FinishUpload, UploadInv, UploadType
  <2>2. upload.read = upload.size
    BY <1>2, <2>1, ReadableBytesBounds DEF FinishUpload
  <2>3. /\ upload'.size = upload.size /\ upload'.read = upload.read
        /\ upload'.verdict = IF upload.read = 0 THEN "empty" ELSE "accepted"
        /\ UploadType'
    BY <1>2 DEF FinishUpload, UploadInv, UploadType
  <2> QED BY <2>1, <2>2, <2>3 DEF UploadInv, SizeLimitExact
<1>3. ASSUME upload' = upload PROVE UploadInv'
  BY <1>3 DEF UploadInv, UploadType, SizeLimitExact
<1>4. ReadChunk \/ FinishUpload \/ upload' = upload
  BY DEF Next, vars, Claim, Convert, Transcribe, PostProcessEvents, MarkConfidence,
         TransposePitches, FindTempo, QuantizeRhythm, WriteMidi, WriteScore, RenderPages,
         BuildBundle, RegisterReview, RegisterArtifacts, Observe, Evaluate, Kept
<1> QED BY <1>1, <1>2, <1>3, <1>4

(* However the reads of a stream are cut, and whatever the chunk size and the       *)
(* limit are: an upload within the limit is read to its end and accepted, and no     *)
(* more than one byte too many is read of any other.                                 *)
THEOREM SizeLimitHolds == Spec => []SizeLimitExact
<1>1. Init => UploadInv
  BY UploadInvInit
<1>2. UploadInv /\ [Next]_vars => UploadInv'
  BY UploadInvStep
<1>3. UploadInv => SizeLimitExact
  BY DEF UploadInv
<1> QED BY <1>1, <1>2, <1>3, PTL DEF Spec

-----------------------------------------------------------------------------
ControlType ==
  /\ setup \in Setups /\ run \in 0..MaxRuns /\ stage \in Stages
  /\ DOMAIN local \subseteq StageNames
  /\ heard \subseteq DOMAIN Recordings /\ review \in 0..MaxRuns
  /\ Cardinality(bundle) <= 1 /\ Cardinality(metrics) <= 1

LEMMA ControlTypeInit ==
  ASSUME Init PROVE ControlType
<1>1. Cardinality({}) = 0
  BY FS_EmptySet
<1>2. DOMAIN local = {}
  BY DEF Init, NoLocals
<1>0. run = 0 /\ review = 0 /\ heard = {} /\ bundle = {} /\ metrics = {}
  BY DEF Init
<1>3. run \in 0..MaxRuns /\ review \in 0..MaxRuns
  BY <1>0, PipelineAssumption
<1>4. stage \in Stages /\ setup \in Setups
  BY DEF Init, Stages
<1>5. Cardinality(bundle) <= 1 /\ Cardinality(metrics) <= 1 /\ heard = {}
  BY <1>0, <1>1
<1> QED BY <1>2, <1>3, <1>4, <1>5 DEF ControlType

\* What Continue does to the variables it touches.
LEMMA ContinueType ==
  ASSUME ControlType, NEW name \in StageNames, NEW value, NEW accepted, NEW next \in Stages,
         Continue(name, value, accepted, next)
  PROVE  DOMAIN local' \subseteq StageNames /\ stage' \in Stages
<1>1. CASE accepted
  BY <1>1 DEF Continue, Bind, ControlType
<1>2. CASE ~accepted
  BY <1>2 DEF Continue, Raise, NoLocals, Stages
<1> QED BY <1>1, <1>2

LEMMA RaiseType ==
  ASSUME NEW reason, Raise(reason)
  PROVE  DOMAIN local' \subseteq StageNames /\ stage' \in Stages
BY DEF Raise, NoLocals, Stages

\* A call that binds or raises, and leaves alone what outlives a run.
LocalStep ==
  Kept /\ DOMAIN local' \subseteq StageNames /\ stage' \in Stages /\ heard' \subseteq DOMAIN Recordings

LEMMA LocalSteps ==
  ASSUME ControlType,
         \/ Convert \/ Transcribe \/ PostProcessEvents \/ MarkConfidence \/ TransposePitches
         \/ FindTempo \/ QuantizeRhythm \/ WriteMidi \/ WriteScore \/ RenderPages \/ BuildBundle
         \/ Observe
  PROVE  LocalStep
<1> USE DEF LocalStep
<1>1. CASE Convert
  <2>1. PICK execution \in Conversions :
          LET verdict == ConversionVerdict(execution)
          IN IF verdict \in TerminalCodes
             THEN stage' = "terminal" /\ cause' = verdict /\ UNCHANGED local
             ELSE IF verdict = "converted" THEN stage' = "transcribe" /\ UNCHANGED <<cause, local>>
             ELSE Raise(verdict)
    BY <1>1 DEF Convert
  <2>2. DOMAIN local' \subseteq StageNames /\ stage' \in Stages
    BY <2>1, RaiseType DEF ControlType, Stages
  <2> QED BY <1>1, <2>2 DEF Convert, ControlType
<1>2. CASE Transcribe
  <2>1. PICK engine \in EngineRuns, recording \in IF heard = {} THEN DOMAIN Recordings ELSE heard :
          LET execution == [engine EXCEPT !.output = Recordings[recording]]
              verdict == EngineVerdict(execution)
          IN /\ heard' = IF verdict \in {"transcribed", "invalid_output"} THEN {recording} ELSE heard
             /\ IF verdict = "transcribed"
                THEN LET raw == ConvertBaselineOutput(execution.output)
                     IN Continue("raw", raw, NoteBatchAccepted(raw), "postprocess")
                ELSE Raise(verdict)
    BY <1>2 DEF Transcribe
  <2>2. heard' \subseteq DOMAIN Recordings
    BY <2>1 DEF ControlType
  <2>3. DOMAIN local' \subseteq StageNames /\ stage' \in Stages
    <3>1. "raw" \in StageNames /\ "postprocess" \in Stages
      BY DEF StageNames, Stages
    <3> QED BY <2>1, <3>1, ContinueType, RaiseType
  <2> QED BY <1>2, <2>2, <2>3 DEF Transcribe
<1>3. CASE PostProcessEvents
  BY <1>3, ContinueType DEF PostProcessEvents, StageNames, Stages, ControlType
<1>4. CASE MarkConfidence
  BY <1>4, ContinueType DEF MarkConfidence, StageNames, Stages, ControlType
<1>5. CASE TransposePitches
  BY <1>5, ContinueType, RaiseType DEF TransposePitches, StageNames, Stages, ControlType
<1>6. CASE FindTempo
  BY <1>6, ContinueType DEF FindTempo, StageNames, Stages, ControlType
<1>7. CASE QuantizeRhythm
  BY <1>7, ContinueType DEF QuantizeRhythm, StageNames, Stages, ControlType
<1>8. CASE WriteMidi
  BY <1>8, ContinueType DEF WriteMidi, StageNames, Stages, ControlType
<1>9. CASE WriteScore
  BY <1>9, ContinueType, RaiseType DEF WriteScore, StageNames, Stages, ControlType
<1>10. CASE RenderPages
  BY <1>10, BindDomain DEF RenderPages, StageNames, Stages, ControlType
<1>11. CASE BuildBundle
  BY <1>11, ContinueType DEF BuildBundle, StageNames, Stages, ControlType
<1>12. CASE Observe
  BY <1>12, RaiseType DEF Observe, StageNames, Stages, ControlType
<1> QED
  BY <1>1, <1>2, <1>3, <1>4, <1>5, <1>6, <1>7, <1>8, <1>9, <1>10, <1>11, <1>12

LEMMA ControlTypeStep ==
  ASSUME ControlType, [Next]_vars PROVE ControlType'
<1>1. ASSUME ReadChunk \/ FinishUpload PROVE ControlType'
  BY <1>1 DEF ControlType, ReadChunk, FinishUpload, Stages
<1>2. ASSUME Claim PROVE ControlType'
  <2>0. run < MaxRuns /\ run' = run + 1 /\ run \in 0..MaxRuns
    BY <1>2 DEF ControlType, Claim
  <2>1. run' \in 0..MaxRuns
    BY <2>0, PipelineAssumption
  <2>2. stage' \in Stages
    BY <1>2 DEF Claim, Stages
  <2> QED BY <1>2, <2>1, <2>2 DEF ControlType, Claim
<1>3. ASSUME LocalStep PROVE ControlType'
  BY <1>3 DEF ControlType, LocalStep, Kept
<1>4. ASSUME RegisterReview PROVE ControlType'
  <2>1. DOMAIN local' \subseteq StageNames /\ stage' \in Stages
    BY <1>4, RaiseType DEF ControlType, RegisterReview, Stages
  <2>2. review' \in 0..MaxRuns
    BY <1>4 DEF ControlType, RegisterReview
  <2> QED BY <1>4, <2>1, <2>2 DEF ControlType, RegisterReview
<1>5. ASSUME RegisterArtifacts PROVE ControlType'
  <2>1. DOMAIN local' \subseteq StageNames /\ stage' \in Stages
    BY <1>5, RaiseType DEF ControlType, RegisterArtifacts, Stages
  <2>2. PICK b : bundle' \in {{b}, bundle}
    BY <1>5 DEF RegisterArtifacts
  <2>3. Cardinality({b}) = 1
    BY FS_Singleton
  <2> QED BY <1>5, <2>1, <2>2, <2>3 DEF ControlType, RegisterArtifacts
<1>6. ASSUME Evaluate PROVE ControlType'
  <2>1. PICK m : metrics' = {m}
    BY <1>6 DEF Evaluate
  <2>2. Cardinality({m}) = 1
    BY FS_Singleton
  <2> QED BY <1>6, <2>1, <2>2 DEF ControlType, Evaluate
<1>7. ASSUME UNCHANGED vars PROVE ControlType'
  BY <1>7 DEF ControlType, vars
<1> QED
  BY <1>1, <1>2, <1>3, <1>4, <1>5, <1>6, <1>7, LocalSteps DEF Next

(* The control state of a process call keeps its ranges through every run, failure  *)
(* and retry.                                                                        *)
THEOREM PipelineTypesKept == Spec => []TypeOK
<1>1. Init => UploadInv /\ ControlType
  BY UploadInvInit, ControlTypeInit
<1>2. UploadInv /\ ControlType /\ [Next]_vars => (UploadInv /\ ControlType)'
  BY UploadInvStep, ControlTypeStep
<1>3. UploadInv /\ ControlType => TypeOK
  BY DEF UploadInv, UploadType, ControlType, TypeOK
<1> QED BY <1>1, <1>2, <1>3, PTL DEF Spec

-----------------------------------------------------------------------------
\* The files of a bundle, as RegisteredTogether asks for them.
BundleOfFiles(artifacts) ==
  LET pages == {i \in DOMAIN artifacts : Head(artifacts[i].id) = "svg-page"}
  IN /\ artifacts[1].id = <<"midi">> /\ artifacts[2].id = <<"musicxml">>
     /\ \A i \in pages : /\ artifacts[i].id[2] = i - 2
                         /\ artifacts[i].content.page_count = Cardinality(pages)

\* What the renderer leaves: nothing, or the numbered pages of one score.
NumberedPages(count) == [p \in 1..count |-> [page_number |-> p, page_count |-> count]]

IsRendering(rendered) ==
  \/ rendered = {}
  \/ \E result : \E count \in Nat : rendered = {result} /\ result.pages = NumberedPages(count)

LEMMA RenderIsRendering ==
  ASSUME NEW toolkit \in Toolkits, NEW document, NEW tempo
  PROVE  IsRendering(Render(toolkit, document, tempo))
<1> DEFINE result == RenderScore(toolkit, document, tempo)
           count == toolkit.page_count
<1>1. CASE Render(toolkit, document, tempo) = {}
  BY <1>1 DEF IsRendering
<1>2. CASE Render(toolkit, document, tempo) # {}
  <2>1. Render(toolkit, document, tempo) = {result} /\ RenderVerdict(toolkit) = "rendered"
    BY <1>2 DEF Render
  <2>2. result.pages = NumberedPages(count)
    BY DEF RenderScore, BuildPages, NumberedPages
  <2>3. ~(count <= 0)
    BY <2>1 DEF RenderVerdict
  <2>4. count \in Nat
    BY <2>3, PipelineAssumption
  <2> HIDE DEF result, count
  <2> QED BY <2>1, <2>2, <2>4 DEF IsRendering
<1> QED BY <1>1, <1>2

LEMMA PagesOfRendering ==
  ASSUME NEW rendered, IsRendering(rendered)
  PROVE  \E count \in Nat :
           NumberedPages(count) = IF rendered = {} THEN <<>>
                                  ELSE (CHOOSE result \in rendered : TRUE).pages
<1>1. CASE rendered = {}
  <2>1. NumberedPages(0) = <<>>
    BY DEF NumberedPages
  <2> QED BY <1>1, <2>1
<1>2. CASE rendered # {}
  <2>1. PICK result : \E count \in Nat : rendered = {result} /\ result.pages = NumberedPages(count)
    BY <1>2 DEF IsRendering
  <2>2. PICK count \in Nat : rendered = {result} /\ result.pages = NumberedPages(count)
    BY <2>1
  <2>3. (CHOOSE r \in rendered : TRUE) = result
    BY <2>2
  <2> QED BY <1>2, <2>2, <2>3
<1> QED BY <1>1, <1>2

LEMMA FunctionIsSequence ==
  ASSUME NEW count \in Nat, NEW S, NEW f \in [1..count -> S]
  PROVE  f \in Seq(S) /\ Len(f) = count
OBVIOUS

LEMMA TwoThenMore ==
  ASSUME NEW a, NEW b, NEW count \in Nat, NEW S, NEW f \in [1..count -> S]
  PROVE  /\ DOMAIN (<<a, b>> \o f) = 1..(2 + count)
         /\ (<<a, b>> \o f)[1] = a /\ (<<a, b>> \o f)[2] = b
         /\ \A i \in 3..(2 + count) : (<<a, b>> \o f)[i] = f[i - 2]
<1> DEFINE T == S \union {a, b}
<1>1. f \in Seq(T) /\ Len(f) = count
  <2>1. f \in [1..count -> T]
    OBVIOUS
  <2> HIDE DEF T
  <2> QED BY <2>1, FunctionIsSequence
<1>2. /\ <<a, b>> \in Seq(T) /\ Len(<<a, b>>) = 2
      /\ <<a, b>>[1] = a /\ <<a, b>>[2] = b
  OBVIOUS
<1> DEFINE s == <<a, b>>
           t == s \o f
<1>3. s \in Seq(T) /\ Len(s) = 2 /\ s[1] = a /\ s[2] = b
  BY <1>2
<1> HIDE DEF T, s
<1>4. /\ t \in Seq(T) /\ Len(t) = 2 + count
      /\ \A i \in 1..(2 + count) : t[i] = IF i <= 2 THEN s[i] ELSE f[i - 2]
  <2>1. /\ t \in Seq(T) /\ Len(t) = Len(s) + Len(f)
        /\ \A i \in 1..(Len(s) + Len(f)) : t[i] = IF i <= Len(s) THEN s[i] ELSE f[i - Len(s)]
    BY <1>1, <1>3, ConcatProperties, Zenon
  <2> HIDE DEF t
  <2> QED BY <1>1, <1>3, <2>1
<1> HIDE DEF t
<1>5. DOMAIN t = 1..(2 + count)
  BY <1>4, LenProperties
<1>6. t[1] = a /\ t[2] = b /\ \A i \in 3..(2 + count) : t[i] = f[i - 2]
  BY <1>3, <1>4
<1> QED BY <1>5, <1>6 DEF t, s

\* The files of revision zero are numbered, and every page there is has its file.
LEMMA RevisionZeroHasAllPages ==
  ASSUME NEW midi, NEW document, NEW rendered, IsRendering(rendered)
  PROVE  BundleOfFiles(RevisionZeroBundle(midi, document, rendered))
<1> DEFINE Artifact(id, content, order) == [id |-> id, content |-> content, order |-> order]
           first == Artifact(<<"midi">>, midi, 0)
           second == Artifact(<<"musicxml">>, document, 1)
           Page(p, count) == Artifact(<<"svg-page", p>>, [page_number |-> p, page_count |-> count], p + 1)
<1>1. PICK count \in Nat :
        NumberedPages(count) = IF rendered = {} THEN <<>>
                               ELSE (CHOOSE result \in rendered : TRUE).pages
  BY PagesOfRendering
<1> DEFINE pages == NumberedPages(count)
           svg == [p \in 1..count |-> Page(p, count)]
           bundled == <<first, second>> \o svg
<1>2. RevisionZeroBundle(midi, document, rendered) = bundled
  <2>1. svg = [p \in DOMAIN pages |->
                 Artifact(<<"svg-page", pages[p].page_number>>, pages[p], p + 1)]
    BY DEF NumberedPages
  <2> QED BY <1>1, <2>1 DEF RevisionZeroBundle
<1>3. svg \in [1..count -> {Page(p, count) : p \in 1..count}]
  OBVIOUS
<1>4. /\ first.id = <<"midi">> /\ second.id = <<"musicxml">>
      /\ \A p \in 1..count : svg[p].id = <<"svg-page", p>> /\ svg[p].content.page_count = count
  OBVIOUS
<1> HIDE DEF first, second, svg
<1>5. /\ DOMAIN bundled = 1..(2 + count)
      /\ bundled[1] = first /\ bundled[2] = second
      /\ \A i \in 3..(2 + count) : bundled[i] = svg[i - 2]
  BY <1>3, TwoThenMore
<1> HIDE DEF bundled
<1>6. \A i \in 3..(2 + count) :
        bundled[i].id = <<"svg-page", i - 2>> /\ bundled[i].content.page_count = count
  <2> TAKE i \in 3..(2 + count)
  <2>1. i - 2 \in 1..count
    OBVIOUS
  <2> QED BY <1>4, <1>5, <2>1
<1>7. {i \in DOMAIN bundled : Head(bundled[i].id) = "svg-page"} = 3..(2 + count)
  <2>1. Head(bundled[1].id) # "svg-page" /\ Head(bundled[2].id) # "svg-page"
    BY <1>4, <1>5
  <2>2. \A i \in 3..(2 + count) : Head(bundled[i].id) = "svg-page"
    BY <1>6
  <2>3. DOMAIN bundled = {1, 2} \union 3..(2 + count)
    BY <1>5
  <2> QED BY <2>1, <2>2, <2>3
<1>8. Cardinality(3..(2 + count)) = count
  BY FS_Interval
<1>9. \A i \in 3..(2 + count) : bundled[i].id[2] = i - 2
  BY <1>6
<1>10. bundled[1].id = <<"midi">> /\ bundled[2].id = <<"musicxml">>
  BY <1>4, <1>5
<1> QED BY <1>2, <1>6, <1>7, <1>8, <1>9, <1>10 DEF BundleOfFiles

-----------------------------------------------------------------------------
(* Why they are registered together. The repository refuses the review of another  *)
(* run, so what is there was stored by the run that returns, or by none that can      *)
(* return any more; and a bundle is only saved once its run's review is there.          *)
TogetherInv ==
  /\ stage \notin {"upload", "queued"} => run > 0
  /\ review = 0 => bundle = {}
  /\ \A b \in bundle : b.run = review /\ BundleOfFiles(b.artifacts)
  /\ stage \in {"register", "observe", "returned"} => review = run
  /\ stage \in {"observe", "returned"} => bundle # {}
  /\ stage = "bundle" => IsRendering(local.rendered)
  /\ stage \in {"review", "register"} => BundleOfFiles(local.artifacts)

TogetherStages == {"upload", "queued", "bundle", "review", "register", "observe", "returned"}

\* A step that leads to no stage the invariant says something about.
ElsewhereStep ==
  /\ run' > 0 /\ stage' \notin TogetherStages
  /\ review' = review /\ bundle' = bundle

LEMMA ElsewhereKeepsTogether ==
  ASSUME TogetherInv, ElsewhereStep PROVE TogetherInv'
BY DEF TogetherInv, ElsewhereStep, TogetherStages

LEMMA ContinueStage ==
  ASSUME NEW name, NEW value, NEW accepted, NEW next, Continue(name, value, accepted, next)
  PROVE  stage' = "raised" \/ (stage' = next /\ local'[name] = value)
BY BindDomain DEF Continue, Raise

LEMMA EarlyStagesElsewhere ==
  ASSUME TogetherInv, ControlType,
         \/ Convert \/ Transcribe \/ PostProcessEvents \/ MarkConfidence \/ TransposePitches
         \/ FindTempo \/ QuantizeRhythm \/ WriteMidi \/ WriteScore
  PROVE  ElsewhereStep
<1>1. stage \notin {"upload", "queued"}
  BY DEF Convert, Transcribe, PostProcessEvents, MarkConfidence, TransposePitches,
         FindTempo, QuantizeRhythm, WriteMidi, WriteScore
<1>2. run > 0
  BY <1>1 DEF TogetherInv
<1>3. Kept
  BY DEF Convert, Transcribe, PostProcessEvents, MarkConfidence, TransposePitches,
         FindTempo, QuantizeRhythm, WriteMidi, WriteScore
<1>4. stage' \notin TogetherStages
  <2>1. CASE Convert
    BY <2>1 DEF Convert, Raise, TogetherStages
  <2>2. CASE Transcribe
    BY <2>2, ContinueStage DEF Transcribe, Raise, TogetherStages
  <2>3. CASE PostProcessEvents
    BY <2>3, ContinueStage DEF PostProcessEvents, TogetherStages
  <2>4. CASE MarkConfidence
    BY <2>4, ContinueStage DEF MarkConfidence, TogetherStages
  <2>5. CASE TransposePitches
    BY <2>5, ContinueStage DEF TransposePitches, Raise, TogetherStages
  <2>6. CASE FindTempo
    BY <2>6, ContinueStage DEF FindTempo, TogetherStages
  <2>7. CASE QuantizeRhythm
    BY <2>7, ContinueStage DEF QuantizeRhythm, TogetherStages
  <2>8. CASE WriteMidi
    BY <2>8, ContinueStage DEF WriteMidi, TogetherStages
  <2>9. CASE WriteScore
    BY <2>9, ContinueStage DEF WriteScore, Raise, TogetherStages
  <2> QED BY <2>1, <2>2, <2>3, <2>4, <2>5, <2>6, <2>7, <2>8, <2>9
<1> QED BY <1>2, <1>3, <1>4 DEF ElsewhereStep, Kept

LEMMA TogetherInvStep ==
  ASSUME TogetherInv, ControlType, [Next]_vars PROVE TogetherInv'
<1>1. ASSUME ReadChunk \/ FinishUpload PROVE TogetherInv'
  BY <1>1 DEF TogetherInv, ReadChunk, FinishUpload
<1>2. ASSUME Claim PROVE TogetherInv'
  <2>1. /\ run' = run + 1 /\ run \in 0..MaxRuns /\ stage' = "convert"
        /\ review' = review /\ bundle' = bundle
    BY <1>2 DEF Claim, ControlType
  <2>2. run' > 0 /\ stage' \notin TogetherStages
    BY <2>1, PipelineAssumption DEF TogetherStages
  <2> QED BY <2>1, <2>2, ElsewhereKeepsTogether DEF ElsewhereStep
<1>3. ASSUME RenderPages PROVE TogetherInv'
  <2>1. PICK toolkit \in Toolkits :
          Bind("rendered", Render(toolkit, local.musicxml.document, local.tempo))
    BY <1>3 DEF RenderPages
  <2> DEFINE rendered == Render(toolkit, local.musicxml.document, local.tempo)
  <2>2. IsRendering(rendered)
    BY RenderIsRendering
  <2>3. Bind("rendered", rendered)
    BY <2>1
  <2> HIDE DEF rendered
  <2>4. local'["rendered"] = rendered
    BY <2>3, BindDomain
  <2>5. /\ stage = "render" /\ stage' = "bundle" /\ run' = run /\ review' = review
        /\ bundle' = bundle
    BY <1>3 DEF RenderPages, Kept
  <2> QED BY <2>2, <2>4, <2>5 DEF TogetherInv
<1>4. ASSUME BuildBundle PROVE TogetherInv'
  <2> DEFINE artifacts == RevisionZeroBundle(local.midi.file, local.musicxml.document,
                                             local.rendered)
  <2>1. BundleOfFiles(artifacts)
    BY <1>4, RevisionZeroHasAllPages DEF BuildBundle, TogetherInv
  <2>2. stage' = "raised" \/ (stage' = "review" /\ local'.artifacts = artifacts)
    BY <1>4, ContinueStage DEF BuildBundle
  <2> HIDE DEF artifacts
  <2> QED BY <1>4, <2>1, <2>2 DEF TogetherInv, BuildBundle, Kept
<1>5. ASSUME RegisterReview PROVE TogetherInv'
  <2>1. CASE review' = run /\ review \in {0, run} /\ stage' = "register" /\ local' = local
    BY <1>5, <2>1 DEF TogetherInv, RegisterReview
  <2>2. CASE review' = review /\ stage' = "raised"
    BY <1>5, <2>2 DEF TogetherInv, RegisterReview
  <2> QED BY <1>5, <2>1, <2>2 DEF RegisterReview, ReviewAccepted, Raise
<1>6. ASSUME RegisterArtifacts PROVE TogetherInv'
  <2> DEFINE own == [run |-> run, artifacts |-> local.artifacts]
  <2>1. /\ own.run = review /\ BundleOfFiles(own.artifacts) /\ run > 0 /\ review = run
    BY <1>6 DEF TogetherInv, RegisterArtifacts
  <2>2. /\ bundle' \in {{own}, bundle} /\ run' = run /\ review' = review
        /\ stage' \in {"observe", "raised"} /\ (stage' = "observe" => bundle' = {own})
    BY <1>6 DEF RegisterArtifacts, Raise
  <2> HIDE DEF own
  <2> QED BY <2>1, <2>2 DEF TogetherInv
<1>7. ASSUME Observe PROVE TogetherInv'
  BY <1>7 DEF TogetherInv, Observe, Raise, Kept
<1>8. ASSUME Evaluate PROVE TogetherInv'
  BY <1>8 DEF TogetherInv, Evaluate
<1>9. ASSUME UNCHANGED vars PROVE TogetherInv'
  BY <1>9 DEF TogetherInv, vars
<1> QED
  BY <1>1, <1>2, <1>3, <1>4, <1>5, <1>6, <1>7, <1>8, <1>9,
     EarlyStagesElsewhere, ElsewhereKeepsTogether DEF Next

(* A review and the files of its revision zero belong to one run, and the files are *)
(* complete, whatever fails between registering the one and the others.               *)
THEOREM ReviewAndFilesTogether == Spec => []RegisteredTogether
<1>1. Init => ControlType /\ TogetherInv
  BY ControlTypeInit DEF Init, TogetherInv
<1>2. ControlType /\ TogetherInv /\ [Next]_vars => (ControlType /\ TogetherInv)'
  BY ControlTypeStep, TogetherInvStep
<1>3. TogetherInv => RegisteredTogether
  BY DEF TogetherInv, RegisteredTogether, BundleOfFiles
<1> QED BY <1>1, <1>2, <1>3, PTL DEF Spec

-----------------------------------------------------------------------------
(* The score that is written for a saxophone sounds as it was heard: for every      *)
(* concert pitch whose written pitch is a MIDI note, the step, the alteration and     *)
(* the octave that are spelled, read with the transposition printed for the            *)
(* instrument, are that pitch.                                                          *)
THEOREM SpellingSounds ==
  ASSUME NEW saxophone \in SaxophoneTypes, NEW concert \in Int,
         TransposeConcertPitch(concert, saxophone) \in MidiValues
  PROVE  Sounds(MusicXmlPitch(TransposeConcertPitch(concert, saxophone)),
                InstrumentSpec[saxophone]) = concert
<1> DEFINE written == TransposeConcertPitch(concert, saxophone)
           spelling == PitchClassSpellings[(written % 12) + 1]
<1>1. TotalTransposition(InstrumentSpec[saxophone]) = -WrittenPitchOffset[saxophone]
  <2>1. CASE saxophone \in {"soprano", "alto"}
    BY <2>1 DEF TotalTransposition, InstrumentSpec, WrittenPitchOffset
  <2>2. CASE saxophone \in {"tenor", "baritone"}
    <3>1. (CHOOSE o \in {-1} : TRUE) = -1 /\ {-1} # {}
      OBVIOUS
    <3> QED BY <2>2, <3>1 DEF TotalTransposition, InstrumentSpec, WrittenPitchOffset
  <2> QED BY <2>1, <2>2 DEF SaxophoneTypes
<1>2. written = concert + WrittenPitchOffset[saxophone] /\ WrittenPitchOffset[saxophone] \in Int
  BY DEF TransposeConcertPitch, WrittenPitchOffset, SaxophoneTypes
<1>3. written \in Int /\ written = 12 * (written \div 12) + (written % 12) /\ written % 12 \in 0..11
  BY DEF MidiValues
<1> HIDE DEF written
<1>4. PitchClass[spelling[1]] + spelling[2] = written % 12 /\ spelling[2] \in Int
      /\ PitchClass[spelling[1]] \in Int
  <2> DEFINE class == written % 12
  <2>1. class \in {0, 1, 2, 3, 4, 5, 6, 7, 8, 9, 10, 11}
    BY <1>3
  <2> HIDE DEF class
  <2> QED BY <2>1 DEF PitchClassSpellings, PitchClass, class
<1> HIDE DEF spelling
<1>5. MusicXmlPitch(written) = [step |-> spelling[1], alter |-> spelling[2],
                                octave |-> (written \div 12) - 1]
  BY DEF MusicXmlPitch, spelling
<1>6. Sounds(MusicXmlPitch(written), InstrumentSpec[saxophone]) =
        12 * (written \div 12) + PitchClass[spelling[1]] + spelling[2] - WrittenPitchOffset[saxophone]
  <2> DEFINE octave == written \div 12
  <2>1. octave \in Int
    BY <1>3
  <2>2. /\ MusicXmlPitch(written).octave = octave - 1
        /\ MusicXmlPitch(written).step = spelling[1]
        /\ MusicXmlPitch(written).alter = spelling[2]
    BY <1>5
  <2> HIDE DEF octave
  <2>3. Sounds(MusicXmlPitch(written), InstrumentSpec[saxophone]) =
          12 * (octave - 1 + 1) + PitchClass[spelling[1]] + spelling[2]
            + (-WrittenPitchOffset[saxophone])
    BY <1>1, <2>2 DEF Sounds
  <2>4. Sounds(MusicXmlPitch(written), InstrumentSpec[saxophone]) =
          12 * octave + PitchClass[spelling[1]] + spelling[2] - WrittenPitchOffset[saxophone]
    BY <1>2, <1>4, <2>1, <2>3
  <2> QED BY <2>4 DEF octave
<1>7. Sounds(MusicXmlPitch(written), InstrumentSpec[saxophone]) = concert
  <2> DEFINE octave == written \div 12
             class == written % 12
             step == PitchClass[spelling[1]]
             alter == spelling[2]
             offset == WrittenPitchOffset[saxophone]
  <2>1. octave \in Int /\ class \in Int
    BY <1>3
  <2>2. step \in Int /\ alter \in Int /\ offset \in Int /\ written = concert + offset
    BY <1>2, <1>4
  <2>3. step + alter = class
    BY <1>4
  <2>4. written = 12 * octave + class
    BY <1>3
  <2>5. Sounds(MusicXmlPitch(written), InstrumentSpec[saxophone]) =
          12 * octave + step + alter - offset
    BY <1>6
  <2> HIDE DEF octave, class, step, alter, offset
  <2>6. 12 * octave + step + alter - offset = concert
    BY <2>1, <2>2, <2>3, <2>4
  <2> QED BY <2>5, <2>6
<1> QED BY <1>7 DEF written

-----------------------------------------------------------------------------
\* The notes of a score while their overlaps are resolved, and that they are.
WorkingNotes ==
  [index : Nat, onset : Nat, offset : Nat, minimum : BOOLEAN, overlap : BOOLEAN]

Apart(notes) ==
  /\ \A i \in 1..Len(notes) : notes[i].onset < notes[i].offset
  /\ \A i, j \in 1..Len(notes) : i < j => notes[i].offset <= notes[j].onset

LEMMA MaxOfTwo ==
  ASSUME NEW a \in Int, NEW b \in Int
  PROVE  Max({a, b}) = IF a >= b THEN a ELSE b
BY DEF Max

LEMMA OffsetsAreNumbers ==
  ASSUME NEW notes \in Seq(WorkingNotes), NEW i \in 1..Len(notes)
  PROVE  notes[i].offset \in Nat
<1>1. notes[i] \in WorkingNotes
  BY ElementOfSeq
<1> QED BY <1>1 DEF WorkingNotes

\* A note that is put behind all the others leaves them apart.
LEMMA AppendApart ==
  ASSUME NEW notes \in Seq(WorkingNotes), NEW note \in WorkingNotes, Apart(notes),
         note.onset < note.offset,
         \A i \in 1..Len(notes) : notes[i].offset <= note.onset
  PROVE  Append(notes, note) \in Seq(WorkingNotes) /\ Apart(Append(notes, note))
<1>1. /\ Append(notes, note) \in Seq(WorkingNotes) /\ Len(Append(notes, note)) = Len(notes) + 1
      /\ \A i \in 1..Len(notes) : Append(notes, note)[i] = notes[i]
      /\ Append(notes, note)[Len(notes) + 1] = note
      /\ Len(notes) \in Nat
  OBVIOUS
<1> DEFINE all == Append(notes, note)
<1> HIDE DEF all
<1>2. \A i \in 1..Len(all) : i \in 1..Len(notes) \/ i = Len(notes) + 1
  BY <1>1 DEF all
<1>3. \A i \in 1..Len(all) : all[i].onset < all[i].offset
  BY <1>1, <1>2 DEF all, Apart
<1>4. \A i, j \in 1..Len(all) : i < j => all[i].offset <= all[j].onset
  BY <1>1, <1>2 DEF all, Apart
<1> QED BY <1>1, <1>3, <1>4 DEF all, Apart

\* A last note that is cut, but not to nothing, leaves them apart as well.
LEMMA CutApart ==
  ASSUME NEW notes \in Seq(WorkingNotes), notes # <<>>, Apart(notes),
         NEW last \in WorkingNotes, last.onset = notes[Len(notes)].onset,
         last.onset < last.offset
  PROVE  LET cut == [notes EXCEPT ![Len(notes)] = last]
         IN /\ cut \in Seq(WorkingNotes) /\ Apart(cut) /\ Len(cut) = Len(notes)
            /\ cut[Len(notes)] = last
            /\ \A i \in 1..(Len(notes) - 1) : cut[i] = notes[i]
<1> DEFINE cut == [notes EXCEPT ![Len(notes)] = last]
<1>1. Len(notes) \in Nat \ {0}
  BY EmptySeq
<1>2. /\ cut \in Seq(WorkingNotes) /\ Len(cut) = Len(notes)
      /\ \A i \in 1..Len(notes) : cut[i] = IF i = Len(notes) THEN last ELSE notes[i]
  BY <1>1, ExceptSeq
<1> HIDE DEF cut
<1>3. \A i \in 1..Len(cut) : cut[i].onset < cut[i].offset
  BY <1>1, <1>2 DEF Apart
<1>4. \A i, j \in 1..Len(cut) : i < j => cut[i].offset <= cut[j].onset
  BY <1>1, <1>2 DEF Apart
<1>5. Apart(cut)
  BY <1>3, <1>4 DEF Apart
<1>6. cut[Len(notes)] = last /\ \A i \in 1..(Len(notes) - 1) : cut[i] = notes[i]
  BY <1>1, <1>2
<1> QED BY <1>2, <1>5, <1>6 DEF cut

(* One step of the resolution of overlaps: whatever note comes next, wherever it     *)
(* starts, the notes that are there stay apart from one another and from it, in the   *)
(* order they come, and no note is cut to nothing.                                     *)
THEOREM OverlapIsResolved ==
  ASSUME NEW resolved \in Seq(WorkingNotes), NEW current \in WorkingNotes,
         Apart(resolved), current.onset < current.offset
  PROVE  /\ ResolveOverlap(resolved, current) \in Seq(WorkingNotes)
         /\ Apart(ResolveOverlap(resolved, current))
         /\ Len(ResolveOverlap(resolved, current)) = Len(resolved) + 1
<1> DEFINE n == Len(resolved)
           last == resolved[n]
<1>1. CASE resolved = <<>>
  <2>1. ResolveOverlap(resolved, current) = Append(resolved, current)
    BY <1>1 DEF ResolveOverlap
  <2>2. Len(resolved) = 0
    BY <1>1
  <2>3. \A i \in 1..Len(resolved) : resolved[i].offset <= current.onset
    BY <2>2
  <2>4. Len(Append(resolved, current)) = Len(resolved) + 1
    OBVIOUS
  <2> QED BY <2>1, <2>3, <2>4, AppendApart
<1>2. CASE resolved # <<>>
  <2>1. n \in Nat \ {0} /\ last \in WorkingNotes /\ Last(resolved) = last
    BY <1>2, EmptySeq DEF Last
  <2>2. /\ last.onset \in Nat /\ last.offset \in Nat
        /\ current.onset \in Nat /\ current.offset \in Nat
        /\ \A i \in 1..n : resolved[i].offset \in Nat
    <3>1. \A i \in 1..n : resolved[i].offset \in Nat
      BY OffsetsAreNumbers
    <3> QED BY <2>1, <3>1 DEF WorkingNotes
  <2>3. \A notes \in Seq(WorkingNotes), note \in WorkingNotes : Len(Append(notes, note)) = Len(notes) + 1
    OBVIOUS
  <2>4. \A i \in 1..n : resolved[i].offset <= last.offset
    <3> TAKE i \in 1..n
    <3>1. CASE i = n
      BY <2>2, <3>1
    <3>2. CASE i < n
      <4>1. resolved[i].offset <= last.onset /\ last.onset < last.offset
        BY <2>1, <3>2 DEF Apart
      <4> QED BY <2>2, <4>1
    <3> QED BY <2>1, <3>1, <3>2
  <2>5. CASE current.onset >= last.offset
    <3>1. ResolveOverlap(resolved, current) = Append(resolved, current)
      BY <2>1, <2>5 DEF ResolveOverlap
    <3>2. \A i \in 1..n : resolved[i].offset <= current.onset
      BY <2>4, <2>5, <2>2
    <3> QED BY <2>3, <3>1, <3>2, AppendApart
  <2>6. CASE ~(current.onset >= last.offset) /\ last.onset < current.onset
    <3> DEFINE shorter == [last EXCEPT !.offset = current.onset, !.overlap = TRUE]
               cut == [resolved EXCEPT ![n] = shorter]
    <3>1. ResolveOverlap(resolved, current) = Append(cut, current)
      BY <1>2, <2>1, <2>6 DEF ResolveOverlap
    <3>2. /\ shorter \in WorkingNotes /\ shorter.onset = last.onset
          /\ shorter.offset = current.onset
      BY <2>1 DEF WorkingNotes
    <3> HIDE DEF shorter
    <3>3. /\ cut \in Seq(WorkingNotes) /\ Apart(cut) /\ Len(cut) = n /\ cut[n] = shorter
      BY <1>2, <2>6, <3>2, CutApart
    <3> HIDE DEF cut
    <3>4. \A i \in 1..Len(cut) : cut[i].offset <= current.onset
      <4> TAKE i \in 1..Len(cut)
      <4>1. CASE i = n
        BY <2>2, <3>2, <3>3, <4>1
      <4>2. CASE i < n
        <5>1. cut[i].offset <= cut[n].onset
          BY <2>1, <3>3, <4>2 DEF Apart
        <5>2. cut[i].offset \in Nat
          BY <3>3, OffsetsAreNumbers
        <5> QED BY <2>6, <2>2, <3>2, <3>3, <5>1, <5>2
      <4> QED BY <2>1, <3>3, <4>1, <4>2
    <3> QED BY <2>3, <3>1, <3>3, <3>4, AppendApart
  <2>7. CASE ~(current.onset >= last.offset) /\ ~(last.onset < current.onset)
    <3> DEFINE onset == last.offset
               moved == [current EXCEPT !.onset = onset,
                                        !.offset = Max({current.offset, onset + 1}),
                                        !.overlap = TRUE]
    <3>1. ResolveOverlap(resolved, current) = Append(resolved, moved)
      BY <1>2, <2>1, <2>7 DEF ResolveOverlap
    <3>2. Max({current.offset, onset + 1}) \in Nat /\ Max({current.offset, onset + 1}) > onset
      <4>1. current.offset \in Int /\ onset + 1 \in Int
        BY <2>2
      <4>2. Max({current.offset, onset + 1}) =
              IF current.offset >= onset + 1 THEN current.offset ELSE onset + 1
        BY <4>1, MaxOfTwo
      <4> QED BY <2>2, <4>2
    <3>3. moved \in WorkingNotes /\ moved.onset = onset /\ moved.offset > onset
      BY <2>1, <3>2 DEF WorkingNotes
    <3> HIDE DEF moved
    <3>4. moved.onset < moved.offset /\ \A i \in 1..n : resolved[i].offset <= moved.onset
      BY <2>4, <2>2, <3>3
    <3> QED BY <2>3, <3>1, <3>3, <3>4, AppendApart
  <2> QED BY <2>5, <2>6, <2>7
<1> QED BY <1>1, <1>2

Batches == Seq(NoteRecords)

\* What post-processing has found after some of the notes.
Findings == [output : Batches, removed : Nat, keys : SUBSET (Int \X Int \X Int)]

Nothing == [output |-> <<>>, removed |-> 0, keys |-> {}]

LEMMA DeduplicateType ==
  ASSUME NEW done \in Findings, NEW event \in NoteRecords
  PROVE  Deduplicate(done, event) \in Findings
<1> DEFINE slots == {i \in DOMAIN done.output : DuplicateKey(done.output[i]) = DuplicateKey(event)}
<1>1. CASE slots = {}
  <2>1. Deduplicate(done, event) = [done EXCEPT !.output = Append(@, event)]
    BY <1>1 DEF Deduplicate
  <2>2. Append(done.output, event) \in Batches
    BY DEF Findings, Batches
  <2> QED BY <2>1, <2>2 DEF Findings
<1>2. CASE slots # {}
  <2> DEFINE slot == CHOOSE i \in slots : TRUE
  <2>1. slot \in slots
    BY <1>2
  <2> HIDE DEF slot
  <2>2. Deduplicate(done, event) =
          [output |-> IF CandidateIsPreferred(event, done.output[slot])
                      THEN [done.output EXCEPT ![slot] = event] ELSE done.output,
           removed |-> done.removed + 1, keys |-> done.keys \union {DuplicateKey(event)}]
    BY <1>2 DEF Deduplicate, slot
  <2>3. [done.output EXCEPT ![slot] = event] \in Batches /\ done.output \in Batches
    BY <2>1 DEF Findings, Batches
  <2>4. DuplicateKey(event) \in Int \X Int \X Int
    BY DEF DuplicateKey, NoteRecords, MidiValues
  <2> QED BY <2>2, <2>3, <2>4 DEF Findings
<1> QED BY <1>1, <1>2

LEMMA NothingFound ==
  Nothing \in Findings
BY DEF Nothing, Findings, Batches

LEMMA DeduplicateFold ==
  ASSUME NEW seq \in Batches
  PROVE  \E row \in [0..Len(seq) -> Findings] :
           /\ row[0] = Nothing
           /\ \A k \in 1..Len(seq) : row[k] = Deduplicate(row[k - 1], seq[k])
           /\ FoldLeft(Deduplicate, Nothing, seq) = row[Len(seq)]
<1> DEFINE n == Len(seq)
           step == [p \in Findings \X (1..n) |-> Deduplicate(p[1], seq[p[2]])]
           Is(g) == g = [s \in SUBSET (1..n) |->
                           IF s = {} THEN Nothing ELSE Deduplicate(g[s \ {Max(s)}], seq[Max(s)])]
           h == CHOOSE g : Is(g)
<1>1. n \in Nat /\ DOMAIN seq = 1..n /\ \A k \in 1..n : seq[k] \in NoteRecords
  BY DEF Batches
<1>2. FoldLeft(Deduplicate, Nothing, seq) = h[1..n]
  BY <1>1 DEF FoldLeft, MapThenFoldSet
<1>3. Nothing \in Findings /\ step \in Steps(Findings, n)
  BY <1>1, DeduplicateType, NothingFound DEF Steps
<1> HIDE DEF step
<1>4. \E g \in FoldFunctions(Findings, n) : IsFold(g, n, Nothing, step)
  BY <1>1, <1>3, FoldExists
<1>5. PICK g \in FoldFunctions(Findings, n) : IsFold(g, n, Nothing, step)
  BY <1>4
<1>6. Is(g)
  <2>1. ASSUME NEW s \in SUBSET (1..n)
        PROVE  g[s] = IF s = {} THEN Nothing ELSE Deduplicate(g[s \ {Max(s)}], seq[Max(s)])
    <3>1. CASE s = {}
      BY <1>5, <3>1 DEF IsFold
    <3>2. CASE s # {}
      <4>1. Max(s) \in 1..n /\ g[s \ {Max(s)}] \in Findings
        BY <1>1, <1>5, <3>2, GreatestOfSome DEF FoldFunctions
      <4> HIDE DEF n
      <4> QED BY <1>5, <3>2, <4>1 DEF step, IsFold
    <3> QED BY <3>1, <3>2
  <2>2. g = [s \in SUBSET (1..n) |-> g[s]]
    BY <1>5 DEF FoldFunctions
  <2> QED BY <2>1, <2>2
<1>7. Is(h)
  BY <1>6
<1> HIDE DEF h
<1>8. h[{}] = Nothing /\ \A k \in 1..n : h[1..k] = Deduplicate(h[1..(k - 1)], seq[k])
  <2>1. h[{}] = Nothing
    BY <1>7
  <2>2. ASSUME NEW k \in 1..n PROVE h[1..k] = Deduplicate(h[1..(k - 1)], seq[k])
    <3>1. k \in Nat \ {0} /\ 1..k \in SUBSET (1..n)
      BY <1>1
    <3>2. 1..k # {} /\ (1..k) \ {k} = 1..(k - 1) /\ Max(1..k) = k
      BY ONLY <3>1, LastOfFirst
    <3> HIDE DEF n
    <3> QED BY <1>7, <3>1, <3>2
  <2> QED BY <2>1, <2>2
<1>9. \A k \in 1..n : h[1..(k - 1)] \in Findings => h[1..k] = step[<<h[1..(k - 1)], k>>]
  BY <1>8 DEF step
<1>10. \E row \in Rows(Findings, n) : IsRow(row, n, Nothing, step) /\ h[1..n] = row[n]
  BY <1>1, <1>3, <1>8, <1>9, FoldRow
<1>11. PICK row \in Rows(Findings, n) : IsRow(row, n, Nothing, step) /\ h[1..n] = row[n]
  BY <1>10
<1>12. /\ row \in [0..n -> Findings] /\ row[0] = Nothing
       /\ \A k \in 1..n : row[k - 1] \in Findings /\ row[k] = step[<<row[k - 1], k>>]
  <2>1. row \in [0..n -> Findings]
    BY <1>11 DEF Rows
  <2>2. row[0] = Nothing /\ \A k \in 1..n : row[k] = step[<<row[k - 1], k>>]
    BY <1>11 DEF IsRow
  <2>3. \A k \in 1..n : k - 1 \in 0..n
    BY <1>1
  <2> HIDE DEF n, step
  <2> QED BY ONLY <2>1, <2>2, <2>3
<1>13. \A k \in 1..n : row[k] = Deduplicate(row[k - 1], seq[k])
  BY <1>12 DEF step
<1> QED BY <1>2, <1>11, <1>12, <1>13

-----------------------------------------------------------------------------
\* The order a transcription is in, and the order in which one note is the better one.
OnsetKey(event) == <<event.onset, event.pitch, event.offset>>
Quality(event) == <<event.confidence, event.velocity>>

InOrder(s) ==
  \A i, j \in 1..Len(s) : i < j => ~TupleLess(OnsetKey(s[j]), OnsetKey(s[i]))

LEMMA OnsetKeyOrder ==
  ASSUME NEW a \in NoteRecords, NEW b \in NoteRecords
  PROVE  /\ TupleLess(OnsetKey(a), OnsetKey(b)) <=>
              a.onset < b.onset \/ (a.onset = b.onset /\ (a.pitch < b.pitch \/
                (a.pitch = b.pitch /\ (a.offset < b.offset))))
         /\ DuplicateKey(a) = DuplicateKey(b) <=>
              a.onset = b.onset /\ a.pitch = b.pitch /\ a.offset = b.offset
         /\ TupleLess(Quality(a), Quality(b)) <=>
              a.confidence < b.confidence \/ (a.confidence = b.confidence /\ (a.velocity < b.velocity))
         /\ a.onset \in Int /\ a.pitch \in Int /\ a.offset \in Int
         /\ a.confidence \in Int /\ a.velocity \in Int
<1>1. /\ a.onset \in Int /\ a.pitch \in Int /\ a.offset \in Int
      /\ a.confidence \in Int /\ a.velocity \in Int
  BY NoteAssumption DEF NoteRecords, MidiValues
<1>2. /\ b.onset \in Int /\ b.pitch \in Int /\ b.offset \in Int
      /\ b.confidence \in Int /\ b.velocity \in Int
  BY NoteAssumption DEF NoteRecords, MidiValues
<1>3. /\ OnsetKey(a) \in Tuples(3) /\ OnsetKey(b) \in Tuples(3)
      /\ OnsetKey(a)[1] = a.onset /\ OnsetKey(b)[1] = b.onset
      /\ OnsetKey(a)[2] = a.pitch /\ OnsetKey(b)[2] = b.pitch
      /\ OnsetKey(a)[3] = a.offset /\ OnsetKey(b)[3] = b.offset
  BY <1>1, <1>2 DEF OnsetKey, Tuples
<1>4. /\ Quality(a) \in Tuples(2) /\ Quality(b) \in Tuples(2)
      /\ Quality(a)[1] = a.confidence /\ Quality(b)[1] = b.confidence
      /\ Quality(a)[2] = a.velocity /\ Quality(b)[2] = b.velocity
  BY <1>1, <1>2 DEF Quality, Tuples
<1>5. TupleLess(OnsetKey(a), OnsetKey(b)) <=>
        a.onset < b.onset \/ (a.onset = b.onset /\ (a.pitch < b.pitch \/
          (a.pitch = b.pitch /\ (a.offset < b.offset))))
  BY <1>3, TupleLess3
<1>6. TupleLess(Quality(a), Quality(b)) <=>
        a.confidence < b.confidence \/ (a.confidence = b.confidence /\ (a.velocity < b.velocity))
  BY <1>4, TupleLess2
<1>7. DuplicateKey(a) = DuplicateKey(b) <=>
        a.onset = b.onset /\ a.pitch = b.pitch /\ a.offset = b.offset
  BY DEF DuplicateKey
<1> QED BY <1>1, <1>5, <1>6, <1>7

LEMMA OrderedUnlessSame ==
  ASSUME NEW a \in NoteRecords, NEW b \in NoteRecords,
         ~TupleLess(OnsetKey(b), OnsetKey(a)), DuplicateKey(a) # DuplicateKey(b)
  PROVE  TupleLess(OnsetKey(a), OnsetKey(b))
<1> DEFINE ao == a.onset  ap == a.pitch  af == a.offset
           bo == b.onset  bp == b.pitch  bf == b.offset
<1>1. /\ TupleLess(OnsetKey(a), OnsetKey(b)) <=>
            ao < bo \/ (ao = bo /\ (ap < bp \/ (ap = bp /\ (af < bf))))
      /\ DuplicateKey(a) = DuplicateKey(b) <=> ao = bo /\ ap = bp /\ af = bf
      /\ ao \in Int /\ ap \in Int /\ af \in Int
  BY OnsetKeyOrder
<1>2. /\ TupleLess(OnsetKey(b), OnsetKey(a)) <=>
            bo < ao \/ (bo = ao /\ (bp < ap \/ (bp = ap /\ (bf < af))))
      /\ bo \in Int /\ bp \in Int /\ bf \in Int
  BY OnsetKeyOrder
<1> HIDE DEF ao, ap, af, bo, bp, bf
<1> QED BY <1>1, <1>2

LEMMA NeverBothBelow ==
  ASSUME NEW a \in NoteRecords, NEW b \in NoteRecords, TupleLess(OnsetKey(a), OnsetKey(b))
  PROVE  ~TupleLess(OnsetKey(b), OnsetKey(a))
<1>1. /\ TupleLess(OnsetKey(a), OnsetKey(b)) <=>
            a.onset < b.onset \/ (a.onset = b.onset /\ (a.pitch < b.pitch \/
              (a.pitch = b.pitch /\ (a.offset < b.offset))))
      /\ a.onset \in Int /\ a.pitch \in Int /\ a.offset \in Int
  BY OnsetKeyOrder
<1>2. /\ TupleLess(OnsetKey(b), OnsetKey(a)) <=>
            b.onset < a.onset \/ (b.onset = a.onset /\ (b.pitch < a.pitch \/
              (b.pitch = a.pitch /\ (b.offset < a.offset))))
      /\ b.onset \in Int /\ b.pitch \in Int /\ b.offset \in Int
  BY OnsetKeyOrder
<1> QED BY <1>1, <1>2

LEMMA QualityOrder ==
  ASSUME NEW a \in NoteRecords, NEW b \in NoteRecords, NEW c \in NoteRecords,
         ~TupleLess(Quality(a), Quality(b)), ~TupleLess(Quality(b), Quality(c))
  PROVE  ~TupleLess(Quality(a), Quality(c))
<1> DEFINE ac == a.confidence  av == a.velocity
           bc == b.confidence  bv == b.velocity
           cc == c.confidence  cv == c.velocity
<1>1. /\ TupleLess(Quality(a), Quality(b)) <=> ac < bc \/ (ac = bc /\ (av < bv))
      /\ ac \in Int /\ av \in Int
  BY OnsetKeyOrder
<1>2. /\ TupleLess(Quality(b), Quality(c)) <=> bc < cc \/ (bc = cc /\ (bv < cv))
      /\ bc \in Int /\ bv \in Int
  BY OnsetKeyOrder
<1>3. /\ TupleLess(Quality(a), Quality(c)) <=> ac < cc \/ (ac = cc /\ (av < cv))
      /\ cc \in Int /\ cv \in Int
  BY OnsetKeyOrder
<1> HIDE DEF ac, av, bc, bv, cc, cv
<1> QED BY <1>1, <1>2, <1>3

\* What Deduplicate does with a note: it is new, or it competes for its key's slot.
LEMMA DeduplicateCases ==
  ASSUME NEW done \in Findings, NEW event \in NoteRecords
  PROVE  \/ /\ \A n \in DOMAIN done.output : DuplicateKey(done.output[n]) # DuplicateKey(event)
            /\ Deduplicate(done, event).output = Append(done.output, event)
            /\ Deduplicate(done, event).removed = done.removed
            /\ Deduplicate(done, event).keys = done.keys
         \/ \E slot \in DOMAIN done.output :
              /\ DuplicateKey(done.output[slot]) = DuplicateKey(event)
              /\ Deduplicate(done, event).output =
                   IF TupleLess(Quality(done.output[slot]), Quality(event))
                   THEN [done.output EXCEPT ![slot] = event] ELSE done.output
              /\ Deduplicate(done, event).removed = done.removed + 1
              /\ Deduplicate(done, event).keys = done.keys \union {DuplicateKey(event)}
<1> DEFINE slots == {i \in DOMAIN done.output : DuplicateKey(done.output[i]) = DuplicateKey(event)}
<1>1. CASE slots = {}
  <2>1. Deduplicate(done, event) = [done EXCEPT !.output = Append(@, event)]
    BY <1>1 DEF Deduplicate
  <2>2. \A n \in DOMAIN done.output : DuplicateKey(done.output[n]) # DuplicateKey(event)
    BY <1>1
  <2> QED BY <2>1, <2>2 DEF Findings
<1>2. CASE slots # {}
  <2> DEFINE slot == CHOOSE i \in slots : TRUE
  <2>1. slot \in slots
    BY <1>2
  <2> HIDE DEF slot
  <2>2. Deduplicate(done, event) =
          [output |-> IF CandidateIsPreferred(event, done.output[slot])
                      THEN [done.output EXCEPT ![slot] = event] ELSE done.output,
           removed |-> done.removed + 1, keys |-> done.keys \union {DuplicateKey(event)}]
    BY <1>2 DEF Deduplicate, slot
  <2>3. CandidateIsPreferred(event, done.output[slot]) <=>
          TupleLess(Quality(done.output[slot]), Quality(event))
    BY DEF CandidateIsPreferred, Quality
  <2> QED BY <2>1, <2>2, <2>3
<1> QED BY <1>1, <1>2

\* done is what there is to find in the first k notes of s.
Found(s, done, k) ==
  /\ \A n \in DOMAIN done.output : \E i \in 1..k : s[i] = done.output[n]
  /\ \A i \in 1..k : \E n \in DOMAIN done.output :
       /\ DuplicateKey(done.output[n]) = DuplicateKey(s[i])
       /\ ~TupleLess(Quality(done.output[n]), Quality(s[i]))
  /\ \A n, m \in DOMAIN done.output :
       n < m => TupleLess(OnsetKey(done.output[n]), OnsetKey(done.output[m]))
  /\ Len(done.output) + done.removed = k

LEMMA FoundStep ==
  ASSUME NEW s \in Batches, InOrder(s), NEW k \in 1..Len(s), NEW done \in Findings,
         Found(s, done, k - 1)
  PROVE  Found(s, Deduplicate(done, s[k]), k)
<1> DEFINE event == s[k]
           output == done.output
           result == Deduplicate(done, event)
<1>1. /\ Len(s) \in Nat /\ event \in NoteRecords /\ k \in Nat
      /\ \A i \in 1..Len(s) : s[i] \in NoteRecords
  BY DEF Batches
<1>2. /\ output \in Seq(NoteRecords) /\ Len(output) \in Nat /\ DOMAIN output = 1..Len(output)
      /\ \A n \in DOMAIN output : output[n] \in NoteRecords
      /\ done.removed \in Nat
  BY DEF Findings, Batches
<1>3. \A i \in 1..k : i \in 1..(k - 1) \/ i = k
  BY <1>1
<1>4. \A i \in 1..(k - 1) : i \in 1..k /\ i < k /\ i \in 1..Len(s)
  BY <1>1
<1>5. \A n \in DOMAIN output : ~TupleLess(OnsetKey(event), OnsetKey(output[n]))
  <2> TAKE n \in DOMAIN output
  <2>1. PICK i \in 1..(k - 1) : s[i] = output[n]
    BY DEF Found
  <2> QED BY <1>1, <1>4, <2>1 DEF InOrder
<1>0. Len(output) + done.removed = k - 1
  BY DEF Found
<1>6. CASE /\ \A n \in DOMAIN output : DuplicateKey(output[n]) # DuplicateKey(event)
           /\ result.output = Append(output, event)
           /\ result.removed = done.removed
  <2>1. /\ DOMAIN result.output = 1..(Len(output) + 1) /\ Len(result.output) = Len(output) + 1
        /\ \A n \in DOMAIN output : result.output[n] = output[n]
        /\ result.output[Len(output) + 1] = event
    BY <1>1, <1>2, <1>6
  <2>2. \A n \in DOMAIN result.output : n \in DOMAIN output \/ n = Len(output) + 1
    BY <1>2, <2>1
  <2>3. DOMAIN output \subseteq DOMAIN result.output /\ Len(output) + 1 \in DOMAIN result.output
    BY <1>2, <2>1
  <2> HIDE DEF result, output
  <2>4. \A n \in DOMAIN result.output : \E i \in 1..k : s[i] = result.output[n]
    <3> TAKE n \in DOMAIN result.output
    <3>1. CASE n \in DOMAIN output
      BY <1>4, <2>1, <3>1 DEF Found, output
    <3>2. CASE n = Len(output) + 1
      BY <1>1, <2>1, <3>2
    <3> QED BY <2>2, <3>1, <3>2
  <2>5. \A i \in 1..k : \E n \in DOMAIN result.output :
          /\ DuplicateKey(result.output[n]) = DuplicateKey(s[i])
          /\ ~TupleLess(Quality(result.output[n]), Quality(s[i]))
    <3> TAKE i \in 1..k
    <3>1. CASE i \in 1..(k - 1)
      BY <2>1, <2>3, <3>1 DEF Found, output
    <3>2. CASE i = k
      <4>1. ~TupleLess(Quality(event), Quality(event))
        <5>1. \A a \in NoteRecords : ~TupleLess(Quality(a), Quality(a))
          <6> TAKE a \in NoteRecords
          <6>1. /\ TupleLess(Quality(a), Quality(a)) <=>
                     a.confidence < a.confidence
                     \/ (a.confidence = a.confidence /\ (a.velocity < a.velocity))
                /\ a.confidence \in Int /\ a.velocity \in Int
            BY ONLY OnsetKeyOrder
          <6> QED BY ONLY <6>1
        <5> QED BY <1>1, <5>1
      <4> QED BY <2>1, <2>3, <3>2, <4>1
    <3> QED BY <1>3, <3>1, <3>2
  <2>6. \A n, m \in DOMAIN result.output :
          n < m => TupleLess(OnsetKey(result.output[n]), OnsetKey(result.output[m]))
    <3> TAKE n, m \in DOMAIN result.output
    <3>0. HAVE n < m
    <3>1. n \in DOMAIN output
      BY <1>2, <2>1, <3>0
    <3>2. CASE m \in DOMAIN output
      BY <2>1, <3>0, <3>1, <3>2 DEF Found, output
    <3>3. CASE m = Len(output) + 1
      <4>1. /\ output[n] \in NoteRecords
            /\ ~TupleLess(OnsetKey(event), OnsetKey(output[n]))
            /\ DuplicateKey(output[n]) # DuplicateKey(event)
        BY <1>2, <1>5, <1>6, <3>1 DEF output
      <4>2. TupleLess(OnsetKey(output[n]), OnsetKey(event))
        BY <1>1, <4>1, OrderedUnlessSame
      <4> QED BY <2>1, <3>1, <3>3, <4>2
    <3> QED BY <2>2, <3>2, <3>3
  <2>7. Len(result.output) + result.removed = k
    BY <1>0, <1>1, <1>2, <1>6, <2>1
  <2> QED BY <2>4, <2>5, <2>6, <2>7 DEF Found, result
<1>7. CASE \E slot \in DOMAIN output :
             /\ DuplicateKey(output[slot]) = DuplicateKey(event)
             /\ result.output = IF TupleLess(Quality(output[slot]), Quality(event))
                                THEN [output EXCEPT ![slot] = event] ELSE output
             /\ result.removed = done.removed + 1
  <2>1. PICK slot \in DOMAIN output :
             /\ DuplicateKey(output[slot]) = DuplicateKey(event)
             /\ result.output = IF TupleLess(Quality(output[slot]), Quality(event))
                                THEN [output EXCEPT ![slot] = event] ELSE output
             /\ result.removed = done.removed + 1
    BY <1>7
  <2> DEFINE best == IF TupleLess(Quality(output[slot]), Quality(event)) THEN event
                     ELSE output[slot]
  <2>2. /\ DOMAIN result.output = DOMAIN output /\ Len(result.output) = Len(output)
        /\ \A n \in DOMAIN output : result.output[n] = IF n = slot THEN best ELSE output[n]
    BY <1>2, <2>1
  <2>3. /\ best \in NoteRecords /\ output[slot] \in NoteRecords
        /\ best = event \/ best = output[slot]
        /\ DuplicateKey(best) = DuplicateKey(event)
        /\ ~TupleLess(Quality(best), Quality(event))
        /\ ~TupleLess(Quality(best), Quality(output[slot]))
    <3>1. event \in NoteRecords /\ output[slot] \in NoteRecords
      BY <1>1, <1>2
    <3> QED BY <2>1, <3>1, OnsetKeyOrder
  <2> HIDE DEF result, output, best
  <2>4. \A n \in DOMAIN result.output : \E i \in 1..k : s[i] = result.output[n]
    <3> TAKE n \in DOMAIN result.output
    <3>0. \E i \in 1..(k - 1) : s[i] = output[n]
      BY <2>2 DEF Found, output
    <3>1. CASE result.output[n] = output[n]
      BY <1>4, <3>0, <3>1
    <3>2. CASE result.output[n] = event
      BY <1>1, <3>2
    <3> QED BY <2>2, <2>3, <3>1, <3>2
  <2>5. \A i \in 1..k : \E n \in DOMAIN result.output :
          /\ DuplicateKey(result.output[n]) = DuplicateKey(s[i])
          /\ ~TupleLess(Quality(result.output[n]), Quality(s[i]))
    <3> TAKE i \in 1..k
    <3>1. CASE i \in 1..(k - 1)
      <4>1. PICK n \in DOMAIN output :
              /\ DuplicateKey(output[n]) = DuplicateKey(s[i])
              /\ ~TupleLess(Quality(output[n]), Quality(s[i]))
        BY <3>1 DEF Found, output
      <4>2. CASE n = slot
        <5>1. ~TupleLess(Quality(best), Quality(s[i]))
          <6>1. s[i] \in NoteRecords
            BY <1>1, <1>4, <3>1
          <6> QED BY <2>3, <4>1, <4>2, <6>1, QualityOrder
        <5>2. DuplicateKey(best) = DuplicateKey(s[i])
          BY <2>1, <2>3, <4>1, <4>2
        <5> QED BY <2>2, <4>2, <5>1, <5>2
      <4>3. CASE n # slot
        BY <2>2, <4>1, <4>3
      <4> QED BY <4>2, <4>3
    <3>2. CASE i = k
      BY <2>1, <2>2, <2>3, <3>2
    <3> QED BY <1>3, <3>1, <3>2
  <2>6. \A n, m \in DOMAIN result.output :
          n < m => TupleLess(OnsetKey(result.output[n]), OnsetKey(result.output[m]))
    <3>1. \A n \in DOMAIN output : OnsetKey(result.output[n]) = OnsetKey(output[n])
      <4> TAKE n \in DOMAIN output
      <4>1. DuplicateKey(result.output[n]) = DuplicateKey(output[n])
        BY <2>1, <2>2, <2>3
      <4> QED BY <4>1 DEF DuplicateKey, OnsetKey
    <3> QED BY <2>2, <3>1 DEF Found, output
  <2>7. Len(result.output) + result.removed = k
    <3>1. Len(result.output) = Len(output) /\ result.removed = done.removed + 1
      BY <2>1, <2>2
    <3>2. Len(output) \in Nat /\ done.removed \in Nat /\ k \in Nat
      BY <1>1, <1>2
    <3> QED BY <1>0, <3>1, <3>2
  <2> QED BY <2>4, <2>5, <2>6, <2>7 DEF Found, result
<1> QED BY <1>1, <1>6, <1>7, DeduplicateCases

\* What the fold leaves is what there is to find.
LEMMA AllFound ==
  ASSUME NEW s \in Batches, InOrder(s)
  PROVE  LET done == FoldLeft(Deduplicate, Nothing, s)
         IN done \in Findings /\ Found(s, done, Len(s))
<1> DEFINE n == Len(s)
<1>0. n \in Nat
  BY DEF Batches
<1>1. PICK row \in [0..n -> Findings] :
        /\ row[0] = Nothing
        /\ \A k \in 1..n : row[k] = Deduplicate(row[k - 1], s[k])
        /\ FoldLeft(Deduplicate, Nothing, s) = row[n]
  BY DeduplicateFold
<1> DEFINE G == {k \in 0..n : Found(s, row[k], k)}
<1>2. 0 \in G
  <2>1. Found(s, Nothing, 0)
    BY DEF Found, Nothing
  <2> QED BY <1>0, <1>1, <2>1
<1>3. ASSUME NEW k \in 1..n, k - 1 \in G PROVE k \in G
  <2>1. Found(s, row[k - 1], k - 1) /\ row[k - 1] \in Findings /\ row[k] = Deduplicate(row[k - 1], s[k])
    BY <1>0, <1>1, <1>3
  <2>2. Found(s, row[k], k)
    BY <2>1, FoundStep
  <2> QED BY <1>0, <2>2
<1> HIDE DEF G, n
<1>4. n \in G
  BY <1>0, <1>2, <1>3, Induction
<1> QED BY <1>0, <1>1, <1>4 DEF G, n

\* The keys of the duplicates that were found: some, but no more than there are duplicates.
KeysFound(done) ==
  /\ IsFiniteSet(done.keys) /\ Cardinality(done.keys) <= done.removed
  /\ done.removed = 0 <=> done.keys = {}

LEMMA KeysFoundStep ==
  ASSUME NEW done \in Findings, NEW event \in NoteRecords, KeysFound(done)
  PROVE  KeysFound(Deduplicate(done, event))
<1> DEFINE result == Deduplicate(done, event)
           keys == done.keys
           wider == keys \union {DuplicateKey(event)}
<1>1. done.removed \in Nat /\ IsFiniteSet(keys) /\ Cardinality(keys) \in Nat
      /\ Cardinality(keys) <= done.removed
  BY FS_CardinalityType DEF KeysFound, Findings
<1>2. CASE result.removed = done.removed /\ result.keys = done.keys
  BY <1>2 DEF KeysFound
<1>3. CASE result.removed = done.removed + 1 /\ result.keys = wider
  <2>1. IsFiniteSet(wider) /\ (Cardinality(wider) = Cardinality(keys)
                               \/ Cardinality(wider) = Cardinality(keys) + 1)
    BY <1>1, FS_AddElement
  <2>2. wider # {}
    OBVIOUS
  <2> HIDE DEF wider, result, keys
  <2> QED BY <1>1, <1>3, <2>1, <2>2 DEF KeysFound, result
<1> QED BY <1>2, <1>3, DeduplicateCases

LEMMA AllKeysFound ==
  ASSUME NEW s \in Batches
  PROVE  KeysFound(FoldLeft(Deduplicate, Nothing, s))
<1> DEFINE n == Len(s)
<1>0. n \in Nat /\ \A k \in 1..n : s[k] \in NoteRecords
  BY DEF Batches
<1>1. PICK row \in [0..n -> Findings] :
        /\ row[0] = Nothing
        /\ \A k \in 1..n : row[k] = Deduplicate(row[k - 1], s[k])
        /\ FoldLeft(Deduplicate, Nothing, s) = row[n]
  BY DeduplicateFold
<1> DEFINE G == {k \in 0..n : KeysFound(row[k])}
<1>2. 0 \in G
  <2>1. KeysFound(Nothing)
    BY FS_EmptySet DEF KeysFound, Nothing
  <2> QED BY <1>0, <1>1, <2>1
<1>3. ASSUME NEW k \in 1..n, k - 1 \in G PROVE k \in G
  <2>1. KeysFound(row[k - 1]) /\ row[k - 1] \in Findings /\ row[k] = Deduplicate(row[k - 1], s[k])
    BY <1>0, <1>1, <1>3
  <2>2. KeysFound(row[k])
    BY <1>0, <2>1, KeysFoundStep
  <2> QED BY <1>0, <2>2
<1> HIDE DEF G, n
<1>4. n \in G
  BY <1>0, <1>2, <1>3, Induction
<1> QED BY <1>0, <1>1, <1>4 DEF G, n

LongNotes(raw) == {i \in DOMAIN raw : Duration(raw[i]) >= MinimumDuration}

BestKept(raw, notes) ==
  LET long == LongNotes(raw)
      Better(a, b) == TupleLess(<<a.confidence, a.velocity>>, <<b.confidence, b.velocity>>)
  IN /\ \A n \in DOMAIN notes : \E i \in long : raw[i] = notes[n]
     /\ \A i \in long : \E n \in DOMAIN notes :
          /\ DuplicateKey(notes[n]) = DuplicateKey(raw[i])
          /\ ~Better(notes[n], raw[i])
     /\ \A n, m \in DOMAIN notes : n < m =>
          TupleLess(<<notes[n].onset, notes[n].pitch, notes[n].offset>>,
                    <<notes[m].onset, notes[m].pitch, notes[m].offset>>)

LEMMA PostProcessKeepsBest ==
  ASSUME NEW raw \in Batches, InOrder(raw), NoteBatchAccepted(raw)
  PROVE  /\ PostProcess(raw).notes \in Batches
         /\ BestKept(raw, PostProcess(raw).notes)
         /\ PostProcessedAccepted(raw, PostProcess(raw))
         /\ InOrder(PostProcess(raw).notes)
<1> DEFINE K == LongNotes(raw)
           s == Pick(raw, K)
           done == FoldLeft(Deduplicate, Nothing, s)
           notes == done.output
           order == Ascending(K)
           size == Cardinality(K)
<1>1. /\ PostProcess(raw).notes = notes
      /\ PostProcess(raw).report =
           [input |-> Len(raw), output |-> Len(notes), short |-> Len(raw) - Len(s),
            duplicates |-> done.removed, groups |-> Cardinality(done.keys)]
  BY DEF PostProcess, Nothing, LongNotes
<1>2. raw \in Seq(NoteRecords) /\ Len(raw) \in Nat /\ DOMAIN raw = 1..Len(raw)
      /\ K \in SUBSET (1..Len(raw))
  BY DEF Batches, LongNotes
<1> HIDE DEF K, s
<1>3. /\ size \in 0..Len(raw) /\ s \in Batches /\ Len(s) = size
      /\ order \in [1..size -> K]
      /\ \A i, j \in 1..size : i < j => order[i] < order[j]
      /\ \A x \in K : \E k \in 1..size : order[k] = x
      /\ \A k \in 1..size : s[k] = raw[order[k]]
  BY <1>2, Picked DEF Batches, s
<1> HIDE DEF size, order, done
<1>4. InOrder(s)
  <2>1. \A i, j \in 1..size : i < j =>
          /\ order[i] \in 1..Len(raw) /\ order[j] \in 1..Len(raw) /\ order[i] < order[j]
          /\ s[i] = raw[order[i]] /\ s[j] = raw[order[j]]
    BY <1>2, <1>3
  <2>2. \A i, j \in 1..size : i < j => ~TupleLess(OnsetKey(s[j]), OnsetKey(s[i]))
    BY <2>1 DEF InOrder
  <2> QED BY <1>3, <2>2 DEF InOrder
<1>5. done \in Findings /\ Found(s, done, size) /\ KeysFound(done)
  BY <1>3, <1>4, AllFound, AllKeysFound DEF done
<1>6. /\ notes \in Batches /\ notes \in Seq(NoteRecords) /\ Len(notes) \in Nat
      /\ DOMAIN notes = 1..Len(notes) /\ done.removed \in Nat
      /\ \A n \in DOMAIN notes : notes[n] \in NoteRecords
  BY <1>5 DEF Findings, Batches
<1>7. \A n \in DOMAIN notes : \E i \in K : raw[i] = notes[n]
  <2> TAKE n \in DOMAIN notes
  <2>1. PICK k \in 1..size : s[k] = notes[n]
    BY <1>5 DEF Found
  <2> QED BY <1>3, <2>1
<1>8. \A i \in K : \E n \in DOMAIN notes :
        DuplicateKey(notes[n]) = DuplicateKey(raw[i]) /\ ~TupleLess(Quality(notes[n]), Quality(raw[i]))
  <2> TAKE i \in K
  <2>1. PICK k \in 1..size : order[k] = i
    BY <1>3
  <2>2. s[k] = raw[i]
    BY <1>3, <2>1
  <2> QED BY <1>5, <2>2 DEF Found
<1>9. \A n, m \in DOMAIN notes : n < m => TupleLess(OnsetKey(notes[n]), OnsetKey(notes[m]))
  BY <1>5 DEF Found
<1> HIDE DEF notes
<1>10. BestKept(raw, notes)
  BY <1>7, <1>8, <1>9 DEF BestKept, OnsetKey, Quality, K
<1>11. NoteBatchAccepted(notes)
  <2> SUFFICES ASSUME NEW n \in DOMAIN notes PROVE NoteEventAccepted(notes[n])
    BY DEF NoteBatchAccepted
  <2>1. PICK i \in K : raw[i] = notes[n]
    BY <1>7
  <2> QED BY <1>2, <2>1 DEF NoteBatchAccepted
<1>12. InOrder(notes)
  <2> SUFFICES ASSUME NEW i \in 1..Len(notes), NEW j \in 1..Len(notes), i < j
               PROVE  ~TupleLess(OnsetKey(notes[j]), OnsetKey(notes[i]))
    BY DEF InOrder
  <2>1. TupleLess(OnsetKey(notes[i]), OnsetKey(notes[j])) /\ notes[i] \in NoteRecords /\ notes[j] \in NoteRecords
    BY <1>6, <1>9
  <2> QED BY <2>1, NeverBothBelow
<1>13. PostProcessedAccepted(raw, PostProcess(raw))
  <2> DEFINE groups == Cardinality(done.keys)
             report == PostProcess(raw).report
  <2>1. Len(notes) + done.removed = Len(s) /\ Len(s) \in Nat
    BY <1>3, <1>5 DEF Found, notes
  <2>2. groups \in Nat /\ groups <= done.removed /\ (done.removed = 0 <=> groups = 0)
    BY <1>5, FS_CardinalityType, FS_EmptySet DEF KeysFound
  <2>3. /\ report.input = Len(raw) /\ report.output = Len(notes)
        /\ report.short = Len(raw) - Len(s) /\ report.duplicates = done.removed
        /\ report.groups = groups
    BY <1>1
  <2> HIDE DEF groups, report
  <2>4. PostProcessingReportAccepted(report)
    BY <1>2, <1>6, <2>1, <2>2, <2>3 DEF PostProcessingReportAccepted
  <2> QED BY <1>1, <1>11, <2>3, <2>4 DEF PostProcessedAccepted, report
<1> QED BY <1>1, <1>6, <1>10, <1>12, <1>13

LEMMA ConvertedOutput ==
  ASSUME NEW output, output.events \in Seq(RawEvents), OutputAccepted(output)
  PROVE  /\ ConvertBaselineOutput(output) \in Batches
         /\ InOrder(ConvertBaselineOutput(output))
         /\ NoteBatchAccepted(ConvertBaselineOutput(output))
<1> DEFINE n == Len(output.events)
           converted == [i \in DOMAIN output.events |->
                           ConvertEvent(output.events[i], output.reg_onset)]
           key == [i \in DOMAIN converted |-> OutputKey(converted[i])]
           order == SortedPositions(converted, key)
           raw == ConvertBaselineOutput(output)
<1>1. n \in Nat /\ DOMAIN output.events = 1..n
      /\ \A i \in 1..n : output.events[i] \in RawEvents
  OBVIOUS
<1>2. ASSUME NEW i \in 1..n
      PROVE  NoteEventAccepted(converted[i]) /\ converted[i] \in NoteRecords
  <2>1. NoteEventAccepted(converted[i])
    BY <1>1 DEF OutputAccepted
  <2>2. /\ converted[i] = NoteEvent(output.events[i].midi_note, output.events[i].onset_time,
                                    output.events[i].offset_time, output.events[i].velocity,
                                    converted[i].confidence)
    BY <1>1 DEF ConvertEvent, NoteEvent
  <2>3. output.events[i].onset_time \in Int /\ output.events[i].offset_time \in Int
    BY <1>1 DEF RawEvents
  <2> HIDE DEF converted
  <2>4. converted[i].onset \in Nat /\ converted[i].offset \in Nat
    BY <2>1, <2>2, <2>3 DEF NoteEventAccepted, NoteEvent
  <2> QED BY <2>1, <2>2, <2>4 DEF NoteEventAccepted, NoteEvent, NoteRecords
<1>3. converted \in Seq(NoteRecords) /\ Len(converted) = n /\ DOMAIN converted = 1..n
  <2>1. converted \in [1..n -> NoteRecords]
    BY <1>1, <1>2
  <2> HIDE DEF converted
  <2> QED BY <1>1, <2>1
<1> HIDE DEF converted
<1>4. \A i \in 1..n : /\ key[i] = OutputKey(converted[i]) /\ key[i] \in Tuples(4)
                      /\ key[i][1] = converted[i].onset /\ key[i][2] = converted[i].pitch
                      /\ key[i][3] = converted[i].offset
  <2> TAKE i \in 1..n
  <2>1. converted[i] \in NoteRecords /\ key[i] = OutputKey(converted[i])
    BY <1>2, <1>3
  <2> DEFINE note == converted[i]
  <2> HIDE DEF note, key
  <2>2. /\ note.onset \in Int /\ note.pitch \in Int /\ note.offset \in Int /\ note.velocity \in Int
    BY <2>1, OnsetKeyOrder DEF note
  <2>3. key[i] = <<note.onset, note.pitch, note.offset, note.velocity>>
    BY <2>1 DEF OutputKey, note
  <2> QED BY <2>1, <2>2, <2>3 DEF Tuples, note
<1>5. key \in PositionKeys(converted, 4)
  BY <1>3, <1>4 DEF PositionKeys
<1> HIDE DEF key
<1>6. /\ order \in [1..n -> 1..n]
      /\ \A i, j \in 1..n : i < j => \/ TupleLess(key[order[i]], key[order[j]])
                                     \/ key[order[i]] = key[order[j]]
  <2> DEFINE four == 4
  <2>1. four \in Nat /\ key \in PositionKeys(converted, four)
    BY <1>5
  <2> HIDE DEF four
  <2> QED BY <1>3, <2>1, SortedPositionsSort
<1>7. raw = [k \in 1..n |-> converted[order[k]]]
  BY <1>6 DEF ConvertBaselineOutput, Sorted, converted, key
<1> HIDE DEF order, raw
<1>8. \A k \in 1..n : /\ raw[k] = converted[order[k]] /\ order[k] \in 1..n
                      /\ raw[k] \in NoteRecords /\ NoteEventAccepted(raw[k])
  BY <1>2, <1>6, <1>7
<1>9. raw \in Seq(NoteRecords) /\ Len(raw) = n /\ DOMAIN raw = 1..n
  <2>1. raw \in [1..n -> NoteRecords]
    BY <1>7, <1>8
  <2> QED BY <1>1, <2>1
<1>10. ASSUME NEW i \in 1..n, NEW j \in 1..n, i < j
       PROVE  ~TupleLess(OnsetKey(raw[j]), OnsetKey(raw[i]))
  <2> DEFINE a == raw[i]
             b == raw[j]
             ka == key[order[i]]
             kb == key[order[j]]
  <2>1. a \in NoteRecords /\ b \in NoteRecords
    BY <1>8
  <2>2. /\ ka \in Tuples(4) /\ kb \in Tuples(4)
        /\ ka[1] = a.onset /\ ka[2] = a.pitch /\ ka[3] = a.offset
        /\ kb[1] = b.onset /\ kb[2] = b.pitch /\ kb[3] = b.offset
    BY <1>4, <1>8, SMTT(30)
  <2>3. TupleLess(ka, kb) \/ ka = kb
    BY <1>6, <1>10
  <2> HIDE DEF a, b, ka, kb
  <2>4. TupleLess(ka, kb) <=>
          ka[1] < kb[1] \/ (ka[1] = kb[1] /\ (ka[2] < kb[2] \/ (ka[2] = kb[2] /\
            (ka[3] < kb[3] \/ (ka[3] = kb[3] /\ (ka[4] < kb[4]))))))
    BY <2>2, TupleLess4
  <2>5. \/ a.onset < b.onset
        \/ a.onset = b.onset /\ (a.pitch < b.pitch \/ (a.pitch = b.pitch /\ a.offset <= b.offset))
    <3>1. a.offset \in Int /\ b.offset \in Int
      BY <2>1 DEF NoteRecords
    <3> QED BY <2>2, <2>3, <2>4, <3>1
  <2>6. ~TupleLess(OnsetKey(b), OnsetKey(a))
    <3>1. TupleLess(OnsetKey(b), OnsetKey(a)) <=>
            b.onset < a.onset \/ (b.onset = a.onset /\ (b.pitch < a.pitch \/
              (b.pitch = a.pitch /\ (b.offset < a.offset))))
      BY <2>1, OnsetKeyOrder
    <3>2. /\ a.onset \in Int /\ a.pitch \in Int /\ a.offset \in Int
          /\ b.onset \in Int /\ b.pitch \in Int /\ b.offset \in Int
      BY <2>1, OnsetKeyOrder
    <3> QED BY <2>5, <3>1, <3>2
  <2> QED BY <2>6 DEF a, b
<1> QED BY <1>8, <1>9, <1>10 DEF Batches, InOrder, NoteBatchAccepted, raw

-----------------------------------------------------------------------------
(* What process has computed so far. Every stage leaves its result in local, and   *)
(* what it works on is what the stages before it left there.                        *)

Transcribed(l) ==
  /\ "raw" \in DOMAIN l
  /\ l.raw \in Batches /\ InOrder(l.raw) /\ NoteBatchAccepted(l.raw)

Cleaned(l) ==
  /\ Transcribed(l) /\ "processed" \in DOMAIN l
  /\ l.processed = PostProcess(l.raw)

Marked(l) ==
  /\ Cleaned(l) /\ "confidence" \in DOMAIN l
  /\ l.confidence = MarkLowConfidence(l.processed.notes)
  /\ ConfidenceAccepted(l.processed.notes, l.confidence)

Written(l) ==
  /\ Marked(l) /\ "written" \in DOMAIN l
  /\ l.written = Transpose(l.confidence.events, setup.saxophone)
  /\ WrittenInRange(l.confidence.events, setup.saxophone)
  /\ WrittenAccepted(l.confidence.events, l.written)

Timed(l) ==
  /\ Written(l) /\ "tempo" \in DOMAIN l
  /\ l.tempo = ResolveTempo(l.written.events, setup.tempo, setup.fallback)
  /\ TempoAccepted(l.tempo)

Quantized(l) ==
  /\ Timed(l) /\ "quantized" \in DOMAIN l
  /\ l.quantized = Quantize(l.written.events, l.tempo, setup.subdivisions)
  /\ QuantizedRhythmAccepted(l.written.events, l.quantized)

Exported(l) ==
  /\ Quantized(l) /\ "midi" \in DOMAIN l
  /\ l.midi = ExportMidi(l.written.events, l.tempo.effective)
  /\ MidiAccepted(l.written.events, l.midi, l.tempo.effective)

Scored(l) ==
  /\ Exported(l) /\ "musicxml" \in DOMAIN l
  /\ l.musicxml = ExportScore(l.quantized, l.written.events, setup.saxophone,
                              setup.subdivisions, setup.beats, l.tempo.effective)
  /\ ScoreAccepted(l.quantized.timeline, setup.saxophone, l.musicxml)

LateStages == {"render", "bundle", "review", "register", "observe", "returned"}

Computed ==
  /\ setup \in Setups
  /\ stage = "postprocess" => Transcribed(local)
  /\ stage = "confidence" => Cleaned(local)
  /\ stage = "transpose" => Marked(local)
  /\ stage = "tempo" => Written(local)
  /\ stage = "quantize" => Timed(local)
  /\ stage = "midi" => Quantized(local)
  /\ stage = "musicxml" => Exported(local)
  /\ stage \in LateStages => Scored(local)

\* An evaluation is of a run that returned, against a reference.
Evaluated ==
  /\ metrics # {} => stage = "returned"
  /\ \A m \in metrics :
       /\ m.reference \in References
       /\ m.evaluation = Evaluation(m.reference, local.processed.notes)
       /\ m.accepted = MetricsAccepted(m.evaluation, m.reference, local.processed.notes)

LEMMA BoundBefore ==
  ASSUME NEW name, NEW value, Bind(name, value), NEW n \in DOMAIN local, n # name
  PROVE  n \in DOMAIN local' /\ local'[n] = local[n]
BY DEF Bind

LEMMA BoundNow ==
  ASSUME NEW name, NEW value, Bind(name, value)
  PROVE  name \in DOMAIN local' /\ local'[name] = value
BY DEF Bind

\* Binding a later result leaves what was computed before it as it was.
LEMMA TranscribedKept ==
  ASSUME NEW name, NEW value, Bind(name, value), Transcribed(local), name # "raw"
  PROVE  Transcribed(local') /\ local'.raw = local.raw
<1>1. "raw" \in DOMAIN local' /\ local'["raw"] = local["raw"]
  BY BoundBefore DEF Transcribed
<1> QED BY <1>1 DEF Transcribed

LEMMA CleanedKept ==
  ASSUME NEW name, NEW value, Bind(name, value), Cleaned(local), name \notin {"raw", "processed"}
  PROVE  Cleaned(local') /\ local'.processed = local.processed
<1>1. "processed" \in DOMAIN local' /\ local'["processed"] = local["processed"]
  BY BoundBefore DEF Cleaned
<1> QED BY <1>1, TranscribedKept DEF Cleaned

LEMMA MarkedKept ==
  ASSUME NEW name, NEW value, Bind(name, value), Marked(local),
         name \notin {"raw", "processed", "confidence"}
  PROVE  Marked(local') /\ local'.confidence = local.confidence
<1>1. "confidence" \in DOMAIN local' /\ local'["confidence"] = local["confidence"]
  BY BoundBefore DEF Marked
<1> QED BY <1>1, CleanedKept DEF Marked

LEMMA WrittenKept ==
  ASSUME NEW name, NEW value, Bind(name, value), Written(local), setup' = setup,
         name \notin {"raw", "processed", "confidence", "written"}
  PROVE  Written(local)' /\ local'.written = local.written
<1>1. "written" \in DOMAIN local' /\ local'["written"] = local["written"]
  BY BoundBefore DEF Written
<1> QED BY <1>1, MarkedKept DEF Written, Marked, Cleaned, Transcribed

LEMMA TimedKept ==
  ASSUME NEW name, NEW value, Bind(name, value), Timed(local), setup' = setup,
         name \notin {"raw", "processed", "confidence", "written", "tempo"}
  PROVE  Timed(local)' /\ local'.tempo = local.tempo
<1>1. "tempo" \in DOMAIN local' /\ local'["tempo"] = local["tempo"]
  BY BoundBefore DEF Timed
<1>2. Written(local)' /\ Written(local)
  BY WrittenKept DEF Timed
<1>3. local'.written = local.written
  BY WrittenKept DEF Timed
<1> QED BY <1>1, <1>2, <1>3 DEF Timed

LEMMA QuantizedKept ==
  ASSUME NEW name, NEW value, Bind(name, value), Quantized(local), setup' = setup,
         name \notin {"raw", "processed", "confidence", "written", "tempo", "quantized"}
  PROVE  Quantized(local)' /\ local'.quantized = local.quantized
<1>1. "quantized" \in DOMAIN local' /\ local'["quantized"] = local["quantized"]
  BY BoundBefore DEF Quantized
<1>2. Timed(local)' /\ Timed(local)
  BY TimedKept DEF Quantized
<1>3. local'.written = local.written /\ local'.tempo = local.tempo
  BY WrittenKept, TimedKept DEF Quantized, Timed
<1> QED BY <1>1, <1>2, <1>3 DEF Quantized

LEMMA ExportedKept ==
  ASSUME NEW name, NEW value, Bind(name, value), Exported(local), setup' = setup,
         name \notin {"raw", "processed", "confidence", "written", "tempo", "quantized", "midi"}
  PROVE  Exported(local)' /\ local'.midi = local.midi
<1>1. "midi" \in DOMAIN local' /\ local'["midi"] = local["midi"]
  BY BoundBefore DEF Exported
<1>2. Quantized(local)' /\ Quantized(local)
  BY QuantizedKept DEF Exported
<1>3. local'.written = local.written /\ local'.tempo = local.tempo /\ local'.quantized = local.quantized
  BY WrittenKept, TimedKept, QuantizedKept DEF Exported, Timed, Quantized
<1> QED BY <1>1, <1>2, <1>3 DEF Exported

LEMMA ScoredKept ==
  ASSUME NEW name, NEW value, Bind(name, value), Scored(local), setup' = setup,
         name \notin {"raw", "processed", "confidence", "written", "tempo", "quantized", "midi", "musicxml"}
  PROVE  Scored(local)' /\ local'.musicxml = local.musicxml
<1>1. "musicxml" \in DOMAIN local' /\ local'["musicxml"] = local["musicxml"]
  BY BoundBefore DEF Scored
<1>2. Exported(local)' /\ Exported(local)
  BY ExportedKept DEF Scored
<1>3. local'.written = local.written /\ local'.tempo = local.tempo /\ local'.quantized = local.quantized
  BY WrittenKept, TimedKept, QuantizedKept DEF Scored, Timed, Quantized, Exported
<1> QED BY <1>1, <1>2, <1>3 DEF Scored

LEMMA ContinueCases ==
  ASSUME NEW name, NEW value, NEW accepted, NEW next, Continue(name, value, accepted, next)
  PROVE  \/ stage' = "raised"
         \/ accepted /\ stage' = next /\ Bind(name, value)
BY DEF Continue, Raise

LEMMA PostProcessEventsComputes ==
  ASSUME Computed, PostProcessEvents
  PROVE  Computed'
<1> DEFINE value == PostProcess(local.raw)
<1>1. setup' = setup /\ setup \in Setups /\ Transcribed(local)
  BY DEF Computed, PostProcessEvents, Kept
<1>2. \/ stage' = "raised"
      \/ /\ stage' = "confidence" /\ Bind("processed", value)
  BY ContinueCases DEF PostProcessEvents, Raise
<1>3. ASSUME Bind("processed", value)
      PROVE  Cleaned(local)'
  <2>1. "processed" \in DOMAIN local' /\ local'["processed"] = value
    BY <1>3, BoundNow
  <2>2. Transcribed(local)' /\ local'.raw = local.raw
    BY <1>1, <1>3, TranscribedKept DEF Transcribed
  <2> QED BY <1>1, <1>3, <2>1, <2>2 DEF Cleaned
<1>4. CASE stage' = "raised"
  BY <1>1, <1>4 DEF Computed, LateStages
<1>5. CASE stage' = "confidence" /\ Cleaned(local)'
  BY <1>1, <1>5 DEF Computed, LateStages
<1> QED BY <1>2, <1>3, <1>4, <1>5

LEMMA MarkConfidenceComputes ==
  ASSUME Computed, MarkConfidence
  PROVE  Computed'
<1> DEFINE value == MarkLowConfidence(local.processed.notes)
<1>1. setup' = setup /\ setup \in Setups /\ Cleaned(local)
  BY DEF Computed, MarkConfidence, Kept
<1>2. \/ stage' = "raised"
      \/ /\ stage' = "transpose" /\ Bind("confidence", value)
         /\ ConfidenceAccepted(local.processed.notes, MarkLowConfidence(local.processed.notes))
  BY ContinueCases DEF MarkConfidence, Raise
<1>3. ASSUME Bind("confidence", value), ConfidenceAccepted(local.processed.notes, MarkLowConfidence(local.processed.notes))
      PROVE  Marked(local)'
  <2>1. "confidence" \in DOMAIN local' /\ local'["confidence"] = value
    BY <1>3, BoundNow
  <2>2. Cleaned(local)' /\ local'.processed = local.processed
    BY <1>1, <1>3, CleanedKept DEF Cleaned
  <2> QED BY <1>1, <1>3, <2>1, <2>2 DEF Marked
<1>4. CASE stage' = "raised"
  BY <1>1, <1>4 DEF Computed, LateStages
<1>5. CASE stage' = "transpose" /\ Marked(local)'
  BY <1>1, <1>5 DEF Computed, LateStages
<1> QED BY <1>2, <1>3, <1>4, <1>5

LEMMA TransposePitchesComputes ==
  ASSUME Computed, TransposePitches
  PROVE  Computed'
<1> DEFINE value == Transpose(local.confidence.events, setup.saxophone)
<1>1. setup' = setup /\ setup \in Setups /\ Marked(local)
  BY DEF Computed, TransposePitches, Kept
<1>2. \/ stage' = "raised"
      \/ /\ stage' = "tempo" /\ Bind("written", value)
         /\ WrittenInRange(local.confidence.events, setup.saxophone) /\ WrittenAccepted(local.confidence.events, Transpose(local.confidence.events, setup.saxophone))
  BY ContinueCases DEF TransposePitches, Raise
<1>3. ASSUME Bind("written", value), WrittenInRange(local.confidence.events, setup.saxophone) /\ WrittenAccepted(local.confidence.events, Transpose(local.confidence.events, setup.saxophone))
      PROVE  Written(local)'
  <2>1. "written" \in DOMAIN local' /\ local'["written"] = value
    BY <1>3, BoundNow
  <2>2. Marked(local)' /\ local'.confidence = local.confidence
    BY <1>1, <1>3, MarkedKept DEF Marked
  <2> QED BY <1>1, <1>3, <2>1, <2>2 DEF Written
<1>4. CASE stage' = "raised"
  BY <1>1, <1>4 DEF Computed, LateStages
<1>5. CASE stage' = "tempo" /\ Written(local)'
  BY <1>1, <1>5 DEF Computed, LateStages
<1> QED BY <1>2, <1>3, <1>4, <1>5

LEMMA FindTempoComputes ==
  ASSUME Computed, FindTempo
  PROVE  Computed'
<1> DEFINE value == ResolveTempo(local.written.events, setup.tempo, setup.fallback)
<1>1. setup' = setup /\ setup \in Setups /\ Written(local)
  BY DEF Computed, FindTempo, Kept
<1>2. \/ stage' = "raised"
      \/ /\ stage' = "quantize" /\ Bind("tempo", value)
         /\ TempoAccepted(ResolveTempo(local.written.events, setup.tempo, setup.fallback))
  BY ContinueCases DEF FindTempo, Raise
<1>3. ASSUME Bind("tempo", value), TempoAccepted(ResolveTempo(local.written.events, setup.tempo, setup.fallback))
      PROVE  Timed(local)'
  <2>1. "tempo" \in DOMAIN local' /\ local'["tempo"] = value
    BY <1>3, BoundNow
  <2>2. Written(local)' /\ local'.written = local.written
    BY <1>1, <1>3, WrittenKept DEF Written
  <2> QED BY <1>1, <1>3, <2>1, <2>2 DEF Timed
<1>4. CASE stage' = "raised"
  BY <1>1, <1>4 DEF Computed, LateStages
<1>5. CASE stage' = "quantize" /\ Timed(local)'
  BY <1>1, <1>5 DEF Computed, LateStages
<1> QED BY <1>2, <1>3, <1>4, <1>5

LEMMA QuantizeRhythmComputes ==
  ASSUME Computed, QuantizeRhythm
  PROVE  Computed'
<1> DEFINE value == Quantize(local.written.events, local.tempo, setup.subdivisions)
<1>1. setup' = setup /\ setup \in Setups /\ Timed(local)
  BY DEF Computed, QuantizeRhythm, Kept
<1>2. \/ stage' = "raised"
      \/ /\ stage' = "midi" /\ Bind("quantized", value)
         /\ QuantizedRhythmAccepted(local.written.events, Quantize(local.written.events, local.tempo, setup.subdivisions))
  BY ContinueCases DEF QuantizeRhythm, Raise
<1>3. ASSUME Bind("quantized", value), QuantizedRhythmAccepted(local.written.events, Quantize(local.written.events, local.tempo, setup.subdivisions))
      PROVE  Quantized(local)'
  <2>1. "quantized" \in DOMAIN local' /\ local'["quantized"] = value
    BY <1>3, BoundNow
  <2>2. Timed(local)' /\ local'.written = local.written /\ local'.tempo = local.tempo
    BY <1>1, <1>3, WrittenKept, TimedKept DEF Timed
  <2> QED BY <1>1, <1>3, <2>1, <2>2 DEF Quantized
<1>4. CASE stage' = "raised"
  BY <1>1, <1>4 DEF Computed, LateStages
<1>5. CASE stage' = "midi" /\ Quantized(local)'
  BY <1>1, <1>5 DEF Computed, LateStages
<1> QED BY <1>2, <1>3, <1>4, <1>5

LEMMA WriteMidiComputes ==
  ASSUME Computed, WriteMidi
  PROVE  Computed'
<1> DEFINE value == ExportMidi(local.written.events, local.tempo.effective)
<1>1. setup' = setup /\ setup \in Setups /\ Quantized(local)
  BY DEF Computed, WriteMidi, Kept
<1>2. \/ stage' = "raised"
      \/ /\ stage' = "musicxml" /\ Bind("midi", value)
         /\ MidiAccepted(local.written.events, ExportMidi(local.written.events, local.tempo.effective), local.tempo.effective)
  BY ContinueCases DEF WriteMidi, Raise
<1>3. ASSUME Bind("midi", value), MidiAccepted(local.written.events, ExportMidi(local.written.events, local.tempo.effective), local.tempo.effective)
      PROVE  Exported(local)'
  <2>1. "midi" \in DOMAIN local' /\ local'["midi"] = value
    BY <1>3, BoundNow
  <2>2. Quantized(local)' /\ local'.written = local.written /\ local'.tempo = local.tempo
    BY <1>1, <1>3, WrittenKept, TimedKept, QuantizedKept DEF Quantized, Timed
  <2> QED BY <1>1, <1>3, <2>1, <2>2 DEF Exported
<1>4. CASE stage' = "raised"
  BY <1>1, <1>4 DEF Computed, LateStages
<1>5. CASE stage' = "musicxml" /\ Exported(local)'
  BY <1>1, <1>5 DEF Computed, LateStages
<1> QED BY <1>2, <1>3, <1>4, <1>5

LEMMA WriteScoreComputes ==
  ASSUME Computed, WriteScore
  PROVE  Computed'
<1> DEFINE value == ExportScore(local.quantized, local.written.events, setup.saxophone, setup.subdivisions, setup.beats, local.tempo.effective)
<1>1. setup' = setup /\ setup \in Setups /\ Exported(local)
  BY DEF Computed, WriteScore, Kept
<1>2. \/ stage' = "raised"
      \/ /\ stage' = "render" /\ Bind("musicxml", value)
         /\ ScoreAccepted(local.quantized.timeline, setup.saxophone, ExportScore(local.quantized, local.written.events, setup.saxophone, setup.subdivisions, setup.beats, local.tempo.effective))
  BY ContinueCases DEF WriteScore, Raise
<1>3. ASSUME Bind("musicxml", value), ScoreAccepted(local.quantized.timeline, setup.saxophone, ExportScore(local.quantized, local.written.events, setup.saxophone, setup.subdivisions, setup.beats, local.tempo.effective))
      PROVE  Scored(local)'
  <2>1. "musicxml" \in DOMAIN local' /\ local'["musicxml"] = value
    BY <1>3, BoundNow
  <2>2. Exported(local)' /\ local'.quantized = local.quantized /\ local'.written = local.written /\ local'.tempo = local.tempo
    <3>1. Quantized(local) /\ Timed(local) /\ Written(local)
      BY <1>1 DEF Exported, Quantized, Timed
    <3>2. Exported(local)'
      BY <1>1, <1>3, ExportedKept
    <3>3. local'.quantized = local.quantized
      BY <1>1, <1>3, <3>1, QuantizedKept
    <3>4. local'.tempo = local.tempo
      BY <1>1, <1>3, <3>1, TimedKept
    <3>5. local'.written = local.written
      BY <1>1, <1>3, <3>1, WrittenKept
    <3> QED BY <3>2, <3>3, <3>4, <3>5
  <2> QED BY <1>1, <1>3, <2>1, <2>2 DEF Scored
<1>4. CASE stage' = "raised"
  BY <1>1, <1>4 DEF Computed, LateStages
<1>5. CASE stage' = "render" /\ Scored(local)'
  BY <1>1, <1>5 DEF Computed, LateStages
<1> QED BY <1>2, <1>3, <1>4, <1>5

LEMMA TranscribeComputes ==
  ASSUME Computed, ControlType, Transcribe
  PROVE  Computed'
<1>1. PICK engine \in EngineRuns, recording \in IF heard = {} THEN DOMAIN Recordings ELSE heard :
        LET execution == [engine EXCEPT !.output = Recordings[recording]]
            verdict == EngineVerdict(execution)
        IN IF verdict = "transcribed"
           THEN LET raw == ConvertBaselineOutput(execution.output)
                IN Continue("raw", raw, NoteBatchAccepted(raw), "postprocess")
           ELSE Raise(verdict)
  BY DEF Transcribe
<1> DEFINE execution == [engine EXCEPT !.output = Recordings[recording]]
           raw == ConvertBaselineOutput(execution.output)
<1>2. recording \in DOMAIN Recordings /\ setup' = setup /\ setup \in Setups
  BY <1>1 DEF ControlType, Transcribe, Kept
<1>3. execution.output = Recordings[recording]
  BY PipelineAssumption
<1>4. CASE EngineVerdict(execution) = "transcribed"
  <2>1. OutputAccepted(execution.output)
    BY <1>4 DEF EngineVerdict, CheckpointVerdict
  <2>2. execution.output.events \in Seq(RawEvents)
    BY <1>2, <1>3, PipelineAssumption
  <2>3. raw \in Batches /\ InOrder(raw) /\ NoteBatchAccepted(raw)
    <3> HIDE DEF execution
    <3> QED BY <2>1, <2>2, ConvertedOutput
  <2>4. Continue("raw", raw, NoteBatchAccepted(raw), "postprocess")
    BY <1>1, <1>4
  <2> HIDE DEF raw, execution
  <2>5. stage' = "postprocess" /\ Bind("raw", raw)
    BY <2>3, <2>4 DEF Continue
  <2>6. "raw" \in DOMAIN local' /\ local'["raw"] = raw
    BY <2>5, BoundNow
  <2>7. Transcribed(local)'
    BY <2>3, <2>6 DEF Transcribed
  <2> QED BY <1>2, <2>5, <2>7 DEF Computed, LateStages
<1>5. CASE EngineVerdict(execution) # "transcribed"
  <2>1. stage' = "raised"
    BY <1>1, <1>5 DEF Raise
  <2> QED BY <1>2, <2>1 DEF Computed, LateStages
<1> QED BY <1>4, <1>5

\* Calls that come after the score is written leave what was computed as it is.
LEMMA LateStep ==
  ASSUME Computed, stage \in LateStages, setup' = setup, stage' = "raised" \/ stage' \in LateStages,
         \/ stage' = "raised" \/ local' = local
         \/ \E name \in {"rendered", "artifacts"} : Bind(name, local'[name])
  PROVE  Computed'
<1>1. setup \in Setups /\ Scored(local)
  BY DEF Computed
<1>2. CASE stage' = "raised"
  BY <1>1, <1>2 DEF Computed, LateStages
<1>3. CASE stage' \in LateStages /\ local' = local
  <2>1. Scored(local)'
    BY <1>1, <1>3 DEF Scored, Exported, Quantized, Timed, Written
  <2> QED BY <1>1, <1>3, <2>1 DEF Computed, LateStages
<1>4. ASSUME NEW name \in {"rendered", "artifacts"}, Bind(name, local'[name]), stage' \in LateStages
      PROVE  Computed'
  <2>1. Scored(local)'
    BY <1>1, <1>4, ScoredKept
  <2> QED BY <1>1, <1>4, <2>1 DEF Computed, LateStages
<1> QED BY <1>2, <1>3, <1>4

LEMMA ComputedInit ==
  ASSUME Init PROVE Computed
BY DEF Init, Computed, LateStages

LEMMA ComputedStep ==
  ASSUME Computed, ControlType, [Next]_vars PROVE Computed'
<1>1. ASSUME ReadChunk \/ FinishUpload PROVE Computed'
  BY <1>1 DEF Computed, ReadChunk, FinishUpload, LateStages
<1>2. ASSUME Claim PROVE Computed'
  BY <1>2 DEF Computed, Claim, LateStages
<1>3. ASSUME Convert PROVE Computed'
  <2>1. stage' \in {"terminal", "transcribe", "raised"} /\ setup' = setup
    BY <1>3 DEF Convert, Raise, Kept
  <2> QED BY <2>1 DEF Computed, LateStages
<1>4. ASSUME RenderPages PROVE Computed'
  <2>1. PICK toolkit \in Toolkits :
          Bind("rendered", Render(toolkit, local.musicxml.document, local.tempo))
    BY <1>4 DEF RenderPages
  <2>2. Bind("rendered", local'["rendered"])
    BY <2>1, BoundNow
  <2> QED BY <1>4, <2>2, LateStep DEF RenderPages, Kept, LateStages
<1>5. ASSUME BuildBundle PROVE Computed'
  <2>1. \/ stage' = "raised"
        \/ stage' = "review" /\ \E value : Bind("artifacts", value)
    BY <1>5, ContinueCases DEF BuildBundle
  <2>2. \/ stage' = "raised"
        \/ stage' = "review" /\ Bind("artifacts", local'["artifacts"])
    BY <2>1, BoundNow
  <2>3. stage \in LateStages /\ setup' = setup
    BY <1>5 DEF BuildBundle, LateStages, Kept
  <2> QED BY <2>2, <2>3, LateStep DEF LateStages
<1>6. ASSUME RegisterReview \/ RegisterArtifacts \/ Observe \/ Evaluate PROVE Computed'
  <2>1. stage \in LateStages /\ setup' = setup
    BY <1>6 DEF RegisterReview, RegisterArtifacts, Observe, Evaluate, LateStages, Kept
  <2>2. \/ stage' = "raised"
        \/ stage' \in LateStages /\ local' = local
    BY <1>6, <2>1 DEF RegisterReview, RegisterArtifacts, Observe, Evaluate, LateStages, Kept, Raise
  <2> QED BY <2>1, <2>2, LateStep
<1>7. ASSUME UNCHANGED vars PROVE Computed'
  BY <1>7 DEF vars, Computed, Scored, Exported, Quantized, Timed, Written
<1> QED
  BY <1>1, <1>2, <1>3, <1>4, <1>5, <1>6, <1>7, TranscribeComputes, PostProcessEventsComputes,
     MarkConfidenceComputes, TransposePitchesComputes, FindTempoComputes, QuantizeRhythmComputes,
     WriteMidiComputes, WriteScoreComputes DEF Next

(* What a stage of process hands on is what the stages before it computed from what  *)
(* was heard, and it satisfies every contract that was checked on the way, in every run, *)
(* failure and retry.                                                                    *)
THEOREM StagesCompute == Spec => [](ControlType /\ Computed)
<1>1. Init => ControlType /\ Computed
  BY ControlTypeInit, ComputedInit
<1>2. ControlType /\ Computed /\ [Next]_vars => (ControlType /\ Computed)'
  BY ControlTypeStep, ComputedStep
<1> QED BY <1>1, <1>2, PTL DEF Spec

LEMMA CleanedKeepsBest ==
  ASSUME Cleaned(local)
  PROVE  /\ local.raw \in Batches /\ local.processed.notes \in Batches
         /\ InOrder(local.processed.notes) /\ NoteBatchAccepted(local.processed.notes)
         /\ BestKept(local.raw, local.processed.notes)
         /\ PostProcessedAccepted(local.raw, local.processed)
BY PostProcessKeepsBest DEF Cleaned, Transcribed, PostProcessedAccepted

(* Of the notes that were heard, post-processing keeps the best of every pitch and   *)
(* interval that is long enough, in their order, for every transcription there is.    *)
THEOREM BestNotesKept == Spec => []BestOfDuplicates
<1>1. ControlType /\ Computed => BestOfDuplicates
  <2>1. ASSUME Computed, stage = "confidence" PROVE Cleaned(local)
    BY <2>1 DEF Computed
  <2> QED BY <2>1, CleanedKeepsBest DEF BestOfDuplicates, BestKept, LongNotes
<1> QED BY <1>1, StagesCompute, PTL

-----------------------------------------------------------------------------
(* Matching. The notes of one pitch are matched in the order of their onsets.      *)

\* The positions of the notes of a pitch.
OfPitch(events, pitch) == {i \in DOMAIN events : events[i].pitch = pitch}

LEMMA ByOnsetSorts ==
  ASSUME NEW events \in Batches, NEW pitch
  PROVE  LET order == ByOnset(events, pitch)
             P == OfPitch(events, pitch)
         IN /\ order \in Seq(P) /\ order \in Seq(DOMAIN events)
            /\ \A i, j \in 1..Len(order) : i # j => order[i] # order[j]
            /\ \A i \in P : \E k \in 1..Len(order) : order[k] = i
<1> DEFINE S == OfPitch(events, pitch)
           key == [i \in S |-> <<events[i].onset, i>>]
           m == Cardinality(S)
           order == SortedBy(S, key)
<1>1. DOMAIN events = 1..Len(events) /\ Len(events) \in Nat
      /\ \A i \in 1..Len(events) : events[i] \in NoteRecords
  BY DEF Batches
<1>2. ByOnset(events, pitch) = order
  BY DEF ByOnset, OfPitch
<1>3. IsFiniteSet(S)
  <2>1. IsFiniteSet(1..Len(events)) /\ S \subseteq 1..Len(events)
    BY <1>1, CardinalityOfFirst DEF OfPitch
  <2> QED BY <2>1, FS_Subset
<1> DEFINE two == 2
<1>4. key \in Keys(S, two)
  <2>1. \A i \in S : key[i] = <<events[i].onset, i>> /\ i \in Int /\ events[i].onset \in Int
    BY <1>1 DEF OfPitch, NoteRecords
  <2>2. \A i \in S : key[i] \in Tuples(two)
    BY <2>1 DEF Tuples
  <2>3. \A i, j \in S : i # j => key[i] # key[j]
    BY <2>1
  <2> QED BY <2>2, <2>3 DEF Keys
<1> HIDE DEF key, two
<1>5. two \in Nat
  BY DEF two
<1>6. /\ m \in Nat
      /\ order \in [1..m -> S]
      /\ \A i, j \in 1..m : i < j => TupleLess(key[order[i]], key[order[j]])
      /\ \A x \in S : \E k \in 1..m : order[k] = x
  <2> HIDE DEF S
  <2> QED BY <1>3, <1>4, <1>5, SortedBySorts
<1>7. \A i, j \in 1..m : i # j => order[i] # order[j]
  <2>1. \A x \in S : key[x] \in Tuples(two)
    BY <1>4 DEF Keys
  <2>2. \A x \in S : ~TupleLess(key[x], key[x])
    BY <2>1, <1>5, TupleOrder
  <2> HIDE DEF S, m, order
  <2> QED BY <1>6, <2>2
<1>8. S \subseteq DOMAIN events
  BY DEF OfPitch
<1> HIDE DEF S, m, order
<1>9. order \in Seq(S) /\ Len(order) = m /\ order \in Seq(DOMAIN events)
  BY <1>6, <1>8
<1> QED BY <1>2, <1>6, <1>7, <1>9 DEF S

\* The first of the positions at which a row of numbers is lowest.
LEMMA FirstLowest ==
  ASSUME NEW n \in Nat \ {0}, NEW error \in [1..n -> Nat]
  PROVE  \E k \in 1..n : \A other \in 1..n :
           error[k] < error[other] \/ (error[k] = error[other] /\ k <= other)
<1>1. PICK low \in {error[k] : k \in 1..n} : \A m \in {error[k] : k \in 1..n} : low <= m
  <2> DEFINE T == {error[k] : k \in 1..n}
  <2>1. T \in SUBSET Nat /\ T # {}
    BY 1 \in 1..n
  <2> HIDE DEF T
  <2>2. \E low \in T : \A m \in T : low <= m
    BY <2>1, LeastNumber
  <2> QED BY <2>2 DEF T
<1>2. PICK k \in {j \in 1..n : error[j] = low} : \A m \in {j \in 1..n : error[j] = low} : k <= m
  <2> DEFINE T == {j \in 1..n : error[j] = low}
  <2>1. T \in SUBSET Nat /\ T # {}
    BY <1>1
  <2> HIDE DEF T
  <2>2. \E low1 \in T : \A m \in T : low1 <= m
    BY <2>1, LeastNumber
  <2> QED BY <2>2 DEF T
<1>3. \A other \in 1..n : low <= error[other] /\ error[other] \in Nat
  BY <1>1
<1>4. k \in 1..n /\ error[k] = low /\ low \in Nat
  BY <1>1, <1>2
<1>5. ASSUME NEW other \in 1..n
      PROVE  error[k] < error[other] \/ (error[k] = error[other] /\ k <= other)
  BY <1>2, <1>3, <1>4
<1> QED BY <1>4, <1>5

Pairs(reference, estimated) == (DOMAIN reference) \X (DOMAIN estimated)
Matchings(reference, estimated) == SUBSET Pairs(reference, estimated)

CouldMatch(reference, estimated, r, e) ==
  reference[r].pitch = estimated[e].pitch /\ WithinTolerance(reference[r], estimated[e])

\* A note finds nothing that is left, or takes one note that is left.
LEMMA MatchNextCases ==
  ASSUME NEW reference \in Batches, NEW estimated \in Batches,
         NEW matching \in Matchings(reference, estimated), NEW r \in DOMAIN reference
  PROVE  \/ /\ MatchNext(reference, estimated, matching, r) = matching
            /\ \A e \in DOMAIN estimated :
                 CouldMatch(reference, estimated, r, e) => \E p \in matching : p[2] = e
         \/ \E e \in DOMAIN estimated :
              /\ MatchNext(reference, estimated, matching, r) = matching \union {<<r, e>>}
              /\ CouldMatch(reference, estimated, r, e)
              /\ \A p \in matching : p[2] # e
<1> DEFINE taken == {pair[2] : pair \in matching}
           pitch == reference[r].pitch
           P == OfPitch(estimated, pitch)
           candidates == ByOnset(estimated, pitch)
           K == {k \in DOMAIN candidates :
                   /\ candidates[k] \notin taken
                   /\ WithinTolerance(reference[r], estimated[candidates[k]])}
           open == Pick(candidates, K)
           Error(k) == OnsetError(reference[r], estimated[open[k]])
           best == CHOOSE k \in DOMAIN open :
                     \A other \in DOMAIN open :
                       Error(k) < Error(other) \/ (Error(k) = Error(other) /\ k <= other)
           n == Cardinality(K)
<1>1. MatchNext(reference, estimated, matching, r) =
        IF open = <<>> THEN matching ELSE matching \union {<<r, open[best]>>}
  BY DEF MatchNext
<1>2. /\ candidates \in Seq(P)
      /\ \A i \in P : \E k \in 1..Len(candidates) : candidates[k] = i
  BY ByOnsetSorts
<1>3. K \in SUBSET (1..Len(candidates))
  BY <1>2
<1>4. /\ n \in Nat /\ open \in Seq(P) /\ Len(open) = n
      /\ Ascending(K) \in [1..n -> K]
      /\ \A x \in K : \E k \in 1..n : Ascending(K)[k] = x
      /\ \A k \in 1..n : open[k] = candidates[Ascending(K)[k]]
  <2> HIDE DEF K, candidates, P
  <2>1. Cardinality(K) \in 0..Len(candidates) /\ Len(candidates) \in Nat
    BY <1>2, <1>3, Picked
  <2>2. /\ Pick(candidates, K) \in Seq(P) /\ Len(Pick(candidates, K)) = Cardinality(K)
        /\ Ascending(K) \in [1..Cardinality(K) -> K]
        /\ \A x \in K : \E k \in 1..Cardinality(K) : Ascending(K)[k] = x
        /\ \A k \in 1..Cardinality(K) : Pick(candidates, K)[k] = candidates[Ascending(K)[k]]
    <3>1. candidates \in Seq(P) /\ K \in SUBSET (1..Len(candidates))
      BY <1>2, <1>3
    <3> QED BY ONLY <3>1, Picked
  <2> QED BY <2>1, <2>2
<1>5. \A x \in P : x \in DOMAIN estimated /\ estimated[x].pitch = pitch
  BY DEF OfPitch
<1>6. \A x \in DOMAIN estimated : CouldMatch(reference, estimated, r, x) =>
        x \in P /\ WithinTolerance(reference[r], estimated[x])
  BY DEF OfPitch, CouldMatch
<1>7. \A k \in K : candidates[k] \notin taken /\ candidates[k] \in P
                   /\ WithinTolerance(reference[r], estimated[candidates[k]])
  BY <1>2
<1>8. \A k \in DOMAIN candidates : candidates[k] \notin taken
        /\ WithinTolerance(reference[r], estimated[candidates[k]]) => k \in K
  OBVIOUS
<1>9. \A e : e \in taken <=> \E p \in matching : p[2] = e
  OBVIOUS
<1> HIDE DEF K, candidates, P, taken, open
<1>10. CASE n = 0
  <2>1. open = <<>>
    BY <1>4, <1>10
  <2>2. K = {}
    BY <1>4, <1>10
  <2>3. \A e \in DOMAIN estimated :
          CouldMatch(reference, estimated, r, e) => \E p \in matching : p[2] = e
    BY <1>2, <1>6, <1>8, <1>9, <2>2
  <2> QED BY <1>1, <2>1, <2>3
<1>11. CASE n # 0
  <2>1. open # <<>> /\ DOMAIN open = 1..n /\ n \in Nat \ {0}
    BY <1>4, <1>11
  <2>2. \A k \in 1..n : /\ open[k] \in DOMAIN estimated /\ open[k] \notin taken
                        /\ WithinTolerance(reference[r], estimated[open[k]])
                        /\ estimated[open[k]].pitch = pitch
    BY <1>4, <1>5, <1>7
  <2>3. \A k \in 1..n : Error(k) \in Nat
    <3>1. reference[r] \in NoteRecords /\ \A k \in 1..n : estimated[open[k]] \in NoteRecords
      BY <2>2 DEF Batches
    <3>2. reference[r].onset \in Nat /\ \A k \in 1..n : estimated[open[k]].onset \in Nat
      BY <3>1 DEF NoteRecords
    <3> QED BY <3>2 DEF OnsetError
  <2>4. \E k \in 1..n : \A other \in 1..n :
          Error(k) < Error(other) \/ (Error(k) = Error(other) /\ k <= other)
    <3> DEFINE error == [k \in 1..n |-> Error(k)]
    <3>1. error \in [1..n -> Nat]
      BY <2>3
    <3>2. \A k \in 1..n : error[k] = Error(k)
      OBVIOUS
    <3> HIDE DEF error, n, Error
    <3>3. \E k \in 1..n : \A other \in 1..n :
            error[k] < error[other] \/ (error[k] = error[other] /\ k <= other)
      BY <2>1, <3>1, FirstLowest
    <3> QED BY <3>2, <3>3
  <2>5. best \in 1..n
    <3> HIDE DEF Error, n
    <3> QED BY <2>1, <2>4
  <2> DEFINE e == open[best]
  <2>6. e \in DOMAIN estimated /\ e \notin taken /\ CouldMatch(reference, estimated, r, e)
    BY <2>2, <2>5 DEF CouldMatch
  <2>7. MatchNext(reference, estimated, matching, r) = matching \union {<<r, e>>}
    BY <1>1, <2>1
  <2> HIDE DEF e
  <2>8. \A p \in matching : p[2] # e
    BY <1>9, <2>6
  <2> QED BY <2>6, <2>7, <2>8
<1> QED BY <1>10, <1>11

LEMMA MatchNextType ==
  ASSUME NEW reference \in Batches, NEW estimated \in Batches,
         NEW matching \in Matchings(reference, estimated), NEW r \in DOMAIN reference
  PROVE  MatchNext(reference, estimated, matching, r) \in Matchings(reference, estimated)
BY MatchNextCases DEF Matchings, Pairs

LEMMA NothingMatched ==
  ASSUME NEW reference, NEW estimated
  PROVE  {} \in Matchings(reference, estimated)
BY DEF Matchings

LEMMA MatchFold ==
  ASSUME NEW reference \in Batches, NEW estimated \in Batches, NEW seq \in Seq(DOMAIN reference)
  PROVE  \E row \in [0..Len(seq) -> Matchings(reference, estimated)] :
           /\ row[0] = {}
           /\ \A k \in 1..Len(seq) : row[k] = MatchNext(reference, estimated, row[k - 1], seq[k])
           /\ FoldLeft(LAMBDA matching, r : MatchNext(reference, estimated, matching, r), {}, seq) = row[Len(seq)]
<1> DEFINE n == Len(seq)
           step == [p \in Matchings(reference, estimated) \X (1..n) |-> MatchNext(reference, estimated, p[1], seq[p[2]])]
           Is(g) == g = [s \in SUBSET (1..n) |->
                           IF s = {} THEN {} ELSE MatchNext(reference, estimated, g[s \ {Max(s)}], seq[Max(s)])]
           h == CHOOSE g : Is(g)
<1>1. n \in Nat /\ DOMAIN seq = 1..n /\ \A k \in 1..n : seq[k] \in DOMAIN reference
  OBVIOUS
<1>2. FoldLeft(LAMBDA matching, r : MatchNext(reference, estimated, matching, r), {}, seq) = h[1..n]
  BY <1>1 DEF FoldLeft, MapThenFoldSet
<1>3. {} \in Matchings(reference, estimated) /\ step \in Steps(Matchings(reference, estimated), n)
  BY <1>1, MatchNextType, NothingMatched DEF Steps
<1> HIDE DEF step
<1>4. \E g \in FoldFunctions(Matchings(reference, estimated), n) : IsFold(g, n, {}, step)
  BY <1>1, <1>3, FoldExists
<1>5. PICK g \in FoldFunctions(Matchings(reference, estimated), n) : IsFold(g, n, {}, step)
  BY <1>4
<1>6. Is(g)
  <2>1. ASSUME NEW s \in SUBSET (1..n)
        PROVE  g[s] = IF s = {} THEN {} ELSE MatchNext(reference, estimated, g[s \ {Max(s)}], seq[Max(s)])
    <3>1. CASE s = {}
      BY <1>5, <3>1 DEF IsFold
    <3>2. CASE s # {}
      <4>1. Max(s) \in 1..n /\ g[s \ {Max(s)}] \in Matchings(reference, estimated)
        BY <1>1, <1>5, <3>2, GreatestOfSome DEF FoldFunctions
      <4> HIDE DEF n
      <4> QED BY <1>5, <3>2, <4>1 DEF step, IsFold
    <3> QED BY <3>1, <3>2
  <2>2. g = [s \in SUBSET (1..n) |-> g[s]]
    BY <1>5 DEF FoldFunctions
  <2> QED BY <2>1, <2>2
<1>7. Is(h)
  BY <1>6
<1> HIDE DEF h
<1>8. h[{}] = {} /\ \A k \in 1..n : h[1..k] = MatchNext(reference, estimated, h[1..(k - 1)], seq[k])
  <2>1. h[{}] = {}
    BY <1>7
  <2>2. ASSUME NEW k \in 1..n PROVE h[1..k] = MatchNext(reference, estimated, h[1..(k - 1)], seq[k])
    <3>1. k \in Nat \ {0} /\ 1..k \in SUBSET (1..n)
      BY <1>1
    <3>2. 1..k # {} /\ (1..k) \ {k} = 1..(k - 1) /\ Max(1..k) = k
      BY ONLY <3>1, LastOfFirst
    <3> HIDE DEF n
    <3> QED BY <1>7, <3>1, <3>2
  <2> QED BY <2>1, <2>2
<1>9. \A k \in 1..n : h[1..(k - 1)] \in Matchings(reference, estimated) => h[1..k] = step[<<h[1..(k - 1)], k>>]
  BY <1>8 DEF step
<1>10. \E row \in Rows(Matchings(reference, estimated), n) : IsRow(row, n, {}, step) /\ h[1..n] = row[n]
  <2> DEFINE V == Matchings(reference, estimated)
             base == {}
  <2>1. base \in V /\ step \in Steps(V, n) /\ h[{}] = base
        /\ \A k \in 1..n : h[1..(k - 1)] \in V => h[1..k] = step[<<h[1..(k - 1)], k>>]
    BY <1>3, <1>8, <1>9
  <2> HIDE DEF V, base
  <2>2. \E row \in Rows(V, n) : IsRow(row, n, base, step) /\ h[1..n] = row[n]
    BY <1>1, <2>1, FoldRow
  <2> QED BY <2>2 DEF V, base
<1>11. PICK row \in Rows(Matchings(reference, estimated), n) : IsRow(row, n, {}, step) /\ h[1..n] = row[n]
  BY <1>10
<1>12. /\ row \in [0..n -> Matchings(reference, estimated)] /\ row[0] = {}
       /\ \A k \in 1..n : row[k - 1] \in Matchings(reference, estimated) /\ row[k] = step[<<row[k - 1], k>>]
  BY <1>1, <1>11 DEF Rows, IsRow
<1>13. \A k \in 1..n : row[k] = MatchNext(reference, estimated, row[k - 1], seq[k])
  BY <1>12 DEF step
<1> QED BY <1>2, <1>11, <1>12, <1>13

(* A matching of the notes of one pitch, after the first k of the reference's: they   *)
(* are matched one to one, and none of them could still be matched.                    *)
Matched(reference, estimated, pitch, order, matching, k) ==
  /\ \A p \in matching : /\ \E j \in 1..k : p[1] = order[j]
                         /\ reference[p[1]].pitch = pitch
                         /\ CouldMatch(reference, estimated, p[1], p[2])
  /\ \A p, q \in matching : p # q => p[1] # q[1] /\ p[2] # q[2]
  /\ \A j \in 1..k : \A e \in DOMAIN estimated :
       CouldMatch(reference, estimated, order[j], e) =>
         \E p \in matching : p[1] = order[j] \/ p[2] = e

LEMMA MatchedStep ==
  ASSUME NEW reference \in Batches, NEW estimated \in Batches, NEW pitch,
         NEW order \in Seq(DOMAIN reference), NEW k \in 1..Len(order),
         \A j \in 1..Len(order) : reference[order[j]].pitch = pitch,
         \A i, j \in 1..Len(order) : i # j => order[i] # order[j],
         NEW matching \in Matchings(reference, estimated),
         Matched(reference, estimated, pitch, order, matching, k - 1)
  PROVE  Matched(reference, estimated, pitch, order,
                 MatchNext(reference, estimated, matching, order[k]), k)
<1> DEFINE r == order[k]
           wider == MatchNext(reference, estimated, matching, r)
<1>1. r \in DOMAIN reference /\ reference[r].pitch = pitch
  OBVIOUS
<1>2. \A j \in 1..k : j \in 1..(k - 1) \/ j = k
  OBVIOUS
<1>3. \A j \in 1..(k - 1) : j \in 1..k /\ order[j] # r
  OBVIOUS
<1>4. k \in 1..k
  OBVIOUS
<1>5. \/ /\ wider = matching
         /\ \A e \in DOMAIN estimated :
              CouldMatch(reference, estimated, r, e) => \E p \in matching : p[2] = e
      \/ \E e \in DOMAIN estimated :
           /\ wider = matching \union {<<r, e>>}
           /\ CouldMatch(reference, estimated, r, e)
           /\ \A p \in matching : p[2] # e
  BY <1>1, MatchNextCases
<1>6. /\ \A p \in matching : /\ \E j \in 1..(k - 1) : p[1] = order[j]
                             /\ reference[p[1]].pitch = pitch
                             /\ CouldMatch(reference, estimated, p[1], p[2])
      /\ \A p, q \in matching : p # q => p[1] # q[1] /\ p[2] # q[2]
      /\ \A j \in 1..(k - 1) : \A e \in DOMAIN estimated :
           CouldMatch(reference, estimated, order[j], e) =>
             \E p \in matching : p[1] = order[j] \/ p[2] = e
  BY DEF Matched
<1>7. \A p \in matching : p[1] # r
  BY <1>3, <1>6
<1> HIDE DEF wider, r
<1>8. CASE /\ wider = matching
           /\ \A e \in DOMAIN estimated :
                CouldMatch(reference, estimated, r, e) => \E p \in matching : p[2] = e
  <2>1. \A j \in 1..k : \A e \in DOMAIN estimated :
          CouldMatch(reference, estimated, order[j], e) =>
            \E p \in wider : p[1] = order[j] \/ p[2] = e
    BY <1>2, <1>6, <1>8 DEF r
  <2>2. \A p \in wider : \E j \in 1..k : p[1] = order[j]
    BY <1>3, <1>6, <1>8
  <2> QED BY <1>6, <1>8, <2>1, <2>2 DEF Matched, wider, r
<1>9. ASSUME NEW e \in DOMAIN estimated, wider = matching \union {<<r, e>>},
             CouldMatch(reference, estimated, r, e), \A p \in matching : p[2] # e
      PROVE  Matched(reference, estimated, pitch, order, wider, k)
  <2> DEFINE pair == <<r, e>>
  <2>1. pair[1] = r /\ pair[2] = e /\ \A p \in wider : p \in matching \/ p = pair
    BY <1>9
  <2>2. pair \in wider /\ matching \subseteq wider
    BY <1>9
  <2> HIDE DEF pair
  <2>3. \A p \in wider : /\ \E j \in 1..k : p[1] = order[j]
                         /\ reference[p[1]].pitch = pitch
                         /\ CouldMatch(reference, estimated, p[1], p[2])
    <3>1. ASSUME NEW p \in matching
          PROVE  /\ \E j \in 1..k : p[1] = order[j]
                 /\ reference[p[1]].pitch = pitch
                 /\ CouldMatch(reference, estimated, p[1], p[2])
      BY <1>3, <1>6
    <3>2. /\ \E j \in 1..k : pair[1] = order[j]
          /\ reference[pair[1]].pitch = pitch
          /\ CouldMatch(reference, estimated, pair[1], pair[2])
      BY <1>1, <1>4, <1>9, <2>1 DEF r
    <3> QED BY <2>1, <3>1, <3>2
  <2>4. \A p, q \in wider : p # q => p[1] # q[1] /\ p[2] # q[2]
    BY <1>6, <1>7, <1>9, <2>1
  <2>5. \A j \in 1..k : \A f \in DOMAIN estimated :
          CouldMatch(reference, estimated, order[j], f) =>
            \E p \in wider : p[1] = order[j] \/ p[2] = f
    BY <1>2, <1>6, <2>1, <2>2 DEF r
  <2> QED BY <2>3, <2>4, <2>5 DEF Matched
<1> QED BY <1>5, <1>8, <1>9 DEF wider, r

\* What is matched of one pitch.
OfOnePitch(reference, estimated, pitch) ==
  FoldLeft(LAMBDA matching, r : MatchNext(reference, estimated, matching, r),
           {}, ByOnset(reference, pitch))

LEMMA PitchMatched ==
  ASSUME NEW reference \in Batches, NEW estimated \in Batches, NEW pitch
  PROVE  LET matching == OfOnePitch(reference, estimated, pitch)
         IN /\ matching \in Matchings(reference, estimated)
            /\ \A p \in matching : /\ reference[p[1]].pitch = pitch
                                   /\ CouldMatch(reference, estimated, p[1], p[2])
            /\ \A p, q \in matching : p # q => p[1] # q[1] /\ p[2] # q[2]
            /\ \A r \in OfPitch(reference, pitch), e \in DOMAIN estimated :
                 CouldMatch(reference, estimated, r, e) =>
                   \E p \in matching : p[1] = r \/ p[2] = e
<1> DEFINE order == ByOnset(reference, pitch)
           n == Len(order)
           P == OfPitch(reference, pitch)
           matching == OfOnePitch(reference, estimated, pitch)
<1>1. /\ order \in Seq(P) /\ order \in Seq(DOMAIN reference)
      /\ \A i, j \in 1..n : i # j => order[i] # order[j]
      /\ \A i \in P : \E k \in 1..n : order[k] = i
  BY ByOnsetSorts
<1>2. n \in Nat /\ \A j \in 1..n : reference[order[j]].pitch = pitch
  BY <1>1 DEF OfPitch
<1>a. matching = FoldLeft(LAMBDA m, r : MatchNext(reference, estimated, m, r), {}, order)
  BY DEF OfOnePitch
<1> HIDE DEF order, matching
<1>b. \E row \in [0..n -> Matchings(reference, estimated)] :
        /\ row[0] = {}
        /\ \A k \in 1..n : row[k] = MatchNext(reference, estimated, row[k - 1], order[k])
        /\ FoldLeft(LAMBDA m, r : MatchNext(reference, estimated, m, r), {}, order) = row[n]
  <2>1. order \in Seq(DOMAIN reference)
    BY <1>1
  <2> QED BY ONLY <2>1, reference \in Batches, estimated \in Batches, MatchFold, ZenonT(40)
<1>3. PICK row \in [0..n -> Matchings(reference, estimated)] :
        /\ row[0] = {}
        /\ \A k \in 1..n : row[k] = MatchNext(reference, estimated, row[k - 1], order[k])
        /\ matching = row[n]
  BY <1>a, <1>b
<1> HIDE DEF n, matching, P
<1> DEFINE G == {k \in 0..n : Matched(reference, estimated, pitch, order, row[k], k)}
<1>4. 0 \in G
  <2>1. Matched(reference, estimated, pitch, order, {}, 0)
    BY DEF Matched
  <2>2. 0 \in 0..n /\ row[0] = {}
    BY <1>2, <1>3
  <2> QED BY <2>1, <2>2
<1>5. ASSUME NEW k \in 1..n, k - 1 \in G PROVE k \in G
  <2>1. row[k - 1] \in Matchings(reference, estimated) /\ k \in 0..n
    BY <1>2, <1>3
  <2>2. Matched(reference, estimated, pitch, order, row[k - 1], k - 1)
    BY <1>5
  <2>3. k \in 1..Len(order)
    BY DEF n
  <2>4. Matched(reference, estimated, pitch, order,
                MatchNext(reference, estimated, row[k - 1], order[k]), k)
    BY <1>1, <1>2, <2>1, <2>2, <2>3, MatchedStep DEF n
  <2> QED BY <1>3, <2>1, <2>4
<1> HIDE DEF G
<1>6. \A k \in 0..n : k \in G
  BY <1>2, <1>4, <1>5, Induction
<1>7. n \in G /\ row[n] \in Matchings(reference, estimated)
  BY <1>2, <1>3, <1>6
<1>8. Matched(reference, estimated, pitch, order, matching, n)
  BY <1>3, <1>7 DEF G
<1>9. ASSUME NEW r \in P, NEW e \in DOMAIN estimated, CouldMatch(reference, estimated, r, e)
      PROVE  \E p \in matching : p[1] = r \/ p[2] = e
  BY <1>1, <1>8, <1>9 DEF Matched
<1>10. /\ matching \in Matchings(reference, estimated)
       /\ \A p \in matching : /\ reference[p[1]].pitch = pitch
                              /\ CouldMatch(reference, estimated, p[1], p[2])
       /\ \A p, q \in matching : p # q => p[1] # q[1] /\ p[2] # q[2]
  BY <1>3, <1>7, <1>8 DEF Matched
<1> QED BY <1>9, <1>10 DEF matching, P

MaximalMatching(reference, estimated, matching) ==
  /\ \A p, q \in matching : p # q => p[1] # q[1] /\ p[2] # q[2]
  /\ \A p \in matching : CouldMatch(reference, estimated, p[1], p[2])
  /\ \A r \in DOMAIN reference, e \in DOMAIN estimated :
       CouldMatch(reference, estimated, r, e) => \E p \in matching : p[1] = r \/ p[2] = e

LEMMA MatchNotesMaximal ==
  ASSUME NEW reference \in Batches, NEW estimated \in Batches
  PROVE  /\ MatchNotes(reference, estimated) \in Matchings(reference, estimated)
         /\ MaximalMatching(reference, estimated, MatchNotes(reference, estimated))
<1> DEFINE pitches == {reference[r].pitch : r \in DOMAIN reference}
           Of(pitch) == OfOnePitch(reference, estimated, pitch)
           matching == UNION {Of(pitch) : pitch \in pitches}
<1>1. MatchNotes(reference, estimated) = matching
  BY DEF MatchNotes, OfOnePitch
<1>2. ASSUME NEW pitch
      PROVE  /\ Of(pitch) \in Matchings(reference, estimated)
             /\ \A p \in Of(pitch) : /\ reference[p[1]].pitch = pitch
                                     /\ CouldMatch(reference, estimated, p[1], p[2])
             /\ \A p, q \in Of(pitch) : p # q => p[1] # q[1] /\ p[2] # q[2]
             /\ \A r \in OfPitch(reference, pitch), e \in DOMAIN estimated :
                  CouldMatch(reference, estimated, r, e) =>
                    \E p \in Of(pitch) : p[1] = r \/ p[2] = e
  BY PitchMatched
<1> HIDE DEF Of
<1>3. \A p \in matching : \E pitch \in pitches : p \in Of(pitch)
  OBVIOUS
<1>4. \A pitch \in pitches : Of(pitch) \subseteq matching
  OBVIOUS
<1>5. matching \in Matchings(reference, estimated)
  <2>1. \A pitch : Of(pitch) \subseteq Pairs(reference, estimated)
    BY <1>2 DEF Matchings
  <2> QED BY <1>3, <2>1 DEF Matchings
<1> HIDE DEF matching, pitches
<1>6. \A p \in matching : CouldMatch(reference, estimated, p[1], p[2])
  BY <1>2, <1>3
<1>7. ASSUME NEW p \in matching, NEW q \in matching, p # q PROVE p[1] # q[1] /\ p[2] # q[2]
  <2>1. PICK a \in pitches : p \in Of(a)
    BY <1>3
  <2>2. PICK b \in pitches : q \in Of(b)
    BY <1>3
  <2>3. CASE a = b
    BY <1>2, <1>7, <2>1, <2>2, <2>3
  <2>4. CASE a # b
    <3>1. reference[p[1]].pitch = a /\ reference[q[1]].pitch = b
      BY <1>2, <2>1, <2>2
    <3>2. estimated[p[2]].pitch = a /\ estimated[q[2]].pitch = b
      BY <1>6, <3>1 DEF CouldMatch
    <3> QED BY <2>4, <3>1, <3>2
  <2> QED BY <2>3, <2>4
<1>8. ASSUME NEW r \in DOMAIN reference, NEW e \in DOMAIN estimated,
             CouldMatch(reference, estimated, r, e)
      PROVE  \E p \in matching : p[1] = r \/ p[2] = e
  <2> DEFINE a == reference[r].pitch
  <2>1. a \in pitches /\ r \in OfPitch(reference, a)
    BY DEF pitches, OfPitch
  <2> HIDE DEF a
  <2>2. \E p \in Of(a) : p[1] = r \/ p[2] = e
    BY <1>2, <1>8, <2>1
  <2> QED BY <1>4, <2>1, <2>2
<1> QED BY <1>1, <1>5, <1>6, <1>7, <1>8 DEF MaximalMatching

\* A matching one to one is no larger than either of what it matches.
LEMMA OneToOne ==
  ASSUME NEW matching, NEW n \in Nat, NEW side \in {1, 2}, \A p \in matching : p[side] \in 1..n,
         \A p, q \in matching : p # q => p[side] # q[side]
  PROVE  IsFiniteSet(matching) /\ Cardinality(matching) \in 0..n
<1> DEFINE f == [p \in matching |-> p[side]]
<1>1. f \in Injection(matching, 1..n)
  BY DEF Injection, IsInjective
<1>2. IsFiniteSet(1..n) /\ Cardinality(1..n) = n
  BY CardinalityOfFirst
<1> HIDE DEF f
<1>3. IsFiniteSet(matching) /\ Cardinality(matching) <= Cardinality(1..n)
  BY <1>1, <1>2, FS_Injection
<1>4. Cardinality(matching) \in Nat
  BY <1>3, FS_CardinalityType
<1> QED BY <1>2, <1>3, <1>4

LEMMA RatioAccepted ==
  ASSUME NEW matched \in Nat, NEW count \in Nat, NEW both \in Nat, matched <= count
  PROVE  LET ratio == IF both = 0 THEN <<1, 1>>
                      ELSE IF count = 0 THEN <<0, 1>> ELSE <<matched, count>>
         IN AtMost(<<0, 1>>, ratio) /\ AtMost(ratio, <<1, 1>>)
BY DEF AtMost

LEMMA MinOfLengths ==
  ASSUME NEW m \in Int, NEW a \in Int, NEW b \in Int, m <= a, m <= b
  PROVE  m <= Min({a, b})
BY MinOfTwo

LEMMA EvaluationAccepted ==
  ASSUME NEW reference \in Batches, NEW estimated \in Batches
  PROVE  /\ MaximalMatching(reference, estimated, Evaluation(reference, estimated).matching)
         /\ MetricsAccepted(Evaluation(reference, estimated), reference, estimated)
<1> DEFINE matching == MatchNotes(reference, estimated)
           size == Cardinality(matching)
           evaluation == Evaluation(reference, estimated)
           r == Len(reference)
           e == Len(estimated)
           both == r + e
           Ratio(count) == IF both = 0 THEN <<1, 1>>
                           ELSE IF count = 0 THEN <<0, 1>> ELSE <<size, count>>
           errors == {OnsetError(reference[p[1]], estimated[p[2]]) : p \in matching}
<1>1. /\ evaluation.matching = matching /\ evaluation.matched = size
      /\ evaluation.precision = Ratio(e) /\ evaluation.recall = Ratio(r)
      /\ evaluation.f1 = IF both = 0 THEN <<1, 1>> ELSE <<2 * size, both>>
      /\ evaluation.errors = errors
  BY DEF Evaluation
<1>2. MaximalMatching(reference, estimated, matching)
  BY MatchNotesMaximal
<1>3. r \in Nat /\ e \in Nat /\ both \in Nat
      /\ \A p \in matching : p[1] \in 1..r /\ p[2] \in 1..e
  BY MatchNotesMaximal DEF Matchings, Pairs, Batches
<1>4. \A p, q \in matching : p # q => p[1] # q[1] /\ p[2] # q[2]
  BY <1>2 DEF MaximalMatching
<1> HIDE DEF matching, r, e
<1>5. IsFiniteSet(matching) /\ size \in 0..r
  BY <1>3, <1>4, OneToOne
<1>6. size \in 0..e
  BY <1>3, <1>4, OneToOne
<1>7. size = 0 <=> matching = {}
  BY <1>5, FS_EmptySet
<1>8. (size = 0) <=> (errors = {})
  BY <1>7
<1> HIDE DEF size, errors
<1>9. size <= Min({r, e})
  BY <1>3, <1>5, <1>6, MinOfLengths
<1>10. AtMost(<<0, 1>>, Ratio(e)) /\ AtMost(Ratio(e), <<1, 1>>)
  BY <1>3, <1>6, RatioAccepted
<1>11. AtMost(<<0, 1>>, Ratio(r)) /\ AtMost(Ratio(r), <<1, 1>>)
  BY <1>3, <1>5, RatioAccepted
<1> DEFINE f1 == IF both = 0 THEN <<1, 1>> ELSE <<2 * size, both>>
<1>12. AtMost(<<0, 1>>, f1) /\ AtMost(f1, <<1, 1>>)
  <2>1. both \in Nat /\ 2 * size <= both /\ size \in Nat
    BY <1>3, <1>5, <1>6
  <2> HIDE DEF both
  <2>2. CASE both = 0
    BY <2>2 DEF AtMost
  <2>3. CASE both # 0
    BY <2>1, <2>3 DEF AtMost
  <2> QED BY <2>2, <2>3
<1> HIDE DEF Ratio, f1, both
<1>13. \A ratio \in {evaluation.precision, evaluation.recall, evaluation.f1} :
         AtMost(<<0, 1>>, ratio) /\ AtMost(ratio, <<1, 1>>)
  BY <1>1, <1>10, <1>11, <1>12 DEF f1
<1>14. MetricsAccepted(evaluation, reference, estimated)
  BY <1>1, <1>8, <1>9, <1>13 DEF MetricsAccepted, r, e
<1> QED BY <1>1, <1>2, <1>14

LEMMA EvaluatedInit ==
  ASSUME Init PROVE Evaluated
BY DEF Init, Evaluated

LEMMA EvaluatedStep ==
  ASSUME Evaluated, [Next]_vars PROVE Evaluated'
<1>1. ASSUME Evaluate PROVE Evaluated'
  <2>1. PICK reference \in References :
          LET evaluation == Evaluation(reference, local.processed.notes)
          IN metrics' = {[reference |-> reference, evaluation |-> evaluation,
                          accepted |-> MetricsAccepted(evaluation, reference,
                                                       local.processed.notes)]}
    BY <1>1 DEF Evaluate
  <2>2. stage' = "returned" /\ local' = local
    BY <1>1 DEF Evaluate
  <2> QED BY <2>1, <2>2 DEF Evaluated
<1>2. ASSUME stage # "returned", metrics' = metrics PROVE Evaluated'
  BY <1>2 DEF Evaluated
<1>3. ASSUME ReadChunk \/ FinishUpload \/ Claim \/ RegisterReview \/ RegisterArtifacts PROVE Evaluated'
  BY <1>2, <1>3 DEF ReadChunk, FinishUpload, Claim, RegisterReview, RegisterArtifacts
<1>4. ASSUME \/ Convert \/ Transcribe \/ PostProcessEvents \/ MarkConfidence \/ TransposePitches
             \/ FindTempo \/ QuantizeRhythm \/ WriteMidi \/ WriteScore \/ RenderPages \/ BuildBundle
             \/ Observe
      PROVE Evaluated'
  BY <1>2, <1>4 DEF Convert, Transcribe, PostProcessEvents, MarkConfidence, TransposePitches,
     FindTempo, QuantizeRhythm, WriteMidi, WriteScore, RenderPages, BuildBundle, Observe, Kept
<1>5. ASSUME UNCHANGED vars PROVE Evaluated'
  BY <1>5 DEF vars, Evaluated
<1> QED BY <1>1, <1>3, <1>4, <1>5 DEF Next

LEMMA EvaluationOfComputed ==
  ASSUME Computed, Evaluated, NEW m \in metrics
  PROVE  /\ m.reference \in Batches /\ local.processed.notes \in Batches
         /\ MaximalMatching(m.reference, local.processed.notes, m.evaluation.matching)
         /\ m.accepted
<1>1. stage = "returned" /\ m.reference \in References
      /\ m.evaluation = Evaluation(m.reference, local.processed.notes)
      /\ m.accepted = MetricsAccepted(m.evaluation, m.reference, local.processed.notes)
  BY DEF Evaluated
<1>2. Cleaned(local)
  BY <1>1 DEF Computed, LateStages, Scored, Exported, Quantized, Timed, Written, Marked
<1>3. local.processed.notes \in Batches
  BY <1>2, CleanedKeepsBest
<1>4. m.reference \in Batches
  BY <1>1, PipelineAssumption DEF Batches
<1> QED BY <1>1, <1>3, <1>4, EvaluationAccepted

(* There is an evaluation only after a run that returned; it is the matching of a       *)
(* reference with the notes of that run, and the contract of the metrics decides on it.  *)
THEOREM EvaluationsCompute == Spec => []Evaluated
<1>1. Init => Evaluated
  BY EvaluatedInit
<1>2. Evaluated /\ [Next]_vars => Evaluated'
  BY EvaluatedStep
<1> QED BY <1>1, <1>2, PTL DEF Spec

(* The notes of a transcription and of any reference are matched one to one, within   *)
(* the tolerance, and no two notes that would match are both left over.                *)
THEOREM MatchingsMaximal == Spec => []MatchingMaximal
<1>1. ControlType /\ Computed /\ Evaluated => MatchingMaximal
  BY EvaluationOfComputed DEF MatchingMaximal, MaximalMatching, CouldMatch
<1> QED BY <1>1, StagesCompute, EvaluationsCompute, PTL

-----------------------------------------------------------------------------
(* Tempos. Halving brings a tempo below any maximum, doubling above any minimum.      *)

\* A tempo that is not above the maximum, or is no number, is not halved.
LEMMA Halving ==
  ASSUME NEW maximum \in PositiveNumbers
  PROVE  IsMeasured(Quotients, {q \in Quotients : AtMost(q, maximum) \/ q[2] = 0},
                    [q \in Quotients |-> Halve(q)],
                    [q \in Quotients |-> IF AtMost(q, maximum) THEN 0
                                         ELSE q[1] * maximum[2] - maximum[1] * q[2]])
<1> DEFINE stop == {q \in Quotients : AtMost(q, maximum) \/ q[2] = 0}
           next == [q \in Quotients |-> Halve(q)]
           measure == [q \in Quotients |-> IF AtMost(q, maximum) THEN 0
                                         ELSE q[1] * maximum[2] - maximum[1] * q[2]]
<1>1. maximum[1] \in Nat \ {0} /\ maximum[2] \in Nat \ {0}
  BY DEF PositiveNumbers
<1>2. next \in [Quotients -> Quotients]
  <2>1. \A q \in Quotients : <<q[1], 2 * q[2]>> \in Quotients
    BY DEF Quotients
  <2> QED BY <2>1 DEF Halve
<1>3. ASSUME NEW q \in Quotients
      PROVE  /\ measure[q] \in Nat
             /\ q \in stop \/ measure[next[q]] < measure[q]
  <2> DEFINE a == q[1] * maximum[2]
             b == maximum[1] * q[2]
             c == maximum[1] * (2 * q[2])
  <2>1. q[1] \in Nat /\ q[2] \in Nat
    BY DEF Quotients
  <2>2. a \in Nat /\ b \in Nat /\ c = b + b
    BY <1>1, <2>1
  <2>3. q[2] # 0 => b > 0
    <3>1. ASSUME NEW x \in Nat \ {0}, NEW y \in Nat \ {0} PROVE x * y > 0
      OBVIOUS
    <3> QED BY <1>1, <2>1, <3>1
  <2>4. AtMost(q, maximum) <=> a <= b
    BY DEF AtMost
  <2>5. AtMost(Halve(q), maximum) <=> a <= c
    BY DEF AtMost, Halve
  <2>6. measure[q] = IF AtMost(q, maximum) THEN 0 ELSE a - b
    OBVIOUS
  <2>7. measure[next[q]] = IF AtMost(Halve(q), maximum) THEN 0 ELSE a - c
    <3>1. next[q] = Halve(q) /\ Halve(q) \in Quotients /\ Halve(q)[1] = q[1] /\ Halve(q)[2] = 2 * q[2]
      BY <1>2 DEF Halve
    <3> QED BY <3>1
  <2>8. q \in stop <=> AtMost(q, maximum) \/ q[2] = 0
    OBVIOUS
  <2> HIDE DEF a, b, c, measure, next, stop
  <2> QED BY <2>1, <2>2, <2>3, <2>4, <2>5, <2>6, <2>7, <2>8
<1>4. measure \in [Quotients -> Nat]
  BY <1>3
<1> HIDE DEF stop, next, measure
<1> QED BY <1>2, <1>3, <1>4 DEF IsMeasured, stop, next, measure

\* A tempo that is not below the minimum, or is zero, is not doubled.
LEMMA Doubling ==
  ASSUME NEW minimum \in PositiveNumbers
  PROVE  IsMeasured(Quotients, {q \in Quotients : AtMost(minimum, q) \/ q[1] = 0},
                    [q \in Quotients |-> Double(q)],
                    [q \in Quotients |-> IF AtMost(minimum, q) THEN 0
                                         ELSE minimum[1] * q[2] - q[1] * minimum[2]])
<1> DEFINE stop == {q \in Quotients : AtMost(minimum, q) \/ q[1] = 0}
           next == [q \in Quotients |-> Double(q)]
           measure == [q \in Quotients |-> IF AtMost(minimum, q) THEN 0
                                         ELSE minimum[1] * q[2] - q[1] * minimum[2]]
<1>1. minimum[1] \in Nat \ {0} /\ minimum[2] \in Nat \ {0}
  BY DEF PositiveNumbers
<1>2. next \in [Quotients -> Quotients]
  <2>1. \A q \in Quotients : <<2 * q[1], q[2]>> \in Quotients
    BY DEF Quotients
  <2> QED BY <2>1 DEF Double
<1>3. ASSUME NEW q \in Quotients
      PROVE  /\ measure[q] \in Nat
             /\ q \in stop \/ measure[next[q]] < measure[q]
  <2> DEFINE a == minimum[1] * q[2]
             b == q[1] * minimum[2]
             c == (2 * q[1]) * minimum[2]
  <2>1. q[1] \in Nat /\ q[2] \in Nat
    BY DEF Quotients
  <2>2. a \in Nat /\ b \in Nat /\ c = b + b
    BY <1>1, <2>1
  <2>3. q[1] # 0 => b > 0
    <3>1. ASSUME NEW x \in Nat \ {0}, NEW y \in Nat \ {0} PROVE x * y > 0
      OBVIOUS
    <3> QED BY <1>1, <2>1, <3>1
  <2>4. AtMost(minimum, q) <=> a <= b
    BY DEF AtMost
  <2>5. AtMost(minimum, Double(q)) <=> a <= c
    BY DEF AtMost, Double
  <2>6. measure[q] = IF AtMost(minimum, q) THEN 0 ELSE a - b
    OBVIOUS
  <2>7. measure[next[q]] = IF AtMost(minimum, Double(q)) THEN 0 ELSE a - c
    <3>1. next[q] = Double(q) /\ Double(q) \in Quotients /\ Double(q)[1] = 2 * q[1] /\ Double(q)[2] = q[2]
      BY <1>2 DEF Double
    <3> QED BY <3>1
  <2>8. q \in stop <=> AtMost(minimum, q) \/ q[1] = 0
    OBVIOUS
  <2> HIDE DEF a, b, c, measure, next, stop
  <2> QED BY <2>1, <2>2, <2>3, <2>4, <2>5, <2>6, <2>7, <2>8
<1>4. measure \in [Quotients -> Nat]
  BY <1>3
<1> HIDE DEF stop, next, measure
<1> QED BY <1>2, <1>3, <1>4 DEF IsMeasured, stop, next, measure

\* The functions HalvedTo and DoubledTo define by recursion exist.
LEMMA HalvedToFunction ==
  ASSUME NEW maximum \in PositiveNumbers
  PROVE  \E g :
           /\ \A q \in Quotients : g[q] = IF AtMost(q, maximum) THEN q ELSE g[Halve(q)]
           /\ \A bpm : HalvedTo(maximum, bpm) = g[bpm]
<1> DEFINE stop == {q \in Quotients : AtMost(q, maximum) \/ q[2] = 0}
           next == [q \in Quotients |-> Halve(q)]
           measure == [q \in Quotients |-> IF AtMost(q, maximum) THEN 0
                                         ELSE q[1] * maximum[2] - maximum[1] * q[2]]
           base == [q \in Quotients |-> q]
           step == [p \in Quotients \X Quotients |-> p[1]]
           Is(g) == g = [q \in Quotients |-> IF AtMost(q, maximum) THEN q ELSE g[Halve(q)]]
           h == CHOOSE g : Is(g)
<1>1. IsMeasured(Quotients, stop, next, measure)
  BY Halving
<1>2. base \in Results(Quotients, Quotients) /\ step \in Answers(Quotients, Quotients)
  BY DEF Results, Answers
<1>3. \E g \in Results(Quotients, Quotients) :
        \A q \in Quotients : Obeys(g, q, stop, next, base, step)
  <2> HIDE DEF stop, next, measure, base, step
  <2> QED BY <1>1, <1>2, MeasuredRecursion
<1>4. PICK g \in Results(Quotients, Quotients) :
        \A q \in Quotients : Obeys(g, q, stop, next, base, step)
  BY <1>3
<1>5. ASSUME NEW q \in Quotients PROVE g[q] = IF AtMost(q, maximum) THEN q ELSE g[Halve(q)]
  <2>1. Halve(q) \in Quotients /\ (q[2] = 0 => Halve(q) = q)
    BY DEF Halve, Quotients
  <2>2. Obeys(g, q, stop, next, base, step) /\ g[Halve(q)] \in Quotients
    BY <1>4, <2>1 DEF Results
  <2>3. CASE q \in stop
    BY <2>1, <2>2, <2>3 DEF Obeys
  <2>4. CASE q \notin stop
    <3>1. g[q] = step[<<g[Halve(q)], q>>]
      BY <2>2, <2>4 DEF Obeys
    <3>2. step[<<g[Halve(q)], q>>] = g[Halve(q)]
      BY <2>2
    <3> QED BY <2>4, <3>1, <3>2
  <2> QED BY <2>3, <2>4
<1>6. Is(g)
  BY <1>4, <1>5 DEF Results
<1>7. Is(h)
  BY <1>6
<1>8. \A bpm : HalvedTo(maximum, bpm) = h[bpm]
  BY DEF HalvedTo
<1> HIDE DEF h
<1>9. \A q \in Quotients : h[q] = IF AtMost(q, maximum) THEN q ELSE h[Halve(q)]
  BY <1>7
<1> QED BY <1>8, <1>9

LEMMA DoubledToFunction ==
  ASSUME NEW minimum \in PositiveNumbers
  PROVE  \E g :
           /\ \A q \in Quotients : g[q] = IF AtMost(minimum, q) THEN q ELSE g[Double(q)]
           /\ \A bpm : DoubledTo(minimum, bpm) = g[bpm]
<1> DEFINE stop == {q \in Quotients : AtMost(minimum, q) \/ q[1] = 0}
           next == [q \in Quotients |-> Double(q)]
           measure == [q \in Quotients |-> IF AtMost(minimum, q) THEN 0
                                         ELSE minimum[1] * q[2] - q[1] * minimum[2]]
           base == [q \in Quotients |-> q]
           step == [p \in Quotients \X Quotients |-> p[1]]
           Is(g) == g = [q \in Quotients |-> IF AtMost(minimum, q) THEN q ELSE g[Double(q)]]
           h == CHOOSE g : Is(g)
<1>1. IsMeasured(Quotients, stop, next, measure)
  BY Doubling
<1>2. base \in Results(Quotients, Quotients) /\ step \in Answers(Quotients, Quotients)
  BY DEF Results, Answers
<1>3. \E g \in Results(Quotients, Quotients) :
        \A q \in Quotients : Obeys(g, q, stop, next, base, step)
  <2> HIDE DEF stop, next, measure, base, step
  <2> QED BY <1>1, <1>2, MeasuredRecursion
<1>4. PICK g \in Results(Quotients, Quotients) :
        \A q \in Quotients : Obeys(g, q, stop, next, base, step)
  BY <1>3
<1>5. ASSUME NEW q \in Quotients PROVE g[q] = IF AtMost(minimum, q) THEN q ELSE g[Double(q)]
  <2>1. Double(q) \in Quotients /\ (q[1] = 0 => Double(q) = q)
    BY DEF Double, Quotients
  <2>2. Obeys(g, q, stop, next, base, step) /\ g[Double(q)] \in Quotients
    BY <1>4, <2>1 DEF Results
  <2>3. CASE q \in stop
    BY <2>1, <2>2, <2>3 DEF Obeys
  <2>4. CASE q \notin stop
    <3>1. g[q] = step[<<g[Double(q)], q>>]
      BY <2>2, <2>4 DEF Obeys
    <3>2. step[<<g[Double(q)], q>>] = g[Double(q)]
      BY <2>2
    <3> QED BY <2>4, <3>1, <3>2
  <2> QED BY <2>3, <2>4
<1>6. Is(g)
  BY <1>4, <1>5 DEF Results
<1>7. Is(h)
  BY <1>6
<1>8. \A bpm : DoubledTo(minimum, bpm) = h[bpm]
  BY DEF DoubledTo
<1> HIDE DEF h
<1>9. \A q \in Quotients : h[q] = IF AtMost(minimum, q) THEN q ELSE h[Double(q)]
  BY <1>7
<1> QED BY <1>8, <1>9

\* Halving a tempo leaves a tempo that is not above the maximum.
LEMMA HalvedToPositive ==
  ASSUME NEW maximum \in PositiveNumbers, NEW bpm \in PositiveNumbers
  PROVE  HalvedTo(maximum, bpm) \in PositiveNumbers /\ AtMost(HalvedTo(maximum, bpm), maximum)
<1> DEFINE stop == {q \in Quotients : AtMost(q, maximum) \/ q[2] = 0}
           next == [q \in Quotients |-> Halve(q)]
           measure == [q \in Quotients |-> IF AtMost(q, maximum) THEN 0
                                         ELSE q[1] * maximum[2] - maximum[1] * q[2]]
<1>1. IsMeasured(Quotients, stop, next, measure)
  BY Halving
<1>2. PICK g : /\ \A q \in Quotients : g[q] = IF AtMost(q, maximum) THEN q ELSE g[Halve(q)]
               /\ \A b : HalvedTo(maximum, b) = g[b]
  BY HalvedToFunction
<1> DEFINE G == {q \in Quotients : q \in PositiveNumbers =>
                                     g[q] \in PositiveNumbers /\ AtMost(g[q], maximum)}
<1>3. ASSUME NEW q \in Quotients, q \in stop \/ next[q] \in G PROVE q \in G
  <2>1. next[q] = Halve(q) /\ Halve(q) \in Quotients
    BY DEF Halve, Quotients
  <2>2. q \in PositiveNumbers => Halve(q) \in PositiveNumbers /\ q[2] # 0
    BY DEF Halve, PositiveNumbers
  <2>3. CASE AtMost(q, maximum)
    BY <1>2, <2>3
  <2>4. CASE ~AtMost(q, maximum)
    BY <1>2, <1>3, <2>1, <2>2, <2>4
  <2> QED BY <2>3, <2>4
<1> HIDE DEF stop, next, measure, G
<1>4. \A q \in Quotients : q \in G
  BY <1>1, <1>3, MeasuredInduction
<1>5. bpm \in Quotients
  BY DEF Quotients, PositiveNumbers
<1> QED BY <1>2, <1>4, <1>5 DEF G

\* Doubling a tempo leaves a tempo that is not below the minimum.
LEMMA DoubledToPositive ==
  ASSUME NEW minimum \in PositiveNumbers, NEW bpm \in PositiveNumbers
  PROVE  DoubledTo(minimum, bpm) \in PositiveNumbers /\ AtMost(minimum, DoubledTo(minimum, bpm))
<1> DEFINE stop == {q \in Quotients : AtMost(minimum, q) \/ q[1] = 0}
           next == [q \in Quotients |-> Double(q)]
           measure == [q \in Quotients |-> IF AtMost(minimum, q) THEN 0
                                         ELSE minimum[1] * q[2] - q[1] * minimum[2]]
<1>1. IsMeasured(Quotients, stop, next, measure)
  BY Doubling
<1>2. PICK g : /\ \A q \in Quotients : g[q] = IF AtMost(minimum, q) THEN q ELSE g[Double(q)]
               /\ \A b : DoubledTo(minimum, b) = g[b]
  BY DoubledToFunction
<1> DEFINE G == {q \in Quotients : q \in PositiveNumbers =>
                                     g[q] \in PositiveNumbers /\ AtMost(minimum, g[q])}
<1>3. ASSUME NEW q \in Quotients, q \in stop \/ next[q] \in G PROVE q \in G
  <2>1. next[q] = Double(q) /\ Double(q) \in Quotients
    BY DEF Double, Quotients
  <2>2. q \in PositiveNumbers => Double(q) \in PositiveNumbers /\ q[1] # 0
    BY DEF Double, PositiveNumbers
  <2>3. CASE AtMost(minimum, q)
    BY <1>2, <2>3
  <2>4. CASE ~AtMost(minimum, q)
    BY <1>2, <1>3, <2>1, <2>2, <2>4
  <2> QED BY <2>3, <2>4
<1> HIDE DEF stop, next, measure, G
<1>4. \A q \in Quotients : q \in G
  BY <1>1, <1>3, MeasuredInduction
<1>5. bpm \in Quotients
  BY DEF Quotients, PositiveNumbers
<1> QED BY <1>2, <1>4, <1>5 DEF G

-----------------------------------------------------------------------------
\* The notes of a transcription, with their written pitches.
Played(events) ==
  /\ Len(events) \in Nat /\ DOMAIN events = 1..Len(events)
  /\ \E V : events \in Seq(V)
  /\ \A i \in 1..Len(events) :
       /\ events[i].source.event \in NoteRecords
       /\ events[i].source.event.onset < events[i].source.event.offset

LEMMA PlayedNumbers ==
  ASSUME NEW events, Played(events)
  PROVE  /\ Len(events) \in Nat /\ DOMAIN events = 1..Len(events)
         /\ \A i \in 1..Len(events) :
              /\ events[i].source.event.onset \in Nat /\ events[i].source.event.offset \in Nat
              /\ events[i].source.event.onset < events[i].source.event.offset
              /\ events[i].source.event.pitch \in MidiValues
              /\ events[i].source.event.velocity \in MidiValues
BY DEF Played, NoteRecords

LEMMA WrittenPlayed ==
  ASSUME Written(local)
  PROVE  /\ Played(local.written.events)
         /\ \A i \in 1..Len(local.written.events) :
              /\ local.written.events[i].written =
                   TransposeConcertPitch(local.written.events[i].source.event.pitch, setup.saxophone)
              /\ local.written.events[i].written \in MidiValues
<1> DEFINE notes == local.processed.notes
           annotated == local.confidence.events
           events == local.written.events
<1>1. Marked(local) /\ Cleaned(local)
  BY DEF Written, Marked
<1>2. notes \in Batches /\ NoteBatchAccepted(notes)
  BY <1>1, CleanedKeepsBest
<1>3. Len(notes) \in Nat /\ DOMAIN notes = 1..Len(notes)
      /\ \A i \in 1..Len(notes) : notes[i] \in NoteRecords
  BY <1>2 DEF Batches
<1>4. \A i \in 1..Len(notes) : notes[i].onset < notes[i].offset
  <2>1. ASSUME NEW i \in 1..Len(notes) PROVE notes[i].onset < notes[i].offset
    <3>1. notes[i] \in NoteRecords /\ notes[i].offset > notes[i].onset
      BY <1>2, <1>3 DEF NoteBatchAccepted, NoteEventAccepted
    <3>2. notes[i].offset \in Nat /\ notes[i].onset \in Nat
      BY <3>1 DEF NoteRecords
    <3> QED BY <3>1, <3>2
  <2> QED BY <2>1
<1>5. annotated = [i \in DOMAIN notes |->
                     [event |-> notes[i], is_low_confidence |-> IsLowConfidence(notes[i])]]
  <2> DEFINE marked == local.confidence
  <2>1. marked = MarkLowConfidence(notes)
    BY <1>1 DEF Marked
  <2> HIDE DEF marked, notes
  <2>2. marked.events = [i \in DOMAIN notes |->
                          [event |-> notes[i], is_low_confidence |-> IsLowConfidence(notes[i])]]
    BY ONLY <2>1 DEF MarkLowConfidence
  <2> QED BY <2>2 DEF marked
<1>6. events = [i \in DOMAIN annotated |->
                  [source |-> annotated[i],
                   written |-> TransposeConcertPitch(annotated[i].event.pitch, setup.saxophone)]]
  BY DEF Written, Transpose
<1>7. WrittenInRange(annotated, setup.saxophone)
  BY DEF Written
<1> HIDE DEF annotated, events, notes
<1>8. DOMAIN annotated = 1..Len(notes) /\ DOMAIN events = 1..Len(notes)
      /\ \A i \in 1..Len(notes) : annotated[i].event = notes[i]
  BY <1>3, <1>5, <1>6
<1>9. \A i \in 1..Len(notes) :
        /\ events[i].source = annotated[i]
        /\ events[i].written = TransposeConcertPitch(annotated[i].event.pitch, setup.saxophone)
        /\ TransposeConcertPitch(annotated[i].event.pitch, setup.saxophone) \in MidiValues
  BY <1>6, <1>7, <1>8 DEF WrittenInRange
<1>10. Len(events) = Len(notes)
  BY <1>3, <1>6, <1>8
<1>11. \E V : events \in Seq(V)
  <2>1. events \in Seq({events[i] : i \in 1..Len(notes)})
    BY <1>3, <1>6, <1>8
  <2> QED BY <2>1
<1>12. \A i \in 1..Len(notes) : events[i].source.event = notes[i] /\ notes[i] \in NoteRecords
  BY <1>3, <1>8, <1>9
<1>13. Played(events)
  BY <1>3, <1>4, <1>8, <1>10, <1>11, <1>12 DEF Played
<1>14. \A i \in 1..Len(events) :
         /\ events[i].written = TransposeConcertPitch(events[i].source.event.pitch, setup.saxophone)
         /\ events[i].written \in MidiValues
  BY <1>8, <1>9, <1>10, <1>12
<1> QED BY <1>13, <1>14 DEF events

\* What is read off a list is finite.
LEMMA FiniteImage ==
  ASSUME NEW n \in Nat, NEW T, NEW f \in [1..n -> T], \A y \in T : \E i \in 1..n : f[i] = y
  PROVE  IsFiniteSet(T) /\ Cardinality(T) \in 0..n
<1>1. IsFiniteSet(1..n) /\ Cardinality(1..n) = n
  BY CardinalityOfFirst
<1>2. f \in Surjection(1..n, T)
  BY DEF Surjection
<1>3. IsFiniteSet(T) /\ Cardinality(T) <= n
  BY <1>1, <1>2, FS_Surjection
<1> QED BY <1>3, FS_CardinalityType

LEMMA IntervalsPositive ==
  ASSUME NEW events, Played(events)
  PROVE  OnsetIntervals(events) \in Seq(Nat \ {0})
<1> DEFINE S == {events[i].source.event.onset : i \in DOMAIN events}
           onsets == Ascending(S)
           f == [i \in 1..Len(events) |-> events[i].source.event.onset]
           m == Cardinality(S)
<1>1. S \in SUBSET Nat /\ IsFiniteSet(S)
  <2>1. Len(events) \in Nat /\ DOMAIN events = 1..Len(events)
        /\ \A i \in 1..Len(events) : events[i].source.event.onset \in Nat
    BY PlayedNumbers
  <2>2. f \in [1..Len(events) -> S] /\ \A y \in S : \E i \in 1..Len(events) : f[i] = y
    BY <2>1
  <2>3. S \in SUBSET Nat
    BY <2>1
  <2> HIDE DEF S, f
  <2> QED BY <2>1, <2>2, <2>3, FiniteImage
<1> HIDE DEF S
<1>2. /\ m \in Nat /\ onsets \in [1..m -> S]
      /\ \A i, j \in 1..m : i < j => onsets[i] < onsets[j]
  BY <1>1, AscendingSorts
<1> HIDE DEF onsets, m
<1>3. Len(onsets) = m /\ \A i \in 1..m : onsets[i] \in Nat
  <2>1. onsets \in [1..m -> S] /\ m \in Nat
    BY <1>2
  <2>2. \A i \in 1..m : onsets[i] \in Nat
    BY <1>1, <2>1
  <2>3. onsets \in Seq(S) /\ DOMAIN onsets = 1..m
    BY <2>1
  <2> QED BY <2>1, <2>2, <2>3
<1> DEFINE last == Max({0, m - 1})
<1>4. last \in Nat /\ last <= m /\ (last # 0 => last = m - 1)
  <2>1. Max({0, m - 1}) = IF 0 >= m - 1 THEN 0 ELSE m - 1
    BY <1>2, MaxOfTwo
  <2> QED BY <1>2, <2>1
<1>5. OnsetIntervals(events) = [i \in 1..last |-> onsets[i + 1] - onsets[i]]
  BY <1>3 DEF OnsetIntervals, onsets, S
<1> HIDE DEF last
<1>6. ASSUME NEW i \in 1..last PROVE onsets[i + 1] - onsets[i] \in Nat \ {0}
  <2>1. i \in 1..m /\ i + 1 \in 1..m /\ i < i + 1
    BY <1>2, <1>4
  <2> QED BY <1>2, <1>3, <2>1
<1> QED BY <1>4, <1>5, <1>6

LEMMA CandidatesPositive ==
  ASSUME NEW intervals \in Seq(Nat \ {0})
  PROVE  CandidateTempos(intervals) \in Seq(PositiveNumbers)
         /\ Len(CandidateTempos(intervals)) = Len(intervals)
<1> DEFINE n == Len(intervals)
           s == [i \in DOMAIN intervals |-> <<60 * Second, intervals[i]>>]
           key == [i \in DOMAIN intervals |-> <<-intervals[i]>>]
           order == SortedPositions(s, key)
           one == 1
<1>1. n \in Nat /\ DOMAIN intervals = 1..n /\ \A i \in 1..n : intervals[i] \in Nat \ {0}
  OBVIOUS
<1>2. \A i \in 1..n : <<60 * Second, intervals[i]>> \in PositiveNumbers
  BY <1>1, NoteAssumption DEF PositiveNumbers
<1>3. s \in Seq(PositiveNumbers) /\ Len(s) = n /\ DOMAIN s = 1..n
  BY <1>1, <1>2
<1>4. key \in PositionKeys(s, one)
  <2>1. \A i \in 1..n : <<-intervals[i]>> \in Tuples(one)
    BY <1>1 DEF Tuples
  <2> HIDE DEF s, one
  <2> QED BY <1>1, <1>3, <2>1 DEF PositionKeys
<1> HIDE DEF s, key, one
<1>5. one \in Nat
  BY DEF one
<1>6. order \in [1..Len(s) -> 1..Len(s)]
  BY <1>3, <1>4, <1>5, SortedPositionsSort
<1>7. CandidateTempos(intervals) = [k \in DOMAIN order |-> s[order[k]]]
  BY DEF CandidateTempos, Sorted, s, key
<1> HIDE DEF order, n
<1>8. DOMAIN order = 1..n /\ \A k \in 1..n : s[order[k]] \in PositiveNumbers
  BY <1>3, <1>6
<1> QED BY <1>1, <1>7, <1>8 DEF n

LEMMA MedianPositive ==
  ASSUME NEW s \in Seq(PositiveNumbers), Len(s) > 0
  PROVE  Median(s) \in PositiveNumbers
<1> DEFINE half == Len(s) \div 2
<1>1. Len(s) \in Nat \ {0}
  OBVIOUS
<1>2. \A i \in 1..Len(s) : s[i] \in PositiveNumbers
  OBVIOUS
<1>3. CASE Len(s) % 2 = 1
  <2>1. half + 1 \in 1..Len(s)
    BY <1>1, <1>3
  <2> QED BY <1>2, <1>3, <2>1 DEF Median
<1>4. CASE Len(s) % 2 # 1
  <2>1. half \in 1..Len(s) /\ half + 1 \in 1..Len(s)
    BY <1>1, <1>4
  <2> DEFINE a == s[half]
             b == s[half + 1]
  <2>2. a \in PositiveNumbers /\ b \in PositiveNumbers
    BY <1>2, <2>1
  <2> HIDE DEF a, b
  <2>3. /\ a[1] \in Nat \ {0} /\ a[2] \in Nat \ {0}
        /\ b[1] \in Nat \ {0} /\ b[2] \in Nat \ {0}
    BY <2>2 DEF PositiveNumbers
  <2>4. \A x, y \in Nat \ {0} : x * y \in Nat \ {0}
    OBVIOUS
  <2>5. a[1] * b[2] \in Nat \ {0} /\ b[1] * a[2] \in Nat \ {0} /\ a[2] * b[2] \in Nat \ {0}
    BY <2>3, <2>4
  <2>6. a[1] * b[2] + b[1] * a[2] \in Nat \ {0} /\ 2 * a[2] * b[2] \in Nat \ {0}
    <3>1. 2 * a[2] \in Nat \ {0}
      BY <2>3
    <3>2. (2 * a[2]) * b[2] \in Nat \ {0}
      <4> DEFINE c == 2 * a[2]
      <4> HIDE DEF c
      <4>1. c \in Nat \ {0}
        BY <3>1 DEF c
      <4>2. c * b[2] \in Nat \ {0}
        BY <2>3, <2>4, <4>1
      <4> QED BY <4>2 DEF c
    <3>3. \A x, y \in Nat \ {0} : x + y \in Nat \ {0}
      OBVIOUS
    <3> QED BY <2>5, <3>2, <3>3
  <2>7. <<a[1] * b[2] + b[1] * a[2], 2 * a[2] * b[2]>> \in PositiveNumbers
    BY <2>6 DEF PositiveNumbers
  <2> QED BY <1>4, <2>7 DEF Median, a, b
<1> QED BY <1>3, <1>4

\* A tempo is resolved to one that the contract accepts.
LEMMA ResolvedTempo ==
  ASSUME NEW events, Played(events), NEW s \in Setups
  PROVE  /\ ResolveTempo(events, s.tempo, s.fallback).effective \in PositiveNumbers
         /\ TempoAccepted(ResolveTempo(events, s.tempo, s.fallback))
<1> DEFINE settings == s.tempo
           intervals == OnsetIntervals(events)
           candidates == CandidateTempos(intervals)
           estimated == ResolveOctaveEquivalent(Median(candidates), settings)
           inliers == {i \in DOMAIN candidates : IsInlier(candidates[i], estimated, settings)}
           estimate == EstimateTempo(events, settings)
           tempo == ResolveTempo(events, settings, s.fallback)
<1>1. /\ s.fallback \in PositiveNumbers
      /\ settings.minimum_bpm \in PositiveNumbers /\ settings.maximum_bpm \in PositiveNumbers
      /\ settings.minimum_interval_count \in Nat \ {0}
  BY PipelineAssumption DEF SetupAccepted, TempoSettingsAccepted
<1>2. intervals \in Seq(Nat \ {0})
  BY IntervalsPositive
<1>3. candidates \in Seq(PositiveNumbers) /\ Len(candidates) = Len(intervals)
      /\ Len(intervals) \in Nat
  BY <1>2, CandidatesPositive
<1>4. \A bpm \in PositiveNumbers : bpm[1] > 0
  BY DEF PositiveNumbers
<1>5. CASE estimate = Unavailable
  <2>1. tempo = ManualTempo(s.fallback)
    BY <1>5 DEF ResolveTempo, Unavailable
  <2> QED BY <1>1, <1>4, <2>1 DEF ManualTempo, TempoAccepted
<1>6. CASE estimate # Unavailable
  <2>1. ~(Len(intervals) < settings.minimum_interval_count)
        /\ estimate = [available |-> TRUE, tempo_bpm |-> estimated,
                       confidence |-> <<Cardinality(inliers), Len(intervals)>>,
                       unique_onsets |-> Len(intervals) + 1, intervals |-> Len(intervals),
                       inliers |-> Cardinality(inliers)]
    BY <1>6 DEF EstimateTempo
  <2>2. Cardinality(inliers) \in Nat /\ Cardinality(inliers) <= Len(intervals)
    <3>1. inliers \in SUBSET (1..Len(intervals))
      BY <1>3
    <3>2. IsFiniteSet(1..Len(intervals)) /\ Cardinality(1..Len(intervals)) = Len(intervals)
      BY <1>3, CardinalityOfFirst
    <3> HIDE DEF inliers, intervals
    <3> QED BY <3>1, <3>2, FS_Subset, FS_CardinalityType
  <2> HIDE DEF intervals, inliers
  <2>3. estimated \in PositiveNumbers
    <3>1. Len(candidates) > 0
      BY <1>1, <1>3, <2>1
    <3> HIDE DEF candidates
    <3>2. Median(candidates) \in PositiveNumbers
      BY <1>3, <3>1, MedianPositive
    <3> QED BY <1>1, <3>2, HalvedToPositive, DoubledToPositive DEF ResolveOctaveEquivalent
  <2> HIDE DEF estimated
  <2>4. tempo = AutomaticTempo(estimate)
    BY <2>1 DEF ResolveTempo
  <2>5. estimate.tempo_bpm = estimated /\ estimate.inliers = Cardinality(inliers)
        /\ estimate.confidence = <<Cardinality(inliers), Len(intervals)>>
        /\ estimate.unique_onsets = Len(intervals) + 1 /\ estimate.intervals = Len(intervals)
    BY <2>1
  <2>6. AutomaticEstimateAccepted(estimate)
    <3>1. SameNumber(estimate.confidence,
                     IF estimate.intervals = 0 THEN <<0, 1>>
                     ELSE <<estimate.inliers, estimate.intervals>>)
      BY <1>1, <1>3, <2>1, <2>2, <2>5 DEF SameNumber
    <3> QED BY <1>3, <1>4, <2>2, <2>3, <2>5, <3>1 DEF AutomaticEstimateAccepted
  <2> HIDE DEF estimate
  <2>7. tempo = [estimates |-> {estimate}, manual |-> {}, effective |-> estimated,
                 source |-> "automatic", revision |-> 1]
    BY <2>4, <2>5 DEF AutomaticTempo
  <2> QED BY <1>4, <2>3, <2>5, <2>6, <2>7 DEF TempoAccepted
<1> QED BY <1>5, <1>6

-----------------------------------------------------------------------------
(* Rhythm. Every note is snapped to the grid, in the order of onsets.               *)

LEMMA QuotientOfNaturals ==
  ASSUME NEW a \in Nat, NEW b \in Nat \ {0}
  PROVE  a \div b \in Nat
OBVIOUS

LEMMA ProductsOfNaturals ==
  /\ \A x, y \in Nat : x * y \in Nat
  /\ \A x, y \in Nat \ {0} : x * y \in Nat \ {0}
OBVIOUS

LEMMA GridStepNatural ==
  ASSUME NEW seconds \in Nat, NEW tempo, tempo.effective \in PositiveNumbers,
         NEW subdivisions \in Nat \ {0}
  PROVE  SecondsToGridStep(seconds, tempo, subdivisions) \in Nat
<1> DEFINE e == tempo.effective[1]
           d == tempo.effective[2]
           a == (seconds * e) * subdivisions
           b == (Second * 60) * d
<1>1. e \in Nat \ {0} /\ d \in Nat \ {0}
  BY DEF PositiveNumbers
<1> HIDE DEF e, d
<1>2. a \in Nat
  <2> DEFINE c == seconds * e
  <2>1. c \in Nat
    BY <1>1, ProductsOfNaturals
  <2> HIDE DEF c
  <2>2. c * subdivisions \in Nat
    BY <2>1, ProductsOfNaturals
  <2> QED BY <2>2 DEF c
<1>3. b \in Nat \ {0}
  <2> DEFINE c == Second * 60
  <2>1. c \in Nat \ {0}
    BY NoteAssumption
  <2> HIDE DEF c
  <2>2. c * d \in Nat \ {0}
    BY <1>1, <2>1, ProductsOfNaturals
  <2> QED BY <2>2 DEF c
<1>4. SecondsToGridStep(seconds, tempo, subdivisions) = (2 * a + b) \div (2 * b)
  BY DEF SecondsToGridStep, RoundHalfUp, e, d
<1> HIDE DEF a, b
<1>5. 2 * a + b \in Nat /\ 2 * b \in Nat \ {0}
  BY <1>2, <1>3
<1> QED BY <1>4, <1>5, QuotientOfNaturals

\* The notes to place on the grid, each at least a step long.
Candidates == {note \in WorkingNotes : note.onset < note.offset}

HeardAt(events, i) == events[i].source.event

\* A permutation of the notes, in the order of their onsets.
IsOrderOf(order, events) ==
  /\ order \in [1..Len(events) -> 1..Len(events)]
  /\ \A p \in 1..Len(events) : \E k \in 1..Len(events) : order[k] = p
  /\ \A i, j \in 1..Len(events) : i < j =>
       /\ order[i] # order[j]
       /\ HeardAt(events, order[i]).onset <= HeardAt(events, order[j]).onset

LEMMA CandidateNotesSorted ==
  ASSUME NEW events, Played(events), NEW tempo, tempo.effective \in PositiveNumbers,
         NEW subdivisions \in Nat \ {0}
  PROVE  LET c == CandidateNotes(events, tempo, subdivisions)
         IN /\ c \in Seq(Candidates) /\ Len(c) = Len(events)
            /\ \E order : /\ IsOrderOf(order, events)
                          /\ \A k \in 1..Len(events) :
                               c[k] = WorkingNote(events, order[k], tempo, subdivisions)
<1> DEFINE n == Len(events)
           key == [i \in DOMAIN events |->
                     <<HeardAt(events, i).onset, HeardAt(events, i).offset, HeardAt(events, i).pitch>>]
           order == SortedPositions(events, key)
           c == CandidateNotes(events, tempo, subdivisions)
           three == 3
<1>1. /\ n \in Nat /\ DOMAIN events = 1..n
      /\ \A i \in 1..n : /\ HeardAt(events, i).onset \in Nat /\ HeardAt(events, i).offset \in Nat
                         /\ HeardAt(events, i).onset < HeardAt(events, i).offset
                         /\ HeardAt(events, i).pitch \in Nat
  <2>1. \A x \in MidiValues : x \in Nat
    BY DEF MidiValues
  <2> QED BY <2>1, PlayedNumbers DEF HeardAt
<1>2. c = [k \in DOMAIN order |-> WorkingNote(events, order[k], tempo, subdivisions)]
  BY DEF CandidateNotes, HeardAt
<1>3. key \in PositionKeys(events, three)
  <2>1. \A i \in 1..n : <<HeardAt(events, i).onset, HeardAt(events, i).offset,
                          HeardAt(events, i).pitch>> \in Tuples(three)
    BY <1>1 DEF Tuples
  <2> HIDE DEF three, n
  <2> QED BY <1>1, <2>1 DEF PositionKeys
<1>4. \A i \in 1..n : key[i] \in Tuples(three) /\ key[i][1] = HeardAt(events, i).onset
  <2>1. \A i \in 1..n : key[i] = <<HeardAt(events, i).onset, HeardAt(events, i).offset,
                                   HeardAt(events, i).pitch>>
    BY <1>1
  <2> HIDE DEF key
  <2>2. \A i \in 1..n : key[i] \in Tuples(three)
    BY <1>1, <1>3 DEF PositionKeys
  <2>3. \A i \in 1..n : key[i][1] = HeardAt(events, i).onset
    BY <2>1
  <2> QED BY <2>2, <2>3
<1>5. PICK V : events \in Seq(V)
  BY DEF Played
<1> HIDE DEF key, n
<1>6. /\ order \in [1..n -> 1..n]
      /\ \A p \in 1..n : \E k \in 1..n : order[k] = p
      /\ \A i, j \in 1..n : i < j =>
           LET p == order[i]
               q == order[j]
           IN p # q /\ (TupleLess(key[p], key[q]) \/ (key[p] = key[q] /\ p < q))
  <2>1. three \in Nat
    OBVIOUS
  <2> HIDE DEF three
  <2> QED BY <1>3, <1>5, <2>1, SortedPositionsSort DEF n
<1> HIDE DEF order
<1>7. IsOrderOf(order, events)
  <2>1. ASSUME NEW i \in 1..n, NEW j \in 1..n, i < j
        PROVE  order[i] # order[j] /\
               HeardAt(events, order[i]).onset <= HeardAt(events, order[j]).onset
    <3> DEFINE p == order[i]
               q == order[j]
    <3>1. p \in 1..n /\ q \in 1..n /\ p # q /\ (TupleLess(key[p], key[q]) \/ key[p] = key[q])
      BY <1>6, <2>1
    <3> HIDE DEF p, q
    <3>2. key[p] \in Tuples(three) /\ key[q] \in Tuples(three) /\ key[p][1] = HeardAt(events, p).onset
          /\ key[q][1] = HeardAt(events, q).onset
      BY <1>4, <3>1
    <3>3. TupleLess(key[p], key[q]) => key[p][1] <= key[q][1]
      <4> DEFINE a == key[p]
                 b == key[q]
      <4>1. a \in Tuples(3) /\ b \in Tuples(3) /\ a[1] \in Int /\ b[1] \in Int
        BY <1>1, <3>1, <3>2
      <4> HIDE DEF a, b
      <4>2. TupleLess(a, b) => a[1] < b[1] \/ a[1] = b[1]
        BY <4>1, TupleLess3
      <4> QED BY <4>1, <4>2 DEF a, b
    <3>4. HeardAt(events, p).onset \in Nat
      BY <1>1, <3>1
    <3>5. p # q /\ HeardAt(events, p).onset <= HeardAt(events, q).onset
      BY <3>1, <3>2, <3>3, <3>4
    <3> QED BY <3>5 DEF p, q
  <2> QED BY <1>6, <2>1 DEF IsOrderOf, n
<1>8. ASSUME NEW i \in 1..n PROVE WorkingNote(events, i, tempo, subdivisions) \in Candidates
  <2> DEFINE onset == SecondsToGridStep(HeardAt(events, i).onset, tempo, subdivisions)
             offset == SecondsToGridStep(HeardAt(events, i).offset, tempo, subdivisions)
  <2>1. onset \in Nat /\ offset \in Nat
    BY <1>1, GridStepNatural
  <2>2. WorkingNote(events, i, tempo, subdivisions) =
          [index |-> i, onset |-> onset, offset |-> Max({offset, onset + 1}),
           minimum |-> offset <= onset, overlap |-> FALSE]
    BY DEF WorkingNote, HeardAt
  <2> HIDE DEF onset, offset
  <2>3. Max({offset, onset + 1}) \in Nat /\ onset < Max({offset, onset + 1})
    BY <2>1, MaxOfTwo
  <2>4. i \in Nat
    BY <1>1
  <2> QED BY <2>1, <2>2, <2>3, <2>4 DEF Candidates, WorkingNotes
<1>9. DOMAIN order = 1..n /\ \A k \in 1..n : order[k] \in 1..n
  BY <1>6
<1>10. c \in Seq(Candidates) /\ Len(c) = n
       /\ \A k \in 1..n : c[k] = WorkingNote(events, order[k], tempo, subdivisions)
  <2> HIDE DEF c
  <2> QED BY <1>1, <1>2, <1>8, <1>9
<1> HIDE DEF c
<1> QED BY <1>7, <1>10 DEF c, n

-----------------------------------------------------------------------------
(* Overlaps. What ResolveOverlap makes of the notes that are there, note by note.    *)

\* A list with one more element, note by note.
LEMMA AppendedNotes ==
  ASSUME NEW V, NEW s \in Seq(V), NEW x \in V
  PROVE  /\ Append(s, x) \in Seq(V) /\ Len(Append(s, x)) = Len(s) + 1 /\ Len(s) \in Nat
         /\ \A i \in 1..Len(s) : Append(s, x)[i] = s[i]
         /\ Append(s, x)[Len(s) + 1] = x
OBVIOUS

Fits(done, note, next) ==
  /\ Len(done) > 0 => note.onset >= done[Len(done)].offset
  /\ \A i \in 1..Len(done) : next[i] = done[i]
  /\ next[Len(done) + 1] = note

CutsLast(done, note, next) ==
  /\ Len(done) > 0 /\ note.onset < done[Len(done)].offset /\ done[Len(done)].onset < note.onset
  /\ \A i \in 1..(Len(done) - 1) : next[i] = done[i]
  /\ next[Len(done)] = [done[Len(done)] EXCEPT !.offset = note.onset, !.overlap = TRUE]
  /\ next[Len(done) + 1] = note

IsMoved(done, note, next) ==
  /\ Len(done) > 0 /\ note.onset < done[Len(done)].offset /\ note.onset <= done[Len(done)].onset
  /\ \A i \in 1..Len(done) : next[i] = done[i]
  /\ next[Len(done) + 1] =
       [note EXCEPT !.onset = done[Len(done)].offset,
                    !.offset = Max({note.offset, done[Len(done)].offset + 1}), !.overlap = TRUE]

LEMMA ResolveOverlapCases ==
  ASSUME NEW done \in Seq(WorkingNotes), Apart(done), NEW note \in Candidates
  PROVE  LET next == ResolveOverlap(done, note)
         IN /\ next \in Seq(WorkingNotes) /\ Apart(next) /\ Len(next) = Len(done) + 1
            /\ Fits(done, note, next) \/ CutsLast(done, note, next) \/ IsMoved(done, note, next)
<1> DEFINE n == Len(done)
           last == done[n]
           next == ResolveOverlap(done, note)
<1>0. note \in WorkingNotes /\ note.onset < note.offset
  BY DEF Candidates
<1>1. next \in Seq(WorkingNotes) /\ Apart(next) /\ Len(next) = n + 1
  BY <1>0, OverlapIsResolved
<1>2. n \in Nat /\ (done = <<>> <=> n = 0) /\ note.onset \in Nat
  BY <1>0 DEF WorkingNotes
<1>3. n > 0 => last \in WorkingNotes /\ Last(done) = last /\ last.onset \in Nat /\ last.offset \in Nat
  <2>1. n > 0 => last \in WorkingNotes
    BY <1>2
  <2> QED BY <2>1 DEF WorkingNotes, Last
<1>4. CASE n = 0 \/ (n > 0 /\ note.onset >= last.offset)
  <2>1. next = Append(done, note)
    BY <1>2, <1>3, <1>4 DEF ResolveOverlap
  <2>2. /\ \A i \in 1..n : next[i] = done[i]
        /\ next[n + 1] = note
    BY <1>0, <2>1, AppendedNotes
  <2>3. Fits(done, note, next)
    <3> HIDE DEF next, last
    <3> QED BY <1>2, <1>4, <2>2 DEF Fits, last
  <2> HIDE DEF next
  <2> QED BY <1>1, <2>3 DEF next
<1>5. CASE n > 0 /\ ~(note.onset >= last.offset) /\ last.onset < note.onset
  <2> DEFINE shorter == [last EXCEPT !.offset = note.onset, !.overlap = TRUE]
             cut == [done EXCEPT ![n] = shorter]
  <2>0. done # <<>> /\ Last(done) = last
    BY <1>2, <1>3, <1>5
  <2>1. next = Append(cut, note)
    BY <1>5, <2>0 DEF ResolveOverlap
  <2>2. shorter \in WorkingNotes
    BY <1>2, <1>3, <1>5 DEF WorkingNotes
  <2> HIDE DEF shorter
  <2>3. cut \in Seq(WorkingNotes) /\ Len(cut) = n
        /\ \A i \in 1..n : cut[i] = IF i = n THEN shorter ELSE done[i]
    BY <1>2, <1>5, <2>2, ExceptSeq
  <2> HIDE DEF cut
  <2>4. /\ \A i \in 1..n : next[i] = cut[i]
        /\ next[n + 1] = note
    BY <1>0, <2>1, <2>3, AppendedNotes
  <2>5. /\ \A i \in 1..(n - 1) : next[i] = done[i]
        /\ next[n] = shorter
    <3>1. n \in 1..n /\ \A i \in 1..(n - 1) : i \in 1..n /\ i # n
      BY <1>2, <1>5
    <3> QED BY <2>3, <2>4, <3>1
  <2>6. CutsLast(done, note, next)
    <3>1. note.onset < last.offset
      BY <1>2, <1>3, <1>5
    <3> QED BY <1>5, <2>4, <2>5, <3>1 DEF CutsLast, shorter
  <2> HIDE DEF next
  <2> QED BY <1>1, <2>6 DEF next
<1>6. CASE n > 0 /\ ~(note.onset >= last.offset) /\ ~(last.onset < note.onset)
  <2> DEFINE moved == [note EXCEPT !.onset = last.offset,
                                   !.offset = Max({note.offset, last.offset + 1}),
                                   !.overlap = TRUE]
  <2>0. done # <<>> /\ Last(done) = last
    BY <1>2, <1>3, <1>6
  <2>1. next = Append(done, moved)
    BY <1>6, <2>0 DEF ResolveOverlap
  <2>2. /\ \A i \in 1..n : next[i] = done[i]
        /\ next[n + 1] = moved
    <3> HIDE DEF next, moved, last, n
    <3> QED BY <2>1 DEF n
  <2>3. note.onset <= last.onset /\ note.onset < last.offset
    BY <1>2, <1>3, <1>6
  <2>4. IsMoved(done, note, next)
    BY <1>6, <2>2, <2>3 DEF IsMoved
  <2> HIDE DEF next
  <2> QED BY <1>1, <2>4 DEF next
<1> QED BY <1>2, <1>3, <1>4, <1>5, <1>6

\* Where a note of the score ends when the next one does not cut it.
Wanted(candidate, note) == Max({candidate.offset, note.onset + 1})

\* What became of the j-th candidate among the first k.
Placed(candidates, done, j, k) ==
  LET candidate == candidates[j]
      note == done[j]
  IN /\ note.index = candidate.index /\ note.onset >= candidate.onset
     /\ note.onset # candidate.onset =>
          j > 1 /\ note.onset = done[j - 1].offset /\ done[j - 1].onset >= candidate.onset
     /\ note.offset # Wanted(candidate, note) =>
          /\ j < k /\ note.offset = done[j + 1].onset
          /\ note.offset < candidate.offset
     /\ note.overlap = TRUE <=> note.onset # candidate.onset \/ note.offset # Wanted(candidate, note)

Resolved(candidates, done, k) ==
  Len(done) = k /\ \A j \in 1..k : Placed(candidates, done, j, k)

LEMMA ResolvedStep ==
  ASSUME NEW candidates \in Seq(Candidates), NEW k \in 1..Len(candidates),
         \A j \in 1..Len(candidates) : candidates[j].overlap = FALSE,
         NEW done \in Seq(WorkingNotes), Apart(done), Resolved(candidates, done, k - 1)
  PROVE  Resolved(candidates, ResolveOverlap(done, candidates[k]), k)
<1> DEFINE n == k - 1
           note == candidates[k]
           next == ResolveOverlap(done, note)
<1>1. n \in Nat /\ k = n + 1 /\ Len(done) = n /\ note \in Candidates /\ note.overlap = FALSE
  BY DEF Resolved
<1>2. /\ next \in Seq(WorkingNotes) /\ Apart(next) /\ Len(next) = k
      /\ Fits(done, note, next) \/ CutsLast(done, note, next) \/ IsMoved(done, note, next)
  BY <1>1, ResolveOverlapCases
<1>3. \A j \in 1..n : Placed(candidates, done, j, n)
  BY DEF Resolved
<1>4. \A j \in 1..n : /\ candidates[j] \in WorkingNotes /\ candidates[j].onset < candidates[j].offset
                      /\ candidates[j].onset \in Nat /\ candidates[j].offset \in Nat
  <2>1. \A j \in 1..n : candidates[j] \in Candidates
    BY <1>1
  <2> QED BY <2>1 DEF Candidates, WorkingNotes
<1>5. note.onset \in Nat /\ note.offset \in Nat /\ note.onset < note.offset /\ note \in WorkingNotes
  BY <1>1 DEF Candidates, WorkingNotes
<1>6. \A j \in 1..n : done[j] \in WorkingNotes /\ done[j].onset \in Nat /\ done[j].offset \in Nat
                      /\ done[j].onset < done[j].offset
  <2>1. \A j \in 1..n : done[j] \in WorkingNotes /\ done[j].onset < done[j].offset
    BY <1>1 DEF Apart
  <2> QED BY <2>1 DEF WorkingNotes
<1> HIDE DEF next, n
<1>7. ASSUME NEW j \in 1..n, next[j] = done[j], j < n => next[j + 1].onset = done[j + 1].onset,
             j > 1 => next[j - 1] = done[j - 1]
      PROVE  Placed(candidates, next, j, k)
  <2>1. Placed(candidates, done, j, n)
    BY <1>3
  <2> QED BY <1>1, <1>7, <2>1 DEF Placed
<1>8. \A j \in 1..k : j = k \/ (j \in 1..n /\ (j = n \/ j < n))
  BY <1>1
<1>9. \A j \in 1..n : /\ j < n => j + 1 \in 1..n
                      /\ j > 1 => j - 1 \in 1..(n - 1)
  BY <1>1
<1>a. \A j \in 1..n : j < n => j \in 1..(n - 1)
  BY <1>1
<1>10. CASE Fits(done, note, next)
  <2>1. /\ n > 0 => note.onset >= done[n].offset
        /\ \A i \in 1..n : next[i] = done[i]
        /\ next[k] = note
    BY <1>1, <1>10 DEF Fits
  <2>2. Placed(candidates, next, k, k)
    <3>1. Wanted(note, note) = note.offset
      BY <1>5, MaxOfTwo DEF Wanted
    <3> HIDE DEF note
    <3>2. candidates[k] = note
      BY DEF note
    <3> QED BY <1>1, <1>5, <2>1, <3>1, <3>2 DEF Placed
  <2>3. \A j \in 1..n : j > 1 => j - 1 \in 1..n
    BY <1>1
  <2>4. \A j \in 1..n : Placed(candidates, next, j, k)
    BY <1>7, <1>9, <2>1, <2>3
  <2> QED BY <1>2, <1>8, <2>2, <2>4 DEF Resolved, next
<1>11. CASE CutsLast(done, note, next)
  <2> DEFINE last == done[n]
             shorter == next[n]
  <2>1. /\ n > 0 /\ note.onset < last.offset /\ last.onset < note.onset
        /\ \A i \in 1..(n - 1) : next[i] = done[i]
        /\ shorter = [last EXCEPT !.offset = note.onset, !.overlap = TRUE]
        /\ next[k] = note
    BY <1>1, <1>11 DEF CutsLast
  <2>2. Placed(candidates, next, k, k)
    <3>1. Wanted(note, note) = note.offset
      BY <1>5, MaxOfTwo DEF Wanted
    <3> HIDE DEF note
    <3>2. candidates[k] = note
      BY DEF note
    <3> QED BY <1>1, <1>5, <2>1, <3>1, <3>2 DEF Placed
  <2>3. n \in 1..n /\ last \in WorkingNotes /\ last.onset \in Nat /\ last.offset \in Nat
        /\ last.onset < last.offset
    BY <1>1, <1>6, <2>1
  <2>4. shorter.onset = last.onset /\ shorter.offset = note.onset /\ shorter.overlap = TRUE
        /\ shorter.index = last.index
    BY <2>1, <2>3 DEF WorkingNotes
  <2>5. ASSUME NEW j \in 1..n, j < n PROVE Placed(candidates, next, j, k)
    <3>1. j \in 1..(n - 1) /\ (j + 1 \in 1..(n - 1) \/ j + 1 = n) /\ (j > 1 => j - 1 \in 1..(n - 1))
      BY <1>1, <2>5
    <3>2. next[j] = done[j] /\ next[j + 1].onset = done[j + 1].onset
          /\ (j > 1 => next[j - 1] = done[j - 1])
      BY <2>1, <2>4, <3>1
    <3> QED BY <1>7, <3>2
  <2>6. Placed(candidates, next, n, k)
    <3> DEFINE c == candidates[n]
    <3>1. c.onset \in Nat /\ c.offset \in Nat /\ c.onset < c.offset
      BY <1>4, <2>3
    <3>2. Placed(candidates, done, n, n)
      BY <1>3, <2>3
    <3> HIDE DEF c, last, shorter
    <3>3. /\ last.index = c.index /\ last.onset >= c.onset
          /\ last.onset # c.onset =>
               n > 1 /\ last.onset = done[n - 1].offset /\ done[n - 1].onset >= c.onset
          /\ last.offset = Wanted(c, last)
      BY <3>2, <1>1 DEF Placed, c, last
    <3>4. Wanted(c, last) = IF c.offset >= last.onset + 1 THEN c.offset ELSE last.onset + 1
      <4>1. c.offset \in Int /\ last.onset + 1 \in Int
        BY <2>3, <3>1
      <4> QED BY <4>1, MaxOfTwo DEF Wanted
    <3>5. Wanted(c, shorter) = Wanted(c, last)
      BY <2>4 DEF Wanted
    <3>6. note.onset # Wanted(c, shorter) /\ note.onset < c.offset
      BY <1>5, <2>1, <2>3, <3>1, <3>3, <3>4, <3>5
    <3>7. n > 1 => next[n - 1] = done[n - 1]
      BY <1>9, <2>1, <2>3
    <3>8. next[n + 1].onset = note.onset
      BY <1>1, <2>1
    <3>9. next[n] = shorter /\ candidates[n] = c
      BY DEF shorter, c
    <3> HIDE DEF note
    <3> QED BY <1>1, <2>4, <3>3, <3>6, <3>7, <3>8, <3>9 DEF Placed
  <2> QED BY <1>2, <1>8, <2>2, <2>5, <2>6 DEF Resolved, next
<1>12. CASE IsMoved(done, note, next)
  <2> DEFINE last == done[n]
             moved == next[k]
  <2>1. /\ n > 0 /\ note.onset < last.offset /\ note.onset <= last.onset
        /\ \A i \in 1..n : next[i] = done[i]
        /\ moved = [note EXCEPT !.onset = last.offset,
                                !.offset = Max({note.offset, last.offset + 1}), !.overlap = TRUE]
    BY <1>1, <1>12 DEF IsMoved
  <2>2. n \in 1..n /\ last.onset \in Nat /\ last.offset \in Nat /\ last.onset < last.offset
    BY <1>1, <1>6, <2>1
  <2>3. moved.onset = last.offset /\ moved.offset = Max({note.offset, last.offset + 1})
        /\ moved.overlap = TRUE /\ moved.index = note.index
    BY <1>5, <2>1 DEF WorkingNotes
  <2>4. Placed(candidates, next, k, k)
    <3> HIDE DEF note, moved, last
    <3>1. moved.offset = Wanted(note, moved)
      BY <2>3 DEF Wanted
    <3>2. next[k] = moved /\ candidates[k] = note
      BY DEF moved, note
    <3>3. next[k - 1] = last /\ k > 1
      BY <1>1, <2>1, <2>2 DEF last
    <3>4. moved.onset # note.onset /\ moved.onset >= note.onset /\ last.onset >= note.onset
      BY <1>5, <2>1, <2>2, <2>3
    <3> QED BY <2>3, <3>1, <3>2, <3>3, <3>4 DEF Placed
  <2>5. \A j \in 1..n : j > 1 => j - 1 \in 1..n
    BY <1>1
  <2>6. \A j \in 1..n : Placed(candidates, next, j, k)
    BY <1>7, <1>9, <2>1, <2>5
  <2> QED BY <1>2, <1>8, <2>4, <2>6 DEF Resolved, next
<1> QED BY ONLY <1>2, <1>10, <1>11, <1>12

Resolutions == {notes \in Seq(WorkingNotes) : Apart(notes)}

LEMMA ResolutionsClosed ==
  /\ <<>> \in Resolutions
  /\ \A done \in Resolutions, note \in Candidates : ResolveOverlap(done, note) \in Resolutions
<1>1. <<>> \in Resolutions
  <2>1. <<>> \in Seq(WorkingNotes) /\ Len(<<>>) = 0
    OBVIOUS
  <2>2. Apart(<<>>)
    BY <2>1 DEF Apart
  <2> QED BY <2>1, <2>2 DEF Resolutions
<1>2. ASSUME NEW done \in Resolutions, NEW note \in Candidates
      PROVE  ResolveOverlap(done, note) \in Resolutions
  <2>1. done \in Seq(WorkingNotes) /\ Apart(done)
    BY DEF Resolutions
  <2>2. note \in WorkingNotes /\ note.onset < note.offset
    BY DEF Candidates
  <2>3. ResolveOverlap(done, note) \in Seq(WorkingNotes) /\ Apart(ResolveOverlap(done, note))
    BY ONLY <2>1, <2>2, OverlapIsResolved
  <2> QED BY ONLY <2>3 DEF Resolutions
<1> QED BY <1>1, <1>2

LEMMA ResolutionFold ==
  ASSUME NEW seq \in Seq(Candidates)
  PROVE  \E row \in [0..Len(seq) -> Resolutions] :
           /\ row[0] = <<>>
           /\ \A k \in 1..Len(seq) : row[k] = ResolveOverlap(row[k - 1], seq[k])
           /\ FoldLeft(ResolveOverlap, <<>>, seq) = row[Len(seq)]
<1> DEFINE n == Len(seq)
           step == [p \in Resolutions \X (1..n) |-> ResolveOverlap(p[1], seq[p[2]])]
           Is(g) == g = [s \in SUBSET (1..n) |->
                           IF s = {} THEN <<>> ELSE ResolveOverlap(g[s \ {Max(s)}], seq[Max(s)])]
           h == CHOOSE g : Is(g)
<1>1. n \in Nat /\ DOMAIN seq = 1..n /\ \A k \in 1..n : seq[k] \in Candidates
  OBVIOUS
<1>2. FoldLeft(ResolveOverlap, <<>>, seq) = h[1..n]
  BY <1>1 DEF FoldLeft, MapThenFoldSet
<1>3. <<>> \in Resolutions /\ step \in Steps(Resolutions, n)
  BY <1>1, ResolutionsClosed DEF Steps
<1> HIDE DEF step
<1>4. \E g \in FoldFunctions(Resolutions, n) : IsFold(g, n, <<>>, step)
  BY <1>1, <1>3, FoldExists
<1>5. PICK g \in FoldFunctions(Resolutions, n) : IsFold(g, n, <<>>, step)
  BY <1>4
<1>6. Is(g)
  <2>1. ASSUME NEW s \in SUBSET (1..n)
        PROVE  g[s] = IF s = {} THEN <<>> ELSE ResolveOverlap(g[s \ {Max(s)}], seq[Max(s)])
    <3>1. CASE s = {}
      BY <1>5, <3>1 DEF IsFold
    <3>2. CASE s # {}
      <4>1. Max(s) \in 1..n /\ g[s \ {Max(s)}] \in Resolutions
        BY <1>1, <1>5, <3>2, GreatestOfSome DEF FoldFunctions
      <4> HIDE DEF n
      <4> QED BY <1>5, <3>2, <4>1 DEF step, IsFold
    <3> QED BY <3>1, <3>2
  <2>2. g = [s \in SUBSET (1..n) |-> g[s]]
    BY <1>5 DEF FoldFunctions
  <2> QED BY <2>1, <2>2
<1>7. Is(h)
  BY <1>6
<1> HIDE DEF h
<1>8. h[{}] = <<>> /\ \A k \in 1..n : h[1..k] = ResolveOverlap(h[1..(k - 1)], seq[k])
  <2>1. h[{}] = <<>>
    BY <1>7
  <2>2. ASSUME NEW k \in 1..n PROVE h[1..k] = ResolveOverlap(h[1..(k - 1)], seq[k])
    <3>1. k \in Nat \ {0} /\ 1..k \in SUBSET (1..n)
      BY <1>1
    <3>2. 1..k # {} /\ (1..k) \ {k} = 1..(k - 1) /\ Max(1..k) = k
      BY ONLY <3>1, LastOfFirst
    <3> HIDE DEF n
    <3> QED BY <1>7, <3>1, <3>2
  <2> QED BY <2>1, <2>2
<1>9. \A k \in 1..n : h[1..(k - 1)] \in Resolutions => h[1..k] = step[<<h[1..(k - 1)], k>>]
  BY <1>8 DEF step
<1>10. \E row \in Rows(Resolutions, n) : IsRow(row, n, <<>>, step) /\ h[1..n] = row[n]
  <2> DEFINE V == Resolutions
             base == <<>>
  <2>1. base \in V /\ step \in Steps(V, n) /\ h[{}] = base
        /\ \A k \in 1..n : h[1..(k - 1)] \in V => h[1..k] = step[<<h[1..(k - 1)], k>>]
    BY <1>3, <1>8, <1>9
  <2> HIDE DEF V, base
  <2>2. \E row \in Rows(V, n) : IsRow(row, n, base, step) /\ h[1..n] = row[n]
    BY <1>1, <2>1, FoldRow
  <2> QED BY <2>2 DEF V, base
<1>11. PICK row \in Rows(Resolutions, n) : IsRow(row, n, <<>>, step) /\ h[1..n] = row[n]
  BY <1>10
<1>12. /\ row \in [0..n -> Resolutions] /\ row[0] = <<>>
       /\ \A k \in 1..n : row[k - 1] \in Resolutions /\ row[k] = step[<<row[k - 1], k>>]
  BY <1>1, <1>11 DEF Rows, IsRow
<1>13. \A k \in 1..n : row[k] = ResolveOverlap(row[k - 1], seq[k])
  BY <1>12 DEF step
<1> QED BY <1>2, <1>11, <1>12, <1>13

LEMMA AllResolved ==
  ASSUME NEW candidates \in Seq(Candidates),
         \A j \in 1..Len(candidates) : candidates[j].overlap = FALSE
  PROVE  LET working == ResolveMonophonicOverlaps(candidates)
         IN /\ working \in Seq(WorkingNotes) /\ Apart(working)
            /\ Resolved(candidates, working, Len(candidates))
<1> DEFINE n == Len(candidates)
           working == ResolveMonophonicOverlaps(candidates)
<1>1. n \in Nat
  OBVIOUS
<1>2. PICK row \in [0..n -> Resolutions] :
        /\ row[0] = <<>>
        /\ \A k \in 1..n : row[k] = ResolveOverlap(row[k - 1], candidates[k])
        /\ working = row[n]
  BY ResolutionFold DEF ResolveMonophonicOverlaps
<1> HIDE DEF working, n
<1> DEFINE G == {k \in 0..n : Resolved(candidates, row[k], k)}
<1>3. 0 \in G
  <2>1. Len(<<>>) = 0
    OBVIOUS
  <2>2. Resolved(candidates, <<>>, 0)
    BY <2>1 DEF Resolved
  <2>3. 0 \in 0..n /\ row[0] = <<>>
    BY <1>1, <1>2
  <2> QED BY <2>2, <2>3
<1>4. ASSUME NEW k \in 1..n, k - 1 \in G PROVE k \in G
  <2>1. row[k - 1] \in Resolutions /\ k \in 0..n
    BY <1>1, <1>2
  <2>2. Resolved(candidates, row[k - 1], k - 1)
    BY <1>4
  <2>3. row[k - 1] \in Seq(WorkingNotes) /\ Apart(row[k - 1]) /\ k \in 1..Len(candidates)
    BY <2>1 DEF Resolutions, n
  <2>4. Resolved(candidates, ResolveOverlap(row[k - 1], candidates[k]), k)
    BY <2>2, <2>3, ResolvedStep
  <2> QED BY <1>2, <2>1, <2>4
<1> HIDE DEF G
<1>5. \A k \in 0..n : k \in G
  BY <1>1, <1>3, <1>4, Induction
<1>6. n \in G /\ row[n] \in Resolutions
  BY <1>1, <1>2, <1>5
<1>7. Resolved(candidates, row[n], n)
  BY <1>6 DEF G
<1> QED BY <1>2, <1>6, <1>7 DEF Resolutions, working, n

-----------------------------------------------------------------------------
(* The timeline. The notes are put one behind the other, with rests in the gaps.     *)

Items == [rest : BOOLEAN, onset : Nat, offset : Nat, index : Nat]

LEMMA QuantizedNoteItem ==
  ASSUME NEW note \in WorkingNotes
  PROVE  /\ QuantizedNote(note) \in Items /\ QuantizedNote(note).rest = FALSE
         /\ QuantizedNote(note).onset = note.onset /\ QuantizedNote(note).offset = note.offset
         /\ QuantizedNote(note).index = note.index
BY DEF QuantizedNote, Items, WorkingNotes

LEMMA QuantizedRestItem ==
  ASSUME NEW onset \in Nat, NEW offset \in Nat
  PROVE  /\ QuantizedRest(onset, offset) \in Items /\ QuantizedRest(onset, offset).rest = TRUE
         /\ QuantizedRest(onset, offset).onset = onset /\ QuantizedRest(onset, offset).offset = offset
BY DEF QuantizedRest, Items

\* Where the timeline ends.
Cursor(timeline) == IF timeline = <<>> THEN 0 ELSE timeline[Len(timeline)].offset

\* One list behind another, item by item.
LEMMA Joined ==
  ASSUME NEW V, NEW s \in Seq(V), NEW t \in Seq(V)
  PROVE  /\ s \o t \in Seq(V) /\ Len(s \o t) = Len(s) + Len(t)
         /\ \A i \in 1..Len(s) : (s \o t)[i] = s[i]
         /\ \A i \in 1..Len(t) : (s \o t)[Len(s) + i] = t[i]
OBVIOUS

LEMMA AppendNoteCases ==
  ASSUME NEW timeline \in Seq(Items), NEW note \in WorkingNotes
  PROVE  LET next == AppendNote(timeline, note)
             n == Len(timeline)
         IN /\ n \in Nat /\ Cursor(timeline) \in Nat /\ next \in Seq(Items)
            /\ \A i \in 1..n : next[i] = timeline[i]
            /\ next[Len(next)] = QuantizedNote(note)
            /\ \/ note.onset <= Cursor(timeline) /\ Len(next) = n + 1
               \/ /\ note.onset > Cursor(timeline) /\ Len(next) = n + 2
                  /\ next[n + 1] = QuantizedRest(Cursor(timeline), note.onset)
<1> DEFINE n == Len(timeline)
           cursor == Cursor(timeline)
           next == AppendNote(timeline, note)
           item == QuantizedNote(note)
           rest == QuantizedRest(cursor, note.onset)
<1>1. n \in Nat /\ (timeline # <<>> => n \in 1..n /\ Last(timeline) = timeline[n])
  BY DEF Last
<1>2. cursor \in Nat /\ note.onset \in Nat
  <2>1. timeline # <<>> => timeline[n] \in Items
    BY <1>1
  <2> QED BY <1>1, <2>1 DEF Cursor, Items, WorkingNotes
<1>3. item \in Items /\ rest \in Items
  BY <1>2, QuantizedNoteItem, QuantizedRestItem
<1>4. next = IF note.onset > cursor THEN timeline \o <<rest, item>> ELSE Append(timeline, item)
  BY <1>1 DEF AppendNote, Cursor
<1> HIDE DEF item, rest, cursor, next
<1>5. CASE note.onset > cursor
  <2>1. <<rest, item>> \in Seq(Items) /\ Len(<<rest, item>>) = 2
        /\ <<rest, item>>[1] = rest /\ <<rest, item>>[2] = item
    BY <1>3
  <2> DEFINE two == <<rest, item>>
  <2> HIDE DEF two
  <2>2. two \in Seq(Items) /\ Len(two) = 2 /\ two[1] = rest /\ two[2] = item
    BY <2>1 DEF two
  <2>3. next = timeline \o two
    BY <1>4, <1>5 DEF two
  <2>4. /\ next \in Seq(Items) /\ Len(next) = n + 2
        /\ \A i \in 1..n : next[i] = timeline[i]
        /\ next[n + 1] = rest /\ next[n + 2] = item
    <3>1. 1 \in 1..Len(two) /\ 2 \in 1..Len(two)
      BY <2>2
    <3>2. /\ timeline \o two \in Seq(Items) /\ Len(timeline \o two) = n + Len(two)
          /\ \A i \in 1..n : (timeline \o two)[i] = timeline[i]
          /\ \A i \in 1..Len(two) : (timeline \o two)[n + i] = two[i]
      <4>1. timeline \in Seq(Items) /\ two \in Seq(Items)
        BY <2>2
      <4> QED BY ONLY <4>1, Joined DEF n
    <3> HIDE DEF n
    <3>3. next[n + 1] = two[1]
      BY <2>3, <3>1, <3>2, Zenon
    <3>4. next[n + 2] = two[2]
      BY <2>3, <3>1, <3>2, Zenon
    <3> QED BY <2>2, <2>3, <3>2, <3>3, <3>4, Zenon
  <2> QED BY <1>1, <1>2, <1>5, <2>4 DEF item, rest, cursor, next
<1>6. CASE ~(note.onset > cursor)
  <2>1. next \in Seq(Items) /\ Len(next) = n + 1 /\ next[n + 1] = item
        /\ \A i \in 1..n : next[i] = timeline[i]
    BY <1>1, <1>3, <1>4, <1>6, AppendedNotes
  <2>2. note.onset <= cursor
    BY <1>2, <1>6
  <2> QED BY <1>1, <1>2, <2>1, <2>2 DEF item, cursor, next
<1> QED BY <1>5, <1>6

Timelines == Seq(Items)

LEMMA TimelinesClosed ==
  /\ <<>> \in Timelines
  /\ \A timeline \in Timelines, note \in WorkingNotes : AppendNote(timeline, note) \in Timelines
BY AppendNoteCases DEF Timelines

LEMMA TimelineFold ==
  ASSUME NEW seq \in Seq(WorkingNotes)
  PROVE  \E row \in [0..Len(seq) -> Timelines] :
           /\ row[0] = <<>>
           /\ \A k \in 1..Len(seq) : row[k] = AppendNote(row[k - 1], seq[k])
           /\ FoldLeft(AppendNote, <<>>, seq) = row[Len(seq)]
<1> DEFINE n == Len(seq)
           step == [p \in Timelines \X (1..n) |-> AppendNote(p[1], seq[p[2]])]
           Is(g) == g = [s \in SUBSET (1..n) |->
                           IF s = {} THEN <<>> ELSE AppendNote(g[s \ {Max(s)}], seq[Max(s)])]
           h == CHOOSE g : Is(g)
<1>1. n \in Nat /\ DOMAIN seq = 1..n /\ \A k \in 1..n : seq[k] \in WorkingNotes
  OBVIOUS
<1>2. FoldLeft(AppendNote, <<>>, seq) = h[1..n]
  BY <1>1 DEF FoldLeft, MapThenFoldSet
<1>3. <<>> \in Timelines /\ step \in Steps(Timelines, n)
  BY <1>1, TimelinesClosed DEF Steps
<1> HIDE DEF step
<1>4. \E g \in FoldFunctions(Timelines, n) : IsFold(g, n, <<>>, step)
  BY <1>1, <1>3, FoldExists
<1>5. PICK g \in FoldFunctions(Timelines, n) : IsFold(g, n, <<>>, step)
  BY <1>4
<1>6. Is(g)
  <2>1. ASSUME NEW s \in SUBSET (1..n)
        PROVE  g[s] = IF s = {} THEN <<>> ELSE AppendNote(g[s \ {Max(s)}], seq[Max(s)])
    <3>1. CASE s = {}
      BY <1>5, <3>1 DEF IsFold
    <3>2. CASE s # {}
      <4>1. Max(s) \in 1..n /\ g[s \ {Max(s)}] \in Timelines
        BY <1>1, <1>5, <3>2, GreatestOfSome DEF FoldFunctions
      <4> HIDE DEF n
      <4> QED BY <1>5, <3>2, <4>1 DEF step, IsFold
    <3> QED BY <3>1, <3>2
  <2>2. g = [s \in SUBSET (1..n) |-> g[s]]
    BY <1>5 DEF FoldFunctions
  <2> QED BY <2>1, <2>2
<1>7. Is(h)
  BY <1>6
<1> HIDE DEF h
<1>8. h[{}] = <<>> /\ \A k \in 1..n : h[1..k] = AppendNote(h[1..(k - 1)], seq[k])
  <2>1. h[{}] = <<>>
    BY <1>7
  <2>2. ASSUME NEW k \in 1..n PROVE h[1..k] = AppendNote(h[1..(k - 1)], seq[k])
    <3>1. k \in Nat \ {0} /\ 1..k \in SUBSET (1..n)
      BY <1>1
    <3>2. 1..k # {} /\ (1..k) \ {k} = 1..(k - 1) /\ Max(1..k) = k
      BY ONLY <3>1, LastOfFirst
    <3> HIDE DEF n
    <3> QED BY <1>7, <3>1, <3>2
  <2> QED BY <2>1, <2>2
<1>9. \A k \in 1..n : h[1..(k - 1)] \in Timelines => h[1..k] = step[<<h[1..(k - 1)], k>>]
  BY <1>8 DEF step
<1>10. \E row \in Rows(Timelines, n) : IsRow(row, n, <<>>, step) /\ h[1..n] = row[n]
  <2> DEFINE V == Timelines
             base == <<>>
  <2>1. base \in V /\ step \in Steps(V, n) /\ h[{}] = base
        /\ \A k \in 1..n : h[1..(k - 1)] \in V => h[1..k] = step[<<h[1..(k - 1)], k>>]
    BY <1>3, <1>8, <1>9
  <2> HIDE DEF V, base
  <2>2. \E row \in Rows(V, n) : IsRow(row, n, base, step) /\ h[1..n] = row[n]
    BY <1>1, <2>1, FoldRow
  <2> QED BY <2>2 DEF V, base
<1>11. PICK row \in Rows(Timelines, n) : IsRow(row, n, <<>>, step) /\ h[1..n] = row[n]
  BY <1>10
<1>12. /\ row \in [0..n -> Timelines] /\ row[0] = <<>>
       /\ \A k \in 1..n : row[k - 1] \in Timelines /\ row[k] = step[<<row[k - 1], k>>]
  BY <1>1, <1>11 DEF Rows, IsRow
<1>13. \A k \in 1..n : row[k] = AppendNote(row[k - 1], seq[k])
  BY <1>12 DEF step
<1> QED BY <1>2, <1>11, <1>12, <1>13

-----------------------------------------------------------------------------
\* The first n of some rising numbers.
Rising(f, n) ==
  /\ f \in [1..n -> Nat]
  /\ \A i, j \in 1..n : i < j => f[i] < f[j]

\* The numbers of g are among those of f.
Within(g, m, f, n) == \A j \in 1..m : \E i \in 1..n : g[j] = f[i]

LEMMA NextRising ==
  ASSUME NEW n \in Nat, NEW m \in Nat, NEW f, NEW g, Rising(f, n), Rising(g, m),
         Within(g, m, f, n), NEW k \in Nat, k < n, k < m, \A j \in 1..k : f[j] = g[j]
  PROVE  f[k + 1] <= g[k + 1]
<1>1. k + 1 \in 1..n /\ k + 1 \in 1..m
  OBVIOUS
<1>2. PICK i \in 1..n : g[k + 1] = f[i]
  BY <1>1 DEF Within
<1>3. CASE i <= k
  <2>1. i \in 1..k /\ i \in 1..m /\ i < k + 1
    BY <1>3
  <2>2. g[i] = g[k + 1] /\ g[i] < g[k + 1]
    BY <1>1, <1>2, <2>1 DEF Rising
  <2>3. g[i] \in Nat
    BY <2>1 DEF Rising
  <2> QED BY <2>2, <2>3
<1>4. CASE i > k
  <2>1. i = k + 1 \/ k + 1 < i
    BY <1>4
  <2>2. f[k + 1] \in Nat /\ f[i] \in Nat
    BY <1>1 DEF Rising
  <2> QED BY <1>1, <1>2, <2>1, <2>2 DEF Rising
<1> QED BY <1>3, <1>4

\* Two lists of rising numbers that hold the same numbers are the same.
LEMMA OneRising ==
  ASSUME NEW n \in Nat, NEW m \in Nat, NEW f, NEW g, Rising(f, n), Rising(g, m),
         Within(g, m, f, n), Within(f, n, g, m)
  PROVE  n = m /\ \A k \in 1..n : f[k] = g[k]
<1> DEFINE G == {k \in 0..n : k <= m /\ \A j \in 1..k : f[j] = g[j]}
<1>1. 0 \in G
  OBVIOUS
<1>2. ASSUME NEW k \in 1..n, k - 1 \in G PROVE k \in G
  <2> DEFINE h == k - 1
  <2>1. h \in Nat /\ h < n /\ h <= m /\ k = h + 1 /\ \A j \in 1..h : f[j] = g[j]
    BY <1>2
  <2> HIDE DEF h
  <2>2. h < m
    <3>1. SUFFICES ASSUME h = m PROVE FALSE
      BY <2>1
    <3>2. PICK i \in 1..m : f[k] = g[i]
      BY DEF Within
    <3>3. i \in 1..h /\ i \in 1..n /\ i < k
      BY <2>1, <3>1
    <3>4. f[i] = f[k] /\ f[i] < f[k] /\ f[i] \in Nat
      BY <2>1, <3>2, <3>3 DEF Rising
    <3> QED BY <3>4
  <2>3. f[k] <= g[k]
    BY <2>1, <2>2, NextRising
  <2>4. g[k] <= f[k]
    BY <2>1, <2>2, NextRising
  <2>5. k \in 1..m
    BY <2>1, <2>2
  <2>6. f[k] = g[k]
    BY <2>3, <2>4, <2>5 DEF Rising
  <2>7. \A j \in 1..k : f[j] = g[j]
    BY <2>1, <2>6
  <2> QED BY <2>5, <2>7
<1> HIDE DEF G
<1>3. n \in G
  BY <1>1, <1>2, Induction
<1>4. n <= m /\ \A j \in 1..n : f[j] = g[j]
  BY <1>3 DEF G
<1>5. ~(n < m)
  <2>1. SUFFICES ASSUME n < m PROVE FALSE
    OBVIOUS
  <2>2. n + 1 \in 1..m
    BY <2>1
  <2>3. PICK i \in 1..n : g[n + 1] = f[i]
    BY <2>2 DEF Within
  <2>4. i \in 1..m /\ i < n + 1
    BY <2>1
  <2>5. g[i] = g[n + 1] /\ g[i] < g[n + 1] /\ g[i] \in Nat
    BY <1>4, <2>2, <2>3, <2>4 DEF Rising
  <2> QED BY <2>5
<1> QED BY <1>4, <1>5

-----------------------------------------------------------------------------
\* The items follow each other from the start on, with no rest behind a rest.
Contiguous(timeline) ==
  /\ \A i \in 1..Len(timeline) : timeline[i].onset < timeline[i].offset
  /\ \A i \in 1..(Len(timeline) - 1) :
       /\ timeline[i].offset = timeline[i + 1].onset
       /\ timeline[i].rest = FALSE \/ timeline[i + 1].rest = FALSE
  /\ Len(timeline) > 0 => timeline[1].onset = 0 /\ timeline[Len(timeline)].rest = FALSE

\* The first k notes are in the timeline, at pos; whatever else is in it is a rest.
Laid(working, timeline, pos, k) ==
  /\ pos \in [1..k -> 1..Len(timeline)] /\ Rising(pos, k)
  /\ \A j \in 1..k : timeline[pos[j]] = QuantizedNote(working[j])
  /\ \A i \in 1..Len(timeline) : timeline[i].rest = TRUE \/ \E j \in 1..k : pos[j] = i
  /\ k > 0 => pos[k] = Len(timeline)
  /\ k = 0 => Len(timeline) = 0

LEMMA ContiguousStep ==
  ASSUME NEW timeline \in Seq(Items), Contiguous(timeline), NEW note \in WorkingNotes,
         note.onset < note.offset, note.onset >= Cursor(timeline)
  PROVE  Contiguous(AppendNote(timeline, note))
<1> DEFINE n == Len(timeline)
           cursor == Cursor(timeline)
           next == AppendNote(timeline, note)
           item == QuantizedNote(note)
           rest == QuantizedRest(cursor, note.onset)
<1>1. /\ n \in Nat /\ cursor \in Nat /\ next \in Seq(Items)
      /\ \A i \in 1..n : next[i] = timeline[i]
      /\ next[Len(next)] = item
      /\ \/ note.onset <= cursor /\ Len(next) = n + 1
         \/ note.onset > cursor /\ Len(next) = n + 2 /\ next[n + 1] = rest
  BY AppendNoteCases
<1>2. note.onset \in Nat /\ note.offset \in Nat
  BY DEF WorkingNotes
<1>3. /\ item.onset = note.onset /\ item.offset = note.offset /\ item.rest = FALSE
      /\ rest.onset = cursor /\ rest.offset = note.onset
  <2>1. item.onset = note.onset /\ item.offset = note.offset /\ item.rest = FALSE
    BY ONLY note \in WorkingNotes, QuantizedNoteItem
  <2>2. cursor \in Nat /\ note.onset \in Nat
    BY <1>1, <1>2
  <2> HIDE DEF cursor
  <2>3. rest.onset = cursor /\ rest.offset = note.onset
    BY ONLY <2>2, QuantizedRestItem
  <2> QED BY <2>1, <2>3 DEF cursor
<1>4. /\ \A i \in 1..n : timeline[i].onset < timeline[i].offset
      /\ \A i \in 1..(n - 1) : /\ timeline[i].offset = timeline[i + 1].onset
                               /\ timeline[i].rest = FALSE \/ timeline[i + 1].rest = FALSE
      /\ n > 0 => timeline[1].onset = 0 /\ timeline[n].rest = FALSE
  BY DEF Contiguous
<1>5. /\ n = 0 => cursor = 0
      /\ n > 0 => cursor = timeline[n].offset
  BY <1>1 DEF Cursor
<1>6. note.onset >= cursor
  OBVIOUS
<1> HIDE DEF n, cursor, next, item, rest
<1>7. \A i \in 1..n : next[i].onset < next[i].offset
  BY <1>1, <1>4
<1>8. \A i \in 1..(n - 1) : /\ next[i].offset = next[i + 1].onset
                            /\ next[i].rest = FALSE \/ next[i + 1].rest = FALSE
  <2>1. \A i \in 1..(n - 1) : i \in 1..n /\ i + 1 \in 1..n
    BY <1>1
  <2> QED BY <1>1, <1>4, <2>1
<1>9. n > 0 => next[n] = timeline[n] /\ next[1] = timeline[1]
  <2>1. n > 0 => n \in 1..n /\ 1 \in 1..n
    BY <1>1
  <2> QED BY <1>1, <2>1
<1>10. CASE note.onset <= cursor /\ Len(next) = n + 1
  <2>1. next[n + 1] = item /\ note.onset = cursor
    BY <1>1, <1>2, <1>6, <1>10
  <2>2. \A i \in 1..(n + 1) : i \in 1..n \/ i = n + 1
    BY <1>1
  <2>3. \A i \in 1..n : i \in 1..(n - 1) \/ (i = n /\ n > 0)
    BY <1>1
  <2>4. \A i \in 1..(n + 1) : next[i].onset < next[i].offset
    BY <1>3, <1>7, <2>1, <2>2
  <2>5. \A i \in 1..n : /\ next[i].offset = next[i + 1].onset
                        /\ next[i].rest = FALSE \/ next[i + 1].rest = FALSE
    BY <1>3, <1>5, <1>8, <1>9, <2>1, <2>3
  <2>6. next[1].onset = 0 /\ next[n + 1].rest = FALSE
    BY <1>1, <1>3, <1>4, <1>5, <1>9, <2>1
  <2>7. Len(next) = n + 1 /\ Len(next) - 1 = n
    BY <1>1, <1>10
  <2>8. Contiguous(next)
    <3> DEFINE l == Len(next)
               m == l - 1
    <3>1. l = n + 1 /\ m = n
      BY <2>7
    <3> HIDE DEF l, m
    <3>2. /\ \A i \in 1..l : next[i].onset < next[i].offset
          /\ \A i \in 1..m : /\ next[i].offset = next[i + 1].onset
                             /\ next[i].rest = FALSE \/ next[i + 1].rest = FALSE
          /\ next[1].onset = 0 /\ next[l].rest = FALSE
      BY <2>4, <2>5, <2>6, <3>1
    <3> QED BY <3>2 DEF Contiguous, l, m
  <2> QED BY <2>8 DEF next
<1>11. CASE note.onset > cursor /\ Len(next) = n + 2 /\ next[n + 1] = rest
  <2>1. next[n + 1] = rest /\ next[n + 2] = item
    BY <1>1, <1>11
  <2>2. \A i \in 1..(n + 2) : i \in 1..n \/ i = n + 1 \/ i = n + 2
    BY <1>1
  <2>3. \A i \in 1..(n + 1) : i \in 1..(n - 1) \/ (i = n /\ n > 0) \/ (i = n + 1 /\ i + 1 = n + 2)
    BY <1>1
  <2>4. \A i \in 1..(n + 2) : next[i].onset < next[i].offset
    BY <1>3, <1>7, <1>11, <2>1, <2>2
  <2>5. \A i \in 1..(n + 1) : /\ next[i].offset = next[i + 1].onset
                              /\ next[i].rest = FALSE \/ next[i + 1].rest = FALSE
    <3>1. CASE n > 0
      <4>1. next[n].offset = next[n + 1].onset /\ next[n].rest = FALSE
        BY <1>3, <1>4, <1>5, <1>9, <2>1, <3>1
      <4>2. next[n + 1].offset = next[n + 2].onset /\ next[n + 2].rest = FALSE
        BY <1>3, <2>1
      <4> QED BY <1>8, <2>3, <4>1, <4>2
    <3>2. CASE n = 0
      <4>2. next[n + 1].offset = next[n + 2].onset /\ next[n + 2].rest = FALSE
        BY <1>3, <2>1
      <4>3. \A i \in 1..(n + 1) : i = n + 1 /\ i + 1 = n + 2
        BY <3>2
      <4>4. ASSUME NEW i \in 1..(n + 1)
            PROVE  /\ next[i].offset = next[i + 1].onset
                   /\ next[i].rest = FALSE \/ next[i + 1].rest = FALSE
        <5>1. i = n + 1 /\ i + 1 = n + 2
          BY <4>3
        <5> QED BY <4>2, <5>1
      <4> QED BY <4>4
    <3>3. n > 0 \/ n = 0
      BY <1>1
    <3> QED BY <3>1, <3>2, <3>3, Zenon
  <2>6. next[1].onset = 0 /\ next[n + 2].rest = FALSE
    BY <1>1, <1>3, <1>4, <1>5, <1>9, <2>1
  <2>7. Len(next) = n + 2 /\ Len(next) - 1 = n + 1
    BY <1>1, <1>11
  <2>8. Contiguous(next)
    <3> DEFINE l == Len(next)
               m == l - 1
    <3>1. l = n + 2 /\ m = n + 1
      BY <2>7
    <3> HIDE DEF l, m
    <3>2. /\ \A i \in 1..l : next[i].onset < next[i].offset
          /\ \A i \in 1..m : /\ next[i].offset = next[i + 1].onset
                             /\ next[i].rest = FALSE \/ next[i + 1].rest = FALSE
          /\ next[1].onset = 0 /\ next[l].rest = FALSE
      BY <2>4, <2>5, <2>6, <3>1
    <3> QED BY <3>2 DEF Contiguous, l, m
  <2> QED BY <2>8 DEF next
<1> QED BY <1>1, <1>10, <1>11

LEMMA LaidStep ==
  ASSUME NEW working \in Seq(WorkingNotes), NEW k \in 1..Len(working), NEW timeline \in Seq(Items),
         NEW pos, Laid(working, timeline, pos, k - 1)
  PROVE  LET next == AppendNote(timeline, working[k])
         IN Laid(working, next, [j \in 1..k |-> IF j = k THEN Len(next) ELSE pos[j]], k)
<1> DEFINE n == Len(timeline)
           note == working[k]
           next == AppendNote(timeline, note)
           l == Len(next)
           new == [j \in 1..k |-> IF j = k THEN l ELSE pos[j]]
           h == k - 1
           rest == QuantizedRest(Cursor(timeline), note.onset)
<1>0. note \in WorkingNotes /\ h \in Nat /\ k = h + 1
  OBVIOUS
<1>1. /\ n \in Nat /\ Cursor(timeline) \in Nat
      /\ \A i \in 1..n : next[i] = timeline[i]
      /\ next[l] = QuantizedNote(note)
      /\ l = n + 1 \/ (l = n + 2 /\ next[n + 1] = rest)
  BY <1>0, AppendNoteCases
<1>2. rest.rest = TRUE
  <2>1. note.onset \in Nat
    BY <1>0 DEF WorkingNotes
  <2> QED BY <1>1, <2>1, QuantizedRestItem
<1>3. /\ pos \in [1..h -> 1..n] /\ Rising(pos, h)
      /\ \A j \in 1..h : timeline[pos[j]] = QuantizedNote(working[j])
      /\ \A i \in 1..n : timeline[i].rest = TRUE \/ \E j \in 1..h : pos[j] = i
  BY DEF Laid
<1> HIDE DEF n, next, rest, l, h, note
<1>4. \A j \in 1..k : j = k \/ (j \in 1..h /\ j # k)
  BY <1>0
<1>5. new[k] = l /\ \A j \in 1..h : new[j] = pos[j]
  BY <1>0
<1>6. \A j \in 1..h : j \in 1..k /\ pos[j] \in 1..n /\ pos[j] \in 1..l /\ pos[j] < l
  BY <1>0, <1>1, <1>3
<1>7. new \in [1..k -> 1..l]
  <2>1. l \in 1..l
    BY <1>1
  <2>2. \A j \in 1..k : new[j] \in 1..l
    BY <1>4, <1>5, <1>6, <2>1
  <2> QED BY <2>2
<1> HIDE DEF new
<1>8. Rising(new, k)
  <2>1. ASSUME NEW i \in 1..k, NEW j \in 1..k, i < j PROVE new[i] < new[j]
    <3>1. i \in 1..h
      BY <1>0, <2>1
    <3>2. CASE j = k
      BY <1>5, <1>6, <3>1, <3>2
    <3>3. CASE j \in 1..h
      BY <1>3, <1>5, <2>1, <3>1, <3>3 DEF Rising
    <3> QED BY <1>4, <3>2, <3>3
  <2>2. 1..l \subseteq Nat
    OBVIOUS
  <2> QED BY <1>7, <2>1, <2>2 DEF Rising
<1>9. \A j \in 1..k : next[new[j]] = QuantizedNote(working[j])
  <2>1. next[new[k]] = QuantizedNote(working[k])
    BY <1>1, <1>5 DEF note
  <2>2. ASSUME NEW j \in 1..h PROVE next[new[j]] = QuantizedNote(working[j])
    BY <1>1, <1>3, <1>5, <1>6
  <2> QED BY <1>4, <2>1, <2>2
<1>10. \A i \in 1..l : next[i].rest = TRUE \/ \E j \in 1..k : new[j] = i
  <2> TAKE i \in 1..l
  <2>1. i \in 1..n \/ i = l \/ (i = n + 1 /\ l = n + 2)
    BY <1>1
  <2>2. CASE i \in 1..n
    BY <1>1, <1>3, <1>5, <1>6, <2>2
  <2>3. CASE i = l
    <3>1. k \in 1..k
      BY <1>0
    <3> QED BY <1>5, <2>3, <3>1
  <2>4. CASE i = n + 1 /\ l = n + 2
    BY <1>1, <1>2, <2>4
  <2> QED BY <2>1, <2>2, <2>3, <2>4
<1>11. k # 0
  BY <1>0
<1>12. Laid(working, next, new, k)
  BY <1>5, <1>7, <1>8, <1>9, <1>10, <1>11 DEF Laid, l
<1> QED BY <1>12 DEF next, new, l, note

LEMMA AllLaid ==
  ASSUME NEW working \in Seq(WorkingNotes), Apart(working)
  PROVE  LET timeline == BuildTimeline(working)
         IN /\ timeline \in Seq(Items) /\ Contiguous(timeline)
            /\ \E pos : Laid(working, timeline, pos, Len(working))
<1> DEFINE n == Len(working)
           timeline == BuildTimeline(working)
<1>1. n \in Nat
  OBVIOUS
<1>2. PICK row \in [0..n -> Timelines] :
        /\ row[0] = <<>>
        /\ \A k \in 1..n : row[k] = AppendNote(row[k - 1], working[k])
        /\ timeline = row[n]
  BY TimelineFold DEF BuildTimeline
<1> HIDE DEF timeline, n
<1> DEFINE Good(k) == Contiguous(row[k]) /\ \E pos : Laid(working, row[k], pos, k)
           G == {k \in 0..n : Good(k)}
<1>3. 0 \in G
  <2>1. Len(<<>>) = 0
    OBVIOUS
  <2>2. Contiguous(<<>>)
    BY <2>1 DEF Contiguous
  <2>3. Laid(working, <<>>, <<>>, 0)
    <3>1. <<>> \in [1..0 -> 1..0] /\ <<>> \in [1..0 -> Nat]
      OBVIOUS
    <3> QED BY <2>1, <3>1 DEF Laid, Rising
  <2>4. 0 \in 0..n /\ row[0] = <<>>
    BY <1>1, <1>2
  <2> QED BY <2>2, <2>3, <2>4
<1>4. ASSUME NEW k \in 1..n, k - 1 \in G PROVE k \in G
  <2> DEFINE t == row[k - 1]
             note == working[k]
  <2>1. t \in Timelines /\ k \in 0..n /\ k - 1 \in 0..n /\ k - 1 \in Nat /\ k = (k - 1) + 1
    BY <1>1, <1>2
  <2>2. Contiguous(t) /\ \E pos : Laid(working, t, pos, k - 1)
    BY <1>4
  <2>3. PICK pos : Laid(working, t, pos, k - 1)
    BY <2>2
  <2>4. t \in Seq(Items) /\ k \in 1..Len(working)
    BY <2>1 DEF Timelines, n
  <2>5. row[k] = AppendNote(t, note)
    BY <1>2
  <2> HIDE DEF t
  <2>6. \E p : Laid(working, row[k], p, k)
    <3> DEFINE p == [j \in 1..k |-> IF j = k THEN Len(AppendNote(t, note)) ELSE pos[j]]
    <3>1. Laid(working, AppendNote(t, note), p, k)
      BY <2>3, <2>4, LaidStep
    <3> HIDE DEF p
    <3> QED BY <2>5, <3>1
  <2>7. note \in WorkingNotes /\ note.onset < note.offset
    BY <2>4 DEF Apart
  <2>8. note.onset >= Cursor(t)
    <3>1. note.onset \in Nat
      BY <2>7 DEF WorkingNotes
    <3>2. CASE k = 1
      <4>1. Len(t) = 0
        BY <2>3, <3>2 DEF Laid
      <4>2. Cursor(t) = 0
        BY <2>4, <4>1 DEF Cursor
      <4> QED BY <3>1, <4>2
    <3>3. CASE k > 1
      <4> DEFINE last == working[k - 1]
      <4>1. k - 1 \in 1..Len(working) /\ k - 1 < k /\ k - 1 \in 1..(k - 1) /\ k - 1 > 0
        BY <2>1, <2>4, <3>3
      <4>2. last \in WorkingNotes /\ last.offset <= note.onset
        BY <2>4, <4>1 DEF Apart
      <4>3. t[Len(t)] = QuantizedNote(last) /\ Len(t) \in 1..Len(t)
        BY <2>3, <4>1 DEF Laid
      <4>4. Cursor(t) = last.offset
        <5>1. t # <<>>
          BY <2>4, <4>3
        <5> HIDE DEF last
        <5> QED BY <4>2, <4>3, <5>1, QuantizedNoteItem DEF Cursor
      <4>5. last.offset \in Nat
        BY <4>2 DEF WorkingNotes
      <4> QED BY <3>1, <4>2, <4>4, <4>5
    <3> QED BY <2>4, <3>2, <3>3
  <2>9. Contiguous(row[k])
    BY <2>2, <2>4, <2>5, <2>7, <2>8, ContiguousStep
  <2> QED BY <2>1, <2>6, <2>9
<1> HIDE DEF G
<1>5. \A k \in 0..n : k \in G
  BY <1>1, <1>3, <1>4, Induction
<1>6. n \in G /\ row[n] \in Timelines
  BY <1>1, <1>2, <1>5
<1>7. Good(n)
  BY <1>6 DEF G
<1> QED BY <1>2, <1>6, <1>7 DEF Timelines, timeline, n

-----------------------------------------------------------------------------
\* The notes of the timeline are the notes it was built from, in their order.
LEMMA NoteItemsLaid ==
  ASSUME NEW n \in Nat, NEW working \in Seq(WorkingNotes), Len(working) = n,
         NEW timeline \in Seq(Items), NEW pos, Laid(working, timeline, pos, n)
  PROVE  LET notes == NoteItems(timeline)
         IN /\ notes \in Seq(Items) /\ Len(notes) = n
            /\ \A k \in 1..n : notes[k] = QuantizedNote(working[k])
            /\ Cardinality({i \in DOMAIN timeline : timeline[i].rest}) = Len(timeline) - n
<1> DEFINE l == Len(timeline)
           K == {i \in DOMAIN timeline : ~timeline[i].rest}
           R == {i \in DOMAIN timeline : timeline[i].rest}
           c == Cardinality(K)
           order == Ascending(K)
           notes == NoteItems(timeline)
<1>1. l \in Nat /\ DOMAIN timeline = 1..l /\ \A i \in 1..l : timeline[i] \in Items
  OBVIOUS
<1>2. \A i \in 1..l : timeline[i].rest \in BOOLEAN
  BY <1>1 DEF Items
<1>3. K \in SUBSET (1..l) /\ R = (1..l) \ K
  BY <1>1
<1>4. notes = Pick(timeline, K)
  BY DEF NoteItems
<1>5. /\ pos \in [1..n -> 1..l] /\ Rising(pos, n)
      /\ \A j \in 1..n : timeline[pos[j]] = QuantizedNote(working[j])
      /\ \A i \in 1..l : timeline[i].rest = TRUE \/ \E j \in 1..n : pos[j] = i
  BY DEF Laid
<1>6. \A j \in 1..n : pos[j] \in K
  <2> TAKE j \in 1..n
  <2>1. pos[j] \in 1..l /\ working[j] \in WorkingNotes
    BY <1>5
  <2>2. timeline[pos[j]].rest = FALSE
    BY <1>5, <2>1, QuantizedNoteItem
  <2> QED BY <1>1, <2>1, <2>2
<1>7. \A i \in K : \E j \in 1..n : pos[j] = i
  <2> TAKE i \in K
  <2>1. i \in 1..l /\ ~timeline[i].rest
    BY <1>1
  <2> QED BY <1>5, <2>1
<1> HIDE DEF K, l, R, notes
<1>8. /\ IsFiniteSet(K) /\ c \in 0..l
      /\ notes \in Seq(Items) /\ Len(notes) = c
      /\ order \in [1..c -> K]
      /\ \A i, j \in 1..c : i < j => order[i] < order[j]
      /\ \A x \in K : \E k \in 1..c : order[k] = x
      /\ \A k \in 1..c : notes[k] = timeline[order[k]]
  BY <1>3, <1>4, Picked DEF l
<1> HIDE DEF c, order
<1>9. c \in Nat /\ K \subseteq Nat
  BY <1>1, <1>3, <1>8
<1>10. Rising(order, c)
  BY <1>8, <1>9 DEF Rising
<1>11. Within(pos, n, order, c) /\ Within(order, c, pos, n)
  <2>1. \A j \in 1..n : \E i \in 1..c : pos[j] = order[i]
    BY <1>6, <1>8
  <2>2. \A j \in 1..c : \E i \in 1..n : order[j] = pos[i]
    BY <1>7, <1>8
  <2> QED BY <2>1, <2>2 DEF Within
<1>12. c = n /\ \A k \in 1..c : order[k] = pos[k]
  BY <1>5, <1>9, <1>10, <1>11, OneRising
<1>13. \A k \in 1..n : notes[k] = QuantizedNote(working[k])
  BY <1>5, <1>8, <1>12
<1>14. Cardinality(R) = l - n
  <2>1. IsFiniteSet(1..l) /\ Cardinality(1..l) = l
    BY <1>1, CardinalityOfFirst
  <2> DEFINE A == 1..l
  <2>2. K \subseteq A /\ R = A \ K
    BY <1>3
  <2> HIDE DEF A
  <2>3. A \cap K = K
    BY <2>2
  <2>4. Cardinality(A \ K) = Cardinality(A) - Cardinality(A \cap K)
    BY <2>1, FS_Difference DEF A
  <2> QED BY <1>12, <2>1, <2>2, <2>3, <2>4 DEF A, c
<1> QED BY <1>8, <1>12, <1>13, <1>14 DEF notes, R, l

\* What Quantize answers, in terms of the notes it placed.
IsQuantization(events, tempo, subdivisions, candidates, order, working, result) ==
  LET n == Len(events)
      notes == NoteItems(result.timeline)
  IN /\ candidates \in Seq(Candidates) /\ Len(candidates) = n
     /\ IsOrderOf(order, events)
     /\ \A k \in 1..n : candidates[k] = WorkingNote(events, order[k], tempo, subdivisions)
     /\ working \in Seq(WorkingNotes) /\ Apart(working) /\ Resolved(candidates, working, n)
     /\ result.timeline \in Seq(Items) /\ Contiguous(result.timeline)
     /\ notes \in Seq(Items) /\ Len(notes) = n
     /\ \A k \in 1..n : notes[k] = QuantizedNote(working[k])
     /\ result.report =
          [input |-> n, notes |-> n, rests |-> Len(result.timeline) - n,
           minimum |-> Cardinality({i \in 1..n : working[i].minimum}),
           overlap |-> Cardinality({i \in 1..n : working[i].overlap})]

\* What WorkingNote makes of a note that was heard.
LEMMA WorkingNoteIndex ==
  ASSUME NEW events, NEW i, NEW tempo, NEW subdivisions
  PROVE  WorkingNote(events, i, tempo, subdivisions).index = i
BY DEF WorkingNote

LEMMA WorkingNoteUntouched ==
  ASSUME NEW events, NEW i, NEW tempo, NEW subdivisions
  PROVE  WorkingNote(events, i, tempo, subdivisions).overlap = FALSE
BY DEF WorkingNote

LEMMA WorkingNoteSpan ==
  ASSUME NEW events, NEW i, NEW tempo, NEW subdivisions
  PROVE  /\ WorkingNote(events, i, tempo, subdivisions).onset =
              SecondsToGridStep(HeardAt(events, i).onset, tempo, subdivisions)
         /\ WorkingNote(events, i, tempo, subdivisions).offset =
              Max({SecondsToGridStep(HeardAt(events, i).offset, tempo, subdivisions),
                   WorkingNote(events, i, tempo, subdivisions).onset + 1})
BY DEF WorkingNote, HeardAt

LEMMA Quantization ==
  ASSUME NEW events, Played(events), NEW tempo, tempo.effective \in PositiveNumbers,
         NEW subdivisions \in Nat \ {0}
  PROVE  \E candidates, order, working :
           IsQuantization(events, tempo, subdivisions, candidates, order, working,
                          Quantize(events, tempo, subdivisions))
<1> DEFINE n == Len(events)
           candidates == CandidateNotes(events, tempo, subdivisions)
           working == ResolveMonophonicOverlaps(candidates)
           timeline == BuildTimeline(working)
           result == Quantize(events, tempo, subdivisions)
<1>1. n \in Nat
  BY DEF Played
<1>2. /\ candidates \in Seq(Candidates) /\ Len(candidates) = n
      /\ \E order : /\ IsOrderOf(order, events)
                    /\ \A k \in 1..n :
                         candidates[k] = WorkingNote(events, order[k], tempo, subdivisions)
  BY CandidateNotesSorted
<1>3. PICK order : /\ IsOrderOf(order, events)
                   /\ \A k \in 1..n :
                        candidates[k] = WorkingNote(events, order[k], tempo, subdivisions)
  BY <1>2
<1>4. /\ result.timeline = timeline
      /\ result.report =
           [input |-> Len(working), notes |-> Len(working),
            rests |-> Cardinality({i \in DOMAIN timeline : timeline[i].rest}),
            minimum |-> Cardinality({i \in DOMAIN working : working[i].minimum}),
            overlap |-> Cardinality({i \in DOMAIN working : working[i].overlap})]
  <2>1. \A marked : marked = [i \in DOMAIN working |-> working[i].minimum] =>
          {i \in DOMAIN working : marked[i]} = {i \in DOMAIN working : working[i].minimum}
    OBVIOUS
  <2>2. \A marked : marked = [i \in DOMAIN working |-> working[i].overlap] =>
          {i \in DOMAIN working : marked[i]} = {i \in DOMAIN working : working[i].overlap}
    OBVIOUS
  <2> HIDE DEF working, timeline
  <2> QED BY <2>1, <2>2 DEF Quantize, working, timeline, candidates
<1> HIDE DEF candidates, n
<1>5. \A j \in 1..Len(candidates) : candidates[j].overlap = FALSE
  <2> TAKE j \in 1..Len(candidates)
  <2>1. WorkingNote(events, order[j], tempo, subdivisions).overlap = FALSE
    BY WorkingNoteUntouched
  <2> QED BY <1>2, <1>3, <2>1
<1>6. working \in Seq(WorkingNotes) /\ Apart(working) /\ Resolved(candidates, working, n)
  BY <1>2, <1>5, AllResolved
<1> HIDE DEF working
<1>7. Len(working) = n /\ DOMAIN working = 1..n
  BY <1>1, <1>6 DEF Resolved
<1>8. /\ timeline \in Seq(Items) /\ Contiguous(timeline)
      /\ \E pos : Laid(working, timeline, pos, Len(working))
  BY <1>6, AllLaid
<1> HIDE DEF timeline, result
<1>9. PICK pos : Laid(working, timeline, pos, n)
  BY <1>7, <1>8
<1>10. /\ NoteItems(timeline) \in Seq(Items) /\ Len(NoteItems(timeline)) = n
       /\ \A k \in 1..n : NoteItems(timeline)[k] = QuantizedNote(working[k])
       /\ Cardinality({i \in DOMAIN timeline : timeline[i].rest}) = Len(timeline) - n
  BY <1>1, <1>6, <1>7, <1>8, <1>9, NoteItemsLaid
<1>11. IsQuantization(events, tempo, subdivisions, candidates, order, working, result)
  BY <1>2, <1>3, <1>4, <1>6, <1>7, <1>8, <1>10 DEF IsQuantization, n
<1> QED BY <1>11 DEF result

LEMMA QuantizationAccepted ==
  ASSUME NEW events, Played(events), NEW tempo, tempo.effective \in PositiveNumbers,
         NEW subdivisions \in Nat \ {0}
  PROVE  QuantizedRhythmAccepted(events, Quantize(events, tempo, subdivisions))
<1> DEFINE n == Len(events)
           result == Quantize(events, tempo, subdivisions)
           timeline == result.timeline
           notes == NoteItems(timeline)
<1>1. n \in Nat /\ DOMAIN events = 1..n
  BY DEF Played
<1>2. PICK candidates, order, working :
        IsQuantization(events, tempo, subdivisions, candidates, order, working, result)
  BY Quantization
<1> HIDE DEF result
<1>3. /\ candidates \in Seq(Candidates) /\ Len(candidates) = n
      /\ IsOrderOf(order, events)
      /\ \A k \in 1..n : candidates[k] = WorkingNote(events, order[k], tempo, subdivisions)
      /\ working \in Seq(WorkingNotes) /\ Resolved(candidates, working, n)
      /\ timeline \in Seq(Items) /\ Contiguous(timeline)
      /\ notes \in Seq(Items) /\ Len(notes) = n
      /\ \A k \in 1..n : notes[k] = QuantizedNote(working[k])
      /\ result.report =
          [input |-> n, notes |-> n, rests |-> Len(result.timeline) - n,
           minimum |-> Cardinality({i \in 1..n : working[i].minimum}),
           overlap |-> Cardinality({i \in 1..n : working[i].overlap})]
  BY <1>2 DEF IsQuantization
<1> HIDE DEF timeline, notes, n
<1>4. \A k \in 1..n : notes[k].index = order[k]
  <2> TAKE k \in 1..n
  <2>1. working[k].index = candidates[k].index
    BY <1>3 DEF Resolved, Placed
  <2>2. candidates[k].index = order[k]
    <3>1. WorkingNote(events, order[k], tempo, subdivisions).index = order[k]
      BY WorkingNoteIndex
    <3> QED BY <1>3, <3>1
  <2>3. working[k] \in WorkingNotes
    BY <1>1, <1>3 DEF Resolved
  <2> QED BY <1>3, <2>1, <2>2, <2>3, QuantizedNoteItem
<1>5. DOMAIN notes = 1..n /\ DOMAIN timeline = 1..Len(timeline) /\ Len(timeline) \in Nat
  BY <1>1, <1>3
<1>6. /\ order \in [1..n -> 1..n]
      /\ \A p \in 1..n : \E k \in 1..n : order[k] = p
      /\ \A i, j \in 1..n : i < j => order[i] # order[j]
  BY <1>3 DEF IsOrderOf, n
<1>7. \A i \in DOMAIN timeline : QuantizedItemAccepted(timeline[i])
  <2> TAKE i \in DOMAIN timeline
  <2>1. i \in 1..Len(timeline) /\ timeline[i] \in Items
    BY <1>3, <1>5
  <2>2. timeline[i].onset \in Nat /\ timeline[i].offset \in Nat /\ timeline[i].onset < timeline[i].offset
    BY <1>3, <2>1 DEF Contiguous, Items
  <2> QED BY <2>2 DEF QuantizedItemAccepted
<1>8. QuantizationReportAccepted(result.report)
  <2> DEFINE A == {i \in 1..n : working[i].minimum}
             B == {i \in 1..n : working[i].overlap}
             F == 1..n
  <2>1. IsFiniteSet(F) /\ Cardinality(F) = n /\ A \in SUBSET F /\ B \in SUBSET F
    BY <1>1, CardinalityOfFirst
  <2>2. result.report.input = n /\ result.report.notes = n
        /\ result.report.minimum = Cardinality(A) /\ result.report.overlap = Cardinality(B)
    BY <1>3
  <2> HIDE DEF A, B, F
  <2>3. Cardinality(A) <= n /\ Cardinality(B) <= n
    BY <2>1, FS_Subset
  <2> QED BY <2>2, <2>3 DEF QuantizationReportAccepted
<1>9. /\ result.report.input = Len(events) /\ result.report.notes = Len(notes)
      /\ result.report.rests = Len(timeline) - Len(notes)
  BY <1>3 DEF n, timeline
<1>10. IsInjective([i \in DOMAIN notes |-> notes[i].index])
  <2>1. \A i, j \in 1..n : order[i] = order[j] => i = j
    <3> TAKE i, j \in 1..n
    <3>1. i < j \/ j < i \/ i = j
      BY <1>1
    <3> QED BY <1>6, <3>1
  <2> QED BY <1>4, <1>5, <2>1 DEF IsInjective
<1>11. {notes[i].index : i \in DOMAIN notes} = DOMAIN events
  <2>1. \A k \in 1..n : notes[k].index = order[k] /\ order[k] \in 1..n
    BY <1>4, <1>6
  <2>2. \A p \in 1..n : \E k \in 1..n : order[k] = p
    BY <1>6
  <2> HIDE DEF n
  <2>3. \A p \in 1..n : \E k \in 1..n : notes[k].index = p
    BY <2>1, <2>2
  <2>4. {notes[i].index : i \in 1..n} = 1..n
    BY <2>1, <2>3, Zenon
  <2> QED BY <1>1, <1>5, <2>4
<1>12. timeline # <<>> => Head(timeline).onset = 0 /\ ~Last(timeline).rest
  <2>1. timeline # <<>> => Len(timeline) > 0 /\ Head(timeline) = timeline[1]
                           /\ Last(timeline) = timeline[Len(timeline)]
    BY <1>3 DEF Last
  <2> QED BY <1>3, <2>1 DEF Contiguous
<1>13. \A i \in 1..(Len(timeline) - 1) :
          /\ timeline[i].offset = timeline[i + 1].onset
          /\ ~(timeline[i].rest /\ timeline[i + 1].rest)
  <2> TAKE i \in 1..(Len(timeline) - 1)
  <2>1. /\ timeline[i].offset = timeline[i + 1].onset
        /\ timeline[i].rest = FALSE \/ timeline[i + 1].rest = FALSE
    BY <1>3 DEF Contiguous
  <2> QED BY <2>1
<1>14. QuantizedRhythmAccepted(events, result)
  BY <1>7, <1>8, <1>9, <1>10, <1>11, <1>12, <1>13 DEF QuantizedRhythmAccepted, timeline, notes
<1> QED BY <1>14 DEF result

\* A note of the score, what it was heard as and what it would be if nothing were in its way.
HeardNote(events, notes, k) == events[notes[k].index].source.event

SnapsTo(events, notes, tempo, subdivisions, k) ==
  SecondsToGridStep(HeardNote(events, notes, k).onset, tempo, subdivisions)

LastsTo(events, notes, tempo, subdivisions, k) ==
  SecondsToGridStep(HeardNote(events, notes, k).offset, tempo, subdivisions)

IsShifted(events, notes, tempo, subdivisions, k) ==
  notes[k].onset # SnapsTo(events, notes, tempo, subdivisions, k)

IsCut(events, notes, tempo, subdivisions, k) ==
  notes[k].offset # Max({LastsTo(events, notes, tempo, subdivisions, k), notes[k].onset + 1})

LEMMA PlacedForced ==
  ASSUME NEW events, Played(events), NEW tempo, tempo.effective \in PositiveNumbers,
         NEW subdivisions \in Nat \ {0}, NEW candidates, NEW order, NEW working, NEW result,
         IsQuantization(events, tempo, subdivisions, candidates, order, working, result),
         NEW k \in 1..Len(events)
  PROVE  LET notes == NoteItems(result.timeline)
             n == Len(events)
             on == SnapsTo(events, notes, tempo, subdivisions, k)
             off == LastsTo(events, notes, tempo, subdivisions, k)
             shifted == IsShifted(events, notes, tempo, subdivisions, k)
             cut == IsCut(events, notes, tempo, subdivisions, k)
         IN /\ k < n => HeardNote(events, notes, k).onset <= HeardNote(events, notes, k + 1).onset
            /\ shifted => /\ k > 1 /\ notes[k].onset > on
                          /\ notes[k].onset = notes[k - 1].offset /\ notes[k - 1].onset >= on
            /\ cut => /\ k < n /\ notes[k].offset = notes[k + 1].onset /\ notes[k].offset < off
            /\ working[k].overlap \in BOOLEAN /\ (working[k].overlap = TRUE <=> shifted \/ cut)
<1> DEFINE n == Len(events)
           notes == NoteItems(result.timeline)
           on == SnapsTo(events, notes, tempo, subdivisions, k)
           off == LastsTo(events, notes, tempo, subdivisions, k)
           w == working[k]
           c == candidates[k]
<1>1. n \in Nat /\ \A i \in 1..n : HeardAt(events, i).onset \in Nat /\ HeardAt(events, i).offset \in Nat
  BY PlayedNumbers DEF Played, HeardAt
<1>2. /\ candidates \in Seq(Candidates) /\ Len(candidates) = n
      /\ IsOrderOf(order, events)
      /\ \A j \in 1..n : candidates[j] = WorkingNote(events, order[j], tempo, subdivisions)
      /\ working \in Seq(WorkingNotes) /\ Apart(working) /\ Resolved(candidates, working, n)
      /\ notes \in Seq(Items) /\ Len(notes) = n
      /\ \A j \in 1..n : notes[j] = QuantizedNote(working[j])
  BY DEF IsQuantization
<1> HIDE DEF notes, n
<1>3. Len(working) = n /\ \A j \in 1..n : Placed(candidates, working, j, n)
  BY <1>2 DEF Resolved
<1>4. \A j \in 1..n : /\ working[j] \in WorkingNotes
                      /\ notes[j].index = working[j].index /\ notes[j].onset = working[j].onset
                      /\ notes[j].offset = working[j].offset
  <2> TAKE j \in 1..n
  <2>1. working[j] \in WorkingNotes
    BY <1>2, <1>3
  <2> QED BY <1>2, <2>1, QuantizedNoteItem
<1>5. \A j \in 1..n : order[j] \in 1..n /\ HeardNote(events, notes, j) = HeardAt(events, order[j])
  <2> TAKE j \in 1..n
  <2>1. candidates[j].index = order[j]
    <3>1. WorkingNote(events, order[j], tempo, subdivisions).index = order[j]
      BY WorkingNoteIndex
    <3> QED BY <1>2, <3>1
  <2>2. working[j].index = candidates[j].index
    BY <1>3 DEF Placed
  <2>3. order[j] \in 1..n
    BY <1>2 DEF IsOrderOf, n
  <2> QED BY <1>4, <2>1, <2>2, <2>3 DEF HeardNote, HeardAt
<1>6. k \in 1..n
  BY DEF n
<1>7. k < n => HeardNote(events, notes, k).onset <= HeardNote(events, notes, k + 1).onset
  <2>1. k < n => k + 1 \in 1..n /\ k < k + 1
    BY <1>1, <1>6
  <2>2. k < n => HeardAt(events, order[k]).onset <= HeardAt(events, order[k + 1]).onset
    BY <1>2, <1>6, <2>1 DEF IsOrderOf, n
  <2> QED BY <1>5, <1>6, <2>1, <2>2
<1>8. c.onset = on /\ c.offset = Max({off, on + 1})
  <2>1. /\ WorkingNote(events, order[k], tempo, subdivisions).onset =
              SecondsToGridStep(HeardAt(events, order[k]).onset, tempo, subdivisions)
        /\ WorkingNote(events, order[k], tempo, subdivisions).offset =
              Max({SecondsToGridStep(HeardAt(events, order[k]).offset, tempo, subdivisions),
                   WorkingNote(events, order[k], tempo, subdivisions).onset + 1})
    BY WorkingNoteSpan
  <2>2. c = WorkingNote(events, order[k], tempo, subdivisions)
    BY <1>2, <1>6
  <2>3. HeardNote(events, notes, k) = HeardAt(events, order[k])
    BY <1>5, <1>6
  <2> HIDE DEF c
  <2> QED BY <2>1, <2>2, <2>3 DEF SnapsTo, LastsTo
<1>9. on \in Nat /\ off \in Nat
  <2>1. HeardNote(events, notes, k).onset \in Nat /\ HeardNote(events, notes, k).offset \in Nat
    BY <1>1, <1>5, <1>6
  <2> QED BY <2>1, GridStepNatural DEF SnapsTo, LastsTo
<1>10. w \in WorkingNotes /\ w.onset \in Nat /\ w.offset \in Nat /\ w.onset < w.offset
       /\ w.overlap \in BOOLEAN
  <2>1. w \in WorkingNotes /\ w.onset < w.offset
    BY <1>2, <1>3, <1>4, <1>6 DEF Apart
  <2> QED BY <2>1 DEF WorkingNotes
<1>11. /\ w.onset >= c.onset
       /\ w.onset # c.onset =>
            k > 1 /\ w.onset = working[k - 1].offset /\ working[k - 1].onset >= c.onset
       /\ w.offset # Wanted(c, w) =>
            k < n /\ w.offset = working[k + 1].onset /\ w.offset < c.offset
       /\ w.overlap = TRUE <=> w.onset # c.onset \/ w.offset # Wanted(c, w)
  BY <1>3, <1>6 DEF Placed
<1>12. notes[k].onset = w.onset /\ notes[k].offset = w.offset
  BY <1>4, <1>6
<1>13. /\ k > 1 => notes[k - 1].offset = working[k - 1].offset /\ notes[k - 1].onset = working[k - 1].onset
       /\ k < n => notes[k + 1].onset = working[k + 1].onset
  <2>1. (k > 1 => k - 1 \in 1..n) /\ (k < n => k + 1 \in 1..n)
    BY <1>1, <1>6
  <2> QED BY <1>4, <2>1
<1> HIDE DEF on, off, w, c
<1>14. c.offset = IF off >= on + 1 THEN off ELSE on + 1
  BY <1>8, <1>9, MaxOfTwo
<1>15. Wanted(c, w) = Max({off, w.onset + 1})
  <2>1. c.offset \in Int /\ w.onset + 1 \in Int
    BY <1>9, <1>10, <1>14
  <2>2. Wanted(c, w) = IF c.offset >= w.onset + 1 THEN c.offset ELSE w.onset + 1
    BY <2>1, MaxOfTwo DEF Wanted
  <2>3. Max({off, w.onset + 1}) = IF off >= w.onset + 1 THEN off ELSE w.onset + 1
    BY <1>9, <2>1, MaxOfTwo
  <2>4. w.onset >= on
    BY <1>8, <1>11
  <2> QED BY <1>9, <1>10, <1>14, <2>2, <2>3, <2>4
<1>16. IsShifted(events, notes, tempo, subdivisions, k) <=> w.onset # c.onset
  BY <1>8, <1>12 DEF IsShifted, on
<1>17. IsCut(events, notes, tempo, subdivisions, k) <=> w.offset # Wanted(c, w)
  BY <1>12, <1>15 DEF IsCut, off
<1>18. w.onset # c.onset =>
         /\ k > 1 /\ notes[k].onset > on
         /\ notes[k].onset = notes[k - 1].offset /\ notes[k - 1].onset >= on
  BY <1>8, <1>9, <1>10, <1>11, <1>12, <1>13
<1>19. w.offset # Wanted(c, w) =>
         k < n /\ notes[k].offset = notes[k + 1].onset /\ notes[k].offset < off
  <2>1. w.offset < c.offset => w.offset < off
    BY <1>8, <1>9, <1>10, <1>11, <1>14
  <2> QED BY <1>11, <1>12, <1>13, <2>1
<1> QED BY <1>7, <1>10, <1>11, <1>16, <1>17, <1>18, <1>19 DEF notes, on, off, n, w

\* The tempo that was found counts beats, for a transcription that was written.
LEMMA TimedNumbers ==
  ASSUME ControlType, Computed, Timed(local)
  PROVE  /\ Played(local.written.events)
         /\ local.tempo.effective \in PositiveNumbers
         /\ setup \in Setups /\ setup.subdivisions \in Nat \ {0} /\ setup.beats \in Nat \ {0}
<1>1. setup \in Setups /\ Written(local)
  BY DEF Computed, Timed
<1>2. SetupAccepted(setup)
  BY <1>1, PipelineAssumption
<1>3. Played(local.written.events)
  BY <1>1, WrittenPlayed
<1>4. local.tempo = ResolveTempo(local.written.events, setup.tempo, setup.fallback)
  BY DEF Timed
<1>5. local.tempo.effective \in PositiveNumbers
  <2> DEFINE events == local.written.events
  <2> HIDE DEF events
  <2>1. Played(events)
    BY <1>3 DEF events
  <2>2. ResolveTempo(events, setup.tempo, setup.fallback).effective \in PositiveNumbers
    BY <1>1, <2>1, ResolvedTempo
  <2> QED BY <1>4, <2>2 DEF events
<1> QED BY <1>1, <1>2, <1>3, <1>5 DEF SetupAccepted

LEMMA QuantizedForced ==
  ASSUME ControlType, Computed, stage = "midi"
  PROVE  MovedOnlyWhenForced
<1> DEFINE events == local.written.events
           tempo == local.tempo
           subdivisions == setup.subdivisions
           result == local.quantized
           notes == NoteItems(result.timeline)
           n == Len(events)
<1>1. Quantized(local) /\ Timed(local)
  BY DEF Computed, Quantized
<1>2. Played(events) /\ tempo.effective \in PositiveNumbers /\ subdivisions \in Nat \ {0} /\ n \in Nat
  BY <1>1, TimedNumbers DEF Played
<1>3. result = Quantize(events, tempo, subdivisions)
  BY <1>1 DEF Quantized
<1> HIDE DEF events, tempo, subdivisions, result
<1>4. PICK candidates, order, working :
        IsQuantization(events, tempo, subdivisions, candidates, order, working, result)
  BY <1>2, <1>3, Quantization
<1>5. /\ notes \in Seq(Items) /\ Len(notes) = n /\ DOMAIN notes = 1..n
      /\ result.report.overlap = Cardinality({i \in 1..n : working[i].overlap})
  BY <1>2, <1>4 DEF IsQuantization
<1> HIDE DEF notes, n
<1> DEFINE Shifted(k) == IsShifted(events, notes, tempo, subdivisions, k)
           Cut(k) == IsCut(events, notes, tempo, subdivisions, k)
           On(k) == SnapsTo(events, notes, tempo, subdivisions, k)
           Off(k) == LastsTo(events, notes, tempo, subdivisions, k)
<1>6. \A k \in 1..n :
        /\ k < n => HeardNote(events, notes, k).onset <= HeardNote(events, notes, k + 1).onset
        /\ Shifted(k) => /\ k > 1 /\ notes[k].onset > On(k)
                         /\ notes[k].onset = notes[k - 1].offset /\ notes[k - 1].onset >= On(k)
        /\ Cut(k) => /\ k < n /\ notes[k].offset = notes[k + 1].onset /\ notes[k].offset < Off(k)
        /\ working[k].overlap \in BOOLEAN /\ (working[k].overlap = TRUE <=> Shifted(k) \/ Cut(k))
  BY <1>2, <1>4, PlacedForced DEF notes, n
<1> DEFINE moved == {k \in 1..n : Shifted(k)}
           cut == {k \in 1..n : Cut(k)}
<1>7. \A k \in 1..(n - 1) :
        HeardNote(events, notes, k).onset <= HeardNote(events, notes, k + 1).onset
  <2>1. \A k \in 1..(n - 1) : k \in 1..n /\ k < n
    BY <1>2
  <2> QED BY <1>6, <2>1
<1>8. {i \in 1..n : working[i].overlap} = moved \union cut
  <2>1. \A k \in 1..n : working[k].overlap <=> Shifted(k) \/ Cut(k)
    BY <1>6
  <2> HIDE DEF Shifted, Cut
  <2> QED BY <2>1
<1>9. /\ \A k \in moved : /\ k > 1 /\ notes[k].onset > On(k)
                          /\ notes[k].onset = notes[k - 1].offset /\ notes[k - 1].onset >= On(k)
      /\ \A k \in cut : /\ k < n /\ notes[k].offset = notes[k + 1].onset
                        /\ notes[k].offset < Off(k)
  <2> HIDE DEF Shifted, Cut, On, Off
  <2> QED BY <1>6
<1>10. result.report.overlap = Cardinality(moved \union cut)
  BY <1>5, <1>8
<1> QED BY <1>5, <1>7, <1>9, <1>10
        DEF MovedOnlyWhenForced, events, tempo, subdivisions, result, notes, HeardNote, SnapsTo,
            LastsTo, IsShifted, IsCut

(* Whatever was heard, a note of the score starts where it snaps to the grid unless     *)
(* the note before it is in its way, and ends where it snaps to unless the next one cuts *)
(* it; the notes stay in the order they were heard in, and the report counts exactly the *)
(* notes that were moved or cut.                                                         *)
THEOREM NotesMovedOnlyWhenForced == Spec => []MovedOnlyWhenForced
<1>1. ControlType /\ Computed => MovedOnlyWhenForced
  <2>1. stage # "midi" => MovedOnlyWhenForced
    BY DEF MovedOnlyWhenForced
  <2> QED BY <2>1, QuantizedForced
<1> QED BY <1>1, StagesCompute, PTL
=============================================================================
