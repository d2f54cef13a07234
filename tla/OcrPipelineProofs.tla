------------------------- MODULE OcrPipelineProofs -------------------------
(***************************************************************************)
(* Theorems about OcrPipeline, for any set of documents and processes, any *)
(* attempt, stall and crash bound and any set of fault classes.            *)
(***************************************************************************)
EXTENDS OcrPipeline, FiniteSetTheorems, TLAPS

-----------------------------------------------------------------------------
(***************************************************************************)
(* Type correctness.                                                       *)
(***************************************************************************)

\* A busy worker has a document.
BusyHasTarget == \A p \in Procs : stage[p] # "idle" => picked[p] \in Docs

\* A lock belongs to an active job, a job that may still run has attempts and
\* stalls left, and there is no job before queue.add.
QueueInv ==
  /\ \A d \in Docs : lock[d] # None => jobState[d] = "active"
  /\ \A d \in Docs :
       jobState[d] \in {"none", "waiting", "active", "delayed"}
         => attemptsMade[d] < MaxAttempts /\ stalledCount[d] <= MaxStalled
  /\ \A d \in Docs :
       req[d] \in {"idle", "validate", "store", "create", "enqueue"}
         => jobState[d] = "none"

TypeInv == TypeOK /\ BusyHasTarget /\ QueueInv

\* The document of a run under way is a document.
LEMMA TargetType ==
  ASSUME TypeInv, NEW r \in Runners, stage[r] # "idle"
  PROVE  Target(r) \in Docs
  BY DEF TypeInv, BusyHasTarget, Target, Runners

\* The initial state is well typed.
LEMMA InitTypeInv == Init => TypeInv
  BY PipelineAssumption
  DEF Init, TypeInv, TypeOK, BusyHasTarget, QueueInv, Runners, ReqStates, Statuses,
      JobStates, Stages

\* The steps of saveFile keep the types.
LEMMA SaveFileTypeInv ==
  ASSUME TypeInv, NEW d \in Docs, SaveFile(d)
  PROVE  TypeInv'
  <1> USE PipelineAssumption
      DEF TypeInv, TypeOK, BusyHasTarget, QueueInv, rowVars, jobVars, runVars, Runners,
          ReqStates, Statuses, JobStates, Stages
  <1>1. CASE ValidateFileForUpload(d)
    BY <1>1 DEF ValidateFileForUpload
  <1>2. CASE UploadToPreferredStorage(d)
    BY <1>2 DEF UploadToPreferredStorage
  <1>3. CASE SaveDocumentMetadata(d)
    BY <1>3 DEF SaveDocumentMetadata
  <1>4. CASE EnqueueOcrJob(d)
    BY <1>4 DEF EnqueueOcrJob, AddJob, RunInline
  <1>5. CASE InlineReturns(d)
    BY <1>5 DEF InlineReturns
  <1>6. CASE BuildUploadResult(d)
    BY <1>6 DEF BuildUploadResult
  <1>7. QED BY <1>1, <1>2, <1>3, <1>4, <1>5, <1>6 DEF SaveFile

\* The steps of an OCR run keep the types.
LEMMA OcrRunTypeInv ==
  ASSUME TypeInv, NEW r \in Runners, OcrRun(r)
  PROVE  TypeInv'
  <1> DEFINE t == Target(r)
  <1>t. t \in Docs
    <2>1. stage[r] # "idle"
      BY DEF OcrRun, MarkProcessing, ExtractText, SaveOcrResult, SaveOcrPages,
             GenerateDocumentInsights, MarkCompleted, MarkFailed
    <2>2. QED BY <2>1, TargetType
  <1> HIDE DEF t
  <1> USE <1>t, PipelineAssumption
      DEF TypeInv, TypeOK, BusyHasTarget, QueueInv, requestVars, jobVars, rowVars,
          Runners, ReqStates, Statuses, JobStates, Stages
  <1>1. CASE MarkProcessing(r)
    BY <1>1 DEF MarkProcessing, t
  <1>2. CASE ExtractText(r)
    <2>1. calls[Target(r)] + 1 \in Nat
      BY DEF t
    <2>2. calls' \in [Docs -> Nat] /\ reading' \in [Runners -> Nat]
      BY <1>2, <2>1 DEF ExtractText, t
    <2>3. QED BY <1>2, <2>2 DEF ExtractText
  <1>3. CASE SaveOcrResult(r)
    BY <1>3 DEF SaveOcrResult, t
  <1>4. CASE SaveOcrPages(r)
    BY <1>4 DEF SaveOcrPages, t
  <1>5. CASE GenerateDocumentInsights(r)
    BY <1>5 DEF GenerateDocumentInsights, t
  <1>6. CASE MarkCompleted(r)
    BY <1>6 DEF MarkCompleted, t
  <1>7. CASE MarkFailed(r)
    BY <1>7 DEF MarkFailed, t
  <1>8. QED BY <1>1, <1>2, <1>3, <1>4, <1>5, <1>6, <1>7 DEF OcrRun

\* The worker's own steps, and the completion of its job, keep the types.
LEMMA WorkerTypeInv ==
  ASSUME TypeInv, NEW p \in Procs, HandleExtractText(p)
  PROVE  TypeInv'
  <1> USE PipelineAssumption
      DEF TypeInv, TypeOK, BusyHasTarget, QueueInv, requestVars, rowVars, jobVars,
          Runners, ReqStates, Statuses, JobStates, Stages
  <1>1. CASE CheckCompleted(p)
    BY <1>1 DEF CheckCompleted
  <1>2. CASE JobCompleted(p)
    BY <1>2 DEF JobCompleted, ReleaseWorker
  <1>3. CASE JobFailed(p)
    BY <1>3 DEF JobFailed, ReleaseWorker, AfterFailedAttempt
  <1>4. QED BY <1>1, <1>2, <1>3 DEF HandleExtractText

\* Every step keeps the types.
LEMMA NextTypeInv == TypeInv /\ [Next]_vars => TypeInv'
  <1> SUFFICES ASSUME TypeInv, [Next]_vars PROVE TypeInv'
    OBVIOUS
  <1> USE PipelineAssumption
      DEF TypeInv, TypeOK, BusyHasTarget, QueueInv, requestVars, rowVars, jobVars,
          runVars, Runners, ReqStates, Statuses, JobStates, Stages
  <1>1. ASSUME NEW d \in Docs, NEW p \in Procs, PostUpload(d, p)
        PROVE  TypeInv'
    BY <1>1 DEF PostUpload
  <1>2. ASSUME NEW d \in Docs, NEW p \in Procs, DeliverJob(p, d)
        PROVE  TypeInv'
    BY <1>2 DEF DeliverJob
  <1>3. ASSUME NEW d \in Docs, LateSave(d) PROVE TypeInv'
    BY <1>3 DEF LateSave
  <1>4. ASSUME NEW d \in Docs, BackoffElapsed(d) PROVE TypeInv'
    BY <1>4 DEF BackoffElapsed
  <1>5. ASSUME NEW d \in Docs, JobStalled(d) PROVE TypeInv'
    BY <1>5 DEF JobStalled
  <1>6. ASSUME NEW p \in Procs, Crash(p) PROVE TypeInv'
    BY <1>6 DEF Crash
  <1>7. CASE UNCHANGED vars
    BY <1>7 DEF vars
  <1>8. QED
    BY <1>1, <1>2, <1>3, <1>4, <1>5, <1>6, <1>7, SaveFileTypeInv,
       OcrRunTypeInv, WorkerTypeInv
    DEF Next

\* The pipeline is well typed and a busy worker always has a document to work
\* on, for every configuration.
THEOREM TypeCorrect == Spec => []TypeOK
  <1>1. TypeInv => TypeOK
    BY DEF TypeInv
  <1>2. QED BY <1>1, InitTypeInv, NextTypeInv, PTL DEF Spec

-----------------------------------------------------------------------------
(***************************************************************************)
(* A completed document has its text and its pages.  Inductive only with   *)
(* what a run has already written when it is past saveOcrResult and past   *)
(* saveOcrPages: two runs may overwrite each other's rows, but neither can *)
(* take a row away.                                                        *)
(***************************************************************************)

\* A run about to write holds a text.
HoldsText ==
  \A r \in Runners :
    stage[r] \in {"saveResult", "savePages", "insights"} => reading[r] # 0

\* A run past saveOcrResult has left a result, past saveOcrPages also pages.
WroteResult ==
  \A r \in Runners :
    stage[r] \in {"savePages", "insights", "complete"} => result[Target(r)] # 0

WrotePages ==
  \A r \in Runners :
    stage[r] \in {"insights", "complete"} => pages[Target(r)] # 0

InsightHasArtifacts ==
  \A d \in Docs : insight[d] # 0 => result[d] # 0 /\ pages[d] # 0

ArtifactInv ==
  /\ HoldsText
  /\ WroteResult
  /\ WrotePages
  /\ InsightHasArtifacts
  /\ CompletedHasArtifacts

\* The steps of an OCR run keep the artifact invariant.
LEMMA OcrRunArtifactInv ==
  ASSUME TypeInv, ArtifactInv, NEW r \in Runners, OcrRun(r)
  PROVE  ArtifactInv'
  <1>t. Target(r) \in Docs
    <2>1. stage[r] # "idle"
      BY DEF OcrRun, MarkProcessing, ExtractText, SaveOcrResult, SaveOcrPages,
             GenerateDocumentInsights, MarkCompleted, MarkFailed
    <2>2. QED BY <2>1, TargetType
  <1>s. \A q \in Runners : stage[q] # "idle" => Target(q) \in Docs
    BY TargetType
  <1>p. picked' = picked /\ \A q \in Runners : Target(q)' = Target(q)
    BY DEF OcrRun, MarkProcessing, ExtractText, SaveOcrResult, SaveOcrPages,
           GenerateDocumentInsights, MarkCompleted, MarkFailed, Target
  <1> USE <1>t, <1>s, <1>p
      DEF TypeInv, TypeOK, ArtifactInv, HoldsText, WroteResult, WrotePages,
          InsightHasArtifacts, CompletedHasArtifacts, rowVars, Stages
  <1>1. CASE MarkProcessing(r)
    BY <1>1 DEF MarkProcessing
  <1>2. CASE ExtractText(r)
    <2>1. calls[Target(r)] + 1 # 0
      OBVIOUS
    <2>2. HoldsText'
      BY <1>2, <2>1 DEF ExtractText
    <2>3. QED BY <1>2, <2>2 DEF ExtractText
  <1>3. CASE SaveOcrResult(r)
    <2>1. PICK applied \in BOOLEAN, threw \in BOOLEAN :
            /\ DbOutcome(applied, threw)
            /\ result' = [result EXCEPT
                            ![Target(r)] = IF applied THEN reading[r] ELSE @]
            /\ stage' = [stage EXCEPT
                           ![r] = IF threw THEN "fail" ELSE "savePages"]
            /\ reading' = [reading EXCEPT ![r] = IF threw THEN 0 ELSE @]
      BY <1>3 DEF SaveOcrResult
    <2>2. \A d \in Docs : result[d] # 0 => result'[d] # 0
      BY <1>3, <2>1 DEF SaveOcrResult
    <2>3. stage'[r] = "savePages" => result'[Target(r)] # 0
      BY <1>3, <2>1 DEF SaveOcrResult, DbOutcome
    <2>4. UNCHANGED <<status, pages, insight>>
      BY <1>3 DEF SaveOcrResult
    <2>5. HoldsText' /\ WrotePages'
      BY <1>3, <2>1, <2>4 DEF SaveOcrResult
    <2>6. WroteResult'
      BY <2>1, <2>2, <2>3
    <2>7. QED BY <2>2, <2>4, <2>5, <2>6
  <1>4. CASE SaveOcrPages(r)
    <2>1. PICK applied \in BOOLEAN, threw \in BOOLEAN :
            /\ DbOutcome(applied, threw)
            /\ pages' = [pages EXCEPT
                           ![Target(r)] = IF applied THEN reading[r] ELSE @]
            /\ stage' = [stage EXCEPT
                           ![r] = IF threw THEN "fail" ELSE "insights"]
            /\ reading' = [reading EXCEPT ![r] = IF threw THEN 0 ELSE @]
      BY <1>4 DEF SaveOcrPages
    <2>2. \A d \in Docs : pages[d] # 0 => pages'[d] # 0
      BY <1>4, <2>1 DEF SaveOcrPages
    <2>3. stage'[r] = "insights" => pages'[Target(r)] # 0
      BY <1>4, <2>1 DEF SaveOcrPages, DbOutcome
    <2>4. UNCHANGED <<status, result, insight>>
      BY <1>4 DEF SaveOcrPages
    <2>5. HoldsText' /\ WroteResult'
      BY <1>4, <2>1, <2>4 DEF SaveOcrPages
    <2>6. WrotePages'
      BY <2>1, <2>2, <2>3
    <2>7. QED BY <2>2, <2>4, <2>5, <2>6
  <1>5. CASE GenerateDocumentInsights(r)
    BY <1>5 DEF GenerateDocumentInsights
  <1>6. CASE MarkCompleted(r)
    BY <1>6 DEF MarkCompleted
  <1>7. CASE MarkFailed(r)
    BY <1>7 DEF MarkFailed
  <1>8. QED BY <1>1, <1>2, <1>3, <1>4, <1>5, <1>6, <1>7 DEF OcrRun

\* Every step keeps the artifact invariant.
LEMMA NextArtifactInv == TypeInv /\ ArtifactInv /\ [Next]_vars => ArtifactInv'
  <1> SUFFICES ASSUME TypeInv, ArtifactInv, [Next]_vars PROVE ArtifactInv'
    OBVIOUS
  <1> USE PipelineAssumption
      DEF TypeInv, TypeOK, ArtifactInv, HoldsText, WroteResult, WrotePages,
          InsightHasArtifacts, CompletedHasArtifacts, Target, requestVars,
          rowVars, jobVars, runVars, Runners, Stages
  <1>1. ASSUME NEW d \in Docs, NEW p \in Procs, PostUpload(d, p)
        PROVE  ArtifactInv'
    BY <1>1 DEF PostUpload
  <1>2. ASSUME NEW d \in Docs, NEW p \in Procs, DeliverJob(p, d)
        PROVE  ArtifactInv'
    BY <1>2 DEF DeliverJob
  <1>3. ASSUME NEW d \in Docs, LateSave(d) PROVE ArtifactInv'
    BY <1>3 DEF LateSave
  <1>4. ASSUME NEW d \in Docs, BackoffElapsed(d) PROVE ArtifactInv'
    BY <1>4 DEF BackoffElapsed
  <1>5. ASSUME NEW d \in Docs, JobStalled(d) PROVE ArtifactInv'
    BY <1>5 DEF JobStalled
  <1>6. ASSUME NEW p \in Procs, Crash(p) PROVE ArtifactInv'
    BY <1>6 DEF Crash
  <1>7. ASSUME NEW d \in Docs, SaveFile(d) PROVE ArtifactInv'
    <2>1. CASE ValidateFileForUpload(d)
      BY <2>1 DEF ValidateFileForUpload
    <2>2. CASE UploadToPreferredStorage(d)
      BY <2>2 DEF UploadToPreferredStorage
    <2>3. CASE SaveDocumentMetadata(d)
      BY <2>3 DEF SaveDocumentMetadata
    <2>4. CASE EnqueueOcrJob(d)
      BY <2>4 DEF EnqueueOcrJob, RunInline
    <2>5. CASE InlineReturns(d)
      BY <2>5 DEF InlineReturns
    <2>6. CASE BuildUploadResult(d)
      BY <2>6 DEF BuildUploadResult
    <2>7. QED BY <1>7, <2>1, <2>2, <2>3, <2>4, <2>5, <2>6 DEF SaveFile
  <1>8. ASSUME NEW p \in Procs, HandleExtractText(p) PROVE ArtifactInv'
    <2>1. CASE CheckCompleted(p)
      BY <2>1 DEF CheckCompleted
    <2>2. CASE JobCompleted(p)
      BY <2>2 DEF JobCompleted, ReleaseWorker
    <2>3. CASE JobFailed(p)
      BY <2>3 DEF JobFailed, ReleaseWorker
    <2>4. QED BY <1>8, <2>1, <2>2, <2>3 DEF HandleExtractText
  <1>9. CASE UNCHANGED vars
    BY <1>9 DEF vars
  <1>10. QED
    BY <1>1, <1>2, <1>3, <1>4, <1>5, <1>6, <1>7, <1>8, <1>9, OcrRunArtifactInv
    DEF Next

\* Under every fault the model has (crashes, lost answers, duplicate runs,
\* failing statements) a document marked 'completed' has text and pages.
THEOREM CompletedIsPersisted == Spec => []CompletedHasArtifacts
  <1>1. Init => ArtifactInv
    BY DEF Init, ArtifactInv, HoldsText, WroteResult, WrotePages,
           InsightHasArtifacts, CompletedHasArtifacts
  <1>2. ArtifactInv => CompletedHasArtifacts
    BY DEF ArtifactInv
  <1>3. QED
    BY <1>1, <1>2, InitTypeInv, NextTypeInv, NextArtifactInv, PTL DEF Spec

-----------------------------------------------------------------------------
(***************************************************************************)
(* References between requests, rows, jobs and runs.                       *)
(***************************************************************************)

\* How far a request has got tells which rows exist.
RequestOrder ==
  \A d \in Docs :
    /\ req[d] \in {"idle", "validate", "store", "create"} => status[d] = "none"
    /\ req[d] = "create" => blob[d] = "stored"
    /\ req[d] \in {"enqueue", "inline", "respond", "accepted"}
         => status[d] # "none"

RowHasBlob == \A d \in Docs : status[d] # "none" => blob[d] = "stored"

JobHasRow == \A d \in Docs : jobState[d] # "none" => status[d] # "none"

\* An inline run belongs to a request that waits for it, a worker's run to a
\* job.
RunHasOrigin ==
  /\ \A d \in Docs : stage[d] # "idle" => req[d] = "inline"
  /\ \A p \in Procs : stage[p] # "idle" => jobState[picked[p]] # "none"

ReferenceInv == RequestOrder /\ RowHasBlob /\ JobHasRow /\ RunHasOrigin

\* The document of a run has a row.
LEMMA RunHasRow ==
  ASSUME TypeInv, ReferenceInv, NEW r \in Runners, stage[r] # "idle"
  PROVE  status[Target(r)] # "none"
  BY DEF TypeInv, BusyHasTarget, ReferenceInv, RequestOrder, JobHasRow,
         RunHasOrigin, Target, Runners

\* A step of an OCR run changes no request, blob, job or target, moves only
\* its own runner, and writes only the row of its document.
LEMMA OcrRunFrame ==
  ASSUME TypeInv, NEW r \in Runners, OcrRun(r)
  PROVE  /\ UNCHANGED <<req, blob, jobState, lock, picked>>
         /\ stage[r] # "idle" /\ stage'[r] # "idle"
         /\ Target(r) \in Docs
         /\ \A q \in Runners : Target(q)' = Target(q)
         /\ \A q \in Runners \ {r} : stage'[q] = stage[q]
         /\ \A d \in Docs \ {Target(r)} : status'[d] = status[d]
         /\ status'[Target(r)] \in Statuses \ {"none"}
              \/ status'[Target(r)] = status[Target(r)]
  <1>1. stage[r] # "idle"
    BY DEF OcrRun, MarkProcessing, ExtractText, SaveOcrResult, SaveOcrPages,
           GenerateDocumentInsights, MarkCompleted, MarkFailed
  <1>2. Target(r) \in Docs
    BY <1>1, TargetType
  <1>3. UNCHANGED <<req, blob, jobState, lock, picked>>
    BY DEF OcrRun, MarkProcessing, ExtractText, SaveOcrResult, SaveOcrPages,
           GenerateDocumentInsights, MarkCompleted, MarkFailed, requestVars,
           jobVars
  <1>4. \A q \in Runners : Target(q)' = Target(q)
    BY <1>3 DEF Target
  <1>5. stage'[r] # "idle" /\ \A q \in Runners \ {r} : stage'[q] = stage[q]
    BY DEF TypeInv, TypeOK, OcrRun, MarkProcessing, ExtractText, SaveOcrResult,
           SaveOcrPages, GenerateDocumentInsights, MarkCompleted, MarkFailed
  <1>6. /\ \A d \in Docs \ {Target(r)} : status'[d] = status[d]
        /\ status'[Target(r)] \in Statuses \ {"none"}
             \/ status'[Target(r)] = status[Target(r)]
    BY <1>2 DEF TypeInv, TypeOK, OcrRun, MarkProcessing, ExtractText,
                SaveOcrResult, SaveOcrPages, GenerateDocumentInsights,
                MarkCompleted, MarkFailed, rowVars, Statuses
  <1>7. QED BY <1>1, <1>2, <1>3, <1>4, <1>5, <1>6

\* Every step keeps the references.
LEMMA NextReferenceInv ==
  TypeInv /\ ReferenceInv /\ [Next]_vars => ReferenceInv'
  <1> SUFFICES ASSUME TypeInv, ReferenceInv, [Next]_vars PROVE ReferenceInv'
    OBVIOUS
  <1>0. ASSUME NEW r \in Runners, OcrRun(r) PROVE ReferenceInv'
    <2>1. status[Target(r)] # "none"
      BY <1>0, RunHasRow, OcrRunFrame
    <2>2. \A d \in Docs : status'[d] = "none" <=> status[d] = "none"
      BY <1>0, <2>1, OcrRunFrame
    <2>3. RunHasOrigin'
      BY <1>0, OcrRunFrame DEF ReferenceInv, RunHasOrigin, Runners
    <2>4. RequestOrder' /\ RowHasBlob' /\ JobHasRow'
      BY <1>0, <2>2, OcrRunFrame
      DEF ReferenceInv, RequestOrder, RowHasBlob, JobHasRow
    <2>5. QED BY <2>3, <2>4 DEF ReferenceInv
  <1> USE PipelineAssumption
      DEF TypeInv, TypeOK, BusyHasTarget, ReferenceInv, RequestOrder,
          RowHasBlob, JobHasRow, RunHasOrigin, requestVars, rowVars, jobVars,
          runVars, Runners
  <1>1. ASSUME NEW d \in Docs, NEW p \in Procs, PostUpload(d, p)
        PROVE  ReferenceInv'
    BY <1>1 DEF PostUpload
  <1>2. ASSUME NEW d \in Docs, NEW p \in Procs, DeliverJob(p, d)
        PROVE  ReferenceInv'
    BY <1>2 DEF DeliverJob
  <1>3. ASSUME NEW d \in Docs, LateSave(d) PROVE ReferenceInv'
    BY <1>3 DEF LateSave
  <1>4. ASSUME NEW d \in Docs, BackoffElapsed(d) PROVE ReferenceInv'
    BY <1>4 DEF BackoffElapsed
  <1>5. ASSUME NEW d \in Docs, JobStalled(d) PROVE ReferenceInv'
    BY <1>5 DEF JobStalled
  <1>6. ASSUME NEW p \in Procs, Crash(p) PROVE ReferenceInv'
    BY <1>6 DEF Crash, InFlight
  <1>7. ASSUME NEW d \in Docs, SaveFile(d) PROVE ReferenceInv'
    <2>1. CASE ValidateFileForUpload(d)
      BY <2>1 DEF ValidateFileForUpload
    <2>2. CASE UploadToPreferredStorage(d)
      BY <2>2 DEF UploadToPreferredStorage
    <2>3. CASE SaveDocumentMetadata(d)
      BY <2>3 DEF SaveDocumentMetadata, DbOutcome
    <2>4. CASE EnqueueOcrJob(d)
      BY <2>4 DEF EnqueueOcrJob, RunInline, AddJob
    <2>5. CASE InlineReturns(d)
      BY <2>5 DEF InlineReturns
    <2>6. CASE BuildUploadResult(d)
      BY <2>6 DEF BuildUploadResult
    <2>7. QED BY <1>7, <2>1, <2>2, <2>3, <2>4, <2>5, <2>6 DEF SaveFile
  <1>8. ASSUME NEW p \in Procs, HandleExtractText(p) PROVE ReferenceInv'
    <2>1. CASE CheckCompleted(p)
      BY <2>1 DEF CheckCompleted
    <2>2. CASE JobCompleted(p)
      BY <2>2 DEF JobCompleted, ReleaseWorker
    <2>3. CASE JobFailed(p)
      BY <2>3 DEF JobFailed, ReleaseWorker, AfterFailedAttempt
    <2>4. QED BY <1>8, <2>1, <2>2, <2>3 DEF HandleExtractText
  <1>9. CASE UNCHANGED vars
    BY <1>9 DEF vars
  <1>10. QED
    BY <1>0, <1>1, <1>2, <1>3, <1>4, <1>5, <1>6, <1>7, <1>8, <1>9 DEF Next

\* Types, artifacts and references together are inductive.
BaseInv == TypeInv /\ ArtifactInv /\ ReferenceInv

\* The base invariant holds for every configuration and every fault.
LEMMA BaseInvariant == Spec => []BaseInv
  <1>1. Init => ArtifactInv
    BY DEF Init, ArtifactInv, HoldsText, WroteResult, WrotePages,
           InsightHasArtifacts, CompletedHasArtifacts
  <1>2. Init => ReferenceInv
    BY DEF Init, ReferenceInv, RequestOrder, RowHasBlob, JobHasRow,
           RunHasOrigin, Runners
  <1>3. QED
    BY <1>1, <1>2, InitTypeInv, NextTypeInv, NextArtifactInv, NextReferenceInv,
       PTL DEF Spec, BaseInv

\* No job, run or row refers to something that was not written before it, under
\* every fault: updateOcrStatus never misses its row, a worker never misses the
\* file.
THEOREM ReferencesHold == Spec => []NoDanglingReference
  <1>1. BaseInv => NoDanglingReference
    <2> SUFFICES ASSUME BaseInv PROVE NoDanglingReference
      OBVIOUS
    <2>1. \A d \in Docs : (\E r \in Runners : Running(r, d)) => status[d] # "none"
      BY RunHasRow DEF BaseInv, Running
    <2>2. QED
      BY <2>1 DEF BaseInv, NoDanglingReference, ArtifactInv,
                  InsightHasArtifacts, ReferenceInv, RowHasBlob, JobHasRow
  <1>2. QED BY <1>1, BaseInvariant, PTL

-----------------------------------------------------------------------------
(***************************************************************************)
(* One run at a time, when Bull takes no lock from a live worker and       *)
(* queue.add either stores the job or throws.                              *)
(***************************************************************************)

ReliableQueue == {"added", "stall"} \cap Faults = {}

\* A worker's run holds the lock of its active job.
RunHoldsLock ==
  \A p \in Procs :
    stage[p] # "idle" => jobState[picked[p]] = "active" /\ lock[picked[p]] = p

\* A request that has not passed queue.add, or went inline, has no job.
NoJobYet ==
  \A d \in Docs :
    req[d] \in {"idle", "validate", "store", "create", "enqueue", "inline"}
      => jobState[d] = "none"

ExclusiveInv == RunHoldsLock /\ NoJobYet

\* Every step keeps the lock discipline.
LEMMA NextExclusiveInv ==
  ASSUME ReliableQueue, BaseInv, ExclusiveInv, [Next]_vars
  PROVE  ExclusiveInv'
  <1>b. TypeInv /\ ReferenceInv
    BY DEF BaseInv
  <1>0. ASSUME NEW r \in Runners, OcrRun(r) PROVE ExclusiveInv'
    BY <1>0, <1>b, OcrRunFrame
    DEF ExclusiveInv, RunHoldsLock, NoJobYet, Runners, TypeInv, TypeOK
  <1> USE PipelineAssumption, <1>b
      DEF ReliableQueue, TypeInv, TypeOK, BusyHasTarget, ReferenceInv,
          RequestOrder, JobHasRow, ExclusiveInv, RunHoldsLock, NoJobYet,
          requestVars, rowVars, jobVars, runVars, Runners
  <1>1. ASSUME NEW d \in Docs, NEW p \in Procs, PostUpload(d, p)
        PROVE  ExclusiveInv'
    BY <1>1 DEF PostUpload
  <1>2. ASSUME NEW d \in Docs, NEW p \in Procs, DeliverJob(p, d)
        PROVE  ExclusiveInv'
    BY <1>2 DEF DeliverJob
  <1>3. ASSUME NEW d \in Docs, LateSave(d) PROVE ExclusiveInv'
    BY <1>3 DEF LateSave
  <1>4. ASSUME NEW d \in Docs, BackoffElapsed(d) PROVE ExclusiveInv'
    BY <1>4 DEF BackoffElapsed
  <1>5. ASSUME NEW d \in Docs, JobStalled(d) PROVE ExclusiveInv'
    BY <1>5 DEF JobStalled, Orphaned
  <1>6. ASSUME NEW p \in Procs, Crash(p) PROVE ExclusiveInv'
    BY <1>6 DEF Crash, InFlight
  <1>7. ASSUME NEW d \in Docs, SaveFile(d) PROVE ExclusiveInv'
    <2>1. CASE ValidateFileForUpload(d)
      BY <2>1 DEF ValidateFileForUpload
    <2>2. CASE UploadToPreferredStorage(d)
      BY <2>2 DEF UploadToPreferredStorage
    <2>3. CASE SaveDocumentMetadata(d)
      BY <2>3 DEF SaveDocumentMetadata
    <2>4. CASE EnqueueOcrJob(d)
      BY <2>4 DEF EnqueueOcrJob, RunInline, AddJob
    <2>5. CASE InlineReturns(d)
      BY <2>5 DEF InlineReturns
    <2>6. CASE BuildUploadResult(d)
      BY <2>6 DEF BuildUploadResult
    <2>7. QED BY <1>7, <2>1, <2>2, <2>3, <2>4, <2>5, <2>6 DEF SaveFile
  <1>8. ASSUME NEW p \in Procs, HandleExtractText(p) PROVE ExclusiveInv'
    <2>1. CASE CheckCompleted(p)
      BY <2>1 DEF CheckCompleted
    <2>2. CASE JobCompleted(p)
      BY <2>2 DEF JobCompleted, ReleaseWorker
    <2>3. CASE JobFailed(p)
      BY <2>3 DEF JobFailed, ReleaseWorker, AfterFailedAttempt
    <2>4. QED BY <1>8, <2>1, <2>2, <2>3 DEF HandleExtractText
  <1>9. CASE UNCHANGED vars
    BY <1>9 DEF vars
  <1>10. QED
    BY <1>0, <1>1, <1>2, <1>3, <1>4, <1>5, <1>6, <1>7, <1>8, <1>9 DEF Next

\* The lock discipline makes runs exclusive.
LEMMA LockedIsExclusive ==
  ASSUME BaseInv, ExclusiveInv
  PROVE  ExclusiveRun
  BY PipelineAssumption
  DEF BaseInv, TypeInv, TypeOK, BusyHasTarget, ReferenceInv, RunHasOrigin,
      ExclusiveInv, RunHoldsLock, NoJobYet, ExclusiveRun, Target, Runners

\* With a queue whose locks and answers are reliable, no two OCR runs ever work
\* on the same document, crashes and failing database statements included.
THEOREM RunsAreExclusive ==
  ASSUME ReliableQueue
  PROVE  Spec => []ExclusiveRun
  <1>1. Init => ExclusiveInv
    BY DEF Init, ExclusiveInv, RunHoldsLock, NoJobYet, Runners
  <1>2. BaseInv /\ ExclusiveInv /\ [Next]_vars => ExclusiveInv'
    BY NextExclusiveInv
  <1>3. BaseInv /\ ExclusiveInv => ExclusiveRun
    BY LockedIsExclusive
  <1>4. QED BY <1>1, <1>2, <1>3, BaseInvariant, PTL DEF Spec

-----------------------------------------------------------------------------
(***************************************************************************)
(* The pipeline implements the document lifecycle when the only failures   *)
(* are crashes, Vision errors and a queue.add that stores nothing.         *)
(***************************************************************************)

OnlyAddFails == Faults \subseteq {"add"}

\* A run past the idempotency check works on a document that is not completed.
WritersBeforeCompletion ==
  \A r \in Runners :
    stage[r] \notin {"idle", "check", "ack"} => status[Target(r)] # "completed"

\* Between its writes a run finds what it wrote.
OneReading ==
  \A r \in Runners :
    /\ stage[r] = "savePages" => result[Target(r)] = reading[r]
    /\ stage[r] \in {"insights", "complete"}
         => result[Target(r)] = pages[Target(r)]

PendingBeforeEnqueue ==
  \A d \in Docs : req[d] = "enqueue" => status[d] = "pending"

CompletedIsCoherent ==
  \A d \in Docs : status[d] = "completed" => result[d] = pages[d]

CoherentInv ==
  /\ WritersBeforeCompletion
  /\ OneReading
  /\ PendingBeforeEnqueue
  /\ CompletedIsCoherent

AllInv == BaseInv /\ ExclusiveInv /\ CoherentInv

\* The steps of an OCR run keep the coherence of text and pages: no other run
\* on the document can interfere.
LEMMA OcrRunCoherentInv ==
  ASSUME OnlyAddFails, AllInv, NEW r \in Runners, OcrRun(r)
  PROVE  CoherentInv'
  <1>b. TypeInv /\ ExclusiveRun /\ ReferenceInv
    BY LockedIsExclusive DEF AllInv, BaseInv
  <1>f. /\ UNCHANGED <<req, picked>>
        /\ stage[r] # "idle" /\ stage'[r] # "idle"
        /\ Target(r) \in Docs
        /\ \A q \in Runners : Target(q)' = Target(q)
        /\ \A q \in Runners \ {r} : stage'[q] = stage[q]
        /\ \A d \in Docs \ {Target(r)} : status'[d] = status[d]
    BY <1>b, OcrRunFrame
  <1>x. \A q \in Runners \ {r} : stage[q] # "idle" => Target(q) # Target(r)
    BY <1>b, <1>f DEF ExclusiveRun
  <1>t. \A q \in Runners : stage[q] # "idle" => Target(q) \in Docs
    BY <1>b, TargetType
  <1>e. req[Target(r)] # "enqueue"
    BY <1>b, <1>f, PipelineAssumption
    DEF AllInv, ExclusiveInv, RunHoldsLock, NoJobYet, ReferenceInv,
        RunHasOrigin, Target, Runners
  <1>p. PendingBeforeEnqueue'
    BY <1>e, <1>f DEF AllInv, CoherentInv, PendingBeforeEnqueue
  <1> USE <1>f, <1>x, <1>t, <1>p, <1>b
      DEF TypeInv, TypeOK, AllInv, CoherentInv, WritersBeforeCompletion,
          OneReading, CompletedIsCoherent, OnlyAddFails, DbOutcome, rowVars
  <1>1. CASE MarkProcessing(r)
    BY <1>1 DEF MarkProcessing
  <1>2. CASE ExtractText(r)
    BY <1>2 DEF ExtractText
  <1>3. CASE SaveOcrResult(r)
    BY <1>3 DEF SaveOcrResult
  <1>4. CASE SaveOcrPages(r)
    BY <1>4 DEF SaveOcrPages
  <1>5. CASE GenerateDocumentInsights(r)
    BY <1>5 DEF GenerateDocumentInsights
  <1>6. CASE MarkCompleted(r)
    BY <1>6 DEF MarkCompleted
  <1>7. CASE MarkFailed(r)
    BY <1>7 DEF MarkFailed
  <1>8. QED BY <1>1, <1>2, <1>3, <1>4, <1>5, <1>6, <1>7 DEF OcrRun

\* Every step keeps the coherence invariant.
LEMMA NextCoherentInv ==
  ASSUME OnlyAddFails, AllInv, [Next]_vars
  PROVE  CoherentInv'
  <1>b. TypeInv /\ ReferenceInv
    BY DEF AllInv, BaseInv
  <1> USE PipelineAssumption, <1>b
      DEF OnlyAddFails, TypeInv, TypeOK, BusyHasTarget, AllInv, ExclusiveInv,
          RunHoldsLock, NoJobYet, CoherentInv, WritersBeforeCompletion,
          OneReading, PendingBeforeEnqueue, CompletedIsCoherent, Target,
          requestVars, rowVars, jobVars, runVars, Runners
  <1>1. ASSUME NEW d \in Docs, NEW p \in Procs, PostUpload(d, p)
        PROVE  CoherentInv'
    BY <1>1 DEF PostUpload
  <1>2. ASSUME NEW d \in Docs, NEW p \in Procs, DeliverJob(p, d)
        PROVE  CoherentInv'
    BY <1>2 DEF DeliverJob
  <1>3. ASSUME NEW d \in Docs, LateSave(d) PROVE CoherentInv'
    BY <1>3 DEF LateSave
  <1>4. ASSUME NEW d \in Docs, BackoffElapsed(d) PROVE CoherentInv'
    BY <1>4 DEF BackoffElapsed
  <1>5. ASSUME NEW d \in Docs, JobStalled(d) PROVE CoherentInv'
    BY <1>5 DEF JobStalled
  <1>6. ASSUME NEW p \in Procs, Crash(p) PROVE CoherentInv'
    BY <1>6 DEF Crash
  <1>7. ASSUME NEW d \in Docs, SaveFile(d) PROVE CoherentInv'
    <2>1. CASE ValidateFileForUpload(d)
      BY <2>1 DEF ValidateFileForUpload
    <2>2. CASE UploadToPreferredStorage(d)
      BY <2>2 DEF UploadToPreferredStorage
    <2>3. CASE SaveDocumentMetadata(d)
      BY <2>3 DEF SaveDocumentMetadata, DbOutcome
    <2>4. CASE EnqueueOcrJob(d)
      BY <2>4 DEF EnqueueOcrJob, RunInline, AddJob
    <2>5. CASE InlineReturns(d)
      BY <2>5 DEF InlineReturns
    <2>6. CASE BuildUploadResult(d)
      BY <2>6 DEF BuildUploadResult
    <2>7. QED BY <1>7, <2>1, <2>2, <2>3, <2>4, <2>5, <2>6 DEF SaveFile
  <1>8. ASSUME NEW p \in Procs, HandleExtractText(p) PROVE CoherentInv'
    <2>1. CASE CheckCompleted(p)
      BY <2>1 DEF CheckCompleted, DbOutcome, AlreadyCompleted
    <2>2. CASE JobCompleted(p)
      BY <2>2 DEF JobCompleted, ReleaseWorker
    <2>3. CASE JobFailed(p)
      BY <2>3 DEF JobFailed, ReleaseWorker
    <2>4. QED BY <1>8, <2>1, <2>2, <2>3 DEF HandleExtractText
  <1>9. CASE UNCHANGED vars
    BY <1>9 DEF vars
  <1>10. QED
    BY <1>1, <1>2, <1>3, <1>4, <1>5, <1>6, <1>7, <1>8, <1>9, OcrRunCoherentInv
    DEF Next

\* A step that leaves status, text and pages of every document alone is a
\* stutter of the lifecycle.
LEMMA UnchangedRowsStutter ==
  ASSUME UNCHANGED <<status, result, pages>>
  PROVE  UNCHANGED <<phase, text>>
  BY DEF phase, text

\* An OCR run's step is a lifecycle step: MarkCompleted publishes, the others
\* leave an open document open.
LEMMA OcrRunRefines ==
  ASSUME OnlyAddFails, AllInv, NEW r \in Runners, OcrRun(r)
  PROVE  [Lifecycle!Next]_<<phase, text>>
  <1> DEFINE t == Target(r)
  <1>b. TypeInv /\ ReferenceInv
    BY DEF AllInv, BaseInv
  <1>t. t \in Docs /\ stage[r] # "idle"
    BY <1>b, OcrRunFrame
  <1>n. status[t] # "none"
    BY <1>b, <1>t, RunHasRow
  <1>s. status \in [Docs -> Statuses] /\ result \in [Docs -> Nat]
          /\ pages \in [Docs -> Nat]
    BY <1>b DEF TypeInv, TypeOK
  <1>o. stage[r] \notin {"idle", "check", "ack"} => status[t] # "completed"
    BY DEF AllInv, CoherentInv, WritersBeforeCompletion
  <1>1. ASSUME NEW v \in {"processing", "failed"},
               status[t] # "completed",
               status' = [status EXCEPT ![t] = v],
               UNCHANGED <<result, pages>>
        PROVE  UNCHANGED <<phase, text>>
    <2>1. \A d \in Docs : (status'[d] = "none" <=> status[d] = "none")
                         /\ (status'[d] = "completed" <=> status[d] = "completed")
      BY <1>1, <1>t, <1>n, <1>s
    <2>2. QED BY <1>1, <2>1 DEF phase, text
  <1>2. CASE MarkProcessing(r)
    <2>1. status' = [status EXCEPT ![t] = "processing"]
      BY <1>2 DEF MarkProcessing, DbOutcome, OnlyAddFails
    <2>2. QED BY <1>1, <1>2, <1>o, <2>1 DEF MarkProcessing
  <1>3. CASE MarkFailed(r)
    <2>1. status' = [status EXCEPT ![t] = "failed"]
      BY <1>3 DEF MarkFailed, DbOutcome, OnlyAddFails
    <2>2. QED BY <1>1, <1>3, <1>o, <2>1 DEF MarkFailed
  <1>4. CASE ExtractText(r) \/ GenerateDocumentInsights(r)
    BY <1>4, UnchangedRowsStutter
    DEF ExtractText, GenerateDocumentInsights, rowVars
  <1>5. CASE SaveOcrResult(r) \/ SaveOcrPages(r)
    <2>1. /\ status[t] # "completed"
          /\ UNCHANGED status
          /\ \A d \in Docs \ {t} : result'[d] = result[d] /\ pages'[d] = pages[d]
      BY <1>5, <1>o, <1>s DEF SaveOcrResult, SaveOcrPages
    <2>2. QED BY <2>1 DEF phase, text
  <1>6. CASE MarkCompleted(r)
    <2>1. /\ status' = [status EXCEPT ![t] = "completed"]
          /\ UNCHANGED <<result, pages>>
          /\ status[t] # "completed"
      BY <1>6, <1>o DEF MarkCompleted, DbOutcome, OnlyAddFails
    <2>2. result[t] = pages[t] /\ result[t] # 0
      BY <1>6 DEF MarkCompleted, AllInv, BaseInv, ArtifactInv, WroteResult,
                  CoherentInv, OneReading
    <2>3. phase[t] = "open" /\ phase' = [phase EXCEPT ![t] = "published"]
      BY <2>1, <1>t, <1>n, <1>s DEF phase
    <2>4. text'[t] \in Nat \ {0} /\ text' = [text EXCEPT ![t] = text'[t]]
      BY <2>1, <2>2, <1>t, <1>s DEF text
    <2>5. Lifecycle!Publish(t)
      BY <2>3, <2>4 DEF Lifecycle!Publish
    <2>6. QED BY <2>5, <1>t DEF Lifecycle!Next
  <1>7. QED BY <1>2, <1>3, <1>4, <1>5, <1>6 DEF OcrRun

\* Creating the row opens the document.
LEMMA CreateRefines ==
  ASSUME OnlyAddFails, AllInv, NEW d \in Docs, SaveDocumentMetadata(d)
  PROVE  Lifecycle!Next
  <1>1. status[d] = "none" /\ status \in [Docs -> Statuses]
    BY DEF AllInv, BaseInv, TypeInv, TypeOK, ReferenceInv, RequestOrder,
           SaveDocumentMetadata
  <1>2. status' = [status EXCEPT ![d] = "pending"] /\ UNCHANGED <<result, pages>>
    BY DEF SaveDocumentMetadata, DbOutcome, OnlyAddFails
  <1>3. phase[d] = "absent" /\ phase' = [phase EXCEPT ![d] = "open"]
    BY <1>1, <1>2 DEF phase
  <1>4. UNCHANGED text
    BY <1>1, <1>2 DEF text
  <1>5. QED BY <1>3, <1>4 DEF Lifecycle!Next, Lifecycle!Create

\* Every step of the pipeline is a step or a stutter of the lifecycle.
LEMMA NextRefines ==
  ASSUME OnlyAddFails, AllInv, [Next]_vars
  PROVE  [Lifecycle!Next]_<<phase, text>>
  <1>1. ASSUME NEW d \in Docs, SaveFile(d), ~SaveDocumentMetadata(d)
        PROVE  UNCHANGED <<status, result, pages>>
    BY <1>1 DEF SaveFile, ValidateFileForUpload, UploadToPreferredStorage,
                EnqueueOcrJob, InlineReturns, BuildUploadResult, rowVars
  <1>2. ASSUME NEW d \in Docs, LateSave(d) \/ BackoffElapsed(d) \/ JobStalled(d)
        PROVE  UNCHANGED <<status, result, pages>>
    BY <1>2 DEF LateSave, BackoffElapsed, JobStalled, rowVars
  <1>3. ASSUME NEW d \in Docs, NEW p \in Procs,
               PostUpload(d, p) \/ DeliverJob(p, d)
        PROVE  UNCHANGED <<status, result, pages>>
    BY <1>3 DEF PostUpload, DeliverJob, rowVars
  <1>4. ASSUME NEW p \in Procs, HandleExtractText(p) \/ Crash(p)
        PROVE  UNCHANGED <<status, result, pages>>
    BY <1>4 DEF HandleExtractText, CheckCompleted, JobCompleted, JobFailed,
                Crash, rowVars
  <1>5. CASE UNCHANGED vars
    BY <1>5, UnchangedRowsStutter DEF vars, rowVars
  <1>6. CASE Next
    BY <1>1, <1>2, <1>3, <1>4, <1>6, UnchangedRowsStutter, OcrRunRefines,
       CreateRefines
    DEF Next
  <1>7. QED BY <1>5, <1>6

\* The whole chain of invariants, under the assumption of the refinement.
LEMMA AllInvariant ==
  ASSUME OnlyAddFails
  PROVE  Spec => []AllInv
  <1>1. Init => ExclusiveInv /\ CoherentInv
    BY DEF Init, ExclusiveInv, RunHoldsLock, NoJobYet, CoherentInv,
           WritersBeforeCompletion, OneReading, PendingBeforeEnqueue,
           CompletedIsCoherent, Runners
  <1>2. ReliableQueue
    BY DEF OnlyAddFails, ReliableQueue
  <1>3. BaseInv /\ ExclusiveInv /\ [Next]_vars => ExclusiveInv'
    BY <1>2, NextExclusiveInv
  <1>4. BaseInv /\ ExclusiveInv /\ CoherentInv /\ [Next]_vars => CoherentInv'
    BY NextCoherentInv DEF AllInv
  <1>5. QED BY <1>1, <1>3, <1>4, BaseInvariant, PTL DEF Spec, AllInv

\* With crashes, Vision errors and an unreachable queue, for any number of
\* documents, processes, attempts and crashes: text and pages of one Vision call
\* are published together, at most once, and stay.
THEOREM PipelineRefinesLifecycle ==
  ASSUME OnlyAddFails
  PROVE  Spec => ImplementsLifecycle
  <1>1. Init => Lifecycle!Init
    BY DEF Init, Lifecycle!Init, phase, text
  <1>2. AllInv /\ [Next]_vars => [Lifecycle!Next]_<<phase, text>>
    BY NextRefines
  <1>3. QED
    BY <1>1, <1>2, AllInvariant, PTL
    DEF Spec, ImplementsLifecycle, Lifecycle!Spec

-----------------------------------------------------------------------------
(***************************************************************************)
(* The budget of Vision calls, under every fault.  Every delivery of a job *)
(* ends as one attempt, one stall or the removal of the job, and makes at  *)
(* most one call, if only after its lock was taken.                        *)
(***************************************************************************)

\* Runs for d whose Vision call is still to come.
ToCall(d) ==
  {r \in Runners : stage[r] \in {"check", "mark", "extract"} /\ Target(r) = d}

\* How often the job of d has been given to a worker.
Deliveries(d) ==
  attemptsMade[d] + stalledCount[d]
    + (IF jobState[d] \in {"active", "removed"} THEN 1 ELSE 0)

\* The inline run: possible without a job, and besides one only when the answer of
\* queue.add was lost.
InlineRuns(d) == IF "added" \in Faults \/ jobState[d] = "none" THEN 1 ELSE 0

\* Nothing has been called before queue.add.
NotAdded == {"idle", "validate", "store", "create", "enqueue"}

NoCallYet ==
  \A d \in Docs : req[d] \in NotAdded => calls[d] = 0 /\ ToCall(d) = {}

CallsCounted ==
  \A d \in Docs :
    /\ IsFiniteSet(ToCall(d))
    /\ calls[d] + Cardinality(ToCall(d)) <= Deliveries(d) + InlineRuns(d)

\* Where a job that will not run again has spent its budget.
BudgetSpent ==
  \A d \in Docs :
    /\ jobState[d] = "removed"
         => attemptsMade[d] < MaxAttempts /\ stalledCount[d] <= MaxStalled
    /\ jobState[d] = "failed"
         => attemptsMade[d] + stalledCount[d] <= MaxAttempts + MaxStalled

CallInv == NoCallYet /\ CallsCounted /\ BudgetSpent

\* Bookkeeping: what a step may do to the runs whose call is still to come.
LEMMA FewerToCall ==
  ASSUME NEW S, NEW T, IsFiniteSet(S), T \subseteq S
  PROVE  /\ IsFiniteSet(T) /\ Cardinality(T) \in Nat /\ Cardinality(S) \in Nat
         /\ Cardinality(T) <= Cardinality(S)
  BY FS_Subset, FS_CardinalityType

\* Adding a run adds at most one call to come.
LEMMA OneMoreToCall ==
  ASSUME NEW S, NEW x, IsFiniteSet(S)
  PROVE  /\ IsFiniteSet(S \cup {x}) /\ Cardinality(S) \in Nat
         /\ Cardinality(S \cup {x}) \in Nat
         /\ Cardinality(S \cup {x}) <= Cardinality(S) + 1
  <1>1. IsFiniteSet(S \cup {x}) /\ Cardinality(S) \in Nat
    BY FS_AddElement, FS_CardinalityType
  <1>2. Cardinality(S \cup {x}) \in Nat
    BY <1>1, FS_CardinalityType
  <1>3. Cardinality(S \cup {x}) = Cardinality(S) \/ Cardinality(S \cup {x}) = Cardinality(S) + 1
    BY FS_AddElement
  <1>4. QED BY <1>1, <1>2, <1>3

\* A run that calls, or ends, is one call to come less.
LEMMA OneLessToCall ==
  ASSUME NEW S, NEW x \in S, IsFiniteSet(S)
  PROVE  /\ IsFiniteSet(S \ {x}) /\ Cardinality(S) \in Nat
         /\ Cardinality(S \ {x}) \in Nat
         /\ Cardinality(S \ {x}) + 1 = Cardinality(S)
  <1>1. /\ IsFiniteSet(S \ {x}) /\ Cardinality(S) \in Nat
        /\ Cardinality(S \ {x}) = Cardinality(S) - 1
    BY FS_RemoveElement, FS_CardinalityType
  <1>2. Cardinality(S \ {x}) \in Nat
    BY <1>1, FS_CardinalityType
  <1>3. QED BY <1>1, <1>2

\* The counts are numbers.
LEMMA CountType ==
  ASSUME TypeInv, NEW d \in Docs
  PROVE  /\ Deliveries(d) \in Nat /\ InlineRuns(d) \in Nat /\ calls[d] \in Nat
         /\ attemptsMade[d] \in Nat /\ stalledCount[d] \in Nat
         /\ InlineRuns(d) <= 1
  <1>1. attemptsMade[d] \in Nat /\ stalledCount[d] \in Nat /\ calls[d] \in Nat
    BY PipelineAssumption DEF TypeInv, TypeOK
  <1>2. QED BY <1>1 DEF Deliveries, InlineRuns

\* A step that makes no call and adds no run keeps the counts, when it takes no
\* delivery back.
LEMMA KeptCounts ==
  ASSUME TypeInv, TypeInv', CallInv, UNCHANGED calls,
         \A d \in Docs : ToCall(d)' \subseteq ToCall(d),
         \A d \in Docs : req'[d] \in NotAdded => req[d] \in NotAdded,
         \A d \in Docs : Deliveries(d) + InlineRuns(d) <= (Deliveries(d) + InlineRuns(d))'
  PROVE  NoCallYet' /\ CallsCounted'
  <1>1. NoCallYet'
    BY DEF CallInv, NoCallYet
  <1>2. ASSUME NEW d \in Docs
        PROVE  /\ IsFiniteSet(ToCall(d)')
               /\ calls'[d] + Cardinality(ToCall(d)') <= (Deliveries(d) + InlineRuns(d))'
    <2>1. IsFiniteSet(ToCall(d)) /\ ToCall(d)' \subseteq ToCall(d)
      BY DEF CallInv, CallsCounted
    <2>2. /\ IsFiniteSet(ToCall(d)')
          /\ Cardinality(ToCall(d)') \in Nat /\ Cardinality(ToCall(d)) \in Nat
          /\ Cardinality(ToCall(d)') <= Cardinality(ToCall(d))
      BY <2>1, FewerToCall
    <2>3. calls[d] + Cardinality(ToCall(d)) <= Deliveries(d) + InlineRuns(d)
      BY DEF CallInv, CallsCounted
    <2>4. /\ calls[d] \in Nat /\ Deliveries(d) \in Nat /\ InlineRuns(d) \in Nat
      BY CountType
    <2>5. Deliveries(d)' \in Nat /\ InlineRuns(d)' \in Nat
      BY PipelineAssumption DEF TypeInv, TypeOK, Deliveries, InlineRuns
    <2>6. QED BY <2>2, <2>3, <2>4, <2>5
  <1>3. QED BY <1>1, <1>2 DEF CallsCounted

\* A step that touches neither queue nor calls.
LEMMA KeptQueue ==
  ASSUME TypeInv, TypeInv', CallInv,
         UNCHANGED <<calls, jobState, attemptsMade, stalledCount>>,
         \A d \in Docs : ToCall(d)' \subseteq ToCall(d),
         \A d \in Docs : req'[d] \in NotAdded => req[d] \in NotAdded
  PROVE  CallInv'
  <1>1. \A d \in Docs : Deliveries(d) + InlineRuns(d) <= (Deliveries(d) + InlineRuns(d))'
    <2> SUFFICES ASSUME NEW d \in Docs
                 PROVE  Deliveries(d) + InlineRuns(d) <= (Deliveries(d) + InlineRuns(d))'
      OBVIOUS
    <2>1. Deliveries(d)' = Deliveries(d) /\ InlineRuns(d)' = InlineRuns(d)
      BY DEF Deliveries, InlineRuns
    <2>2. Deliveries(d) \in Nat /\ InlineRuns(d) \in Nat
      BY CountType
    <2>3. QED BY <2>1, <2>2
  <1>2. NoCallYet' /\ CallsCounted'
    BY <1>1, KeptCounts
  <1>3. BudgetSpent'
    BY DEF CallInv, BudgetSpent
  <1>4. QED BY <1>2, <1>3 DEF CallInv

\* A document whose request has not reached queue.add has no run.
LEMMA RunIsAdded ==
  ASSUME TypeInv, ReferenceInv, NEW r \in Runners, stage[r] # "idle"
  PROVE  req[Target(r)] \notin NotAdded
  BY PipelineAssumption
  DEF TypeInv, BusyHasTarget, QueueInv, ReferenceInv, RunHasOrigin, Target, Runners,
      NotAdded

\* The steps of a run keep the count: its one call moves from the runs that have it
\* to come to the calls made.
LEMMA OcrRunCallInv ==
  ASSUME TypeInv, TypeInv', ReferenceInv, CallInv, NEW r \in Runners, OcrRun(r)
  PROVE  CallInv'
  <1>t. PICK t \in Docs : t = Target(r)
    BY OcrRunFrame
  <1>f. /\ UNCHANGED <<req, jobState, picked>>
        /\ stage[r] # "idle" /\ t = Target(r)
        /\ \A q \in Runners : Target(q)' = Target(q)
        /\ \A q \in Runners \ {r} : stage'[q] = stage[q]
    BY <1>t, OcrRunFrame
  <1>q. UNCHANGED <<attemptsMade, stalledCount>>
    BY DEF OcrRun, MarkProcessing, ExtractText, SaveOcrResult, SaveOcrPages,
           GenerateDocumentInsights, MarkCompleted, MarkFailed, jobVars
  <1>s. stage \in [Runners -> Stages]
    BY DEF TypeInv, TypeOK
  <1>1. CASE ~ExtractText(r)
    <2>1. UNCHANGED calls
      BY <1>1 DEF OcrRun, MarkProcessing, SaveOcrResult, SaveOcrPages,
                  GenerateDocumentInsights, MarkCompleted, MarkFailed
    <2>2. stage'[r] \in {"check", "mark", "extract"} => stage[r] \in {"check", "mark", "extract"}
      BY <1>1, <1>s DEF OcrRun, MarkProcessing, SaveOcrResult, SaveOcrPages,
                        GenerateDocumentInsights, MarkCompleted, MarkFailed
    <2>3. \A d \in Docs : ToCall(d)' \subseteq ToCall(d)
      BY <1>f, <2>2 DEF ToCall
    <2>4. QED BY <1>f, <1>q, <2>1, <2>3, KeptQueue
  <1>2. CASE ExtractText(r)
    <2>1. /\ calls' = [calls EXCEPT ![t] = @ + 1]
          /\ stage[r] = "extract" /\ stage'[r] \in {"saveResult", "fail"}
      BY <1>2, <1>s, <1>t DEF ExtractText
    <2>2. \A d \in Docs \ {t} : calls'[d] = calls[d] /\ ToCall(d)' = ToCall(d)
      BY <1>f, <2>1 DEF ToCall, TypeInv, TypeOK
    <2>3. /\ calls'[t] = calls[t] + 1
          /\ r \in ToCall(t) /\ ToCall(t)' = ToCall(t) \ {r}
      BY <1>f, <2>1 DEF ToCall, TypeInv, TypeOK
    <2>4. \A d \in Docs : Deliveries(d)' = Deliveries(d) /\ InlineRuns(d)' = InlineRuns(d)
      BY <1>f, <1>q DEF Deliveries, InlineRuns
    <2>5. NoCallYet'
      BY <1>f, <2>2, RunIsAdded DEF CallInv, NoCallYet
    <2>6. IsFiniteSet(ToCall(t)') /\ calls'[t] + Cardinality(ToCall(t)') <= (Deliveries(t) + InlineRuns(t))'
      <3>1. /\ IsFiniteSet(ToCall(t))
            /\ calls[t] + Cardinality(ToCall(t)) <= Deliveries(t) + InlineRuns(t)
        BY <1>f DEF CallInv, CallsCounted
      <3>2. /\ IsFiniteSet(ToCall(t) \ {r}) /\ Cardinality(ToCall(t)) \in Nat
            /\ Cardinality(ToCall(t) \ {r}) \in Nat
            /\ Cardinality(ToCall(t) \ {r}) + 1 = Cardinality(ToCall(t))
        BY <2>3, <3>1, OneLessToCall
      <3>3. calls[t] \in Nat /\ Deliveries(t) \in Nat /\ InlineRuns(t) \in Nat
        BY <1>f, CountType
      <3>4. QED BY <1>f, <2>3, <2>4, <3>1, <3>2, <3>3
    <2>7. CallsCounted'
      <3> SUFFICES ASSUME NEW d \in Docs
                   PROVE  /\ IsFiniteSet(ToCall(d)')
                          /\ calls'[d] + Cardinality(ToCall(d)') <= (Deliveries(d) + InlineRuns(d))'
        BY DEF CallsCounted
      <3>1. CASE d = t
        BY <2>6, <3>1
      <3>2. CASE d # t
        <4>1. /\ IsFiniteSet(ToCall(d))
              /\ calls[d] + Cardinality(ToCall(d)) <= Deliveries(d) + InlineRuns(d)
          BY DEF CallInv, CallsCounted
        <4>2. /\ calls'[d] = calls[d] /\ ToCall(d)' = ToCall(d)
              /\ Deliveries(d)' = Deliveries(d) /\ InlineRuns(d)' = InlineRuns(d)
          BY <2>2, <2>4, <3>2
        <4>3. QED BY <4>1, <4>2
      <3>3. QED BY <3>1, <3>2
    <2>8. BudgetSpent'
      BY <1>f, <1>q DEF CallInv, BudgetSpent
    <2>9. QED BY <2>5, <2>7, <2>8 DEF CallInv
  <1>3. QED BY <1>1, <1>2

\* queue.add: the job is stored, or an inline run begins, or both.
LEMMA EnqueueCallInv ==
  ASSUME TypeInv, TypeInv', ReferenceInv, CallInv, NEW d \in Docs, EnqueueOcrJob(d)
  PROVE  CallInv'
  <1>1. /\ req[d] = "enqueue" /\ jobState[d] = "none"
        /\ calls[d] = 0 /\ ToCall(d) = {}
    BY DEF EnqueueOcrJob, TypeInv, QueueInv, CallInv, NoCallYet, NotAdded
  <1>2. /\ UNCHANGED <<attemptsMade, stalledCount, calls, picked>>
        /\ \A c \in Docs \ {d} : req'[c] = req[c] /\ jobState'[c] = jobState[c]
        /\ req'[d] \in {"respond", "inline"}
        /\ \A r \in Runners \ {d} : stage'[r] = stage[r]
        /\ stage'[d] = stage[d] \/ stage'[d] = "mark"
        /\ \/ jobState'[d] = "waiting" /\ stage'[d] = stage[d]
           \/ jobState'[d] = "none" /\ stage'[d] = "mark"
           \/ jobState'[d] = "waiting" /\ stage'[d] = "mark" /\ "added" \in Faults
    BY <1>1 DEF EnqueueOcrJob, AddJob, RunInline, TypeInv, TypeOK, Runners
  <1>3. \A r \in Runners : Target(r)' = Target(r)
    BY <1>2 DEF Target
  <1>4. \A c \in Docs \ {d} : ToCall(c)' = ToCall(c)
    BY <1>2, <1>3 DEF ToCall, Target
  <1>5. ToCall(d)' \subseteq {d} /\ (stage'[d] = stage[d] => ToCall(d)' = {})
    BY <1>1, <1>2, <1>3 DEF ToCall
  <1>6. NoCallYet'
    BY <1>2, <1>4 DEF CallInv, NoCallYet, NotAdded
  <1>7. ASSUME NEW c \in Docs \ {d}
        PROVE  /\ IsFiniteSet(ToCall(c)')
               /\ calls'[c] + Cardinality(ToCall(c)') <= (Deliveries(c) + InlineRuns(c))'
    <2>1. /\ IsFiniteSet(ToCall(c))
          /\ calls[c] + Cardinality(ToCall(c)) <= Deliveries(c) + InlineRuns(c)
      BY DEF CallInv, CallsCounted
    <2>2. /\ calls'[c] = calls[c] /\ ToCall(c)' = ToCall(c)
          /\ Deliveries(c)' = Deliveries(c) /\ InlineRuns(c)' = InlineRuns(c)
      BY <1>2, <1>4 DEF Deliveries, InlineRuns
    <2>3. QED BY <2>1, <2>2
  <1>8. /\ IsFiniteSet(ToCall(d)')
        /\ calls'[d] + Cardinality(ToCall(d)') <= (Deliveries(d) + InlineRuns(d))'
    <2>1. IsFiniteSet({}) /\ Cardinality({}) = 0
      BY FS_EmptySet
    <2>2. IsFiniteSet({d}) /\ Cardinality({d}) = 1
      BY FS_Singleton
    <2>3. /\ IsFiniteSet(ToCall(d)') /\ Cardinality(ToCall(d)') \in Nat
          /\ Cardinality(ToCall(d)') <= 1
      BY <1>5, <2>2, FewerToCall
    <2>4. Deliveries(d)' \in Nat /\ InlineRuns(d)' \in Nat
      BY PipelineAssumption DEF TypeInv, TypeOK, Deliveries, InlineRuns
    <2>5. CASE stage'[d] = stage[d]
      BY <1>1, <1>2, <1>5, <2>1, <2>3, <2>4, <2>5
    <2>6. CASE stage'[d] = "mark" /\ stage'[d] # stage[d]
      <3>1. InlineRuns(d)' = 1
        BY <1>2, <2>6 DEF InlineRuns
      <3>2. QED BY <1>1, <1>2, <2>3, <2>4, <3>1
    <2>7. QED BY <1>2, <2>5, <2>6
  <1>9. CallsCounted'
    BY <1>7, <1>8 DEF CallsCounted
  <1>10. BudgetSpent'
    BY <1>2 DEF CallInv, BudgetSpent
  <1>11. QED BY <1>6, <1>9, <1>10 DEF CallInv

\* A job is given to a worker: one delivery and one run more.
LEMMA DeliverCallInv ==
  ASSUME TypeInv, TypeInv', ReferenceInv, CallInv,
         NEW d \in Docs, NEW p \in Procs, DeliverJob(p, d)
  PROVE  CallInv'
  <1>1. /\ UNCHANGED <<req, attemptsMade, stalledCount, calls>>
        /\ jobState[d] = "waiting" /\ jobState'[d] = "active"
        /\ \A c \in Docs \ {d} : jobState'[c] = jobState[c]
        /\ \A r \in Runners \ {p} : stage'[r] = stage[r]
        /\ stage[p] = "idle" /\ stage'[p] = "check" /\ picked'[p] = d
        /\ \A q \in Procs \ {p} : picked'[q] = picked[q]
    BY DEF DeliverJob, TypeInv, TypeOK, Runners, requestVars
  <1>2. \A r \in Runners \ {p} : Target(r)' = Target(r)
    BY <1>1 DEF Target, Runners
  <1>3. Target(p)' = d
    BY <1>1, PipelineAssumption DEF Target
  <1>4. \A c \in Docs \ {d} : ToCall(c)' = ToCall(c)
    BY <1>1, <1>2, <1>3 DEF ToCall
  <1>5. ToCall(d)' = ToCall(d) \cup {p}
    BY <1>1, <1>2, <1>3 DEF ToCall, Runners
  <1>6. NoCallYet'
    <2>1. req[d] \notin NotAdded
      BY <1>1 DEF TypeInv, QueueInv, NotAdded
    <2>2. QED BY <1>1, <1>4, <2>1 DEF CallInv, NoCallYet
  <1>7. ASSUME NEW c \in Docs \ {d}
        PROVE  /\ IsFiniteSet(ToCall(c)')
               /\ calls'[c] + Cardinality(ToCall(c)') <= (Deliveries(c) + InlineRuns(c))'
    <2>1. /\ IsFiniteSet(ToCall(c))
          /\ calls[c] + Cardinality(ToCall(c)) <= Deliveries(c) + InlineRuns(c)
      BY DEF CallInv, CallsCounted
    <2>2. /\ calls'[c] = calls[c] /\ ToCall(c)' = ToCall(c)
          /\ Deliveries(c)' = Deliveries(c) /\ InlineRuns(c)' = InlineRuns(c)
      BY <1>1, <1>4 DEF Deliveries, InlineRuns
    <2>3. QED BY <2>1, <2>2
  <1>8. /\ IsFiniteSet(ToCall(d)')
        /\ calls'[d] + Cardinality(ToCall(d)') <= (Deliveries(d) + InlineRuns(d))'
    <2>1. /\ IsFiniteSet(ToCall(d))
          /\ calls[d] + Cardinality(ToCall(d)) <= Deliveries(d) + InlineRuns(d)
      BY DEF CallInv, CallsCounted
    <2>2. /\ IsFiniteSet(ToCall(d) \cup {p}) /\ Cardinality(ToCall(d)) \in Nat
          /\ Cardinality(ToCall(d) \cup {p}) \in Nat
          /\ Cardinality(ToCall(d) \cup {p}) <= Cardinality(ToCall(d)) + 1
      BY <2>1, OneMoreToCall
    <2>3. /\ calls[d] \in Nat /\ Deliveries(d) \in Nat /\ InlineRuns(d) \in Nat
          /\ attemptsMade[d] \in Nat /\ stalledCount[d] \in Nat
      BY CountType
    <2>4. Deliveries(d)' = Deliveries(d) + 1 /\ InlineRuns(d)' = InlineRuns(d)
      BY <1>1, <2>3 DEF Deliveries, InlineRuns
    <2>5. QED BY <1>1, <1>5, <2>1, <2>2, <2>3, <2>4
  <1>9. CallsCounted'
    BY <1>7, <1>8 DEF CallsCounted
  <1>10. BudgetSpent'
    BY <1>1 DEF CallInv, BudgetSpent
  <1>11. QED BY <1>6, <1>9, <1>10 DEF CallInv

\* What Bull does with a job whose handler returned or threw, and with a stalled
\* one: the delivery becomes an attempt, a stall or the last one.
LEMMA SettleCallInv ==
  ASSUME TypeInv, TypeInv', CallInv, NEW d \in Docs,
         UNCHANGED <<req, calls>>,
         \A c \in Docs : ToCall(c)' \subseteq ToCall(c),
         jobState[d] = "active",
         \A c \in Docs \ {d} : /\ jobState'[c] = jobState[c]
                               /\ attemptsMade'[c] = attemptsMade[c]
                               /\ stalledCount'[c] = stalledCount[c],
         \/ /\ jobState'[d] = "removed"
            /\ attemptsMade'[d] = attemptsMade[d] /\ stalledCount'[d] = stalledCount[d]
         \/ /\ jobState'[d] \in {"waiting", "delayed", "failed"}
            /\ \/ /\ attemptsMade'[d] = attemptsMade[d] + 1
                  /\ stalledCount'[d] = stalledCount[d]
               \/ /\ attemptsMade'[d] = attemptsMade[d]
                  /\ stalledCount'[d] = stalledCount[d] + 1
  PROVE  CallInv'
  <1>1. /\ attemptsMade[d] \in Nat /\ stalledCount[d] \in Nat
        /\ attemptsMade[d] < MaxAttempts /\ stalledCount[d] <= MaxStalled
        /\ MaxAttempts \in Nat /\ MaxStalled \in Nat
    BY PipelineAssumption DEF TypeInv, TypeOK, QueueInv
  <1>2. ASSUME NEW c \in Docs
        PROVE  Deliveries(c) + InlineRuns(c) <= (Deliveries(c) + InlineRuns(c))'
    <2>1. Deliveries(c) \in Nat /\ InlineRuns(c) \in Nat
      BY CountType
    <2>2. CASE c # d
      <3>1. Deliveries(c)' = Deliveries(c) /\ InlineRuns(c)' = InlineRuns(c)
        BY <2>2 DEF Deliveries, InlineRuns
      <3>2. QED BY <2>1, <3>1
    <2>3. CASE c = d
      <3>1. Deliveries(c)' = Deliveries(c)
        BY <1>1, <2>3 DEF Deliveries
      <3>2. InlineRuns(c)' = InlineRuns(c)
        BY <2>3 DEF InlineRuns
      <3>3. QED BY <2>1, <3>1, <3>2
    <2>4. QED BY <2>2, <2>3
  <1>3. NoCallYet' /\ CallsCounted'
    BY <1>2, KeptCounts
  <1>4. BudgetSpent'
    BY <1>1 DEF CallInv, BudgetSpent
  <1>5. QED BY <1>3, <1>4 DEF CallInv

\* The worker's own steps and the end of its job keep the count.
LEMMA WorkerCallInv ==
  ASSUME TypeInv, TypeInv', ReferenceInv, CallInv, NEW p \in Procs, HandleExtractText(p)
  PROVE  CallInv'
  <1>s. /\ stage \in [Runners -> Stages] /\ picked \in [Procs -> Docs \cup {None}]
        /\ p \in Runners
    BY DEF TypeInv, TypeOK, Runners
  <1>1. CASE CheckCompleted(p)
    <2>1. /\ UNCHANGED <<req, jobState, attemptsMade, stalledCount, picked, calls>>
          /\ stage[p] = "check"
          /\ \A r \in Runners \ {p} : stage'[r] = stage[r]
      BY <1>1, <1>s DEF CheckCompleted, requestVars, jobVars
    <2>2. \A c \in Docs : ToCall(c)' \subseteq ToCall(c)
      BY <2>1 DEF ToCall, Target
    <2>3. QED BY <2>1, <2>2, KeptQueue
  <1>2. ASSUME JobCompleted(p) \/ JobFailed(p) PROVE CallInv'
    <2>1. PICK d \in Docs : d = picked[p]
      BY <1>2, <1>s DEF JobCompleted, JobFailed, TypeInv, BusyHasTarget
    <2>2. /\ UNCHANGED <<req, calls, stalledCount>>
          /\ stage[p] \in {"ack", "nack"} /\ stage'[p] = "idle"
          /\ \A r \in Runners \ {p} : stage'[r] = stage[r]
          /\ \A q \in Procs \ {p} : picked'[q] = picked[q]
      BY <1>2, <1>s DEF JobCompleted, JobFailed, ReleaseWorker, requestVars
    <2>3. \A r \in Runners \ {p} : Target(r)' = Target(r)
      BY <2>2 DEF Target, Runners
    <2>4. \A c \in Docs : ToCall(c)' \subseteq ToCall(c)
      BY <2>2, <2>3 DEF ToCall
    <2>5. CASE lock[d] # p
      <3>1. UNCHANGED <<jobState, attemptsMade>>
        BY <1>2, <2>1, <2>5 DEF JobCompleted, JobFailed
      <3>2. QED BY <2>2, <2>4, <3>1, KeptQueue
    <2>6. CASE lock[d] = p
      <3>1. jobState[d] = "active"
        BY <2>6, PipelineAssumption DEF TypeInv, QueueInv
      <3>2. CASE JobCompleted(p)
        <4>1. jobState' = [jobState EXCEPT ![d] = "removed"] /\ UNCHANGED attemptsMade
          BY <2>1, <2>6, <3>2 DEF JobCompleted
        <4>2. /\ jobState'[d] = "removed" /\ attemptsMade'[d] = attemptsMade[d]
              /\ stalledCount'[d] = stalledCount[d]
              /\ \A c \in Docs \ {d} : /\ jobState'[c] = jobState[c]
                                       /\ attemptsMade'[c] = attemptsMade[c]
                                       /\ stalledCount'[c] = stalledCount[c]
          BY <2>2, <4>1 DEF TypeInv, TypeOK
        <4>3. QED BY <2>2, <2>4, <3>1, <4>2, SettleCallInv
      <3>3. CASE JobFailed(p)
        <4>1. /\ jobState' = [jobState EXCEPT ![d] = AfterFailedAttempt(attemptsMade[d] + 1)]
              /\ attemptsMade' = [attemptsMade EXCEPT ![d] = @ + 1]
          BY <2>1, <2>6, <3>3 DEF JobFailed
        <4>2. AfterFailedAttempt(attemptsMade[d] + 1) \in {"delayed", "failed"}
          BY DEF AfterFailedAttempt
        <4>3. /\ jobState'[d] \in {"waiting", "delayed", "failed"}
              /\ attemptsMade'[d] = attemptsMade[d] + 1
              /\ stalledCount'[d] = stalledCount[d]
              /\ \A c \in Docs \ {d} : /\ jobState'[c] = jobState[c]
                                       /\ attemptsMade'[c] = attemptsMade[c]
                                       /\ stalledCount'[c] = stalledCount[c]
          BY <2>2, <4>1, <4>2 DEF TypeInv, TypeOK
        <4>4. QED BY <2>2, <2>4, <3>1, <4>3, SettleCallInv
      <3>4. QED BY <1>2, <3>2, <3>3
    <2>7. QED BY <2>5, <2>6
  <1>3. QED BY <1>1, <1>2 DEF HandleExtractText

\* Every step keeps the count of calls.
LEMMA NextCallInv ==
  ASSUME TypeInv, TypeInv', ReferenceInv, CallInv, [Next]_vars
  PROVE  CallInv'
  <1>1. ASSUME NEW d \in Docs, NEW p \in Procs, PostUpload(d, p) PROVE CallInv'
    <2>1. /\ UNCHANGED <<jobState, attemptsMade, stalledCount, calls, stage, picked>>
          /\ \A c \in Docs : req'[c] \in NotAdded => req[c] \in NotAdded
      BY <1>1 DEF PostUpload, jobVars, runVars, NotAdded, TypeInv, TypeOK
    <2>2. \A c \in Docs : ToCall(c)' \subseteq ToCall(c)
      BY <2>1 DEF ToCall, Target
    <2>3. QED BY <2>1, <2>2, KeptQueue
  <1>2. ASSUME NEW d \in Docs, SaveFile(d) \/ LateSave(d), ~EnqueueOcrJob(d) PROVE CallInv'
    <2>1. /\ UNCHANGED <<jobState, attemptsMade, stalledCount, calls, picked>>
          /\ \A c \in Docs : req'[c] \in NotAdded => req[c] \in NotAdded
      BY <1>2 DEF SaveFile, ValidateFileForUpload, UploadToPreferredStorage,
                  SaveDocumentMetadata, InlineReturns, BuildUploadResult, LateSave,
                  jobVars, runVars, NotAdded, TypeInv, TypeOK
    <2>2. \A r \in Runners : stage'[r] = stage[r] \/ stage'[r] = "idle"
      BY <1>2 DEF SaveFile, ValidateFileForUpload, UploadToPreferredStorage,
                  SaveDocumentMetadata, InlineReturns, BuildUploadResult, LateSave,
                  runVars, TypeInv, TypeOK
    <2>3. \A c \in Docs : ToCall(c)' \subseteq ToCall(c)
      BY <2>1, <2>2 DEF ToCall, Target
    <2>4. QED BY <2>1, <2>3, KeptQueue
  <1>3. ASSUME NEW d \in Docs, BackoffElapsed(d) PROVE CallInv'
    <2>1. /\ UNCHANGED <<req, attemptsMade, stalledCount, calls, stage, picked>>
          /\ jobState[d] = "delayed" /\ jobState'[d] = "waiting"
          /\ \A c \in Docs \ {d} : jobState'[c] = jobState[c]
      BY <1>3 DEF BackoffElapsed, requestVars, runVars, TypeInv, TypeOK
    <2>2. \A c \in Docs : ToCall(c)' \subseteq ToCall(c)
      BY <2>1 DEF ToCall, Target
    <2>3. ASSUME NEW c \in Docs
          PROVE  Deliveries(c) + InlineRuns(c) <= (Deliveries(c) + InlineRuns(c))'
      <3>1. Deliveries(c)' = Deliveries(c) /\ InlineRuns(c)' = InlineRuns(c)
        BY <2>1 DEF Deliveries, InlineRuns
      <3>2. QED BY <3>1, CountType
    <2>4. NoCallYet' /\ CallsCounted'
      BY <2>1, <2>2, <2>3, KeptCounts
    <2>5. BudgetSpent'
      BY <2>1 DEF CallInv, BudgetSpent
    <2>6. QED BY <2>4, <2>5 DEF CallInv
  <1>4. ASSUME NEW d \in Docs, JobStalled(d) PROVE CallInv'
    <2>1. /\ UNCHANGED <<req, attemptsMade, calls, stage, picked>>
          /\ jobState[d] = "active" /\ jobState'[d] \in {"waiting", "failed"}
          /\ stalledCount'[d] = stalledCount[d] + 1
          /\ \A c \in Docs \ {d} : /\ jobState'[c] = jobState[c]
                                   /\ stalledCount'[c] = stalledCount[c]
      BY <1>4 DEF JobStalled, requestVars, runVars, TypeInv, TypeOK
    <2>2. \A c \in Docs : ToCall(c)' \subseteq ToCall(c)
      BY <2>1 DEF ToCall, Target
    <2>3. QED BY <2>1, <2>2, SettleCallInv
  <1>5. ASSUME NEW p \in Procs, Crash(p) PROVE CallInv'
    <2>1. /\ UNCHANGED <<jobState, attemptsMade, stalledCount, calls>>
          /\ \A c \in Docs : req'[c] \in NotAdded => req[c] \in NotAdded
          /\ \A r \in Runners : stage'[r] = stage[r] \/ stage'[r] = "idle"
          /\ stage'[p] = "idle"
          /\ \A q \in Procs \ {p} : picked'[q] = picked[q]
      BY <1>5 DEF Crash, jobVars, NotAdded, Runners, TypeInv, TypeOK
    <2>2. \A r \in Runners \ {p} : Target(r)' = Target(r)
      BY <2>1 DEF Target, Runners
    <2>3. \A c \in Docs : ToCall(c)' \subseteq ToCall(c)
      BY <2>1, <2>2 DEF ToCall
    <2>4. QED BY <2>1, <2>3, KeptQueue
  <1>6. CASE UNCHANGED vars
    <2>1. /\ UNCHANGED <<req, jobState, attemptsMade, stalledCount, calls, stage, picked>>
      BY <1>6 DEF vars, requestVars, jobVars, runVars
    <2>2. \A c \in Docs : ToCall(c)' \subseteq ToCall(c)
      BY <2>1 DEF ToCall, Target
    <2>3. QED BY <2>1, <2>2, KeptQueue
  <1>7. QED
    BY <1>1, <1>2, <1>3, <1>4, <1>5, <1>6, EnqueueCallInv, DeliverCallInv,
       OcrRunCallInv, WorkerCallInv
    DEF Next

\* A document never costs more than attempts + maxStalledCount Vision calls, and one
\* more where the answer of queue.add can be lost: for any number of documents,
\* workers, crashes and every combination of faults.
THEOREM VisionCallsAreBounded == Spec => []VisionCallBudget
  <1>1. Init => CallInv
    <2> SUFFICES ASSUME Init PROVE CallInv
      OBVIOUS
    <2>1. \A d \in Docs : ToCall(d) = {}
      BY DEF Init, ToCall
    <2>0. \A d \in Docs : /\ attemptsMade[d] = 0 /\ stalledCount[d] = 0
                          /\ jobState[d] = "none" /\ calls[d] = 0
      BY DEF Init
    <2>2. \A d \in Docs : Deliveries(d) = 0 /\ InlineRuns(d) = 1 /\ calls[d] = 0
      <3> SUFFICES ASSUME NEW d \in Docs
                   PROVE  Deliveries(d) = 0 /\ InlineRuns(d) = 1 /\ calls[d] = 0
        OBVIOUS
      <3>1. Deliveries(d) = 0
        BY <2>0 DEF Deliveries
      <3>2. InlineRuns(d) = 1
        BY <2>0 DEF InlineRuns
      <3>3. QED BY <2>0, <3>1, <3>2
    <2>3. IsFiniteSet({}) /\ Cardinality({}) = 0
      BY FS_EmptySet
    <2>4. CallsCounted
      <3> SUFFICES ASSUME NEW d \in Docs
                   PROVE  /\ IsFiniteSet(ToCall(d))
                          /\ calls[d] + Cardinality(ToCall(d)) <= Deliveries(d) + InlineRuns(d)
        BY DEF CallsCounted
      <3>1. IsFiniteSet(ToCall(d)) /\ Cardinality(ToCall(d)) = 0
        BY <2>1, <2>3
      <3>2. QED BY <2>2, <3>1
    <2>5. NoCallYet /\ BudgetSpent
      BY <2>1, <2>2 DEF Init, NoCallYet, BudgetSpent
    <2>6. QED BY <2>4, <2>5 DEF CallInv
  <1>2. TypeInv /\ CallInv => VisionCallBudget
    <2> SUFFICES ASSUME TypeInv, CallInv, NEW d \in Docs
                 PROVE  calls[d] <= MaxAttempts + MaxStalled
                                      + (IF "added" \in Faults THEN 1 ELSE 0)
      BY DEF VisionCallBudget
    <2> DEFINE extra == IF "added" \in Faults THEN 1 ELSE 0
    <2>1. Cardinality(ToCall(d)) \in Nat
      BY FS_CardinalityType DEF CallInv, CallsCounted
    <2>2. /\ calls[d] \in Nat /\ Deliveries(d) \in Nat /\ InlineRuns(d) \in Nat
          /\ attemptsMade[d] \in Nat /\ stalledCount[d] \in Nat
      BY CountType
    <2>3. calls[d] + Cardinality(ToCall(d)) <= Deliveries(d) + InlineRuns(d)
      BY DEF CallInv, CallsCounted
    <2>4. MaxAttempts \in Nat /\ MaxStalled \in Nat /\ jobState[d] \in JobStates
      BY PipelineAssumption DEF TypeInv, TypeOK
    <2>5. extra \in Nat /\ (jobState[d] # "none" => InlineRuns(d) = extra)
                        /\ (jobState[d] = "none" => InlineRuns(d) = 1)
      BY DEF InlineRuns
    <2> HIDE DEF extra
    <2>6. CASE jobState[d] = "none"
      <3>1. attemptsMade[d] < MaxAttempts /\ stalledCount[d] <= MaxStalled
        BY <2>6 DEF TypeInv, QueueInv
      <3>2. Deliveries(d) = attemptsMade[d] + stalledCount[d]
        BY <2>2, <2>6 DEF Deliveries
      <3>3. calls[d] <= MaxAttempts + MaxStalled + extra
        BY <2>1, <2>2, <2>3, <2>4, <2>5, <2>6, <3>1, <3>2
      <3>4. QED BY <3>3 DEF extra
    <2>7. CASE jobState[d] \in {"waiting", "delayed", "active", "removed"}
      <3>1. attemptsMade[d] < MaxAttempts /\ stalledCount[d] <= MaxStalled
        BY <2>7 DEF TypeInv, QueueInv, CallInv, BudgetSpent
      <3>2. Deliveries(d) <= attemptsMade[d] + stalledCount[d] + 1
        BY <2>2 DEF Deliveries
      <3>3. calls[d] <= MaxAttempts + MaxStalled + extra
        BY <2>1, <2>2, <2>3, <2>4, <2>5, <2>7, <3>1, <3>2
      <3>4. QED BY <3>3 DEF extra
    <2>8. CASE jobState[d] = "failed"
      <3>1. attemptsMade[d] + stalledCount[d] <= MaxAttempts + MaxStalled
        BY <2>8 DEF CallInv, BudgetSpent
      <3>2. Deliveries(d) = attemptsMade[d] + stalledCount[d]
        BY <2>2, <2>8 DEF Deliveries
      <3>3. calls[d] <= MaxAttempts + MaxStalled + extra
        BY <2>1, <2>2, <2>3, <2>4, <2>5, <2>8, <3>1, <3>2
      <3>4. QED BY <3>3 DEF extra
    <2>9. QED BY <2>4, <2>6, <2>7, <2>8 DEF JobStates
  <1>3. TypeInv /\ TypeInv' /\ ReferenceInv /\ CallInv /\ [Next]_vars => CallInv'
    BY NextCallInv
  <1>4. BaseInv => TypeInv /\ ReferenceInv
    BY DEF BaseInv
  <1>5. QED BY <1>1, <1>2, <1>3, <1>4, BaseInvariant, PTL DEF Spec

-----------------------------------------------------------------------------
(***************************************************************************)
(* What row, queue and client say in the end, when the only failures are   *)
(* Vision errors, a queue.add that stores nothing and no more crashes than *)
(* Bull recovers a stalled job from.                                       *)
(***************************************************************************)

RecoverableCrashes == MaxCrashes <= MaxStalled

IdleHasNone == \A p \in Procs : stage[p] = "idle" => picked[p] = None

\* Every stall of a job was a crash, and a crash that has not been noticed is one
\* the job can still recover from.
StallsAreCrashes ==
  /\ crashes <= MaxCrashes
  /\ \A d \in Docs :
       stalledCount[d] <= crashes /\ (Orphaned(d) => stalledCount[d] < crashes)

CrashInv == IdleHasNone /\ StallsAreCrashes

\* A run that is about to return or to rethrow has written the row accordingly.
RunOutcome ==
  \A r \in Runners :
    /\ stage[r] = "ack" => status[Target(r)] = "completed"
    /\ stage[r] = "nack" => status[Target(r)] = "failed"

\* A request that is about to be answered without a job has run OCR inline.
InlineOutcome ==
  \A d \in Docs :
    req[d] \in {"respond", "accepted"} /\ jobState[d] = "none" => status[d] = "completed"

OutcomeInv == RunOutcome /\ InlineOutcome /\ OutcomesAgree

\* Every step keeps the count of stalls.
LEMMA NextCrashInv ==
  ASSUME OnlyAddFails, AllInv, CrashInv, [Next]_vars
  PROVE  CrashInv'
  <1>b. TypeInv /\ RunHoldsLock
    BY DEF AllInv, BaseInv, ExclusiveInv
  <1>s. /\ stage \in [Runners -> Stages] /\ picked \in [Procs -> Docs \cup {None}]
        /\ lock \in [Docs -> Procs \cup {None}] /\ crashes \in Nat
        /\ \A d \in Docs : stalledCount[d] \in Nat
        /\ stalledCount \in [Docs -> 0..(MaxStalled + 1)]
    BY <1>b, PipelineAssumption DEF TypeInv, TypeOK
  <1> USE PipelineAssumption, <1>b, <1>s
      DEF CrashInv, IdleHasNone, StallsAreCrashes, Orphaned, requestVars, rowVars,
          jobVars, runVars, Runners
  <1>1. ASSUME NEW d \in Docs, NEW p \in Procs, PostUpload(d, p) PROVE CrashInv'
    BY <1>1 DEF PostUpload
  <1>2. ASSUME NEW d \in Docs, NEW p \in Procs, DeliverJob(p, d) PROVE CrashInv'
    <2>1. /\ UNCHANGED <<stalledCount, crashes>> /\ stage[p] = "idle"
          /\ lock' = [lock EXCEPT ![d] = p]
          /\ stage' = [stage EXCEPT ![p] = "check"]
          /\ picked' = [picked EXCEPT ![p] = d]
      BY <1>2 DEF DeliverJob
    <2>2. \A c \in Docs : Orphaned(c)' => Orphaned(c)
      BY <2>1
    <2>3. QED BY <2>1, <2>2
  <1>3. ASSUME NEW d \in Docs, SaveFile(d) \/ LateSave(d) \/ BackoffElapsed(d) PROVE CrashInv'
    <2>1. /\ UNCHANGED <<stalledCount, crashes, lock, picked>>
          /\ \A p \in Procs : stage'[p] = stage[p]
      BY <1>3 DEF SaveFile, ValidateFileForUpload, UploadToPreferredStorage, RunInline,
                  SaveDocumentMetadata, EnqueueOcrJob, InlineReturns, BuildUploadResult,
                  LateSave, BackoffElapsed
    <2>2. QED BY <2>1
  <1>4. ASSUME NEW d \in Docs, JobStalled(d) PROVE CrashInv'
    <2>1. /\ Orphaned(d)
          /\ UNCHANGED <<crashes, stage, picked>>
          /\ stalledCount' = [stalledCount EXCEPT ![d] = @ + 1]
          /\ lock' = [lock EXCEPT ![d] = None]
      BY <1>4 DEF JobStalled, OnlyAddFails
    <2>2. QED BY <2>1
  <1>5. ASSUME NEW r \in Runners, OcrRun(r) PROVE CrashInv'
    <2>1. UNCHANGED <<stalledCount, crashes>>
      BY <1>5 DEF OcrRun, MarkProcessing, ExtractText, SaveOcrResult, SaveOcrPages,
                  GenerateDocumentInsights, MarkCompleted, MarkFailed
    <2>2. /\ UNCHANGED <<lock, picked>>
          /\ stage[r] # "idle"
          /\ \A q \in Runners \ {r} : stage'[q] = stage[q]
          /\ stage'[r] # "idle"
      BY <1>5, OcrRunFrame
    <2>3. QED BY <2>1, <2>2
  <1>6. ASSUME NEW p \in Procs, HandleExtractText(p) PROVE CrashInv'
    <2>1. CASE CheckCompleted(p)
      BY <2>1 DEF CheckCompleted
    <2>2. CASE JobCompleted(p) \/ JobFailed(p)
      <3>1. /\ UNCHANGED <<stalledCount, crashes>> /\ stage[p] # "idle"
            /\ stage' = [stage EXCEPT ![p] = "idle"]
            /\ picked' = [picked EXCEPT ![p] = None]
        BY <2>2 DEF JobCompleted, JobFailed, ReleaseWorker
      <3>2. PICK d \in Docs : d = picked[p]
        BY <3>1 DEF TypeInv, BusyHasTarget
      <3>3. lock[d] = p
        BY <3>1, <3>2 DEF RunHoldsLock
      <3>4. lock' = [lock EXCEPT ![d] = None]
        BY <2>2, <3>2, <3>3 DEF JobCompleted, JobFailed
      <3>5. \A c \in Docs : Orphaned(c)' => Orphaned(c)
        BY <3>1, <3>2, <3>4
      <3>6. QED BY <3>1, <3>5
    <2>3. QED BY <1>6, <2>1, <2>2 DEF HandleExtractText
  <1>7. ASSUME NEW p \in Procs, Crash(p) PROVE CrashInv'
    <2>1. /\ UNCHANGED <<stalledCount, lock>>
          /\ crashes < MaxCrashes /\ crashes' = crashes + 1
          /\ picked' = [picked EXCEPT ![p] = None]
          /\ \A q \in Procs \ {p} : stage'[q] = stage[q]
      BY <1>7 DEF Crash
    <2>2. QED BY <2>1
  <1>8. CASE UNCHANGED vars
    BY <1>8 DEF vars
  <1>9. QED
    BY <1>1, <1>2, <1>3, <1>4, <1>5, <1>6, <1>7, <1>8 DEF Next

\* The writes of a run keep the outcomes: nobody else works on its document, and no
\* answer has been given and no job has ended while it runs.
LEMMA OcrRunOutcomeInv ==
  ASSUME OnlyAddFails, AllInv, OutcomeInv, NEW r \in Runners, OcrRun(r)
  PROVE  OutcomeInv'
  <1>b. TypeInv /\ ExclusiveRun /\ RunHasOrigin /\ RunHoldsLock /\ NoJobYet
    BY LockedIsExclusive DEF AllInv, BaseInv, ReferenceInv, ExclusiveInv
  <1>t. PICK t \in Docs : t = Target(r)
    BY <1>b, OcrRunFrame
  <1>f. /\ UNCHANGED <<req, jobState>>
        /\ stage[r] # "idle"
        /\ \A q \in Runners : Target(q)' = Target(q)
        /\ \A q \in Runners \ {r} : stage'[q] = stage[q]
        /\ \A d \in Docs \ {t} : status'[d] = status[d]
    BY <1>b, <1>t, OcrRunFrame
  <1>x. \A q \in Runners \ {r} : stage[q] # "idle" => Target(q) \in Docs \ {t}
    BY <1>b, <1>f, <1>t, TargetType DEF ExclusiveRun
  <1>j. \/ jobState[t] = "active"
        \/ jobState[t] = "none" /\ req[t] = "inline"
    BY <1>b, <1>f, <1>t, PipelineAssumption
    DEF RunHasOrigin, RunHoldsLock, NoJobYet, Target, Runners
  <1>1. /\ stage'[r] = "ack" => status'[t] = "completed"
        /\ stage'[r] = "nack" => status'[t] = "failed"
    BY <1>t, <1>b
    DEF TypeInv, TypeOK, OnlyAddFails, DbOutcome, OcrRun, MarkProcessing, ExtractText,
        SaveOcrResult, SaveOcrPages, GenerateDocumentInsights, MarkCompleted, MarkFailed
  <1>2. RunOutcome'
    <2> SUFFICES ASSUME NEW q \in Runners
                 PROVE  /\ stage'[q] = "ack" => status'[Target(q)] = "completed"
                        /\ stage'[q] = "nack" => status'[Target(q)] = "failed"
      BY <1>f DEF RunOutcome
    <2>1. CASE q = r
      BY <1>1, <1>t, <2>1
    <2>2. CASE q # r
      BY <1>f, <1>x, <2>2 DEF OutcomeInv, RunOutcome
    <2>3. QED BY <2>1, <2>2
  <1>3. InlineOutcome' /\ OutcomesAgree'
    BY <1>f, <1>j DEF OutcomeInv, InlineOutcome, OutcomesAgree
  <1>4. QED BY <1>2, <1>3 DEF OutcomeInv

\* Every step keeps the outcomes.
LEMMA NextOutcomeInv ==
  ASSUME OnlyAddFails, RecoverableCrashes, AllInv, CrashInv, OutcomeInv, [Next]_vars
  PROVE  OutcomeInv'
  <1>b. TypeInv /\ ReferenceInv /\ ExclusiveInv
    BY DEF AllInv, BaseInv
  <1>s. /\ stage \in [Runners -> Stages] /\ picked \in [Procs -> Docs \cup {None}]
        /\ lock \in [Docs -> Procs \cup {None}]
        /\ req \in [Docs -> ReqStates] /\ status \in [Docs -> Statuses]
        /\ jobState \in [Docs -> JobStates]
        /\ \A p \in Procs : stage[p] # "idle" => picked[p] \in Docs
    BY <1>b DEF TypeInv, TypeOK, BusyHasTarget
  <1> USE PipelineAssumption, <1>s
      DEF OutcomeInv, RunOutcome, InlineOutcome, OutcomesAgree,
          Target, requestVars, rowVars, jobVars, runVars, Runners
  <1>1. ASSUME NEW d \in Docs, NEW p \in Procs, PostUpload(d, p) PROVE OutcomeInv'
    BY <1>1, <1>b DEF PostUpload, ReferenceInv, RequestOrder
  <1>2. ASSUME NEW d \in Docs, NEW p \in Procs, DeliverJob(p, d) PROVE OutcomeInv'
    BY <1>2 DEF DeliverJob
  <1>3. ASSUME NEW d \in Docs, LateSave(d) PROVE OutcomeInv'
    BY <1>3 DEF LateSave
  <1>4. ASSUME NEW d \in Docs, BackoffElapsed(d) PROVE OutcomeInv'
    BY <1>4 DEF BackoffElapsed
  <1>5. ASSUME NEW d \in Docs, JobStalled(d) PROVE OutcomeInv'
    <2>1. stalledCount[d] \in Nat /\ crashes \in Nat /\ MaxStalled \in Nat /\ MaxCrashes \in Nat
      BY <1>b DEF TypeInv, TypeOK
    <2>2. Orphaned(d)
      BY <1>5 DEF JobStalled, OnlyAddFails
    <2>3. stalledCount[d] < MaxStalled
      BY <2>1, <2>2 DEF CrashInv, StallsAreCrashes, RecoverableCrashes
    <2>4. jobState' = [jobState EXCEPT ![d] = "waiting"] /\ UNCHANGED <<req, status, stage, picked>>
      BY <1>5, <2>3 DEF JobStalled
    <2>5. QED BY <1>5, <2>4 DEF JobStalled
  <1>6. ASSUME NEW p \in Procs, Crash(p) PROVE OutcomeInv'
    <2>1. /\ UNCHANGED <<status, jobState>>
          /\ \A r \in Runners \ {p} : stage'[r] = stage[r] \/ stage'[r] = "idle"
          /\ stage'[p] = "idle"
          /\ \A q \in Procs \ {p} : picked'[q] = picked[q]
          /\ \A d \in Docs : req'[d] = req[d] \/ req'[d] = "lost"
      BY <1>6 DEF Crash
    <2>2. RunOutcome'
      BY <2>1
    <2>3. InlineOutcome' /\ OutcomesAgree'
      BY <2>1
    <2>4. QED BY <2>2, <2>3
  <1>7. ASSUME NEW d \in Docs, SaveFile(d) PROVE OutcomeInv'
    <2>1. CASE ValidateFileForUpload(d)
      BY <2>1, <1>b DEF ValidateFileForUpload, ReferenceInv, RequestOrder
    <2>2. CASE UploadToPreferredStorage(d)
      BY <2>2, <1>b DEF UploadToPreferredStorage, ReferenceInv, RequestOrder
    <2>3. CASE SaveDocumentMetadata(d)
      <3>1. /\ status' = [status EXCEPT ![d] = "pending"]
            /\ req' = [req EXCEPT ![d] = "enqueue"]
            /\ UNCHANGED <<jobState, stage, picked>>
            /\ req[d] = "create"
        BY <2>3 DEF SaveDocumentMetadata, DbOutcome, OnlyAddFails
      <3>2. jobState[d] = "none" /\ status[d] = "none"
        BY <1>b, <3>1 DEF ExclusiveInv, NoJobYet, ReferenceInv, RequestOrder
      <3>3. \A r \in Runners : stage[r] # "idle" => Target(r) # d
        BY <1>b, <3>2, RunHasRow
      <3>4. RunOutcome'
        BY <3>1, <3>3
      <3>5. InlineOutcome' /\ OutcomesAgree'
        BY <3>1, <3>2
      <3>6. QED BY <3>4, <3>5
    <2>4. CASE EnqueueOcrJob(d)
      BY <2>4 DEF EnqueueOcrJob, RunInline, AddJob, OnlyAddFails
    <2>5. CASE InlineReturns(d)
      BY <2>5 DEF InlineReturns
    <2>6. CASE BuildUploadResult(d)
      BY <2>6 DEF BuildUploadResult
    <2>7. QED BY <1>7, <2>1, <2>2, <2>3, <2>4, <2>5, <2>6 DEF SaveFile
  <1>8. ASSUME NEW p \in Procs, HandleExtractText(p) PROVE OutcomeInv'
    <2>1. CASE CheckCompleted(p)
      BY <2>1 DEF CheckCompleted, DbOutcome, AlreadyCompleted, OnlyAddFails
    <2>2. CASE JobCompleted(p)
      BY <2>2 DEF JobCompleted, ReleaseWorker
    <2>3. CASE JobFailed(p)
      BY <2>3 DEF JobFailed, ReleaseWorker, AfterFailedAttempt
    <2>4. QED BY <1>8, <2>1, <2>2, <2>3 DEF HandleExtractText
  <1>9. CASE UNCHANGED vars
    BY <1>9 DEF vars
  <1>10. QED
    BY <1>1, <1>2, <1>3, <1>4, <1>5, <1>6, <1>7, <1>8, <1>9, OcrRunOutcomeInv DEF Next

\* The outcome invariant holds under the two assumptions.
LEMMA OutcomeInvariant ==
  ASSUME OnlyAddFails, RecoverableCrashes
  PROVE  Spec => []OutcomeInv
  <1>1. Init => CrashInv
    BY PipelineAssumption
    DEF Init, CrashInv, IdleHasNone, StallsAreCrashes, Orphaned, Runners
  <1>2. Init => OutcomeInv
    BY DEF Init, OutcomeInv, RunOutcome, InlineOutcome, OutcomesAgree
  <1>3. AllInv /\ CrashInv /\ [Next]_vars => CrashInv'
    BY NextCrashInv
  <1>4. AllInv /\ CrashInv /\ OutcomeInv /\ [Next]_vars => OutcomeInv'
    BY NextOutcomeInv
  <1>5. QED BY <1>1, <1>2, <1>3, <1>4, AllInvariant, PTL DEF Spec

\* A removed job and an inline answer always mean 'completed', a job that was given
\* up always means 'failed', however workers, requests, retries and up to
\* maxStalledCount crashes interleave.
THEOREM OutcomesAlwaysAgree ==
  ASSUME OnlyAddFails, RecoverableCrashes
  PROVE  Spec => []OutcomesAgree
  <1>1. OutcomeInv => OutcomesAgree
    BY DEF OutcomeInv
  <1>2. QED BY <1>1, OutcomeInvariant, PTL

-----------------------------------------------------------------------------
(***************************************************************************)
(* Nothing is stranded silently, under every fault.  Inductive only with   *)
(* what a worker knows when its handler returns: the row is settled, or an *)
(* inline run of the same document (queue.add lost its answer) has written *)
(* to it since and is not through.                                         *)
(***************************************************************************)

\* A worker's run holds the lock of its job, unless Bull took it.
HoldsOrLost ==
  \A p \in Procs :
    stage[p] # "idle" => lock[picked[p]] = p \/ LockTaken(picked[p])

HalfWay(d) == status[d] \in {"pending", "processing"}

\* The inline run of d is not through, or its request ended without success.
Unanswered(d) == stage[d] \notin {"idle", "ack"} \/ req[d] \in {"lost", "rejected"}

ReturnsSettled ==
  \A p \in Procs :
    stage[p] = "ack" /\ HalfWay(picked[p])
      => Unanswered(picked[p]) \/ LockTaken(picked[p])

NoneSilent ==
  \A d \in Docs :
    HalfWay(d) =>
      \/ jobState[d] \in {"waiting", "active", "delayed", "failed"}
      \/ req[d] = "enqueue"
      \/ Unanswered(d)
      \/ LockTaken(d)

StrandedInv == HoldsOrLost /\ ReturnsSettled /\ NoneSilent

\* The writes of a run: a worker's while its job is active, an inline run's before it
\* is through.
LEMMA OcrRunStrandedInv ==
  ASSUME TypeInv, ReferenceInv, StrandedInv, NEW r \in Runners, OcrRun(r)
  PROVE  StrandedInv'
  <1>t. PICK t \in Docs : t = Target(r)
    BY OcrRunFrame
  <1>f. /\ UNCHANGED <<req, jobState, lock, picked>>
        /\ stage[r] # "idle"
        /\ stage'[r] # "idle"
        /\ \A q \in Runners \ {r} : stage'[q] = stage[q]
        /\ \A d \in Docs \ {t} : status'[d] = status[d]
    BY <1>t, OcrRunFrame
  <1>k. stalledCount' = stalledCount /\ \A d \in Docs : LockTaken(d)' = LockTaken(d)
    BY DEF OcrRun, MarkProcessing, ExtractText, SaveOcrResult, SaveOcrPages,
           GenerateDocumentInsights, MarkCompleted, MarkFailed, jobVars, LockTaken
  <1>a. stage'[r] = "ack" => status'[t] = "completed"
    BY <1>t
    DEF TypeInv, TypeOK, DbOutcome, OcrRun, MarkProcessing, ExtractText,
        SaveOcrResult, SaveOcrPages, GenerateDocumentInsights, MarkCompleted, MarkFailed
  <1>b. stage[r] # "ack"
    BY DEF OcrRun, MarkProcessing, ExtractText, SaveOcrResult, SaveOcrPages,
           GenerateDocumentInsights, MarkCompleted, MarkFailed
  <1>d. Docs \cap Procs = {} /\ \A p \in Procs : stage[p] # "idle" => picked[p] \in Docs
    BY PipelineAssumption DEF TypeInv, BusyHasTarget
  <1>q. \A d \in Docs : lock[d] # None => jobState[d] = "active"
    BY DEF TypeInv, QueueInv
  <1>n. None \notin Procs
    BY PipelineAssumption
  <1>1. HoldsOrLost'
    BY <1>f, <1>k, <1>d DEF StrandedInv, HoldsOrLost, Runners
  <1>2. CASE r \in Docs
    <2>1. t = r
      BY <1>t, <1>2 DEF Target
    <2>2. \A d \in Docs : HalfWay(d)' /\ d # r => HalfWay(d) /\ Unanswered(d)' = Unanswered(d)
      BY <1>f, <2>1 DEF HalfWay, Unanswered, Runners
    <2>3. HalfWay(r)' => Unanswered(r)'
      BY <1>a, <1>f, <2>1 DEF HalfWay, Unanswered
    <2>4. ReturnsSettled'
      BY <1>2, <1>d, <1>f, <1>k, <2>2, <2>3 DEF StrandedInv, ReturnsSettled, Runners
    <2>5. NoneSilent'
      BY <1>2, <1>f, <1>k, <2>2, <2>3 DEF StrandedInv, NoneSilent
    <2>6. QED BY <1>1, <2>4, <2>5 DEF StrandedInv
  <1>3. CASE r \in Procs
    <2>1. t = picked[r] /\ r \notin Docs
      BY <1>t, <1>3, <1>d DEF Target
    <2>2. (lock[t] = r /\ jobState[t] = "active") \/ LockTaken(t)
      BY <1>3, <1>f, <1>q, <1>n, <2>1 DEF StrandedInv, HoldsOrLost
    <2>3. \A d \in Docs : /\ Unanswered(d)' = Unanswered(d)
                          /\ HalfWay(d)' /\ d # t => HalfWay(d)
      BY <1>f, <2>1 DEF HalfWay, Unanswered, Runners
    <2>4. NoneSilent'
      BY <1>f, <1>k, <2>2, <2>3 DEF StrandedInv, NoneSilent
    <2>5. ReturnsSettled'
      <3> SUFFICES ASSUME NEW p \in Procs, stage'[p] = "ack", HalfWay(picked[p])'
                   PROVE  Unanswered(picked[p])' \/ LockTaken(picked[p])'
        BY <1>f DEF ReturnsSettled
      <3>1. CASE p = r
        BY <1>a, <1>f, <2>1, <3>1 DEF HalfWay
      <3>2. CASE p # r
        <4>1. stage[p] = "ack" /\ picked[p] \in Docs
          BY <1>d, <1>f, <3>2 DEF Runners
        <4>2. CASE picked[p] = t
          BY <1>k, <1>f, <2>2, <3>2, <4>1, <4>2 DEF StrandedInv, HoldsOrLost
        <4>3. CASE picked[p] # t
          BY <1>k, <1>f, <2>3, <4>1, <4>3 DEF StrandedInv, ReturnsSettled
        <4>4. QED BY <4>2, <4>3
      <3>3. QED BY <3>1, <3>2
    <2>6. QED BY <1>1, <2>4, <2>5 DEF StrandedInv
  <1>4. QED BY <1>2, <1>3 DEF Runners

\* Every step keeps it.
LEMMA NextStrandedInv ==
  ASSUME TypeInv, ReferenceInv, StrandedInv, [Next]_vars
  PROVE  StrandedInv'
  <1>s. /\ stage \in [Runners -> Stages] /\ picked \in [Procs -> Docs \cup {None}]
        /\ lock \in [Docs -> Procs \cup {None}]
        /\ req \in [Docs -> ReqStates] /\ status \in [Docs -> Statuses]
        /\ jobState \in [Docs -> JobStates]
        /\ stalledCount \in [Docs -> 0..(MaxStalled + 1)] /\ MaxStalled \in Nat
        /\ \A p \in Procs : stage[p] # "idle" => picked[p] \in Docs
        /\ \A d \in Docs : lock[d] # None => jobState[d] = "active"
        /\ \A d \in Docs : stage[d] # "idle" => req[d] = "inline"
    BY PipelineAssumption DEF TypeInv, TypeOK, BusyHasTarget, QueueInv, ReferenceInv,
                              RunHasOrigin, Runners
  <1>r. \A d \in Docs : req[d] \in {"idle", "validate", "store", "create"} => status[d] = "none"
    BY DEF ReferenceInv, RequestOrder
  <1>j. \A d \in Docs : status[d] = "none" => jobState[d] = "none"
    BY DEF ReferenceInv, JobHasRow
  <1> USE PipelineAssumption, <1>s
      DEF StrandedInv, HoldsOrLost, ReturnsSettled, NoneSilent, HalfWay, Unanswered,
          LockTaken, requestVars, rowVars, jobVars, runVars, Runners
  <1>1. ASSUME NEW d \in Docs, NEW p \in Procs, PostUpload(d, p) PROVE StrandedInv'
    BY <1>1, <1>r DEF PostUpload
  <1>2. ASSUME NEW d \in Docs, NEW p \in Procs, DeliverJob(p, d) PROVE StrandedInv'
    BY <1>2 DEF DeliverJob
  <1>3. ASSUME NEW d \in Docs, LateSave(d) PROVE StrandedInv'
    BY <1>3 DEF LateSave
  <1>4. ASSUME NEW d \in Docs, BackoffElapsed(d) PROVE StrandedInv'
    BY <1>4 DEF BackoffElapsed
  <1>5. ASSUME NEW d \in Docs, JobStalled(d) PROVE StrandedInv'
    BY <1>5 DEF JobStalled, Orphaned
  <1>6. ASSUME NEW p \in Procs, Crash(p) PROVE StrandedInv'
    BY <1>6 DEF Crash, InFlight
  <1>7. ASSUME NEW d \in Docs, SaveFile(d) PROVE StrandedInv'
    <2>1. CASE ValidateFileForUpload(d)
      BY <2>1, <1>r DEF ValidateFileForUpload
    <2>2. CASE UploadToPreferredStorage(d)
      BY <2>2, <1>r DEF UploadToPreferredStorage
    <2>3. CASE SaveDocumentMetadata(d)
      BY <2>3, <1>r, <1>j DEF SaveDocumentMetadata, DbOutcome
    <2>4. CASE EnqueueOcrJob(d)
      BY <2>4 DEF EnqueueOcrJob, RunInline, AddJob
    <2>5. CASE InlineReturns(d)
      BY <2>5 DEF InlineReturns
    <2>6. CASE BuildUploadResult(d)
      BY <2>6 DEF BuildUploadResult
    <2>7. QED BY <1>7, <2>1, <2>2, <2>3, <2>4, <2>5, <2>6 DEF SaveFile
  <1>8. ASSUME NEW p \in Procs, HandleExtractText(p) PROVE StrandedInv'
    <2>1. CASE CheckCompleted(p)
      BY <2>1 DEF CheckCompleted, AlreadyCompleted
    <2>2. CASE JobCompleted(p)
      BY <2>2 DEF JobCompleted, ReleaseWorker
    <2>3. CASE JobFailed(p)
      BY <2>3 DEF JobFailed, ReleaseWorker, AfterFailedAttempt
    <2>4. QED BY <1>8, <2>1, <2>2, <2>3 DEF HandleExtractText
  <1>9. CASE UNCHANGED vars
    BY <1>9 DEF vars
  <1>10. QED
    BY <1>1, <1>2, <1>3, <1>4, <1>5, <1>6, <1>7, <1>8, <1>9, OcrRunStrandedInv DEF Next

\* Whatever fails, a document left 'pending' or 'processing' with nothing to finish
\* it shows as an error answer, a lost request or a failed job, unless Bull took its
\* lock from a live worker: for any number of crashes, attempts and stalls and under
\* every class of faults.
THEOREM NothingStrandsSilently == Spec => []StrandedIsReported
  <1>1. Init => StrandedInv
    BY PipelineAssumption
    DEF Init, StrandedInv, HoldsOrLost, ReturnsSettled, NoneSilent, HalfWay, Runners
  <1>2. BaseInv /\ StrandedInv => StrandedIsReported
    BY DEF BaseInv, ReferenceInv, RunHasOrigin, StrandedInv, NoneSilent, HalfWay,
           Unanswered, StrandedIsReported
  <1>3. TypeInv /\ ReferenceInv /\ StrandedInv /\ [Next]_vars => StrandedInv'
    BY NextStrandedInv
  <1>4. BaseInv => TypeInv /\ ReferenceInv
    BY DEF BaseInv
  <1>5. QED BY <1>1, <1>2, <1>3, <1>4, BaseInvariant, PTL DEF Spec
=============================================================================
