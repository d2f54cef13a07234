---------------------------- MODULE OcrPipeline ----------------------------
(***************************************************************************)
(* The upload-and-OCR pipeline of the Study Oasis API:                     *)
(*                                                                         *)
(*   - UploadService.saveFile, one request per document: validate, store   *)
(*     the blob, create the document row, enqueue the OCR job (or run OCR  *)
(*     inline when the queue is off or queue.add throws), answer;          *)
(*   - the Bull queue 'ocr' (external: attempts, backoff, stalled jobs);   *)
(*   - OcrProcessor.handleExtractText, one worker per API process;         *)
(*   - VisionService.extractText... / persistOcrArtifacts, shared by the   *)
(*     workers and by inline requests.                                     *)
(*                                                                         *)
(* Every await is the end of a step, so any two requests and workers can   *)
(* interleave there, and a process can crash there.                        *)
(***************************************************************************)
EXTENDS Naturals

CONSTANTS
  Docs,         \* document ids; each is the target of one upload request
  Procs,        \* API processes; each serves requests and runs one OCR worker
  None,         \* "no document" / "no process"
  UseOcrQueue,  \* configuration flag ocr.useQueue
  MaxAttempts,  \* defaultJobOptions.attempts (3)
  MaxStalled,   \* Bull's maxStalledCount (1 unless configured)
  MaxCrashes,   \* bound: how many process crashes a behaviour may contain
  Faults        \* the fault classes the environment shows, see FaultKinds

(***************************************************************************)
(* db:    a database statement throws, applied or not                      *)
(* add:   queue.add throws and the job was not stored                      *)
(* added: queue.add throws although the job was stored (answer lost)       *)
(* stall: Bull takes the lock from a worker that is still running          *)
(***************************************************************************)
FaultKinds == {"db", "add", "added", "stall"}

ASSUME PipelineAssumption ==
  /\ Docs \cap Procs = {}
  /\ None \notin Docs \cup Procs
  /\ UseOcrQueue \in BOOLEAN
  /\ MaxAttempts \in Nat \ {0}
  /\ MaxStalled \in Nat
  /\ MaxCrashes \in Nat
  /\ Faults \subseteq FaultKinds

VARIABLES
  \* saveFile requests
  req,          \* where the request for a document is
  host,         \* the process that serves it
  blob,         \* the stored file
  \* rows of the database
  status,       \* Document.ocrStatus, "none" while there is no row
  result,       \* OcrResult: the Vision call its text came from, 0 if absent
  pages,        \* OcrPage rows: the Vision call they came from, 0 if absent
  insight,      \* DocumentInsight, likewise
  \* the Bull queue
  jobState, attemptsMade, stalledCount,
  lock,         \* the process that holds the job's lock
  \* OCR runs: a worker (runner = its process) or an inline run (its document)
  stage,        \* the await a runner is at
  picked,       \* the document of a worker's current job
  reading,      \* the Vision call whose text a runner holds
  \* history
  calls,        \* Vision calls made for a document
  crashes

requestVars == <<req, host, blob>>
rowVars     == <<status, result, pages, insight>>
jobVars     == <<jobState, attemptsMade, stalledCount, lock>>
runVars     == <<stage, picked, reading>>
vars == <<requestVars, rowVars, jobVars, runVars, calls, crashes>>

Runners == Docs \cup Procs

\* The document an OCR run is about.
Target(r) == IF r \in Docs THEN r ELSE picked[r]

Running(r, d) == stage[r] # "idle" /\ Target(r) = d

ReqStates == {"idle", "validate", "store", "create", "enqueue", "inline",
              "respond", "accepted", "rejected", "lost"}
InFlight  == {"validate", "store", "create", "enqueue", "inline", "respond"}
Statuses  == {"none", "pending", "processing", "completed", "failed"}
JobStates == {"none", "waiting", "active", "delayed", "failed", "removed"}
Stages    == {"idle", "check", "mark", "extract", "saveResult", "savePages",
              "insights", "complete", "fail", "ack", "nack"}

Init ==
  /\ req = [d \in Docs |-> "idle"]
  /\ host = [d \in Docs |-> None]
  /\ blob = [d \in Docs |-> "absent"]
  /\ status = [d \in Docs |-> "none"]
  /\ result = [d \in Docs |-> 0]
  /\ pages = [d \in Docs |-> 0]
  /\ insight = [d \in Docs |-> 0]
  /\ jobState = [d \in Docs |-> "none"]
  /\ attemptsMade = [d \in Docs |-> 0]
  /\ stalledCount = [d \in Docs |-> 0]
  /\ lock = [d \in Docs |-> None]
  /\ stage = [r \in Runners |-> "idle"]
  /\ picked = [p \in Procs |-> None]
  /\ reading = [r \in Runners |-> 0]
  /\ calls = [d \in Docs |-> 0]
  /\ crashes = 0

(***************************************************************************)
(* A database statement: it succeeds, or it throws and was applied or not. *)
(***************************************************************************)
DbOutcome(applied, threw) ==
  \/ applied /\ ~threw
  \/ "db" \in Faults /\ threw

-----------------------------------------------------------------------------
(***************************************************************************)
(* UploadService.saveFile                                                  *)
(***************************************************************************)

\* A client posts the file of document d to process p.
PostUpload(d, p) ==
  /\ req[d] = "idle"
  /\ req' = [req EXCEPT ![d] = "validate"]
  /\ host' = [host EXCEPT ![d] = p]
  /\ UNCHANGED <<blob, rowVars, jobVars, runVars, calls, crashes>>

\* Dangerous extension, magic number, declared type or size: all reject.
ValidateFileForUpload(d) ==
  /\ req[d] = "validate"
  /\ \E valid \in BOOLEAN :
       req' = [req EXCEPT ![d] = IF valid THEN "store" ELSE "rejected"]
  /\ UNCHANGED <<host, blob, rowVars, jobVars, runVars, calls, crashes>>

\* Mutant: a failed save is logged and the upload goes on.
UploadToPreferredStorage_GoesOn(d) ==
  /\ req[d] = "store"
  /\ \E left \in {"absent", "partial", "stored"} :
       blob' = [blob EXCEPT ![d] = left]
  /\ req' = [req EXCEPT ![d] = "create"]
  /\ UNCHANGED <<host, rowVars, jobVars, runVars, calls, crashes>>

\* An error here (timeout of the GCS save, signed URL, write error) fails the
\* request; what was sent stays behind, complete or not.
UploadToPreferredStorage(d) ==
  /\ req[d] = "store"
  /\ \/ /\ blob' = [blob EXCEPT ![d] = "stored"]
        /\ req' = [req EXCEPT ![d] = "create"]
     \/ /\ \E left \in {"absent", "partial", "stored"} :
             blob' = [blob EXCEPT ![d] = left]
        /\ req' = [req EXCEPT ![d] = "rejected"]
  /\ UNCHANGED <<host, rowVars, jobVars, runVars, calls, crashes>>

\* withExternalCall gives up on a GCS save after 10 s but does not cancel it.
LateSave(d) ==
  /\ blob[d] = "partial"
  /\ blob' = [blob EXCEPT ![d] = "stored"]
  /\ UNCHANGED <<req, host, rowVars, jobVars, runVars, calls, crashes>>

SaveDocumentMetadata(d) ==
  /\ req[d] = "create"
  /\ \E applied, threw \in BOOLEAN :
       /\ DbOutcome(applied, threw)
       /\ status' = [status EXCEPT ![d] = IF applied THEN "pending" ELSE @]
       /\ req' = [req EXCEPT ![d] = IF threw THEN "rejected" ELSE "enqueue"]
  /\ UNCHANGED <<host, blob, result, pages, insight, jobVars, runVars, calls,
                 crashes>>

RunInline(d) ==
  /\ req' = [req EXCEPT ![d] = "inline"]
  /\ stage' = [stage EXCEPT ![d] = "mark"]

AddJob(d) == jobState' = [jobState EXCEPT ![d] = "waiting"]

\* Mutant: no return after a successful add, OCR also runs inline.
EnqueueOcrJob_FallsThrough(d) ==
  /\ req[d] = "enqueue"
  /\ AddJob(d)
  /\ RunInline(d)
  /\ UNCHANGED <<host, blob, rowVars, attemptsMade, stalledCount, lock, picked,
                 reading, calls, crashes>>

\* Mutant: an error of queue.add is logged and nothing runs inline.
EnqueueOcrJob_OnlyLogs(d) ==
  /\ req[d] = "enqueue"
  /\ AddJob(d) \/ ("add" \in Faults /\ UNCHANGED jobState)
  /\ req' = [req EXCEPT ![d] = "respond"]
  /\ UNCHANGED <<host, blob, rowVars, attemptsMade, stalledCount, lock, runVars,
                 calls, crashes>>

EnqueueOcrJob(d) ==
  /\ req[d] = "enqueue"
  /\ \/ /\ UseOcrQueue
        /\ AddJob(d)
        /\ req' = [req EXCEPT ![d] = "respond"]
        /\ UNCHANGED stage
     \/ /\ ~UseOcrQueue \/ "add" \in Faults
        /\ RunInline(d)
        /\ UNCHANGED jobState
     \/ /\ UseOcrQueue /\ "added" \in Faults
        /\ AddJob(d)
        /\ RunInline(d)
  /\ UNCHANGED <<host, blob, rowVars, attemptsMade, stalledCount, lock, picked,
                 reading, calls, crashes>>

\* Mutant: an error of the inline run never reaches saveFile.
InlineReturns_ErrorLost(d) ==
  /\ req[d] = "inline"
  /\ stage[d] = "ack"
  /\ req' = [req EXCEPT ![d] = "respond"]
  /\ stage' = [stage EXCEPT ![d] = "idle"]
  /\ UNCHANGED <<host, blob, rowVars, jobVars, picked, reading, calls, crashes>>

\* processOcrInline returned (or rethrew) into saveFile.
InlineReturns(d) ==
  /\ req[d] = "inline"
  /\ stage[d] \in {"ack", "nack"}
  /\ req' = [req EXCEPT ![d] = IF stage[d] = "ack" THEN "respond"
                               ELSE "rejected"]
  /\ stage' = [stage EXCEPT ![d] = "idle"]
  /\ UNCHANGED <<host, blob, rowVars, jobVars, picked, reading, calls, crashes>>

\* trackUploadSuccess (errors swallowed) and the answer to the client.
BuildUploadResult(d) ==
  /\ req[d] = "respond"
  /\ req' = [req EXCEPT ![d] = "accepted"]
  /\ UNCHANGED <<host, blob, rowVars, jobVars, runVars, calls, crashes>>

SaveFile(d) ==
  \/ ValidateFileForUpload(d)
  \/ UploadToPreferredStorage(d)
  \/ SaveDocumentMetadata(d)
  \/ EnqueueOcrJob(d)
  \/ InlineReturns(d)
  \/ BuildUploadResult(d)

-----------------------------------------------------------------------------
(***************************************************************************)
(* Bull: delivery to a worker, and what it does with a finished, failed or *)
(* stalled job.  A worker whose lock was taken can no longer move its job. *)
(***************************************************************************)

DeliverJob(p, d) ==
  /\ stage[p] = "idle"
  /\ jobState[d] = "waiting"
  /\ jobState' = [jobState EXCEPT ![d] = "active"]
  /\ lock' = [lock EXCEPT ![d] = p]
  /\ stage' = [stage EXCEPT ![p] = "check"]
  /\ picked' = [picked EXCEPT ![p] = d]
  /\ UNCHANGED <<requestVars, rowVars, attemptsMade, stalledCount, reading,
                 calls, crashes>>

\* Mutant: one attempt too many.
AfterFailedAttempt_OffByOne(n) == IF n <= MaxAttempts THEN "delayed" ELSE "failed"

\* Where a job goes after its n-th failed attempt (attempts, backoff).
AfterFailedAttempt(n) == IF n < MaxAttempts THEN "delayed" ELSE "failed"

ReleaseWorker(p) ==
  /\ stage' = [stage EXCEPT ![p] = "idle"]
  /\ picked' = [picked EXCEPT ![p] = None]

\* The handler returned: the job is removed (removeOnComplete).
JobCompleted(p) ==
  /\ stage[p] = "ack"
  /\ LET d == picked[p] IN
       IF lock[d] = p
       THEN /\ jobState' = [jobState EXCEPT ![d] = "removed"]
            /\ lock' = [lock EXCEPT ![d] = None]
       ELSE UNCHANGED <<jobState, lock>>
  /\ ReleaseWorker(p)
  /\ UNCHANGED <<requestVars, rowVars, attemptsMade, stalledCount, reading,
                 calls, crashes>>

\* The handler threw: one attempt is used up.
JobFailed(p) ==
  /\ stage[p] = "nack"
  /\ LET d == picked[p] IN
       IF lock[d] = p
       THEN /\ attemptsMade' = [attemptsMade EXCEPT ![d] = @ + 1]
            /\ jobState' = [jobState EXCEPT
                              ![d] = AfterFailedAttempt(attemptsMade[d] + 1)]
            /\ lock' = [lock EXCEPT ![d] = None]
       ELSE UNCHANGED <<attemptsMade, jobState, lock>>
  /\ ReleaseWorker(p)
  /\ UNCHANGED <<requestVars, rowVars, stalledCount, reading, calls, crashes>>

\* The exponential backoff of a failed job has elapsed.
BackoffElapsed(d) ==
  /\ jobState[d] = "delayed"
  /\ jobState' = [jobState EXCEPT ![d] = "waiting"]
  /\ UNCHANGED <<requestVars, rowVars, attemptsMade, stalledCount, lock,
                 runVars, calls, crashes>>

\* The process holding the lock of d no longer runs it.
Orphaned(d) == lock[d] # None /\ picked[lock[d]] # d

\* Bull's stalled-job check: the lock was not renewed in time.
JobStalled(d) ==
  /\ jobState[d] = "active"
  /\ Orphaned(d) \/ "stall" \in Faults
  /\ stalledCount' = [stalledCount EXCEPT ![d] = @ + 1]
  /\ jobState' = [jobState EXCEPT
                    ![d] = IF stalledCount[d] < MaxStalled THEN "waiting"
                           ELSE "failed"]
  /\ lock' = [lock EXCEPT ![d] = None]
  /\ UNCHANGED <<requestVars, rowVars, attemptsMade, runVars, calls, crashes>>

-----------------------------------------------------------------------------
(***************************************************************************)
(* OcrProcessor.handleExtractText / UploadService.processOcrInline and the *)
(* VisionService calls they make.  An exception at any await goes to the   *)
(* catch block, stage "fail".                                              *)
(***************************************************************************)

\* Mutants: no idempotency check; a check that also skips what another
\* delivery has merely begun.
AlreadyCompleted_Never(d) == FALSE
AlreadyCompleted_OrBegun(d) == status[d] \in {"completed", "processing"}

\* Idempotency check of the processor.
AlreadyCompleted(d) == status[d] = "completed"

CheckCompleted(p) ==
  /\ stage[p] = "check"
  /\ \E threw \in BOOLEAN :
       /\ DbOutcome(TRUE, threw)
       /\ stage' = [stage EXCEPT
                      ![p] = IF threw THEN "fail"
                             ELSE IF AlreadyCompleted(picked[p]) THEN "ack"
                             ELSE "mark"]
  /\ UNCHANGED <<requestVars, rowVars, jobVars, picked, reading, calls,
                 crashes>>

MarkProcessing(r) ==
  /\ stage[r] = "mark"
  /\ \E applied, threw \in BOOLEAN :
       /\ DbOutcome(applied, threw)
       /\ status' = [status EXCEPT
                       ![Target(r)] = IF applied THEN "processing" ELSE @]
       /\ stage' = [stage EXCEPT ![r] = IF threw THEN "fail" ELSE "extract"]
  /\ UNCHANGED <<requestVars, result, pages, insight, jobVars, picked, reading,
                 calls, crashes>>

\* Read the source and call Vision: text, or an error (no text, timeout, ...).
ExtractText(r) ==
  /\ stage[r] = "extract"
  /\ calls' = [calls EXCEPT ![Target(r)] = @ + 1]
  /\ \/ /\ reading' = [reading EXCEPT ![r] = calls[Target(r)] + 1]
        /\ stage' = [stage EXCEPT ![r] = "saveResult"]
     \/ /\ stage' = [stage EXCEPT ![r] = "fail"]
        /\ UNCHANGED reading
  /\ UNCHANGED <<requestVars, rowVars, jobVars, picked, crashes>>

SaveOcrResult(r) ==
  /\ stage[r] = "saveResult"
  /\ \E applied, threw \in BOOLEAN :
       /\ DbOutcome(applied, threw)
       /\ result' = [result EXCEPT
                       ![Target(r)] = IF applied THEN reading[r] ELSE @]
       /\ stage' = [stage EXCEPT ![r] = IF threw THEN "fail" ELSE "savePages"]
       /\ reading' = [reading EXCEPT ![r] = IF threw THEN 0 ELSE @]
  /\ UNCHANGED <<requestVars, status, pages, insight, jobVars, picked, calls,
                 crashes>>

\* Mutant: an error while saving the pages is logged and swallowed.
SaveOcrPages_Swallows(r) ==
  /\ stage[r] = "savePages"
  /\ \E applied, threw \in BOOLEAN :
       /\ DbOutcome(applied, threw)
       /\ pages' = [pages EXCEPT
                      ![Target(r)] = IF applied THEN reading[r] ELSE @]
  /\ stage' = [stage EXCEPT ![r] = "insights"]
  /\ UNCHANGED <<requestVars, status, result, insight, jobVars, picked, reading,
                 calls, crashes>>

\* One transaction: delete the old pages, create the new ones.
SaveOcrPages(r) ==
  /\ stage[r] = "savePages"
  /\ \E applied, threw \in BOOLEAN :
       /\ DbOutcome(applied, threw)
       /\ pages' = [pages EXCEPT
                      ![Target(r)] = IF applied THEN reading[r] ELSE @]
       /\ stage' = [stage EXCEPT ![r] = IF threw THEN "fail" ELSE "insights"]
       /\ reading' = [reading EXCEPT ![r] = IF threw THEN 0 ELSE @]
  /\ UNCHANGED <<requestVars, status, result, insight, jobVars, picked, calls,
                 crashes>>

\* Best effort: skipped without an API key or for short texts, errors logged.
GenerateDocumentInsights(r) ==
  /\ stage[r] = "insights"
  /\ \E upserted \in BOOLEAN :
       insight' = [insight EXCEPT
                     ![Target(r)] = IF upserted THEN reading[r] ELSE @]
  /\ stage' = [stage EXCEPT ![r] = "complete"]
  /\ reading' = [reading EXCEPT ![r] = 0]
  /\ UNCHANGED <<requestVars, status, result, pages, jobVars, picked, calls,
                 crashes>>

MarkCompleted(r) ==
  /\ stage[r] = "complete"
  /\ \E applied, threw \in BOOLEAN :
       /\ DbOutcome(applied, threw)
       /\ status' = [status EXCEPT
                       ![Target(r)] = IF applied THEN "completed" ELSE @]
       /\ stage' = [stage EXCEPT ![r] = IF threw THEN "fail" ELSE "ack"]
  /\ UNCHANGED <<requestVars, result, pages, insight, jobVars, picked, reading,
                 calls, crashes>>

\* Mutant: the catch block leaves the row to the retry.
MarkFailed_RowUntouched(r) ==
  /\ stage[r] = "fail"
  /\ stage' = [stage EXCEPT ![r] = "nack"]
  /\ UNCHANGED <<requestVars, rowVars, jobVars, picked, reading, calls, crashes>>

\* The catch block; it rethrows whether or not its own update succeeds.
MarkFailed(r) ==
  /\ stage[r] = "fail"
  /\ \E applied, threw \in BOOLEAN :
       /\ DbOutcome(applied, threw)
       /\ status' = [status EXCEPT
                       ![Target(r)] = IF applied THEN "failed" ELSE @]
  /\ stage' = [stage EXCEPT ![r] = "nack"]
  /\ UNCHANGED <<requestVars, result, pages, insight, jobVars, picked, reading,
                 calls, crashes>>

OcrRun(r) ==
  \/ MarkProcessing(r)
  \/ ExtractText(r)
  \/ SaveOcrResult(r)
  \/ SaveOcrPages(r)
  \/ GenerateDocumentInsights(r)
  \/ MarkCompleted(r)
  \/ MarkFailed(r)

\* @Process('extract-text'): the worker of process p.
HandleExtractText(p) ==
  \/ CheckCompleted(p)
  \/ JobCompleted(p)
  \/ JobFailed(p)

-----------------------------------------------------------------------------
(***************************************************************************)
(* A process dies (and is restarted): its requests and its OCR runs are    *)
(* gone, the database, the blobs and the queue stay.  The lock of its job  *)
(* stays in Redis until the stalled-job check finds it.                    *)
(***************************************************************************)
Crash(p) ==
  /\ crashes < MaxCrashes
  /\ crashes' = crashes + 1
  /\ LET hit == {d \in Docs : host[d] = p /\ req[d] \in InFlight} IN
       /\ req' = [d \in Docs |-> IF d \in hit THEN "lost" ELSE req[d]]
       /\ stage' = [r \in Runners |->
                      IF r = p \/ r \in hit THEN "idle" ELSE stage[r]]
       /\ reading' = [r \in Runners |->
                        IF r = p \/ r \in hit THEN 0 ELSE reading[r]]
  /\ picked' = [picked EXCEPT ![p] = None]
  /\ UNCHANGED <<host, blob, rowVars, jobVars, calls>>

Next ==
  \/ \E d \in Docs, p \in Procs : PostUpload(d, p) \/ DeliverJob(p, d)
  \/ \E d \in Docs : SaveFile(d) \/ LateSave(d) \/ BackoffElapsed(d)
                       \/ JobStalled(d)
  \/ \E r \in Runners : OcrRun(r)
  \/ \E p \in Procs : HandleExtractText(p) \/ Crash(p)

Spec == Init /\ [][Next]_vars

(***************************************************************************)
(* Node's event loop runs every awaited continuation, Bull polls its queue *)
(* and its delayed set, and its stalled-job check runs periodically.       *)
(* Uploads, late GCS saves, crashes and lock losses of a live worker are   *)
(* not promised.                                                           *)
(***************************************************************************)
Fairness ==
  /\ \A d \in Docs :
       /\ WF_vars(SaveFile(d))
       /\ WF_vars(BackoffElapsed(d))
       /\ WF_vars(\E p \in Procs : DeliverJob(p, d))
       /\ WF_vars(Orphaned(d) /\ JobStalled(d))
  /\ \A r \in Runners : WF_vars(OcrRun(r))
  /\ \A p \in Procs : WF_vars(HandleExtractText(p))

FairSpec == Spec /\ Fairness

-----------------------------------------------------------------------------
(***************************************************************************)
(* Properties                                                              *)
(***************************************************************************)

\* Every variable has its type; attempts and stalls stay in the budget Bull
\* is configured with.
TypeOK ==
  /\ req \in [Docs -> ReqStates]
  /\ host \in [Docs -> Procs \cup {None}]
  /\ blob \in [Docs -> {"absent", "partial", "stored"}]
  /\ status \in [Docs -> Statuses]
  /\ result \in [Docs -> Nat]
  /\ pages \in [Docs -> Nat]
  /\ insight \in [Docs -> Nat]
  /\ jobState \in [Docs -> JobStates]
  /\ attemptsMade \in [Docs -> 0..MaxAttempts]
  /\ stalledCount \in [Docs -> 0..(MaxStalled + 1)]
  /\ lock \in [Docs -> Procs \cup {None}]
  /\ stage \in [Runners -> Stages]
  /\ picked \in [Procs -> Docs \cup {None}]
  /\ reading \in [Runners -> Nat]
  /\ calls \in [Docs -> Nat]
  /\ crashes \in Nat

\* A document whose row says 'completed' has both its OCR text and its pages
\* in the database, whatever crashes, duplicate deliveries and failed
\* statements happened (handleExtractText and processOcrInline write the
\* status last, persistOcrArtifacts writes text and pages separately).
CompletedHasArtifacts ==
  \A d \in Docs : status[d] = "completed" => result[d] # 0 /\ pages[d] # 0

\* What a later step looks up was written by an earlier one: a row refers to a
\* stored blob, a queued job and a running OCR refer to a row, an insight is
\* only kept for a document that has text and pages.
NoDanglingReference ==
  \A d \in Docs :
    /\ status[d] # "none" => blob[d] = "stored"
    /\ jobState[d] # "none" => status[d] # "none"
    /\ (\E r \in Runners : Running(r, d)) => status[d] # "none"
    /\ insight[d] # 0 => result[d] # 0 /\ pages[d] # 0

\* A document costs at most attempts + maxStalledCount Vision calls, plus one
\* when the request also ran OCR inline because the answer of queue.add was
\* lost: retries, stalled jobs and duplicate runs together stay bounded.
VisionCallBudget ==
  \A d \in Docs :
    calls[d] <= MaxAttempts + MaxStalled
                  + (IF "added" \in Faults THEN 1 ELSE 0)

\* Two OCR runs never work on one document at the same time.  The processor
\* and the inline fallback take no lock of their own: this rests on Bull's lock
\* and on queue.add either storing the job or throwing.
ExclusiveRun ==
  \A r1, r2 \in Runners :
    stage[r1] # "idle" /\ stage[r2] # "idle" /\ Target(r1) = Target(r2)
      => r1 = r2

\* What the queue, the client and the row say about a document agrees once
\* nothing is in flight: a removed job and an inline upload that was answered
\* mean 'completed', a job out of attempts means 'failed'.
OutcomesAgree ==
  \A d \in Docs :
    /\ jobState[d] = "removed" => status[d] = "completed"
    /\ jobState[d] = "failed" => status[d] = "failed"
    /\ req[d] = "accepted" /\ jobState[d] = "none" => status[d] = "completed"

\* Bull may have taken the lock of d from a worker that went on with it.
LockTaken(d) == "stall" \in Faults /\ stalledCount[d] > 0

\* A document that is left half way, with no job that will pick it up and no request
\* working on it, is never left so silently: its request died with the process or
\* was answered with an error, or Bull keeps its job as failed.  A failing statement,
\* the catch block's own update included, a job given up for its stalls and a refused
\* queue.add all show in one of these; an accepted upload whose job was removed as
\* done is not half way.  The one exception is a document whose lock Bull took from
\* a live worker: what that worker does after the job is gone, nobody is told.
StrandedIsReported ==
  \A d \in Docs :
    status[d] \in {"pending", "processing"} =>
      \/ jobState[d] \in {"waiting", "active", "delayed"}
      \/ req[d] \in {"enqueue", "inline"}
      \/ req[d] \in {"lost", "rejected"}
      \/ jobState[d] = "failed"
      \/ LockTaken(d)

\* The processor's comment "Idempotency: if already completed, skip.": once a
\* document is completed no later delivery changes its row.
CompletedIsStable ==
  [][\A d \in Docs : status[d] = "completed" => status'[d] = "completed"]_vars

\* Every upload is answered, unless the process serving it dies.
EveryUploadAnswered ==
  \A d \in Docs :
    (req[d] = "validate") ~> (req[d] \in {"accepted", "rejected", "lost"})

\* Every accepted document ends, for good, as 'completed' or 'failed' with no
\* job left to run: retries, backoff and the recovery of stalled jobs end.
AcceptedSettles ==
  \A d \in Docs :
    (req[d] = "accepted") ~>
      [](/\ status[d] \in {"completed", "failed"}
         /\ jobState[d] \in {"none", "removed", "failed"})

(***************************************************************************)
(* What a document looks like to the rest of the system: see OcrLifecycle. *)
(***************************************************************************)
phase == [d \in Docs |-> CASE status[d] = "none" -> "absent"
                            [] status[d] = "completed" -> "published"
                            [] OTHER -> "open"]

text == [d \in Docs |-> IF status[d] = "completed" /\ result[d] = pages[d]
                         THEN result[d] ELSE 0]

Lifecycle == INSTANCE OcrLifecycle WITH Texts <- Nat \ {0}

\* The pipeline implements the document lifecycle: text and pages of ONE Vision
\* call appear together, once, and never change or disappear afterwards.
ImplementsLifecycle == Lifecycle!Spec
=============================================================================
