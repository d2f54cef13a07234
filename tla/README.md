# TLA+ models of the Study Oasis application

Study Oasis is a study assistant: a NestJS API (`apps/api`) and a Next.js client
(`apps/web`). A user uploads a document, the API stores it, runs OCR on it (in a
Bull queue or inline), the user chats about it with a language model, and works
in timed *focus sessions* that end with a score. This directory holds TLA+ models
of the parts of the program whose correctness depends on the order of steps,
their TLC configurations, and TLAPS proofs.

`PROJECT.json` lists components, runs, mutants, hazards, theorems, and maps every
definition to the source lines it models.

## 1. Inventory

Paths are relative to `src/apps/api/src` (API) or `src/apps/web` (client).

| Component | State | Operations | Hard behaviour | What makes it correct |
|---|---|---|---|---|
| Upload service `upload/upload.service.ts` | blob (GCS or disk), `Document` row | `saveFile`: validate, store, create row, enqueue or OCR inline, answer | three systems written in sequence; `queue.add` may fail either way; timeouts that do not cancel; crash between steps | no row without blob, no job without row; the answer agrees with the row; every upload is answered |
| OCR queue `ocr/ocr-queue.module.ts`, processor `ocr/ocr.processor.ts` | Bull job (attempts, lock, stalls), `Document.ocrStatus` | `handleExtractText`: check, mark, OCR, mark completed / failed, rethrow | at-least-once delivery, stalled live workers, crash before ack, failing catch block | 'completed' is backed by data; published data is stable; retries are bounded and end |
| Vision service `ocr/vision.service.ts` | `OcrResult`, `OcrPage`, `DocumentInsight` | `extractText…`, `persistOcrArtifacts` (text, then pages, then insight) | three writes without a common transaction; order of the PDF output files | text and pages of one call appear together |
| Status endpoint `upload/upload.controller.ts` | none | `getDocumentInfo` | derives the status from another table | reports what the pipeline maintains |
| External calls `common/utils/external-call.util.ts` | none | `withExternalCall` | the loser of the race goes on running | late effects harm nothing |
| Focus service `focus/focus.service.ts` | `FocusSession`, `FocusDistraction` | `createSession`, `updateSession`, `completeSession`, `logDistraction` | read, then write in later statements, overlapping requests | counters match rows; the end is recorded as one; the score describes the session |
| Focus score `focus/focus.service.ts`, `focus/constants/focus-score.constants.ts` | none (pure) | `calculateFocusScore` | caps, thresholds, falsy 0, rounding | in range, monotone |
| Chat service `chat/chat.service.ts` | `Conversation`, `Message` | `chat`, `chatStream`, `deleteConversation` | history read before the model call, unawaited saves, deletion during a call, stream chunks cut inside an event | question and answer saved in order and as a pair; the stored reply is what was streamed |
| Chat store `stores/chat.store.ts`, `app/chat/hooks/useChatLogic.ts` | message list, conversation id, loading flag, URL | `sendMessage`, `uploadAndProcessFile`, `startNewConversation`, `clearConversation`, `clearAllConversationsState`, `selectConversation`, `loadSessionFromStorage`, effects that persist | requests that nothing aborts write to the list as it then is, rollback by position, two renders with different URLs | a reply stands after its question; a session goes on in the conversation it shows; screen and storage agree |
| Browser storage `lib/storage.ts` | `localStorage` lists | save, update in place, evict, delete, expire | bounds, duplicate ids | bounded, one session per file, the one in use is not evicted |
| Focus mode `app/chat/components/FocusMode.tsx`, `stores/focus.store.ts` | flags, session id, requests under way | start, pause, resume, finalize, leave the page | toggled while a request is in flight, one `loading` flag for all requests | no session stays open unseen; each ends |
| OCR page `app/ocr/hooks/useOcrLogic.ts` | flags, bounded history, poll calls | upload, poll, retry, clear, delete from history | history captured by a closure, polling against slow OCR | no entry lost, entries are true, polling ends |
| Upload page `stores/upload.store.ts` | upload state, history | upload | none of its own | not modelled |
| Response cache `common/interceptors/cache.interceptor.ts` | key, response, expiry | `intercept` | writes do not invalidate; a slow `set` overtakes a newer one | not-ready is never cached; staleness ends |
| Gamification `gamification/gamification.service.ts` | none (reads session rows) | `getUserProgress` | duplicates, gaps, window of 30 sessions | agrees with what a streak is |
| Notifications | none (texts from three queries) | | | not modelled |
| Analytics, auth, metrics, logging, health, pages | rows / external / display | | errors swallowed or delegated | not modelled, see section 7 |
| `.redis` | | | third-party source | not modelled |

Interaction: the controller calls `saveFile`, which talks to storage, database and
queue; the queue calls the processor in some API process; processor and inline
path share the Vision service and the rows; the endpoint, the chat service
(`getDocumentContext`) and the client read the rows. Focus sessions only share the
database. The chat page, the focus mode and the OCR page run in the browser and meet
the API only through requests; the GETs of documents pass the response cache.

## 2. Modules

| Module | Content |
|---|---|
| `OcrLifecycle` | abstract: a document is created, later its text is published, once |
| `OcrPipeline` | upload service, queue, processor, Vision persistence; all properties |
| `MCOcrPipeline` | TLC instance (symmetry) |
| `OcrPipelineProofs` | its layered invariants, the refinement, the Vision call budget and the outcome of a document, as theorems |
| `FocusScore` | `calculateFocusScore` as an operator |
| `FocusSession` | overlapping requests on one session, uses `FocusScore` |
| `FocusSessionProofs` | its invariants as theorems |
| `ChatServer` | chat, stream and delete calls over conversation and message rows |
| `SseStream` | framing of streamed replies: provider, server, client |
| `ChatStore` | the chat page: store, effects, stored sessions |
| `FocusMode` | the focus mode component and its requests against the session rows |
| `HttpCache` | the response cache in front of the document endpoints |
| `OcrPage` | the OCR page polling through `HttpCache` (a composition: it extends it) |
| `Gamification`, `PdfPages` | streaks, points, average score and badges; order and numbering of PDF pages, as operators |
| `MCAlgorithms` | builds inputs for `FocusScore`, `Gamification` and `PdfPages`, with their reference definitions |
| `MCFocusSession`, `MCChatServer` | TLC instances |
| `ChatServerProofs`, `ChatStoreProofs`, `FocusModeProofs`, `OcrPageProofs`, `SseStreamProofs` | inductive invariants and theorems of the module in their name; `OcrPageProofs` also those of `HttpCache` |
| `AlgorithmsProofs` | the score is in range and monotone; when the stored page numbers of a PDF are right; what the streaks of the window are |

Operators whose name has an underscore and a suffix (`SaveOcrPages_Swallows`) are
*mutants*: the definition as a plausible bug would have it. They are not part of
any specification; substituting one must break the property `PROJECT.json` pairs
it with.

### 2.1 OcrPipeline and the code

One upload request per document `d`, served by process `host[d]`. Each process
also runs one OCR worker. An action ends where the code awaits, so requests,
workers and crashes interleave exactly at awaits.

| State | Code |
|---|---|
| `req[d]` | how far `saveFile` is; `accepted` / `rejected` = answered, `lost` = its process died |
| `blob[d]` | the stored file; `partial` = a GCS save that timed out and still runs |
| `status[d]` | `Document.ocrStatus`, `none` = no row |
| `result[d]`, `pages[d]`, `insight[d]` | the three artifacts; the number says which Vision call they came from, 0 = never written (a page transaction may write an empty list) |
| `jobState`, `attemptsMade`, `stalledCount`, `lock` | the Bull job (external) |
| `stage[r]`, `picked[p]`, `reading[r]` | the await an OCR run is at, its job, the text it holds; a runner is a process (worker) or a document (inline run) |

`ValidateFileForUpload` … `BuildUploadResult` are the steps of `saveFile`;
`CheckCompleted` … `MarkFailed` those of `handleExtractText` and, from
`MarkProcessing` on, of `processOcrInline`, whose try/catch is the same. A
database statement (`DbOutcome`) succeeds, or with fault class `db` throws having
been applied or not. `EnqueueOcrJob` has one disjunct per outcome of `queue.add`.
Bull is external and modelled by what the code relies on: delivery with a lock,
`attempts` with backoff, removal on completion, and the stalled-job check, which
takes the lock from a dead worker or (fault class `stall`) from a live one.

Abstracted: names, MIME types, URLs, the text itself (only the identity of the
Vision call is kept), analytics events (their errors are swallowed), logging.
Validation is a nondeterministic verdict.

### 2.2 FocusSession and the code

`session` is the row, `distraction` counts the `FocusDistraction` rows by type.
Each request `q` reads the row (`ReadSession`, which also takes `now`), then writes
in later steps: `UpdateSessionWrite` for `updateSession` / `completeSession`,
`LogDistractionCreate` and `LogDistractionCount` for the two statements of
`logDistraction`. An update statement writes only the fields it names, an
increment is applied by the database to the current row. Ownership checks are left
out (they answer with an error and change nothing); `questionsAsked` and
`completionProofId` are overwritten like `pauseCount` and left out.

`FocusScore` keeps the score as an exact fraction. The code computes the ratio
penalty in floating point; the two can differ by one when the exact value is
within rounding error of a half.

### 2.3 ChatServer and the code

`conv` and `messages` are the tables; a request `q` is at the await `pc[q]`. `chat`
goes through `SaveUserMessage` and `SaveAssistantMessage` before it answers;
`chatStream` answers in `StreamEnds` and leaves both inserts in `saves[q]`, which
`SaveSettles` finishes in any order. The foreign key of `Message` and its
`onDelete: Cascade` are in `CreateMessage` and `DeleteRows`. `history[q]` is what
`findLastN` returned, newest first. `after[q]` is a history variable: the requests on
the same conversation that had been answered when `q` was made and, for streams, whose
two inserts had landed by then. Hint level, prompts
and document context are left out. Two inserts are ordered by when they land; equal
millisecond timestamps are not modelled.

### 2.4 SseStream and the code

A `data: {json}` line is cut into its beginning, its rest and the newline, and a chunk
may end after any of them. `Parsed` is what `split('\n')`, `startsWith('data: ')` and
`JSON.parse` leave of a text: the tokens of whole lines. `ServerReceives` applies it to
each chunk by itself, `ClientReceives` to its buffer and the chunk up to the last
newline. `cut` is a history variable: the tokens in whose line a chunk of the provider
ended. Errors of the stream are in `ChatServer`.

### 2.5 ChatStore and the code

`store` holds the fields of `useChatStore` that decide something, the URL, the requests
under way (`flights`) and the stored sessions. The store is a module-level object: it
survives client-side navigation (`OpenChat`) and is lost by `Reload`. The signal of
the AbortController is never passed to `fetch`, so clearing or switching stops no request;
a request ends in `StreamEnds`, `ChatAnswered` or `RequestFails` and writes to the list
as it is by then. React runs the effects of `useChatLogic` after a change of the store,
before anything else can happen to it, so every action ends with `Effects`: persist the
list as the session of the document, then send the initial message of the URL if the list
is empty. A replaced URL may be rendered once with its old value (`WithUrl`,
`UploadArrives`). `useChatLogic` puts `currentDocumentId` back to the document of the
URL, so the model keeps one of the two. Left out: streamed text, banners, the document
panel, dates (expiry is `ForgetSession`). One upload runs at a time: a second one, which the
end of another request would let in by clearing `isLoading`, is past the bound.

A message carries the conversation it belongs to: a question the one its request names (0 when
it asks the server to open a new one), a reply the one the server answered in.

`strayed` is a history variable: the list was replaced while a request ran, or the initial
message joined a running request. What holds then is nothing: the reply is appended to
the new list and a failure takes that list's last message.

### 2.6 FocusMode and the code

`page` is the component and its store, `rows` the status of the sessions. A request is
sent, handled (`ServerHandles`, with or without its effect when it fails) and answered in
three steps, in any order with others. `Effect` is the effect on `isActive` and
`sessionStarted`. A completion begins with the upload of the proof (`SubmitWork`), during which
the dialog stays open but answers to other requests may still close it or take the session away;
`ProofUploaded` then calls `finalizeSession` for whatever session there is, and switches focus
mode off when there is none or it is being ended already; after `ProofFails` the dialog can be submitted
again. The focus store has one `loading` flag that every answer clears, so a button may be
enabled again while another request is under way: `raced` records the sessions this lets
a pause reach while they are being ended, and those that begin to be ended while a pause or resume of
theirs is under way. `excused` records the sessions the client loses
track of: creations that overlap, failed requests, a page left (nothing ends the
session then; the `beforeunload` handler only asks for confirmation). Left out: timers (the one that closes the
dialog again 1.5 s after a success included), durations, distraction counts, a second proof while
one is uploaded, and leaving the page during that upload or between the two requests of a completion. The statements behind an update are
in `FocusSession`.

### 2.7 HttpCache, OcrPage and the code

A GET looks up its key (`Ask`), on a miss the handler reads the database (`Handle`), and
the answer is sent while `cacheManager.set` is still to happen (`Fill`). The 404 of a
text that is not ready is an exception and is not stored. `text` is the `OcrResult` row,
which a later run may write again; `written` records every text written for a document.
`OcrPage` adds `useOcrLogic`: each `fetchOcrResult` call keeps the history of the render
it was created in (`snap`, for an upload `clicked`), counts its attempts and ends with the text,
an error or the last attempt. `ideal` is the history as it would be without stale
copies, `crossed` whether the list changed or another call began while one ran. Left out:
the image, progress, copying of text, leaving the page, a second tab.

### 2.8 The algorithms

`Gamification` and `PdfPages` keep the loops of the code as recursive functions.
`MCAlgorithms` builds their inputs step by step, so that TLC also checks what one more event
does. Days are numbers: the code's day strings are ISO dates of `startTime`, whose
differences are whole days. The score of a completed session is never null, because the
statement that writes 'completed' writes the score too (`focus.service.ts:86-95`). A page number of a PDF is compared as the digits of its
file name.

## 3. Runs

| Run | Instance | Checks |
|---|---|---|
| `ocr_faults` | 1 document, 2 processes, 2 attempts, 1 stall, 1 crash, all fault classes | `TypeOK`, `CompletedHasArtifacts`, `NoDanglingReference`, `VisionCallBudget`, `StrandedIsReported` |
| `ocr_crash` | 1 document, 2 processes, 3 attempts, 2 crashes, 2 stalls, `queue.add` may throw, fairness | `ExclusiveRun`, `OutcomesAgree`, `ImplementsLifecycle`, `EveryUploadAnswered`, `AcceptedSettles` |
| `ocr_idempotency` | violated | `CompletedIsStable` |
| `focus` | 3 overlapping requests, clock 0 / 60 / 120 s, failing statements | `TypeOK`, `CountersMatchRows`, `EndRecordedTogether` |
| `focus_score` | violated | `ScoreReflectsSession` |
| `focus_mode` | 2 sessions, failing requests, fairness | `TypeOK`, `OpenSessionsAreShown`, `ScreenAgrees`, `EndedStaysEnded`, `OffEndsSessions` |
| `chat` | 3 overlapping chat, stream and delete calls on 1 conversation, window of 3 messages, failing statements, 1 crash | `TypeOK`, `AnsweredChatIsRecorded`, `NoReplyWithoutQuestion`, `ContextIsKept`, `DeletedLeavesNothing` |
| `sse` | 4 tokens, every way to cut both streams, fairness | `ClientFollowsServer`, `ReplyMissesOnlyCut`, `StreamCompletes` |
| `chat_store` | 2 questions, 2 documents (1 uploaded before) and the general chat, 2 stored sessions, 1 retry | `TypeOK`, `RepliesAreInPlace`, `StoredSessionsAgree`, `ReloadRestoresScreen` |
| `chat_history` | violated | `HistoryIsKept` |
| `ocr_page` | 2 documents, 2 texts, 2 polling calls of 2 attempts, history of 2, TTL of 2 ticks, fairness | `TypeOK`, `PublishedIsServed`, `HistoryIsPublished`, `HistoryIsComplete`, `InfoCatchesUp`, `UploadEnds` |
| `algorithms` | scores past every cap; 6 sessions, window of 4; 12 pages, 3 blank | `ScoreInRange`, `WorseNeverScoresHigher`, `StreaksMissOnlyOldDays`, `PageNumbersRightUpToNine` |

Bounds. Two processes are enough for a zombie worker beside its successor. Documents
share no rows and meet only in waiting for a worker, so the OCR runs have one; the proofs of
section 5 have any number. In `ocr_faults` a crash and a worker that loses
its lock are more than the one stall Bull tolerates, so jobs are also given up. Three attempts and two crashes
give a first run, a redelivery after a crash, a second crash, and a retry after a
failure. `OutcomesAgree` and `AcceptedSettles` rest on `MaxCrashes <= MaxStalled`: with more
crashes than tolerated stalls Bull fails the job without calling the processor, and the
row keeps 'processing'. With the queue switched off
(`UseOcrQueue = FALSE`) every upload takes the path it takes when `queue.add` throws,
which the runs include; the proofs cover both settings.

In `chat_store` two questions let one overtake, fail or join the other, and three
chats for two stored sessions make one fall off the end. Two sessions in `focus_mode`
are an old one still being ended beside a new one. In `ocr_page` the second call is a retry, or a second
upload; each text is written once, so two texts are two documents or one
rewritten; a TTL of two ticks lets entries of different age exist together. The window of
30 sessions is 4 in `algorithms`, exceeded by two, and 12 pages put three two-digit numbers
among the files. Deadlock is not checked: each of these systems may come
to rest when every request is answered and the user does nothing more.

What holds:

- With every fault class at once, 'completed' is written only after text and pages
  (status last), references never dangle, and Vision calls stay within
  `attempts + maxStalledCount` (+ 1 if the answer of `queue.add` may be lost).
- If `queue.add` is truthful and statements do not fail, then crashes included, one
  document never has two OCR runs at once, and the pipeline implements
  `OcrLifecycle`: text and pages of one call, published together, never changed.
- With every fault class, a document left 'pending' or 'processing' that nobody works on any more
  shows somewhere: its request died or was answered with an error, or Bull keeps its job as
  failed. This covers a crash between the row and `queue.add`, an update of the catch block that
  fails too, and a job given up for its stalls. Excepted is a document whose lock
  Bull took from a live worker: what that worker leaves behind, nobody is told.
- However requests on a focus session overlap, its counters equal the distraction
  rows less those not (or unsuccessfully) counted, and end, duration and score are
  all present or all absent.
- Switching focus mode off before its session exists, or on and off while it is being
  ended, leaves no session open; an ended one is reopened only by a pause that was under
  way when it began to be ended, or that another answer made possible.
- A chat that was answered is recorded, question before reply, unless its conversation
  was deleted, and every later call sends it to the model, as it does a stream
  once its inserts have landed. A deleted conversation stays empty whatever was under way.
- The client shows exactly the tokens the server collected, however the stream is cut,
  and the server loses exactly the tokens in whose line a provider chunk ended.
- What is on the chat screen, and the conversation it goes on in, is what a reload would bring back.
  While the user stays in a conversation until it is answered, each reply stands after its question, and a list
  whose messages name a conversation is kept under the id of that one.
- A poll sent after the text was saved gets it, whatever is cached; stale document info
  goes away; the OCR history holds only texts written for their document, and loses none
  unless calls cross; an upload ends.
- The score is in range and monotone. The streaks are those of all the sessions, cut off at the day
  of the thirtieth latest. Every page of a PDF with text is stored once, and all of them under their own number
  exactly when they are the first m pages, m <= 9.

What does not (findings in `PROJECT.json`):

- `CompletedIsStable`: the idempotency check reads the status once, before the OCR.
  A worker considered stalled passes it, the job is redelivered and completed, and
  the first worker then writes 'processing' or 'failed' over 'completed'.
- `ScoreReflectsSession`: `updateSession` scores the row it read before writing the
  duration, so a session that ends for the first time scores 50.
- `HistoryIsKept`: choosing a conversation from the history shows its messages, and the
  effect that restores the document of the URL then saves them over that document's own
  session. Opening the chat of another document by client-side navigation does the same
  with the messages of the old one, because nothing is loaded again.

Three more findings are recorded with a property that holds. Each states exactly
how far the code does what is said of it, so that the rest is where it does not:

- `StreaksMissOnlyOldDays`: `docs/implementation/PHASE_2_GAMIFICATION_PLAN.md:27-28` tracks consecutive
  days with a completed session, without a window. The code reads the latest 30 sessions: a
  streak that began earlier is reported as the days since the thirtieth latest session, and shrinks when more
  sessions a day are completed.
- `PageNumbersRightUpToNine`: prompts cite pages by `pageNumber`, and 'page 3' of a question
  is matched with it (`chat/helpers/document-context.helper.ts`). From the tenth page with text
  on, page 10 of a PDF is stored before page 2, and after a blank page the numbers are not those of the document.
- `StoredSessionsAgree`: the stored id is the 'Backend conversation ID for context persistence'
  (`lib/storage.ts:65`), but `saveSession` changes it only when it is given one. The first question of a new
  conversation is stored under the file's old id, and after a reload before the reply the next question
  goes to the old conversation. The property leaves out exactly the lists that name no conversation.

Behaviour no comment or document speaks about, which a reader of the code should know
and the properties are worded around:

- `getDocumentInfo` says 'completed' once the OCR text exists, while the row may say
  'processing', or 'failed' when saving the pages failed.
- A stream is answered before its two inserts have run: a message sent at once may be
  answered without it, and errors of the inserts are only logged.
- The server parses each chunk of the provider by itself and drops an event that a chunk
  boundary cuts; the client's own reader keeps a buffer.
- A crash between the row and `queue.add` leaves the document 'pending', and a second failure in
  the catch block, or more stalls than Bull tolerates, leave it 'processing'; nothing looks for such rows.
- The current streak is not compared with today: an old streak stays current.
- An active time of 0 counts as fully active, so the last second of activity lost raises the
  score; `WorseNeverScoresHigher` leaves that step out.
- A reply that arrives after the list was replaced is applied to the new list (`strayed`); entries of
  the OCR history added or deleted while a poll runs are undone when it ends (`crossed`).

## 4. Fairness

`FairSpec` assumes weak fairness of: the steps of a request and of an OCR run (Node
runs every continuation whose promise settles; the calls have timeouts, except the
wait for a PDF operation, which is assumed to end), delivery of a waiting job, the
end of a backoff, and the stalled-job check for a job whose worker is gone (Bull
polls for all three). Not assumed: uploads, crashes, late GCS saves, and stalls of
live workers. The number of crashes is bounded, as liveness needs. The liveness run
`ocr_crash` has no `db`, `added` or `stall` fault: with a failing catch block, or a second stall,
the row may keep 'processing' for good, which no comment or document excludes.

`SseStream` assumes weak fairness of its next-state relation: the sockets deliver what was
sent and both ends read it.

`FocusMode` assumes that every request is handled and answered, and the upload of a proof ends, if only by an
error (fetch settles), and nothing about the user. `OcrPage` assumes that a poll goes on, its
request is served, an upload is answered, `cacheManager.set` arrives and entries expire; not
that the pipeline ever writes a text or that anybody clicks.

## 5. Proofs

`OcrPipelineProofs`, proved for every value of the constants that
satisfies `PipelineAssumption`. The invariants are layered, each proved inductive
from the ones before it:

1. `TypeInv`: `TypeOK`, a busy worker has a job, and `QueueInv`. The bound on
   `attemptsMade` is not inductive alone: a job that can still run must have an
   attempt left, and the same for stalls. Theorem `TypeCorrect`.
2. `ArtifactInv`: a run past a write implies the write (a run at `insights` has
   text and pages, one at `complete` too, and a held reading is never 0). From it
   `CompletedIsPersisted`: 'completed' is written only from `complete`, and
   artifacts are never deleted.
3. `ReferenceInv`: how far a request or run has come determines what exists.
   Theorem `ReferencesHold`.
4. `ExclusiveInv`: a worker on `d` holds the lock of `d`, an inline run means there
   is no job. Theorem `RunsAreExclusive`, assuming `ReliableQueue` (no `added`, no
   `stall` fault).
5. `CoherentInv`: what status and readings say at each stage of the one run, for
   `PipelineRefinesLifecycle` (assuming `OnlyAddFails`): every step of the pipeline is
   a step of `OcrLifecycle` or leaves `phase` and `text` unchanged.

Layers 1 to 3 hold with every fault class; 4 and 5 need their assumption, as the
run `ocr_idempotency` shows.

`FocusSessionProofs`, from `FocusAssumption` (finitely many requests, and a `Null` that is
neither a number nor a row):

1. `TypeInv`: `TypeOK` and `RequestInv`, what a request holds at each await (the row it
   read, the kind of call) and that the row exists once a request has read it. With
   `ScoreType`, that the score of any row is within 0..100, it gives `TypeCorrect`.
2. `EndIsRecordedTogether`: `EndRecordedTogether` is inductive beside `TypeInv`; only an
   update whose status ends the session writes the three fields, and it writes all.
3. `CountersAreExact`: `CounterInv` adds that a session not yet created has no
   distractions. Each of the two statements of `logDistraction` moves its request into or
   out of the uncounted ones (`UncountedAdd`, `UncountedRemove`).

The last part of `OcrPipelineProofs` goes on from its layers:

1. `VisionCallsAreBounded`, under every fault class: `CallInv` counts, for each document,
   the calls made and the runs still to make one (`ToCall`) against the deliveries of its
   job. Every delivery ends as one attempt, one stall or the removal of the job, and the
   worker behind it makes at most one call, even when its lock was taken meanwhile; an
   inline run adds one, besides a job only where the answer of `queue.add` was lost.
   `BudgetSpent` closes the gap between deliveries and the bound.
2. `OutcomesAlwaysAgree`, assuming `OnlyAddFails` and
   `RecoverableCrashes` (`MaxCrashes <= MaxStalled`, see section 3): `CrashInv` says that each
   stall of a job was a crash, so Bull never gives a job up for its stalls; `OutcomeInv`
   that a run about to return or to rethrow has written the row accordingly, which nobody
   else can change because runs are exclusive.
3. `NothingStrandsSilently`, under every fault class: `StrandedInv` says that a worker holds the lock of
   an active job or that Bull took it (`HoldsOrLost`), that a worker about to return has settled the
   row, unless an inline run of the document has written to it since (`ReturnsSettled`), and that no document is left half way silently (`NoneSilent`). A worker
   with its lock ends its job as completed only after the row says so, and every other end of a job is
   kept as failed.

`ChatServerProofs`, from `ChatAssumption`:

1. `TypeInv`: `TypeOK` and `RequestInv`, what a request at each await is and refers to.
   Theorem `TypeCorrect`.
2. `RecordInv`: besides the three properties, that messages come from requests that were
   made (`Owned`) and that a chat about to save its reply has saved its question, unless
   the conversation is gone (`Asked`). Theorems `DeletionIsFinal`, `RepliesHaveQuestions`,
   `AnswersAreRecorded`: an insert needs a live conversation (the foreign key), a deletion
   takes all its messages (the cascade), and nothing else takes any.
3. `ContextInv`: what a request must know of is stored when it is about to read the
   history (`Known`), so the window of the newest messages has it or is full. Theorem
   `ContextKept`.

`FocusModeProofs`, from `FocusModeAssumption`. `ModeInv` is one invariant of ten named parts
that need each other: at most one `finalizeSession` has a request under way and
`finalizingRef` says so (`EndingIsExclusive`); an open session is on screen, about to be, or
recorded as lost or raced (`OpenIsKnown`); a pause meets the end of its session only where
`raced` says so (`PausesRace`); while nothing was lost or raced, requests follow each other
and the button agrees with the row (`ButtonAgrees`). Nothing in it depends on the dialog being
open: the session that a proof completes is the one on screen when it arrives. From it `TypeCorrect`,
`NoSessionIsLeftOpen`, `ScreenShowsRow` and the action property `NoSessionReopens`.

`OcrPageProofs`, from `CacheAssumption` and `OcrPageAssumption`:

1. `HttpInv`: rows, cache entries and writes to the cache under way hold texts that were
   written, and a request made after the text was saved finds one. Theorem
   `PollingSeesTheText`.
2. `PageInv`: the list and every copy of it are bounded and name no document twice. Theorem
   `TypeCorrect`.
3. `CopiesArePublished` and, for `~crossed`, `CopiesAreCurrent`: the stale copies that polling
   calls and an upload hold are true, and up to date as long as calls do not cross. Theorems
   `SavedIsPublished`, `NothingIsLost`.

`ChatStoreProofs`, from `ChatStoreAssumption`. `StoreInv`: `TypeOK`; the list on screen is
the stored session of the URL, with its conversation id once it has one (`Restorable`); and while nothing `strayed`, every list has its
replies in place and names its conversation (`StoreSound`), a running request is the only one
and its question, asked in the conversation on screen, ends the list (`Tied`), and an upload runs alone. `Tied` is what makes the
properties inductive: a reply is appended, and a failure takes the last message, by position.
Every action ends with `Effects`, so most lemmas are about stores between an action and its
effects. Theorems `TypeCorrect`, `RepliesFollowQuestions`, `SessionsNameTheirConversation`,
`ReloadBringsBackScreen`.

`SseStreamProofs`, from `StreamAssumption`: replies of any length and chunks of any size.
Neither property is inductive, because a chunk may end in the middle of a line. `IInv` has
three parts:

1. `ServerInv`: what the server has not received is the end of the reply's events, so the
   number of pieces received (`Consumed`) says where in which line the server is.
2. `ReplyInv`: what it has collected is the reply up to that place without the cut tokens. A
   token is cut as soon as a chunk ends in its line, before the rest of the line arrives.
3. `ClientInv`: the client's buffer and the wire together are whole events, of the tokens
   still to be shown; what is shown, and those, are what the server collected; the completion
   event is the last.

The lemmas under it are about texts: `Parsed` and `Without` collect elements position by
position (`Collected`), so their values on a concatenation, on events (`Parsed` undoes
`Events`) and on a chunk between two cuts follow. Theorems `StreamInvariant`,
`ClientFollowsServerHolds`, `ReplyMissesOnlyCutHolds`, and `CompletionIsExact`, the safety half
of `StreamCompletes`: a client that has stopped reading shows what the server saved.

`AlgorithmsProofs`, from `BoundsAssumption` and `TakeAssumption`:

1. `ScoresAreInRange` and `WorseIsNotBetter` for any durations and counts. The lemmas are the
   monotonicity of integer division, of the penalties with their caps, and of the score in
   penalty and activity.
2. `PageNumbersAreRightUpToNine` for any number of pages and any of them blank. Different numbers have
   different digits (`DigitsInjective`), so the order of file names is a strict total order
   (`NameTransitive`, `NameTotal`); the number of names before a page's own is therefore a
   different one for each page, and by counting every number below the page count is one of
   them (`RankSurjective`): `SortedFiles` lists every page once. Below ten pages names
   compare as numbers (`OneDigit`), and page 10 comes before page 2 (`TenBeforeTwo`). The loop that
   skips blank pages keeps the rest, in order (`Holds`), so the pages get their own numbers only as the
   numbers 1..m in ascending order (`AscendingIsIdentity`).
3. `StreaksAreCutOff` for any completed sessions. The list of days is falling and holds
   every day once (`Lists`). In such a list a block of linked days that the list or a gap ends is
   the run of its first day (`BlockIsRun`), and there is only one such run (`RunIs`). The
   loop invariants are `CountsTo` for the current streak and `Tracks` for the longest: what
   the loop has put aside bounds the runs of the blocks that ended, and is one of
   them. The days that are read are all the days since the oldest session read (`DaysRead`), and a run of
   those is the run of all the days cut off there (`RunCut`). The points are a fold over a set, in an order nobody chose; `PointsOf` sums in the
   order of the list and `FoldIs` shows that the order does not matter.

The loops and filters of `OcrPage`, `ChatStore`, `SseStream`, `Gamification` and `PdfPages` are
recursive functions. That such a function exists and what it computes is shown by induction
(for the loops of the algorithms once, in `LoopExists`), and `Induction`, stated for a set of
numbers, is derived from the well-foundedness of `<`: the smallest number outside the set
would be a contradiction.

Every invariant and every action property that a passing run checks is a theorem, and so is the
refinement of `OcrLifecycle`. Only model-checked are the properties that need fairness, out of
the prover's reach: `EveryUploadAnswered`, `AcceptedSettles`, `StreamCompletes`,
`OffEndsSessions`, `InfoCatchesUp`, `UploadEnds`.

## 6. Plan

The modules, runs and theorems planned for the components of section 1 are there. What could
be added to the models: leaving the page in `OcrPage`, and during a completion in `FocusMode`;
overlapping uploads in `ChatStore`.

## 7. Not modelled

Authentication (delegated to Supabase, no state of its own), analytics (write-once
rows whose errors every caller swallows), notifications (texts computed from three
queries), the upload page (a sequential form; its successor is `OpenChat` of
`ChatStore`), configuration, export and statistics of the browser storage, metrics,
logging, health and alerts (observation only), rendering, and deployment scripts.

The repository carries the source of Redis 7.2.4 under `.redis`. It is third-party code
that the application only uses as a server, so it is not modelled; the part of it the
application relies on, through Bull, is in the external actions of `OcrPipeline`. All the
C code of the repository is there; the application itself is TypeScript, and the map names
its lines only.
