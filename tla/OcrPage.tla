------------------------------- MODULE OcrPage -------------------------------
(***************************************************************************)
(* The OCR page of the web client (useOcrLogic): it uploads an image,      *)
(* polls GET /upload/documents/:id/ocr until the text is there and keeps a *)
(* history of results, in React state and localStorage together.  The      *)
(* polls go through HttpCache; another page reads the info of documents.   *)
(*                                                                         *)
(* A handler runs with the values of the render it was created in: the     *)
(* history that saveToHistory extends is the one of the moment the upload  *)
(* or the retry was clicked.                                               *)
(***************************************************************************)
EXTENDS HttpCache, Sequences

CONSTANTS
  MaxPolls,    \* bound: calls of fetchOcrResult
  Reader,      \* the page that reads document info
  MaxAttempts, \* maxRetries
  MaxHistory,  \* MAX_HISTORY
  NoDoc

Polls == 1..MaxPolls

ASSUME OcrPageAssumption ==
  /\ MaxPolls \in Nat
  /\ Clients = Polls \cup {Reader} /\ Reader \notin Polls
  /\ MaxAttempts \in Nat \ {0} /\ MaxHistory \in Nat \ {0}
  /\ NoDoc \notin Docs

VARIABLES
  uploading, processing,  \* the two flags of the page
  image,                  \* uploadedImage
  result,                 \* ocrResult: the document it is shown for, or NoDoc
  history,                \* ocrHistory and localStorage, newest first
  clicked,                \* the history handleUpload was called with
  poll,                   \* the fetchOcrResult calls
  ideal,                  \* history: what the list would be without stale copies
  crossed                 \* history: the list changed, or another call began,
                          \* while a call was running

pageVars == <<uploading, processing, image, result, history, clicked, poll,
              ideal, crossed>>
vars == <<httpVars, pageVars>>

NoPoll == [state |-> "unused", doc |-> NoDoc, left |-> 0, snap |-> <<>>,
           upload |-> FALSE]

Running == \E p \in Polls : poll[p].state = "running"

Init ==
  /\ HttpInit
  /\ uploading = FALSE /\ processing = FALSE
  /\ image = NoDoc /\ result = NoDoc
  /\ history = <<>> /\ clicked = <<>> /\ ideal = <<>>
  /\ poll = [p \in Polls |-> NoPoll]
  /\ crossed = FALSE

-----------------------------------------------------------------------------
\* ocrHistory.filter(item => item.documentId !== documentId), entry by entry.
Without(h, d) ==
  LET kept[i \in 0..Len(h)] ==
        IF i = 0 THEN <<>>
        ELSE IF h[i].doc = d THEN kept[i - 1] ELSE Append(kept[i - 1], h[i])
  IN  kept[Len(h)]

Shortened(h)  == IF Len(h) <= MaxHistory THEN h ELSE SubSeq(h, 1, MaxHistory)

\* Mutant: an older entry of the document stays.
Saved_Twice(h, d, t) == Shortened(<<[doc |-> d, text |-> t]>> \o h)

\* saveToHistory: the new entry in front, the first entry of every document kept,
\* and no more than MAX_HISTORY.
Saved(h, d, t) == Shortened(<<[doc |-> d, text |-> t]>> \o Without(h, d))

\* Mutant: the callback is memoized once, with the history of the first render.
Snapshot_First == <<>>

\* useCallback with [ocrHistory]: the history of the current render.
Snapshot == history

\* The list the history variable keeps, as long as it says anything.
Ideally(h) == ideal' = IF crossed' THEN <<>> ELSE h

\* The form needs a selected file, no image on screen and neither flag set.
HandleUpload ==
  /\ ~uploading /\ ~processing /\ image = NoDoc
  /\ \E d \in Docs : d \notin exists
  /\ \E p \in Polls : poll[p].state = "unused"
  /\ uploading' = TRUE
  /\ result' = NoDoc
  /\ clicked' = Snapshot
  /\ crossed' = (crossed \/ Running)
  /\ Ideally(ideal)
  /\ UNCHANGED <<httpVars, processing, image, history, poll>>

\* fetchOcrResult begins.
Begins(p, d, snap, upload) ==
  /\ poll[p].state = "unused" /\ \A q \in 1..(p - 1) : poll[q].state # "unused"
  /\ poll' = [poll EXCEPT ![p] = [state |-> "running", doc |-> d,
                                  left |-> MaxAttempts, snap |-> snap,
                                  upload |-> upload]]
  /\ processing' = TRUE

\* An upload under way, not yet polling.
Sending == uploading /\ ~\E p \in Polls : poll[p].state = "running" /\ poll[p].upload

UploadAnswered(p, d) ==
  /\ Sending
  /\ CreateDocument(d)
  /\ image' = d
  /\ Begins(p, d, clicked, TRUE)
  /\ clicked' = <<>>
  /\ UNCHANGED <<cache, get, fills, uploading, result, history, ideal, crossed>>

UploadFailed ==
  /\ Sending
  /\ uploading' = FALSE
  /\ clicked' = <<>>
  /\ UNCHANGED <<httpVars, processing, image, result, history, poll, ideal, crossed>>

\* handleRetryOcr: the button is there while a result is shown and nothing is
\* processed, and does something while there is an image.
HandleRetryOcr(p) ==
  /\ result # NoDoc /\ ~processing /\ image # NoDoc
  /\ Begins(p, image, Snapshot, FALSE)
  /\ crossed' = (crossed \/ uploading \/ Running)
  /\ Ideally(ideal)
  /\ UNCHANGED <<httpVars, uploading, image, result, history, clicked>>

PollAsks(p) ==
  /\ poll[p].state = "running"
  /\ Ask(p, <<"ocr", poll[p].doc>>)
  /\ UNCHANGED pageVars

\* The end of fetchOcrResult, and of handleUpload when that waits for it.
Ends(p) ==
  /\ poll' = [poll EXCEPT ![p] = [NoPoll EXCEPT !.state = "ended"]]
  /\ processing' = FALSE
  /\ uploading' = (uploading /\ ~poll[p].upload)

Answered(p) ==
  /\ get[p].step = "answered"
  /\ get' = [get EXCEPT ![p] = NoGet]
  /\ UNCHANGED <<rows, cache, fills>>

\* A text: it is shown and saved, whatever is on the page by now.
PollSucceeds(p) ==
  /\ Answered(p) /\ get[p].value # NotReady
  /\ result' = poll[p].doc
  /\ history' = Saved(poll[p].snap, poll[p].doc, get[p].value)
  /\ UNCHANGED crossed
  /\ Ideally(Saved(ideal, poll[p].doc, get[p].value))
  /\ Ends(p)
  /\ UNCHANGED <<image, clicked>>

\* Mutant: the attempts are not counted.
PollWaits_Forever(p) ==
  /\ Answered(p) /\ get[p].value = NotReady
  /\ UNCHANGED pageVars

\* 404: the next attempt, and after the last one an error.
PollWaits(p) ==
  /\ Answered(p) /\ get[p].value = NotReady
  /\ \/ /\ poll[p].left > 1
        /\ poll' = [poll EXCEPT ![p].left = @ - 1]
        /\ UNCHANGED <<processing, uploading>>
     \/ poll[p].left = 1 /\ Ends(p)
  /\ UNCHANGED <<image, result, history, clicked, ideal, crossed>>

\* Any other error ends the call.
PollFails(p) ==
  /\ Answered(p)
  /\ Ends(p)
  /\ UNCHANGED <<image, result, history, clicked, ideal, crossed>>

\* handleClearResult does not stop the poll.
HandleClearResult ==
  /\ image # NoDoc
  /\ image' = NoDoc /\ result' = NoDoc /\ processing' = FALSE
  /\ UNCHANGED <<httpVars, uploading, history, clicked, poll, ideal, crossed>>

HandleDeleteHistory(d) ==
  /\ \E i \in DOMAIN history : history[i].doc = d
  /\ history' = Without(history, d)
  /\ crossed' = (crossed \/ uploading \/ Running)
  /\ Ideally(Without(ideal, d))
  /\ UNCHANGED <<httpVars, uploading, processing, image, result, clicked, poll>>

HandleClearAllHistory ==
  /\ history # <<>>
  /\ history' = <<>> /\ ideal' = <<>>
  /\ crossed' = (crossed \/ uploading \/ Running)
  /\ UNCHANGED <<httpVars, uploading, processing, image, result, clicked, poll>>

ReaderAsks(d) ==
  /\ Ask(Reader, <<"info", d>>)
  /\ UNCHANGED pageVars

PollStep(p) == PollAsks(p) \/ PollSucceeds(p) \/ PollWaits(p) \/ PollFails(p)

Next ==
  \/ HandleUpload \/ UploadFailed
  \/ \E p \in Polls :
       \/ \E d \in Docs : UploadAnswered(p, d)
       \/ HandleRetryOcr(p)
       \/ PollStep(p)
  \/ HandleClearResult \/ HandleClearAllHistory
  \/ \E d \in Docs : HandleDeleteHistory(d)
  \/ \E d \in InfoDocs : ReaderAsks(d)
  \/ HttpStep /\ UNCHANGED pageVars

Spec == Init /\ [][Next]_vars

\* A poll asks, is served and goes on, an upload is answered; what the user does,
\* and the pipeline, need not happen.
FairSpec ==
  /\ Spec
  /\ HttpFairness
  /\ \A p \in Polls : WF_vars(PollStep(p) \/ (Handle(p) /\ UNCHANGED pageVars))
  /\ WF_vars(UploadFailed \/ \E p \in Polls, d \in Docs : UploadAnswered(p, d))

-----------------------------------------------------------------------------
(***************************************************************************)
(* Properties                                                              *)
(***************************************************************************)

Entries == [doc : Docs, text : Texts]

\* Every variable has its type; the history has no document twice and no more than
\* MAX_HISTORY entries.
TypeOK ==
  /\ HttpTypeOK
  /\ uploading \in BOOLEAN /\ processing \in BOOLEAN /\ crossed \in BOOLEAN
  /\ image \in Docs \cup {NoDoc} /\ result \in Docs \cup {NoDoc}
  /\ \A h \in {history, clicked, ideal} :
       /\ h \in Seq(Entries) /\ Len(h) <= MaxHistory
       /\ \A i, j \in DOMAIN h : h[i].doc = h[j].doc => i = j
  /\ DOMAIN poll = Polls
  /\ \A p \in Polls : poll[p].state \in {"unused", "running", "ended"}

\* What the page saved for a document is a text the pipeline wrote for it and not
\* another document's, whichever poll, retry or cache entry it came from.
HistoryIsPublished ==
  \A i \in DOMAIN history : history[i].text \in written[history[i].doc]

\* No result is lost and no deleted entry comes back, as long as the list is left
\* alone and no second call begins while one is running: only then is the copy of
\* the list a call was created with out of date when it is written back.
HistoryIsComplete == ~crossed => history = ideal

\* The page does not wait for ever: an upload ends, with a text, an error or the
\* last attempt.
UploadEnds == uploading ~> ~uploading
=============================================================================
