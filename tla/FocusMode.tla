------------------------------ MODULE FocusMode ------------------------------
(***************************************************************************)
(* The focus mode of the chat page: the React component FocusMode, the     *)
(* focus store it calls the API with, the switch in ChatPage and the       *)
(* completion dialog.  The API is seen through its session rows: create    *)
(* makes an active one, an update overwrites the status whatever it was    *)
(* (FocusSession models the statements behind it).                         *)
(*                                                                         *)
(* A request is sent, handled by the server and answered in steps of their *)
(* own; requests in progress together are handled and answered in any      *)
(* order.  The open dialog covers the page, so nothing else can be clicked *)
(* while it is up.                                                         *)
(***************************************************************************)
EXTENDS Naturals, FiniteSets

CONSTANTS
  MaxSessions, \* bound: sessions created
  Faults       \* whether requests may fail, before or after their effect

ASSUME FocusModeAssumption ==
  /\ MaxSessions \in Nat \ {0}
  /\ Faults \in BOOLEAN

Ids == 1..MaxSessions

Open  == {"active", "paused"}
Ended == {"completed", "abandoned"}

\* What the requests write into the row; "duration" is the update that precedes
\* a completion and leaves the status alone.
Writes == [create |-> "active", pause |-> "paused", resume |-> "active",
           abandon |-> "abandoned", complete |-> "completed"]

Kinds == DOMAIN Writes \cup {"duration"}

Requests == [kind : Kinds, session : Ids, state : {"sent", "ok", "error"},
             mounted : BOOLEAN]

Pages ==
  [active     : BOOLEAN,         \* focusModeActive of ChatPage
   started    : BOOLEAN,         \* sessionStarted
   ref        : Ids \cup {0},    \* sessionIdRef.current, 0 for null
   finalizing : BOOLEAN,         \* finalizingRef.current
   paused     : BOOLEAN,         \* isPaused
   loading    : BOOLEAN,         \* loading of the focus store
   dialog     : BOOLEAN,         \* showCompletionModal
   requests   : SUBSET Requests,
   created    : 0..MaxSessions]  \* sessions asked for

VARIABLES
  page,    \* the component and its store
  proof,   \* whether the completion dialog is uploading a proof
  rows,    \* the status of every session in the database
  excused, \* history: sessions the client may lose track of
  raced    \* history: sessions a pause or resume may reach while they are ended

vars == <<page, proof, rows, excused, raced>>

Init ==
  /\ page = [active |-> FALSE, started |-> FALSE, ref |-> 0, finalizing |-> FALSE,
             paused |-> FALSE, loading |-> FALSE, dialog |-> FALSE,
             requests |-> {}, created |-> 0]
  /\ proof = FALSE
  /\ rows = [s \in Ids |-> "none"]
  /\ excused = {}
  /\ raced = {}

-----------------------------------------------------------------------------
(***************************************************************************)
(* Requests and the effect on [isActive, sessionStarted]                   *)
(***************************************************************************)

Request(kind, s) == [kind |-> kind, session |-> s, state |-> "sent", mounted |-> TRUE]

Calls(p, kind, s) ==
  [p EXCEPT !.loading = TRUE, !.requests = @ \cup {Request(kind, s)}]

\* initializeSession: createSession.  (A session past the bound is not asked for.)
InitializeSession(p) ==
  IF p.created = MaxSessions THEN p
  ELSE [Calls(p, "create", p.created + 1) EXCEPT !.created = @ + 1]

\* finalizeSession: nothing without a session or while it is already running.
FinalizeSession(p, first) ==
  IF p.ref = 0 \/ p.finalizing THEN p
  ELSE [Calls(p, first, p.ref) EXCEPT !.finalizing = TRUE]

\* Mutant: the effect depends on isActive alone, so a session that starts after
\* focus mode was switched off is not ended.
Effect_ActiveOnly(p) ==
  CASE p.active /\ ~p.started -> InitializeSession(p)
    [] ~p.active /\ p.started /\ p.ref = page.ref -> FinalizeSession(p, "abandon")
    [] OTHER -> p

\* The effect, which runs when isActive or sessionStarted has changed.
Effect(p) ==
  CASE p.active /\ ~p.started -> InitializeSession(p)
    [] ~p.active /\ p.started -> FinalizeSession(p, "abandon")
    [] OTHER -> p

\* Mutant: finalizingRef is not released.
ResetSession_Locked(p) ==
  [p EXCEPT !.started = FALSE, !.ref = 0, !.paused = FALSE, !.dialog = FALSE]

\* Mutant: the pause button is not reset.
ResetSession_KeepsPaused(p) ==
  [p EXCEPT !.started = FALSE, !.ref = 0, !.dialog = FALSE, !.finalizing = FALSE]

\* The finally block of finalizeSession: finalizingRef is released and
\* resetSession forgets the session.
ResetSession(p) ==
  [p EXCEPT !.started = FALSE, !.ref = 0, !.paused = FALSE, !.dialog = FALSE,
            !.finalizing = FALSE]

-----------------------------------------------------------------------------
(***************************************************************************)
(* History: what a step excuses                                            *)
(***************************************************************************)

Pending(p, kinds) == {r.session : r \in {x \in p.requests : x.mounted /\ x.kind \in kinds}}

\* Two creations under way: the answer that comes last takes the place of the
\* other session.
Overlaps ==
  LET c == Pending(page', {"create"})
  IN  IF Cardinality(c) > 1 THEN c ELSE {}

\* A session that begins to be finalized while its pause or resume is under way,
\* or that is being finalized when the answer to another request ends loading.
Races ==
  {s \in Pending(page', {"abandon", "duration", "complete"}) :
     \/ /\ s \notin Pending(page, {"abandon", "duration", "complete"})
        /\ s \in Pending(page, {"pause", "resume"})
     \/ ~page'.loading}

Records(lost) ==
  /\ excused' = excused \cup lost \cup Overlaps
  /\ raced' = raced \cup Races

-----------------------------------------------------------------------------
(***************************************************************************)
(* What the user does                                                      *)
(***************************************************************************)

\* onToggleFocusMode in the header of the page.
ToggleFocusMode ==
  /\ ~page.dialog
  /\ page' = Effect([page EXCEPT !.active = ~@])
  /\ Records({})
  /\ UNCHANGED <<proof, rows>>

\* Mutant: the button stays enabled while a request runs.
PauseResume_Enabled ==
  /\ page.active /\ page.ref # 0 /\ ~page.dialog
  /\ page' = Calls(page, IF page.paused THEN "resume" ELSE "pause", page.ref)
  /\ Records({})
  /\ UNCHANGED <<proof, rows>>

\* handlePauseResume; the button is disabled while the store is loading.
PauseResume ==
  /\ page.active /\ page.ref # 0 /\ ~page.dialog
  /\ ~page.loading
  /\ page' = Calls(page, IF page.paused THEN "resume" ELSE "pause", page.ref)
  /\ Records({})
  /\ UNCHANGED <<proof, rows>>

\* handleComplete opens the dialog, which can be closed again.
OpenDialog ==
  /\ page.active /\ page.started /\ ~page.loading /\ ~page.dialog
  /\ page' = [page EXCEPT !.dialog = TRUE]
  /\ UNCHANGED <<proof, rows, excused, raced>>

\* submitting of the dialog: from the click until the proof is uploaded and onSubmit
\* has returned.
Submitting == proof \/ Pending(page, {"duration", "complete"}) # {}

CloseDialog ==
  /\ page.dialog /\ ~Submitting
  /\ page' = [page EXCEPT !.dialog = FALSE]
  /\ UNCHANGED <<proof, rows, excused, raced>>

\* handleSubmit of the dialog begins to upload the proof.  (Bound: one at a time.)
SubmitWork ==
  /\ page.dialog /\ ~Submitting
  /\ proof' = TRUE
  /\ UNCHANGED <<page, rows, excused, raced>>

\* The proof has arrived and onSubmit calls finalizeSession('completed') for the session
\* there is by now, the dialog still being open or not.  When that returns at once, the
\* dialog closes and focus mode is switched off.
ProofUploaded ==
  /\ proof
  /\ proof' = FALSE
  /\ page' = IF page.ref # 0 /\ ~page.finalizing THEN FinalizeSession(page, "duration")
             ELSE Effect([page EXCEPT !.dialog = FALSE, !.active = FALSE])
  /\ Records({})
  /\ UNCHANGED rows

\* The dialog shows the error and can be submitted again.
ProofFails ==
  /\ proof /\ Faults
  /\ proof' = FALSE
  /\ UNCHANGED <<page, rows, excused, raced>>

\* Client-side navigation away from the chat: the component is gone, requests go
\* on, and nothing ends the session.  (Leaving while a proof is uploaded, or between
\* the two requests of a completion, is not modelled.)
LeavePage ==
  /\ page.active \/ page.started \/ page.requests # {}
  /\ ~proof /\ Pending(page, {"duration"}) = {}
  /\ page' = [page EXCEPT !.active = FALSE, !.started = FALSE, !.ref = 0,
                          !.finalizing = FALSE, !.paused = FALSE, !.dialog = FALSE,
                          !.requests = {[r EXCEPT !.mounted = FALSE] : r \in @}]
  /\ excused' = excused \cup ({page.ref} \ {0}) \cup Pending(page, {"create"})
  /\ UNCHANGED <<proof, rows, raced>>

-----------------------------------------------------------------------------
(***************************************************************************)
(* The server, and the answers                                             *)
(***************************************************************************)

Written(r) == IF r.kind = "duration" THEN rows
              ELSE [rows EXCEPT ![r.session] = Writes[r.kind]]

Marked(r, state) == [page EXCEPT !.requests = (@ \ {r}) \cup {[r EXCEPT !.state = state]}]

ServerHandles(r) ==
  /\ r.state = "sent"
  /\ \/ rows' = Written(r) /\ page' = Marked(r, "ok")
     \/ Faults /\ rows' \in {rows, Written(r)} /\ page' = Marked(r, "error")
  /\ UNCHANGED <<proof, excused, raced>>

\* Every call of the store ends with loading = false, whatever else is running.
Answered(r) == [page EXCEPT !.requests = @ \ {r}, !.loading = FALSE]

Lost(r) == IF r.state = "error" THEN {r.session} ELSE {}

\* The answer to a request whose component is gone.
AnswerUnmounted(r) ==
  /\ ~r.mounted /\ r.state # "sent"
  /\ page' = Answered(r)
  /\ Records(Lost(r))
  /\ UNCHANGED <<proof, rows>>

Answering(r, kinds) == r.mounted /\ r.kind \in kinds /\ r.state # "sent"

CreateAnswered(r) ==
  /\ Answering(r, {"create"})
  /\ page' = LET p == [Answered(r) EXCEPT !.ref = r.session, !.started = TRUE]
             IN  IF r.state = "error" THEN Answered(r)
                 ELSE IF page.started THEN p
                 ELSE Effect(p)
  /\ Records(Lost(r))
  /\ UNCHANGED <<proof, rows>>

\* setIsPaused after the answer, whatever session is shown by then.
PauseAnswered(r) ==
  /\ Answering(r, {"pause", "resume"})
  /\ page' = IF r.state = "error" THEN Answered(r)
             ELSE [Answered(r) EXCEPT !.paused = r.kind = "pause"]
  /\ Records(Lost(r))
  /\ UNCHANGED <<proof, rows>>

\* The session is abandoned, or could not be: the client forgets it all the same,
\* and starts another one when focus mode is on again.
AbandonAnswered(r) ==
  /\ Answering(r, {"abandon"})
  /\ page' = Effect(ResetSession(Answered(r)))
  /\ Records(Lost(r))
  /\ UNCHANGED <<proof, rows>>

\* Mutant: the session is forgotten between the two requests.
DurationAnswered_Forgets(r) ==
  /\ Answering(r, {"duration"})
  /\ page' = IF r.state = "ok"
             THEN LET p == ResetSession(Answered(r)) IN Calls(p, "complete", p.ref)
             ELSE [ResetSession(Answered(r)) EXCEPT !.active = FALSE]
  /\ Records(Lost(r))
  /\ UNCHANGED <<proof, rows>>

\* The second request of a completion reads sessionIdRef again.  A failed first
\* one ends it.
DurationAnswered(r) ==
  /\ Answering(r, {"duration"})
  /\ page' = IF r.state = "ok" THEN Calls(Answered(r), "complete", page.ref)
             ELSE [ResetSession(Answered(r)) EXCEPT !.active = FALSE]
  /\ Records(Lost(r))
  /\ UNCHANGED <<proof, rows>>

\* finalizeSession returns, the dialog closes and onToggle switches focus mode off.
CompleteAnswered(r) ==
  /\ Answering(r, {"complete"})
  /\ page' = [ResetSession(Answered(r)) EXCEPT !.active = FALSE]
  /\ Records(Lost(r))
  /\ UNCHANGED <<proof, rows>>

Answer(r) ==
  \/ AnswerUnmounted(r) \/ CreateAnswered(r) \/ PauseAnswered(r)
  \/ AbandonAnswered(r) \/ DurationAnswered(r) \/ CompleteAnswered(r)

Next ==
  \/ ToggleFocusMode \/ PauseResume \/ OpenDialog \/ CloseDialog \/ SubmitWork
  \/ ProofUploaded \/ ProofFails \/ LeavePage
  \/ \E r \in page.requests : ServerHandles(r) \/ Answer(r)

Spec == Init /\ [][Next]_vars

\* Every request is answered in the end, if only by an error, whatever else the
\* user does meanwhile.
FairSpec ==
  /\ Spec
  /\ WF_vars(ProofUploaded \/ ProofFails)
  /\ \A kind \in Kinds, s \in Ids :
       WF_vars(\E r \in page.requests :
                 r.kind = kind /\ r.session = s /\ (ServerHandles(r) \/ Answer(r)))

-----------------------------------------------------------------------------
(***************************************************************************)
(* Properties                                                              *)
(***************************************************************************)

\* The component, its store and the rows have their types.
TypeOK ==
  /\ page \in Pages /\ proof \in BOOLEAN
  /\ rows \in [Ids -> Open \cup Ended \cup {"none"}]
  /\ excused \subseteq Ids /\ raced \subseteq Ids

Quiet == page.requests = {}

\* When no request is under way, an open session in the database is the one on
\* screen, and focus mode is on: switching it off before the session exists, or
\* on and off while it is being ended, leaves none behind.  Excused are sessions
\* whose creation overlapped another, whose request failed, or whose page was
\* left, and those a pause under way at the end reopened.
OpenSessionsAreShown ==
  Quiet => \A s \in Ids \ (excused \cup raced) :
             rows[s] \in Open => page.active /\ page.started /\ page.ref = s

\* The reverse: a session on screen has not ended, and the button shows whether it
\* is paused.  After an overlap, a failure or a race this is not so: a late answer
\* sets isPaused of whatever session is shown by then.
ScreenAgrees ==
  Quiet /\ excused \cup raced = {} /\ page.started =>
    rows[page.ref] = IF page.paused THEN "paused" ELSE "active"

\* A session that has ended is opened again only by a pause or resume that was
\* under way when it began to be ended, or that was possible because the answer
\* to another request had released the button.
EndedStaysEnded ==
  [][\A s \in Ids : rows[s] \in Ended /\ rows'[s] \notin Ended => s \in raced]_vars

\* Once focus mode is off for good, every session ends, except the excused ones
\* and those a late pause reopens.
OffEndsSessions ==
  (<>[]~page.active) =>
    <>[](\A s \in Ids \ (excused \cup raced) : rows[s] \notin Open)
=============================================================================
