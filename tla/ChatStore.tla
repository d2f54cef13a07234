------------------------------ MODULE ChatStore ------------------------------
(***************************************************************************)
(* The chat page of the web client: the zustand store useChatStore, the    *)
(* effects of useChatLogic that run after every change of it, and the      *)
(* sessions ChatStorage keeps in localStorage.                             *)
(*                                                                         *)
(* The store is a module-level object: it survives client-side navigation  *)
(* and is lost only when the page is reloaded.  An AbortController is made *)
(* for every request, but its signal is never handed to fetch, so nothing  *)
(* the user does stops a request: it ends on its own and writes to the     *)
(* store as it then is.                                                    *)
(*                                                                         *)
(* useChatLogic forces currentDocumentId back to the document of the URL   *)
(* after every render, so between two actions both are the same, and the   *)
(* model keeps one of them, url.                                           *)
(*                                                                         *)
(* Questions are numbered; the server conversation that question n opens   *)
(* is called n, and 0 stands for no conversation.                          *)
(***************************************************************************)
EXTENDS Naturals, Sequences, FiniteSets

CONSTANTS
  Docs,         \* document ids
  NoDoc,        \* the general chat, which has no document
  Known,        \* the documents uploaded before, on the other pages
  MaxSessions,  \* config.maxChatSessions
  MaxRetries,   \* MAX_RETRIES
  MaxSends      \* bound: questions sent

ASSUME ChatStoreAssumption ==
  /\ NoDoc \notin Docs /\ {"idle", "sending"} \cap Docs = {}
  /\ Known \subseteq Docs
  /\ MaxSessions \in Nat \ {0}
  /\ MaxRetries \in Nat /\ MaxSends \in Nat

VARIABLES
  store,    \* the page: see Stores
  upload,   \* uploadAndProcessFile: "idle", "sending" or the document it polls
  strayed   \* history: the list on screen was replaced while a request ran, or
            \* two requests ran at once

vars == <<store, upload, strayed>>

Files == Docs \cup {NoDoc}
Sends == 1..MaxSends

\* The conversation of a question is the one its request names, 0 when it is to open
\* a new one; that of a reply is the one the server answered in, 0 when it did not say.
Question(n, c) == [kind |-> "question", send |-> n, conv |-> c]
Reply(n, c)    == [kind |-> "reply", send |-> n, conv |-> c]
Uploaded       == [kind |-> "uploaded", send |-> 0, conv |-> 0]
Recognized     == [kind |-> "recognized", send |-> 0, conv |-> 0]

Messages ==
  [kind : {"question", "reply", "uploaded", "recognized"},
   send : 0..MaxSends, conv : 0..MaxSends]

Sessions ==
  [fileId : Files, messages : Seq(Messages), conversationId : 0..MaxSends]

Requests ==
  [send : Sends, conversationId : 0..MaxSends, streaming : BOOLEAN,
   attempts : 1..(MaxRetries + 1)]

Stores ==
  [messages       : Seq(Messages),
   conversationId : 0..MaxSends,
   url            : Files,                       \* documentId or fileId of the URL
   initial        : {"none", "pending", "sent"}, \* initialMessage of the URL
   isLoading      : BOOLEAN,
   flights        : SUBSET Requests,             \* sendMessage calls not yet returned
   sent           : 0..MaxSends,                 \* questions sent so far
   known          : SUBSET Docs,
   stored         : Seq(Sessions),               \* localStorage, newest first
   forgotten      : BOOLEAN]                     \* the screen's session was deleted

Init ==
  /\ store = [messages |-> <<>>, conversationId |-> 0, url |-> NoDoc,
              initial |-> "none", isLoading |-> FALSE, flights |-> {},
              sent |-> 0, known |-> Known, stored |-> <<>>, forgotten |-> FALSE]
  /\ upload = "idle"
  /\ strayed = FALSE

-----------------------------------------------------------------------------
(***************************************************************************)
(* localStorage                                                            *)
(***************************************************************************)

FirstN(s, n) == IF Len(s) <= n THEN s ELSE SubSeq(s, 1, n)

HasSession(s, f) == \E i \in DOMAIN s : s[i].fileId = f
SessionOf(s, f)  == s[CHOOSE i \in DOMAIN s : s[i].fileId = f]

\* sessions.filter(...), entry by entry.
DeleteSession(s, f) ==
  LET kept[i \in 0..Len(s)] ==
        IF i = 0 THEN <<>>
        ELSE IF s[i].fileId = f THEN kept[i - 1] ELSE Append(kept[i - 1], s[i])
  IN  kept[Len(s)]

\* Mutant: a new session is pushed at the end of the list that slice then cuts.
SaveSession_Push(s, f, m, c) ==
  IF HasSession(s, f)
  THEN [i \in DOMAIN s |-> IF s[i].fileId = f
          THEN [s[i] EXCEPT !.messages = m, !.conversationId = IF c # 0 THEN c ELSE @]
          ELSE s[i]]
  ELSE FirstN(Append(s, [fileId |-> f, messages |-> m, conversationId |-> c]), MaxSessions)

\* Mutant: the conversation id of an existing session is left as it is.
SaveSession_KeepId(s, f, m, c) ==
  IF HasSession(s, f)
  THEN [i \in DOMAIN s |-> IF s[i].fileId = f THEN [s[i] EXCEPT !.messages = m] ELSE s[i]]
  ELSE FirstN(<<[fileId |-> f, messages |-> m, conversationId |-> c]>> \o s, MaxSessions)

\* Mutant: the session of the file is not looked for.
SaveSession_Fresh(s, f, m, c) ==
  FirstN(<<[fileId |-> f, messages |-> m, conversationId |-> c]>> \o s, MaxSessions)

\* saveSession: the session of the file is updated where it is, its conversation
\* id only when there is a new one; a session for a new file goes in front, and
\* the last ones fall off.
SaveSession(s, f, m, c) ==
  IF HasSession(s, f)
  THEN [i \in DOMAIN s |-> IF s[i].fileId = f
          THEN [s[i] EXCEPT !.messages = m, !.conversationId = IF c # 0 THEN c ELSE @]
          ELSE s[i]]
  ELSE FirstN(<<[fileId |-> f, messages |-> m, conversationId |-> c]>> \o s, MaxSessions)

-----------------------------------------------------------------------------
(***************************************************************************)
(* The effects that follow a change of the store                           *)
(***************************************************************************)

\* persistSession, when the messages or the document changed: the messages on
\* screen are saved as the session of document f.
Persist(p, f) ==
  IF p.messages = <<>> THEN p
  ELSE [p EXCEPT !.stored = SaveSession(@, f, p.messages, p.conversationId),
                 !.forgotten = FALSE]

\* sendMessage up to its await: the question is shown at once, and the request
\* takes the conversation id with it.
Send(p, streaming) ==
  LET n == p.sent + 1
  IN  [p EXCEPT !.messages = Append(@, Question(n, p.conversationId)),
                !.isLoading = TRUE,
                !.flights = @ \cup {[send |-> n, conversationId |-> p.conversationId,
                                     streaming |-> streaming, attempts |-> 1]},
                !.sent = n]

\* The effect on messages.length sends the initial message of the URL once the
\* list is empty.  (A question past the bound is not sent.)
InitialPrompt(p) ==
  IF p.initial = "pending" /\ p.messages = <<>> /\ p.sent < MaxSends
  THEN Persist(Send([p EXCEPT !.initial = "sent"], TRUE), p.url)
  ELSE p

Effects(p) == InitialPrompt(Persist(p, p.url))

\* The router applies a replaced URL in a transition of its own: the effects may
\* still see the old URL once, and run again with the new one.
WithUrl(p, f, initial) ==
  { Effects([p EXCEPT !.url = f, !.initial = initial]),
    Effects([Effects(p) EXCEPT !.url = f, !.initial = initial]) }

\* The initial message does not look at isLoading: it may join a request.
Joins == (store.flights # {} \/ upload # "idle") /\ store'.sent # store.sent

\* A list replaced while a request runs: the request will write to another one.
Strays == strayed' = (strayed \/ store.flights # {} \/ upload \in Docs \/ Joins)

-----------------------------------------------------------------------------
(***************************************************************************)
(* Asking                                                                  *)
(***************************************************************************)

\* Mutant: the input stays enabled while a request runs.
SendMessage_Enabled(streaming) ==
  /\ store.sent < MaxSends
  /\ store' = Effects(Send(store, streaming))
  /\ UNCHANGED <<upload, strayed>>

\* MessageInput is disabled while isLoading.
SendMessage(streaming) ==
  /\ ~store.isLoading
  /\ store.sent < MaxSends
  /\ store' = Effects(Send(store, streaming))
  /\ UNCHANGED <<upload, strayed>>

\* The end of a request: the finally block.
Returned(p, r) == [p EXCEPT !.flights = @ \ {r}, !.isLoading = FALSE]

\* A stream ends with the completion event, which carries the conversation id
\* only when the server got a reply from the model.  Errors of the server come as
\* a completion event too and are shown as a reply without text.
StreamEnds(r, c) ==
  LET last == IF c = 0 THEN r.conversationId ELSE c
  IN  /\ r.streaming
      /\ store' = Effects([Returned(store, r) EXCEPT
                             !.messages = Append(@, Reply(r.send, last)),
                             !.conversationId = IF @ = 0 THEN last ELSE @])
      /\ UNCHANGED <<upload, strayed>>

\* The server answers in the conversation it was asked for, or in a new one.
Conversation(r) == IF r.conversationId = 0 THEN r.send ELSE r.conversationId

\* The answer of POST /chat.
ChatAnswered(r) ==
  /\ ~r.streaming
  /\ store' = Effects([Returned(store, r) EXCEPT
                         !.messages = Append(@, Reply(r.send, Conversation(r))),
                         !.conversationId = IF r.conversationId = 0 THEN r.send ELSE @])
  /\ UNCHANGED <<upload, strayed>>

\* retryWithBackoff: an answer of 500 or more is tried again.
ChatRetried(r) ==
  /\ ~r.streaming /\ r.attempts <= MaxRetries
  /\ store' = [store EXCEPT !.flights =
                 (@ \ {r}) \cup {[r EXCEPT !.attempts = @ + 1]}]
  /\ UNCHANGED <<upload, strayed>>

\* A failed request takes the last message off the list.
RequestFails(r) ==
  /\ store' = Effects([Returned(store, r) EXCEPT
                         !.messages = FirstN(@, IF @ = <<>> THEN 0 ELSE Len(@) - 1)])
  /\ UNCHANGED <<upload, strayed>>

-----------------------------------------------------------------------------
(***************************************************************************)
(* Uploading a document from the chat                                      *)
(***************************************************************************)

\* uploadAndProcessFile after its validations; the button is disabled while
\* isLoading.  (Bound: one upload at a time.  The end of a request that joined an
\* upload clears isLoading, so the page allows a second one beside the first.)
UploadStarts ==
  /\ ~store.isLoading /\ upload = "idle"
  /\ store.known # Docs
  /\ store' = [store EXCEPT !.isLoading = TRUE]
  /\ upload' = "sending"
  /\ UNCHANGED strayed

\* The upload is answered: a new conversation about the new document, which first
\* renders with the old URL.
UploadArrives(d) ==
  /\ upload = "sending" /\ d \notin store.known
  /\ LET fresh == [store EXCEPT !.messages = <<Uploaded>>, !.conversationId = 0,
                                !.known = @ \cup {d}]
     IN  store' \in { Effects([fresh EXCEPT !.url = d]),
                      Effects([Effects(Persist(fresh, d)) EXCEPT !.url = d]) }
  /\ upload' = d
  /\ strayed' = (strayed \/ store.flights # {})

\* The OCR text arrives, or an error, or the 60th poll without a text.
UploadEnds(recognized) ==
  /\ upload \in Docs
  /\ store' = IF recognized
              THEN Effects([store EXCEPT !.messages = Append(@, Recognized),
                                         !.isLoading = FALSE])
              ELSE [store EXCEPT !.isLoading = FALSE]
  /\ upload' = "idle"
  /\ UNCHANGED strayed

UploadFails ==
  /\ upload = "sending"
  /\ store' = [store EXCEPT !.isLoading = FALSE]
  /\ upload' = "idle"
  /\ UNCHANGED strayed

-----------------------------------------------------------------------------
(***************************************************************************)
(* Moving between conversations: none of these waits for a request         *)
(***************************************************************************)

\* handleStartNewConversation keeps the document and the URL.
StartNewConversation ==
  /\ store' = Effects([store EXCEPT !.messages = <<>>, !.conversationId = 0])
  /\ Strays
  /\ UNCHANGED upload

\* handleClearChat: the session of the document is deleted, the general one is
\* not, and the URL loses its parameters.
ClearConversation ==
  /\ store' \in WithUrl([store EXCEPT !.messages = <<>>, !.conversationId = 0,
                           !.stored = IF store.url = NoDoc THEN @
                                      ELSE DeleteSession(@, store.url)],
                        NoDoc, "none")
  /\ Strays
  /\ UNCHANGED upload

\* handleClearAllConversations, after clearAllSessions or (New Chat) without it.
ClearAllConversations(erase) ==
  /\ store' \in WithUrl([store EXCEPT !.messages = <<>>, !.conversationId = 0,
                           !.stored = IF erase THEN <<>> ELSE @],
                        NoDoc, "none")
  /\ Strays
  /\ UNCHANGED upload

\* selectConversation shows the stored session of file f.  The first render saves
\* it as f's, then the effect puts the document of the URL back and it is saved
\* as that one's.
SelectConversation(f) ==
  /\ HasSession(store.stored, f)
  /\ LET s == SessionOf(store.stored, f)
         p == [store EXCEPT !.messages = s.messages,
                            !.conversationId = s.conversationId]
     IN  store' = Effects(Persist(p, f))
  /\ Strays
  /\ UNCHANGED upload

\* A session is deleted from a list, or expires: what is on screen stays there.
ForgetSession(f) ==
  /\ HasSession(store.stored, f)
  /\ store' = [store EXCEPT !.stored = DeleteSession(@, f),
                            !.forgotten = @ \/ f = store.url]
  /\ UNCHANGED <<upload, strayed>>

\* Client-side navigation to the chat of document f, from the list of
\* conversations, the upload page or the OCR page, which adds an initial message.
\* sessionLoaded is still set, so nothing is loaded.
OpenChat(f, initial) ==
  /\ f \in store.known \cup {NoDoc}
  /\ initial # "none" => f # NoDoc
  /\ store' = Effects([Persist(store, store.url) EXCEPT !.url = f, !.initial = initial])
  /\ strayed' = (strayed \/ Joins)
  /\ UNCHANGED upload

\* A reload of the page: requests are forgotten, loadSessionFromStorage shows the
\* stored session of the URL.
Reload ==
  LET blank == [store EXCEPT !.messages = <<>>, !.conversationId = 0,
                             !.isLoading = FALSE, !.flights = {},
                             !.initial = IF @ = "none" THEN "none" ELSE "pending"]
  IN  /\ store' = IF HasSession(store.stored, store.url)
                  THEN LET s == SessionOf(store.stored, store.url)
                       IN  Effects([blank EXCEPT !.messages = s.messages,
                                                 !.conversationId = s.conversationId])
                  ELSE Effects([blank EXCEPT !.forgotten = FALSE])
      /\ upload' = "idle"
      /\ UNCHANGED strayed

Next ==
  \/ \E streaming \in BOOLEAN : SendMessage(streaming)
  \/ \E r \in store.flights :
       \/ \E c \in {0, Conversation(r)} : StreamEnds(r, c)
       \/ ChatAnswered(r) \/ ChatRetried(r) \/ RequestFails(r)
  \/ UploadStarts \/ UploadFails
  \/ \E d \in Docs : UploadArrives(d)
  \/ \E recognized \in BOOLEAN : UploadEnds(recognized)
  \/ StartNewConversation \/ ClearConversation
  \/ \E erase \in BOOLEAN : ClearAllConversations(erase)
  \/ \E f \in Files : SelectConversation(f) \/ ForgetSession(f)
  \/ \E f \in Files, initial \in {"none", "pending"} : OpenChat(f, initial)
  \/ Reload

Spec == Init /\ [][Next]_vars

-----------------------------------------------------------------------------
(***************************************************************************)
(* Properties                                                              *)
(***************************************************************************)

\* The store has the fields of ChatStoreState, localStorage holds at most
\* maxChatSessions sessions, one per file and none of them empty.
TypeOK ==
  /\ store \in Stores
  /\ upload \in {"idle", "sending"} \cup Docs
  /\ strayed \in BOOLEAN
  /\ Len(store.stored) <= MaxSessions
  /\ \A i, j \in DOMAIN store.stored :
       store.stored[i].fileId = store.stored[j].fileId => i = j
  /\ \A i \in DOMAIN store.stored : store.stored[i].messages # <<>>

InPlace(m) ==
  \A i \in DOMAIN m : m[i].kind = "reply" =>
    i > 1 /\ \E c \in {0, m[i].conv} : m[i - 1] = Question(m[i].send, c)

\* As long as nobody changes the conversation while a request runs, every reply
\* on screen and in storage stands right after the question it answers, in the
\* conversation that was asked for, although replies are appended and failures take
\* a message away by position.
RepliesAreInPlace ==
  ~strayed =>
    /\ InPlace(store.messages)
    /\ \A i \in DOMAIN store.stored : InPlace(store.stored[i].messages)

\* The conversations that messages m were asked or answered in.
Named(m) == {m[k].conv : k \in DOMAIN m} \ {0}

\* Under the same condition the messages on screen, and those of a stored session, were
\* asked and answered in one conversation, the one the next question goes to: as soon
\* as one of them names a conversation, its id is the one kept.  Nothing is said of a
\* session whose messages name none, all of them asked to open a new conversation and
\* not answered by the model yet: saveSession keeps the id its file had before, and
\* after a reload the next question goes there, not to the conversation it shows.
StoredSessionsAgree ==
  ~strayed =>
    /\ Named(store.messages) \subseteq {store.conversationId}
    /\ \A i \in DOMAIN store.stored :
         Named(store.stored[i].messages) \subseteq {store.stored[i].conversationId}

\* What is on screen is what a reload of the page would show, and a conversation
\* that has its id goes on after the reload, unless its session was deleted from the
\* list or expired: the session being used is never the one that falls off the end.
ReloadRestoresScreen ==
  store.messages # <<>> /\ ~store.forgotten =>
    /\ HasSession(store.stored, store.url)
    /\ LET s == SessionOf(store.stored, store.url)
       IN  s.messages = store.messages /\ store.conversationId \in {0, s.conversationId}

\* Choosing a conversation in the history, or opening the chat of a document from
\* the list of conversations, shows a stored session and overwrites none.
HistoryIsKept ==
  [][ \A f \in Files : SelectConversation(f) \/ OpenChat(f, "none") =>
        \A i \in DOMAIN store.stored, j \in DOMAIN store'.stored :
          store'.stored[j].fileId = store.stored[i].fileId
            => store'.stored[j] = store.stored[i] ]_vars
=============================================================================
