----------------------------- MODULE ChatServer -----------------------------
(***************************************************************************)
(* ChatService.chat, chatStream and deleteConversation over the tables     *)
(* Conversation and Message.  A request reads the recent history, asks the *)
(* model and then saves the question and the reply: chat awaits the two    *)
(* inserts one after the other before it answers, chatStream starts both,  *)
(* answers, and leaves them to finish on their own.                        *)
(***************************************************************************)
EXTENDS Naturals, Sequences

CONSTANTS
  Convs,        \* conversation ids
  Reqs,         \* requests; each serves one call
  None,
  Kinds,        \* the calls clients make, see CallKinds
  HistoryLimit, \* how many messages findLastN returns (10)
  ApiKeys,      \* whether a call finds DEEPSEEK_API_KEY configured (it is read
                \* on every call; a restart may change it)
  DbFaults,     \* whether database statements may fail
  MaxCrashes    \* bound: how many crashes a behaviour may contain

CallKinds == {"chat", "stream", "delete"}

ASSUME ChatAssumption ==
  /\ None \notin Convs \cup Reqs
  /\ Kinds \subseteq CallKinds
  /\ HistoryLimit \in Nat \ {0}
  /\ ApiKeys \subseteq BOOLEAN /\ ApiKeys # {}
  /\ DbFaults \in BOOLEAN
  /\ MaxCrashes \in Nat

VARIABLES
  conv,      \* Conversation rows
  messages,  \* Message rows of a conversation, by createdAt
  pc,        \* the await a request is at
  kind,      \* which call it serves
  target,    \* its conversation
  history,   \* the messages it read for the model
  saves,     \* inserts of a finished stream that are still under way
  after,     \* history: the exchanges of its conversation it must know of, see Post
  crashes

rows == <<conv, messages>>
vars == <<rows, pc, kind, target, history, saves, after, crashes>>

Roles    == {"user", "assistant"}
Messages == [role : Roles, of : Reqs]
InFlight == {"find", "findLastN", "create", "ask", "saveUser", "saveAssistant",
             "stream", "delete"}
PcStates == InFlight \cup {"idle", "answered", "failed", "lost"}

Init ==
  /\ conv = [c \in Convs |-> "unused"]
  /\ messages = [c \in Convs |-> <<>>]
  /\ pc = [q \in Reqs |-> "idle"]
  /\ kind = [q \in Reqs |-> "none"]
  /\ target = [q \in Reqs |-> None]
  /\ history = [q \in Reqs |-> <<>>]
  /\ saves = [q \in Reqs |-> {}]
  /\ after = [q \in Reqs |-> {}]
  /\ crashes = 0

Goto(q, s) == pc' = [pc EXCEPT ![q] = s]

\* A statement succeeds, or it throws and was applied or not.
DbOutcome(applied, threw) == (applied /\ ~threw) \/ (DbFaults /\ threw)

-----------------------------------------------------------------------------
Elements(s)      == {s[i] : i \in DOMAIN s}
Message(role, q) == [role |-> role, of |-> q]

\* A client calls chat or chatStream, with the id of a conversation or to start
\* one, or deletes a conversation.  What it must know of: every chat answered by
\* now, and every stream answered by now both of whose inserts have landed.
Post(q) ==
  /\ pc[q] = "idle"
  /\ \E k \in Kinds, c \in Convs \cup {None} :
       /\ IF c = None THEN k # "delete" ELSE conv[c] # "unused"
       /\ kind' = [kind EXCEPT ![q] = k]
       /\ target' = [target EXCEPT ![q] = c]
       /\ after' = [after EXCEPT
                      ![q] = {p \in Reqs : /\ c # None
                                           /\ target[p] = c
                                           /\ pc[p] = "answered"
                                           /\ \/ kind[p] = "chat"
                                              \/ \A role \in Roles :
                                                   Message(role, p) \in Elements(messages[c])}]
       /\ Goto(q, IF c = None THEN "create" ELSE "find")
  /\ UNCHANGED <<rows, history, saves, crashes>>

CreateConversation(q) ==
  /\ pc[q] = "create"
  /\ \E c \in Convs, applied, threw \in BOOLEAN :
       /\ conv[c] = "unused"
       /\ DbOutcome(applied, threw)
       /\ conv' = [conv EXCEPT ![c] = IF applied THEN "live" ELSE @]
       /\ target' = [target EXCEPT ![q] = IF threw THEN @ ELSE c]
       /\ Goto(q, IF threw THEN "failed" ELSE "ask")
  /\ UNCHANGED <<messages, kind, history, saves, after, crashes>>

\* findById of all three calls; the not-found answers change nothing.
FindConversation(q) ==
  /\ pc[q] = "find"
  /\ \/ /\ conv[target[q]] = "live"
        /\ Goto(q, IF kind[q] = "delete" THEN "delete" ELSE "findLastN")
     \/ /\ conv[target[q]] # "live" \/ DbFaults
        /\ Goto(q, "failed")
  /\ UNCHANGED <<rows, kind, target, history, saves, after, crashes>>

\* Mutant: one message too many.
LastN_OneMore(s) ==
  [i \in 1..(IF Len(s) <= HistoryLimit THEN Len(s) ELSE HistoryLimit + 1) |->
     s[Len(s) + 1 - i]]

\* orderBy createdAt desc, take n: newest first.
LastN(s) ==
  [i \in 1..(IF Len(s) < HistoryLimit THEN Len(s) ELSE HistoryLimit) |->
     s[Len(s) + 1 - i]]

FindLastN(q) ==
  /\ pc[q] = "findLastN"
  /\ \/ /\ history' = [history EXCEPT ![q] = LastN(messages[target[q]])]
        /\ Goto(q, "ask")
     \/ /\ DbFaults
        /\ Goto(q, "failed")
        /\ UNCHANGED history
  /\ UNCHANGED <<rows, kind, target, saves, after, crashes>>

\* Load the document context and call the model.  chat turns every error of the
\* model into an apology; chatStream fails, or without a key streams a fixed
\* text and ends.
AskModel(q) ==
  /\ pc[q] = "ask"
  /\ \/ kind[q] = "chat" /\ Goto(q, "saveUser")
     \/ kind[q] = "stream" /\ TRUE \in ApiKeys /\ Goto(q, "stream")
     \/ kind[q] = "stream" /\ FALSE \in ApiKeys /\ Goto(q, "answered")
     \/ /\ DbFaults \/ (kind[q] = "stream" /\ TRUE \in ApiKeys)
        /\ Goto(q, "failed")
  /\ UNCHANGED <<rows, kind, target, history, saves, after, crashes>>

-----------------------------------------------------------------------------
\* An insert needs its conversation row (foreign key).
CreateMessage(q, role, applied, threw) ==
  /\ IF conv[target[q]] = "live" THEN DbOutcome(applied, threw)
                                  ELSE ~applied /\ threw
  /\ messages' = [messages EXCEPT
                    ![target[q]] = IF applied
                                   THEN Append(@, [role |-> role, of |-> q])
                                   ELSE @]

\* Mutant: an error of the first insert is logged, not thrown.
SaveUserMessage_Swallows(q) ==
  /\ pc[q] = "saveUser"
  /\ \E applied, threw \in BOOLEAN : CreateMessage(q, "user", applied, threw)
  /\ Goto(q, "saveAssistant")
  /\ UNCHANGED <<conv, kind, target, history, saves, after, crashes>>

SaveUserMessage(q) ==
  /\ pc[q] = "saveUser"
  /\ \E applied, threw \in BOOLEAN :
       /\ CreateMessage(q, "user", applied, threw)
       /\ Goto(q, IF threw THEN "failed" ELSE "saveAssistant")
  /\ UNCHANGED <<conv, kind, target, history, saves, after, crashes>>

\* Mutant: the reply is answered first and saved in the background.
SaveAssistantMessage_Background(q) ==
  /\ pc[q] = "saveAssistant"
  /\ saves' = [saves EXCEPT ![q] = {"assistant"}]
  /\ Goto(q, "answered")
  /\ UNCHANGED <<rows, kind, target, history, after, crashes>>

SaveAssistantMessage(q) ==
  /\ pc[q] = "saveAssistant"
  /\ \E applied, threw \in BOOLEAN :
       /\ CreateMessage(q, "assistant", applied, threw)
       /\ Goto(q, IF threw THEN "failed" ELSE "answered")
  /\ UNCHANGED <<conv, kind, target, history, saves, after, crashes>>

\* The stream of the model ends ('end': both inserts start, the client is told
\* that the reply is complete) or breaks ('error').
StreamEnds(q) ==
  /\ pc[q] = "stream"
  /\ \/ /\ saves' = [saves EXCEPT ![q] = Roles]
        /\ Goto(q, "answered")
     \/ /\ Goto(q, "failed")
        /\ UNCHANGED saves
  /\ UNCHANGED <<rows, kind, target, history, after, crashes>>

\* One of these inserts settles; its errors are only logged.
SaveSettles(q) ==
  /\ \E role \in saves[q], applied, threw \in BOOLEAN :
       /\ CreateMessage(q, role, applied, threw)
       /\ saves' = [saves EXCEPT ![q] = @ \ {role}]
  /\ UNCHANGED <<conv, pc, kind, target, history, after, crashes>>

\* Mutant: the messages are not deleted with their conversation.
DeleteRows_NoCascade(c) ==
  /\ conv' = [conv EXCEPT ![c] = "deleted"]
  /\ UNCHANGED messages

\* onDelete: Cascade.
DeleteRows(c) ==
  /\ conv' = [conv EXCEPT ![c] = "deleted"]
  /\ messages' = [messages EXCEPT ![c] = <<>>]

DeleteConversation(q) ==
  /\ pc[q] = "delete"
  /\ \/ /\ conv[target[q]] = "live"
        /\ DeleteRows(target[q])
        /\ Goto(q, "answered") \/ (DbFaults /\ Goto(q, "failed"))
     \/ /\ conv[target[q]] # "live" \/ DbFaults
        /\ Goto(q, "failed")
        /\ UNCHANGED rows
  /\ UNCHANGED <<kind, target, history, saves, after, crashes>>

-----------------------------------------------------------------------------
\* The API process dies: requests and inserts under way are gone.
Crash ==
  /\ crashes < MaxCrashes
  /\ crashes' = crashes + 1
  /\ pc' = [q \in Reqs |-> IF pc[q] \in InFlight THEN "lost" ELSE pc[q]]
  /\ saves' = [q \in Reqs |-> {}]
  /\ UNCHANGED <<rows, kind, target, history, after>>

Step(q) ==
  \/ CreateConversation(q)
  \/ FindConversation(q)
  \/ FindLastN(q)
  \/ AskModel(q)
  \/ SaveUserMessage(q)
  \/ SaveAssistantMessage(q)
  \/ StreamEnds(q)
  \/ DeleteConversation(q)

Next ==
  \/ \E q \in Reqs : Post(q) \/ Step(q) \/ SaveSettles(q)
  \/ Crash

Spec == Init /\ [][Next]_vars

-----------------------------------------------------------------------------
(***************************************************************************)
(* Properties                                                              *)
(***************************************************************************)

\* Every variable has its type; the history sent to the model is bounded.
TypeOK ==
  /\ conv \in [Convs -> {"unused", "live", "deleted"}]
  /\ \A c \in Convs : messages[c] \in Seq(Messages)
  /\ pc \in [Reqs -> PcStates]
  /\ kind \in [Reqs -> CallKinds \cup {"none"}]
  /\ target \in [Reqs -> Convs \cup {None}]
  /\ \A q \in Reqs : history[q] \in Seq(Messages) /\ Len(history[q]) <= HistoryLimit
  /\ saves \in [Reqs -> SUBSET Roles]
  /\ after \in [Reqs -> SUBSET Reqs]
  /\ crashes \in 0..MaxCrashes

Live(q) == target[q] # None /\ conv[target[q]] = "live"

Recorded(q) ==
  \E i, j \in DOMAIN messages[target[q]] :
    /\ i < j
    /\ messages[target[q]][i] = Message("user", q)
    /\ messages[target[q]][j] = Message("assistant", q)

\* A chat that was answered is in the database, question before reply, unless its
\* conversation was deleted, however chats and deletions overlap.
AnsweredChatIsRecorded ==
  \A q \in Reqs :
    kind[q] = "chat" /\ pc[q] = "answered" /\ Live(q) => Recorded(q)

\* chat never leaves a reply in the history without its question before it,
\* whatever statements fail and wherever the process dies.
NoReplyWithoutQuestion ==
  \A c \in Convs : \A j \in DOMAIN messages[c] :
    LET m == messages[c][j] IN
      kind[m.of] = "chat" /\ m.role = "assistant"
        => \E i \in 1..(j - 1) : messages[c][i] = Message("user", m.of)

\* A deleted conversation leaves no message behind, and no chat, stream or
\* background insert that was under way brings one back.
DeletedLeavesNothing ==
  \A c \in Convs : conv[c] # "live" => messages[c] = <<>>

\* Question and reply of p are in the history q sends (or were pushed out of it).
InContext(p, q) ==
  \/ Len(history[q]) = HistoryLimit
  \/ \A role \in Roles : Message(role, p) \in Elements(history[q])

\* "The second message passes the same id -> verify that the context is kept": a
\* request sends the model every chat of its conversation that had been answered
\* before it was made, and every stream that had been answered and stored, whatever
\* else is under way.  (A stream that is answered but not yet stored may be missing.)
ContextIsKept ==
  \A q \in Reqs :
    pc[q] = "ask" /\ Live(q) => \A p \in after[q] : InContext(p, q)
=============================================================================
