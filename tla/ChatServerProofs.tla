-------------------------- MODULE ChatServerProofs --------------------------
(***************************************************************************)
(* Theorems about ChatServer, for any number of conversations and          *)
(* requests, any history window, any crash bound and with or without       *)
(* failing database statements.                                            *)
(***************************************************************************)
EXTENDS ChatServer, SequenceTheorems, TLAPS

-----------------------------------------------------------------------------
(***************************************************************************)
(* The invariants                                                          *)
(***************************************************************************)

Targeted == {"find", "findLastN", "ask", "saveUser", "saveAssistant", "stream",
             "delete"}

\* What the await a request is at says about its call, and that a conversation a
\* request refers to has been created.
RequestInv ==
  \A q \in Reqs :
    /\ pc[q] \in Targeted => target[q] \in Convs
    /\ pc[q] \in {"saveUser", "saveAssistant"} => kind[q] = "chat"
    /\ pc[q] = "stream" => kind[q] = "stream"
    /\ pc[q] = "delete" => kind[q] = "delete"
    /\ saves[q] # {} => /\ pc[q] = "answered" /\ kind[q] = "stream"
                        /\ target[q] \in Convs
    /\ target[q] # None => conv[target[q]] # "unused"

TypeInv ==
  /\ TypeOK
  /\ messages \in [Convs -> Seq(Messages)]
  /\ history \in [Reqs -> Seq(Messages)]
  /\ RequestInv

\* A message comes from a request that has been made.
Owned ==
  \A c \in Convs : \A i \in DOMAIN messages[c] : pc[messages[c][i].of] # "idle"

\* A chat about to save its reply has saved its question.
Asked ==
  \A q \in Reqs :
    pc[q] = "saveAssistant" /\ Live(q)
      => Message("user", q) \in Elements(messages[target[q]])

\* What a request must know of is stored when it reads the history.
Known ==
  \A q \in Reqs :
    /\ pc[q] \in {"find", "findLastN"} /\ Live(q)
         => \A p \in after[q], role \in Roles :
              Message(role, p) \in Elements(messages[target[q]])
    /\ pc[q] = "create" => after[q] = {}

RecordInv ==
  /\ DeletedLeavesNothing
  /\ Owned
  /\ Asked
  /\ NoReplyWithoutQuestion
  /\ AnsweredChatIsRecorded

ContextInv == Known /\ ContextIsKept

-----------------------------------------------------------------------------
(***************************************************************************)
(* What the statements do to the rows                                      *)
(***************************************************************************)

\* An insert that succeeds, or fails having been applied, appends one message to
\* a live conversation; otherwise nothing changes.
LEMMA InsertEffect ==
  ASSUME TypeInv, NEW q \in Reqs, target[q] \in Convs, NEW role \in Roles,
         NEW applied \in BOOLEAN, NEW threw \in BOOLEAN,
         CreateMessage(q, role, applied, threw)
  PROVE  /\ messages' \in [Convs -> Seq(Messages)]
         /\ \A c \in Convs \ {target[q]} : messages'[c] = messages[c]
         /\ applied => /\ conv[target[q]] = "live"
                       /\ messages'[target[q]]
                            = Append(messages[target[q]], Message(role, q))
         /\ ~applied => messages' = messages
         /\ ~threw => applied
<1>1. Message(role, q) \in Messages
  BY DEF Message, Messages
<1>2. messages[target[q]] \in Seq(Messages)
  BY DEF TypeInv
<1>3. Append(messages[target[q]], Message(role, q)) \in Seq(Messages)
  BY <1>1, <1>2, AppendProperties
<1> QED  BY <1>2, <1>3 DEF CreateMessage, DbOutcome, TypeInv, TypeOK, Message

\* What an appended message changes in a conversation.
LEMMA AppendEffect ==
  ASSUME NEW s \in Seq(Messages), NEW m \in Messages
  PROVE  /\ DOMAIN s = 1..Len(s) /\ Len(s) \in Nat
         /\ DOMAIN Append(s, m) = 1..(Len(s) + 1)
         /\ \A i \in 1..Len(s) : Append(s, m)[i] = s[i]
         /\ Append(s, m)[Len(s) + 1] = m
         /\ Elements(Append(s, m)) = Elements(s) \cup {m}
<1>1. /\ Append(s, m) \in Seq(Messages) /\ Len(Append(s, m)) = Len(s) + 1
      /\ \A i \in 1..Len(s) : Append(s, m)[i] = s[i]
      /\ Append(s, m)[Len(s) + 1] = m
  BY AppendProperties
<1>2. /\ DOMAIN s = 1..Len(s) /\ Len(s) \in Nat
      /\ DOMAIN Append(s, m) = 1..(Len(s) + 1)
  BY <1>1, LenProperties
<1>3. Elements(Append(s, m)) = Elements(s) \cup {m}
  BY <1>1, <1>2 DEF Elements
<1> QED  BY <1>1, <1>2, <1>3

\* The window of the newest messages: a bounded sequence that either is full or
\* holds every message.
LEMMA LastNEffect ==
  ASSUME NEW s \in Seq(Messages)
  PROVE  /\ LastN(s) \in Seq(Messages)
         /\ Len(LastN(s)) <= HistoryLimit
         /\ Len(LastN(s)) = HistoryLimit \/ Elements(s) \subseteq Elements(LastN(s))
<1> DEFINE n == IF Len(s) < HistoryLimit THEN Len(s) ELSE HistoryLimit
<1>1. Len(s) \in Nat /\ DOMAIN s = 1..Len(s) /\ HistoryLimit \in Nat
  BY LenProperties, ChatAssumption DEF ChatAssumption
<1>2. n \in Nat /\ n <= Len(s) /\ n <= HistoryLimit
  BY <1>1
<1>3. LastN(s) = [i \in 1..n |-> s[Len(s) + 1 - i]]
  BY DEF LastN
<1> HIDE DEF n
<1>4. \A i \in 1..n : Len(s) + 1 - i \in 1..Len(s)
  BY <1>1, <1>2
<1>5. \A i \in 1..n : s[Len(s) + 1 - i] \in Messages
  BY <1>1, <1>4, ElementOfSeq
<1>6. LastN(s) \in Seq(Messages) /\ Len(LastN(s)) = n
  BY <1>2, <1>3, <1>5
<1>7. ASSUME n # HistoryLimit PROVE Elements(s) \subseteq Elements(LastN(s))
  <2>1. n = Len(s)
    BY <1>7 DEF n
  <2>2. ASSUME NEW i \in 1..Len(s) PROVE s[i] \in Elements(LastN(s))
    <3>1. Len(s) + 1 - i \in 1..n /\ Len(s) + 1 - (Len(s) + 1 - i) = i
      BY <1>1, <2>1
    <3>2. Len(s) + 1 - i \in DOMAIN LastN(s) /\ LastN(s)[Len(s) + 1 - i] = s[i]
      BY <1>3, <3>1
    <3> QED  BY <3>2 DEF Elements
  <2> QED  BY <1>1, <2>2 DEF Elements
<1> QED  BY <1>2, <1>6, <1>7

-----------------------------------------------------------------------------
(***************************************************************************)
(* Type correctness                                                        *)
(***************************************************************************)

\* No request is made yet, so there is nothing to know about one.
LEMMA InitTypeInv == Init => TypeInv
<1> SUFFICES ASSUME Init PROVE TypeInv
  OBVIOUS
<1>1. \A S : <<>> \in Seq(S) /\ Len(<<>>) = 0
  BY EmptySeq
<1>2. TypeOK /\ messages \in [Convs -> Seq(Messages)] /\ history \in [Reqs -> Seq(Messages)]
  BY <1>1, ChatAssumption
  DEF Init, ChatAssumption, TypeOK, PcStates, CallKinds
<1>3. RequestInv
  BY ChatAssumption DEF Init, ChatAssumption, RequestInv, Targeted
<1> QED  BY <1>2, <1>3 DEF TypeInv

\* The three inserts share their effect on the rows.
LEMMA InsertKeepsTypes ==
  ASSUME TypeInv, NEW q \in Reqs, target[q] \in Convs, NEW role \in Roles,
         NEW applied \in BOOLEAN, NEW threw \in BOOLEAN,
         CreateMessage(q, role, applied, threw)
  PROVE  /\ messages' \in [Convs -> Seq(Messages)]
         /\ \A c \in Convs : messages'[c] \in Seq(Messages)
<1> QED  BY InsertEffect

\* Every await of a call is reached with what the call will need there.
LEMMA NextTypeInv == TypeInv /\ [Next]_vars => TypeInv'
<1> SUFFICES ASSUME TypeInv, [Next]_vars PROVE TypeInv'
  OBVIOUS
<1> USE DEF TypeInv, Goto
<1>1. ASSUME NEW q \in Reqs, Post(q) PROVE TypeInv'
  <2> DEFINE stored(c) == {p \in Reqs : /\ c # None
                                        /\ target[p] = c
                                        /\ pc[p] = "answered"
                                        /\ \/ kind[p] = "chat"
                                           \/ \A role \in Roles :
                                                Message(role, p) \in Elements(messages[c])}
  <2>0. \A c : stored(c) \in SUBSET Reqs
    OBVIOUS
  <2>1. PICK k \in Kinds, c \in Convs \cup {None} :
          /\ IF c = None THEN k # "delete" ELSE conv[c] # "unused"
          /\ kind' = [kind EXCEPT ![q] = k]
          /\ target' = [target EXCEPT ![q] = c]
          /\ after' = [after EXCEPT ![q] = stored(c)]
          /\ pc' = [pc EXCEPT ![q] = IF c = None THEN "create" ELSE "find"]
    BY <1>1, Zenon DEF Post
  <2> HIDE DEF stored
  <2>2. /\ UNCHANGED <<conv, messages, history, saves, crashes>> /\ pc[q] = "idle"
        /\ k \in CallKinds
    BY <1>1, ChatAssumption DEF Post, rows, ChatAssumption
  <2>3. TypeOK'
    BY <2>0, <2>1, <2>2 DEF TypeOK, PcStates, InFlight
  <2>4. RequestInv'
    BY <2>1, <2>2 DEF RequestInv, Targeted, TypeOK
  <2> QED  BY <2>2, <2>3, <2>4
<1>2. ASSUME NEW q \in Reqs, CreateConversation(q) PROVE TypeInv'
  <2>1. PICK c \in Convs, applied \in BOOLEAN, threw \in BOOLEAN :
          /\ conv[c] = "unused"
          /\ DbOutcome(applied, threw)
          /\ conv' = [conv EXCEPT ![c] = IF applied THEN "live" ELSE @]
          /\ target' = [target EXCEPT ![q] = IF threw THEN @ ELSE c]
          /\ pc' = [pc EXCEPT ![q] = IF threw THEN "failed" ELSE "ask"]
    BY <1>2 DEF CreateConversation
  <2>2. UNCHANGED <<messages, kind, history, saves, after, crashes>> /\ pc[q] = "create"
    BY <1>2 DEF CreateConversation
  <2>3. TypeOK'
    BY <2>1, <2>2 DEF TypeOK, PcStates, InFlight
  <2>4. RequestInv'
    BY <2>1, <2>2, ChatAssumption DEF RequestInv, Targeted, TypeOK, DbOutcome, ChatAssumption
  <2> QED  BY <2>2, <2>3, <2>4
<1>3. ASSUME NEW q \in Reqs, FindConversation(q) PROVE TypeInv'
  <2>1. TypeOK' /\ UNCHANGED <<messages, history>>
    BY <1>3 DEF FindConversation, TypeOK, PcStates, InFlight, rows
  <2>2. RequestInv'
    BY <1>3 DEF FindConversation, RequestInv, Targeted, TypeOK, rows
  <2> QED  BY <2>1, <2>2
<1>4. ASSUME NEW q \in Reqs, FindLastN(q) PROVE TypeInv'
  <2>1. target[q] \in Convs
    BY <1>4 DEF FindLastN, RequestInv, Targeted
  <2>2. /\ LastN(messages[target[q]]) \in Seq(Messages)
        /\ Len(LastN(messages[target[q]])) <= HistoryLimit
    BY <2>1, LastNEffect
  <2>3. /\ history' \in [Reqs -> Seq(Messages)]
        /\ \A p \in Reqs : history'[p] \in Seq(Messages) /\ Len(history'[p]) <= HistoryLimit
    BY <1>4, <2>2 DEF FindLastN, TypeOK
  <2>4. /\ UNCHANGED <<conv, messages, kind, target, saves, after, crashes>>
        /\ pc[q] = "findLastN"
        /\ pc' = [pc EXCEPT ![q] = "ask"] \/ pc' = [pc EXCEPT ![q] = "failed"]
    BY <1>4 DEF FindLastN, rows
  <2>5. TypeOK'
    BY <2>3, <2>4 DEF TypeOK, PcStates, InFlight
  <2>6. RequestInv'
    BY <2>4 DEF RequestInv, Targeted, TypeOK
  <2> QED  BY <2>3, <2>4, <2>5, <2>6
<1>5. ASSUME NEW q \in Reqs, AskModel(q) PROVE TypeInv'
  <2>1. TypeOK' /\ UNCHANGED <<messages, history>>
    BY <1>5 DEF AskModel, TypeOK, PcStates, InFlight, rows
  <2>2. RequestInv'
    BY <1>5 DEF AskModel, RequestInv, Targeted, TypeOK, rows
  <2> QED  BY <2>1, <2>2
<1>6. ASSUME NEW q \in Reqs, SaveUserMessage(q) PROVE TypeInv'
  <2>1. PICK applied \in BOOLEAN, threw \in BOOLEAN :
          /\ CreateMessage(q, "user", applied, threw)
          /\ pc' = [pc EXCEPT ![q] = IF threw THEN "failed" ELSE "saveAssistant"]
    BY <1>6 DEF SaveUserMessage
  <2>2. /\ UNCHANGED <<conv, kind, target, history, saves, after, crashes>>
        /\ pc[q] = "saveUser"
    BY <1>6 DEF SaveUserMessage
  <2>3. target[q] \in Convs /\ "user" \in Roles
    BY <2>2 DEF RequestInv, Targeted, Roles
  <2>4. /\ messages' \in [Convs -> Seq(Messages)]
        /\ \A c \in Convs : messages'[c] \in Seq(Messages)
    BY <2>1, <2>3, InsertKeepsTypes
  <2>5. TypeOK'
    BY <2>1, <2>2, <2>4 DEF TypeOK, PcStates, InFlight
  <2>6. RequestInv'
    BY <2>1, <2>2 DEF RequestInv, Targeted, TypeOK
  <2> QED  BY <2>2, <2>4, <2>5, <2>6
<1>7. ASSUME NEW q \in Reqs, SaveAssistantMessage(q) PROVE TypeInv'
  <2>1. PICK applied \in BOOLEAN, threw \in BOOLEAN :
          /\ CreateMessage(q, "assistant", applied, threw)
          /\ pc' = [pc EXCEPT ![q] = IF threw THEN "failed" ELSE "answered"]
    BY <1>7 DEF SaveAssistantMessage
  <2>2. /\ UNCHANGED <<conv, kind, target, history, saves, after, crashes>>
        /\ pc[q] = "saveAssistant"
    BY <1>7 DEF SaveAssistantMessage
  <2>3. target[q] \in Convs /\ "assistant" \in Roles
    BY <2>2 DEF RequestInv, Targeted, Roles
  <2>4. /\ messages' \in [Convs -> Seq(Messages)]
        /\ \A c \in Convs : messages'[c] \in Seq(Messages)
    BY <2>1, <2>3, InsertKeepsTypes
  <2>5. TypeOK'
    BY <2>1, <2>2, <2>4 DEF TypeOK, PcStates, InFlight
  <2>6. RequestInv'
    BY <2>1, <2>2 DEF RequestInv, Targeted, TypeOK
  <2> QED  BY <2>2, <2>4, <2>5, <2>6
<1>8. ASSUME NEW q \in Reqs, StreamEnds(q) PROVE TypeInv'
  <2>1. saves' \in [Reqs -> SUBSET Roles]
    <3>1. Roles \in SUBSET Roles
      OBVIOUS
    <3>2. saves' = [saves EXCEPT ![q] = Roles] \/ saves' = saves
      BY <1>8 DEF StreamEnds
    <3> QED  BY <3>1, <3>2 DEF TypeOK
  <2>2. /\ UNCHANGED <<conv, messages, kind, target, history, after, crashes>>
        /\ pc' \in [Reqs -> PcStates]
    BY <1>8 DEF StreamEnds, TypeOK, PcStates, rows
  <2>3. TypeOK'
    BY <2>1, <2>2 DEF TypeOK
  <2>4. RequestInv'
    BY <1>8 DEF StreamEnds, RequestInv, Targeted, TypeOK, rows
  <2> QED  BY <2>2, <2>3, <2>4
<1>9. ASSUME NEW q \in Reqs, SaveSettles(q) PROVE TypeInv'
  <2>1. PICK role \in saves[q], applied \in BOOLEAN, threw \in BOOLEAN :
          /\ CreateMessage(q, role, applied, threw)
          /\ saves' = [saves EXCEPT ![q] = @ \ {role}]
    BY <1>9 DEF SaveSettles
  <2>2. UNCHANGED <<conv, pc, kind, target, history, after, crashes>>
    BY <1>9 DEF SaveSettles
  <2>3. target[q] \in Convs /\ role \in Roles
    BY <2>1 DEF RequestInv, TypeOK
  <2>4. /\ messages' \in [Convs -> Seq(Messages)]
        /\ \A c \in Convs : messages'[c] \in Seq(Messages)
    BY <2>1, <2>3, InsertKeepsTypes
  <2>5. TypeOK'
    BY <2>1, <2>2, <2>4 DEF TypeOK
  <2>6. RequestInv'
    BY <2>1, <2>2 DEF RequestInv, TypeOK
  <2> QED  BY <2>2, <2>4, <2>5, <2>6
<1>10. ASSUME NEW q \in Reqs, DeleteConversation(q) PROVE TypeInv'
  <2>1. /\ UNCHANGED <<kind, target, history, saves, after, crashes>> /\ pc[q] = "delete"
        /\ pc' = [pc EXCEPT ![q] = "answered"] \/ pc' = [pc EXCEPT ![q] = "failed"]
    BY <1>10 DEF DeleteConversation
  <2>2. target[q] \in Convs
    BY <2>1 DEF RequestInv, Targeted
  <2>3. \/ /\ conv' = [conv EXCEPT ![target[q]] = "deleted"]
           /\ messages' = [messages EXCEPT ![target[q]] = <<>>]
        \/ UNCHANGED <<conv, messages>>
    BY <1>10 DEF DeleteConversation, DeleteRows, rows
  <2>4. /\ messages' \in [Convs -> Seq(Messages)]
        /\ \A c \in Convs : messages'[c] \in Seq(Messages)
    BY <2>2, <2>3, EmptySeq
  <2>5. TypeOK'
    BY <2>1, <2>2, <2>3, <2>4 DEF TypeOK, PcStates
  <2>6. RequestInv'
    BY <2>1, <2>2, <2>3 DEF RequestInv, Targeted, TypeOK
  <2> QED  BY <2>1, <2>4, <2>5, <2>6
<1>11. ASSUME Crash PROVE TypeInv'
  <2>1. TypeOK' /\ UNCHANGED <<messages, history>>
    BY <1>11, ChatAssumption DEF Crash, TypeOK, PcStates, InFlight, rows, ChatAssumption
  <2>2. RequestInv'
    BY <1>11 DEF Crash, RequestInv, Targeted, TypeOK, PcStates, InFlight, rows
  <2> QED  BY <2>1, <2>2
<1>12. ASSUME UNCHANGED vars PROVE TypeInv'
  BY <1>12 DEF vars, rows, TypeOK, RequestInv
<1> QED
  BY <1>1, <1>2, <1>3, <1>4, <1>5, <1>6, <1>7, <1>8, <1>9, <1>10, <1>11, <1>12
  DEF Next, Step

\* Every variable of the chat service keeps its type, and no request ever sends
\* the model more than HistoryLimit messages.
THEOREM TypeCorrect == Spec => []TypeOK
<1>1. TypeInv => TypeOK
  BY DEF TypeInv
<1> QED  BY InitTypeInv, NextTypeInv, <1>1, PTL DEF Spec

-----------------------------------------------------------------------------
(***************************************************************************)
(* What the tables record                                                  *)
(***************************************************************************)

\* The tables are empty at first.
LEMMA InitRecordInv == Init => RecordInv
<1> SUFFICES ASSUME Init PROVE RecordInv
  OBVIOUS
<1>1. DOMAIN <<>> = {}
  OBVIOUS
<1>2. \A c \in Convs : messages[c] = <<>> /\ DOMAIN messages[c] = {}
  BY <1>1 DEF Init
<1> QED
  BY <1>2 DEF Init, RecordInv, DeletedLeavesNothing, Owned, Asked,
              NoReplyWithoutQuestion, AnsweredChatIsRecorded

\* Every stored message belongs to a request.
LEMMA MessageOwner ==
  ASSUME TypeInv
  PROVE  \A c \in Convs : \A i \in DOMAIN messages[c] : messages[c][i].of \in Reqs
<1> SUFFICES ASSUME NEW c \in Convs, NEW i \in DOMAIN messages[c]
             PROVE  messages[c][i].of \in Reqs
  OBVIOUS
<1>1. messages[c] \in Seq(Messages)
  BY DEF TypeInv
<1>2. i \in 1..Len(messages[c])
  BY <1>1, LenProperties
<1>3. messages[c][i] \in Messages
  BY <1>1, <1>2, ElementOfSeq
<1> QED  BY <1>3 DEF Messages

\* A step that leaves the rows alone keeps what they record when no request
\* comes to save or to have answered a chat by it.
LEMMA KeptRows ==
  ASSUME TypeInv, RecordInv, UNCHANGED <<conv, messages>>,
         \A q \in Reqs : pc[q] # "idle" => pc'[q] # "idle" /\ kind'[q] = kind[q],
         \A q \in Reqs : pc'[q] = "saveAssistant"
                           => pc[q] = "saveAssistant" /\ target'[q] = target[q],
         \A q \in Reqs : kind'[q] = "chat" /\ pc'[q] = "answered"
                           => /\ kind[q] = "chat" /\ pc[q] = "answered"
                              /\ target'[q] = target[q]
  PROVE  RecordInv'
<1>1. \A c \in Convs : \A i \in DOMAIN messages[c] : messages[c][i].of \in Reqs
  BY MessageOwner
<1>2. DeletedLeavesNothing'
  BY DEF RecordInv, DeletedLeavesNothing
<1>3. Owned'
  BY <1>1 DEF RecordInv, Owned
<1>4. Asked'
  BY DEF RecordInv, Asked, Live, Elements, Message
<1>5. NoReplyWithoutQuestion'
  BY <1>1 DEF RecordInv, Owned, NoReplyWithoutQuestion, Message
<1>6. AnsweredChatIsRecorded'
  BY DEF RecordInv, AnsweredChatIsRecorded, Live, Recorded, Message
<1> QED  BY <1>2, <1>3, <1>4, <1>5, <1>6 DEF RecordInv

\* An insert keeps what the rows record: the reply of a chat follows its question,
\* and the chat counts as answered only once the reply is stored.
LEMMA InsertedRow ==
  ASSUME TypeInv, RecordInv,
         NEW q \in Reqs, target[q] \in Convs, pc[q] # "idle", NEW role \in Roles,
         NEW applied \in BOOLEAN, NEW threw \in BOOLEAN,
         CreateMessage(q, role, applied, threw),
         UNCHANGED <<conv, kind, target>>,
         \A p \in Reqs \ {q} : pc'[p] = pc[p],
         pc'[q] # "idle",
         pc'[q] = "saveAssistant" => role = "user" /\ applied,
         kind[q] = "chat" /\ pc'[q] = "answered" => role = "assistant" /\ applied,
         kind[q] = "chat" /\ role = "assistant" => pc[q] = "saveAssistant"
  PROVE  RecordInv'
<1>1. CASE ~applied
  <2>1. messages' = messages
    BY <1>1, InsertEffect
  <2> QED  BY <1>1, <2>1, KeptRows
<1>2. CASE applied
  <2> DEFINE t == target[q]
             s == messages[t]
             m == Message(role, q)
             n == Len(s)
  <2>1. /\ conv[t] = "live" /\ messages'[t] = Append(s, m)
        /\ \A c \in Convs \ {t} : messages'[c] = messages[c]
    BY <1>2, InsertEffect
  <2>2. s \in Seq(Messages) /\ m \in Messages
    BY DEF TypeInv, Message, Messages
  <2>3. /\ DOMAIN s = 1..n /\ n \in Nat
        /\ DOMAIN messages'[t] = 1..(n + 1)
        /\ \A i \in 1..n : messages'[t][i] = s[i]
        /\ messages'[t][n + 1] = m
        /\ Elements(messages'[t]) = Elements(s) \cup {m}
    BY <2>1, <2>2, AppendEffect
  <2>4. t \in Convs /\ m = [role |-> role, of |-> q] /\ m.role = role /\ m.of = q
    BY DEF Message
  <2>5. \A c \in Convs : \A i \in DOMAIN messages[c] : messages[c][i].of \in Reqs
    BY MessageOwner
  <2>6. ASSUME NEW i \in DOMAIN messages'[t] PROVE i \in 1..n \/ i = n + 1
    BY <2>3, <2>6
  <2> HIDE DEF n, m
  <2>7. DeletedLeavesNothing'
    BY <2>1 DEF RecordInv, DeletedLeavesNothing
  <2>8. Owned'
    <3> SUFFICES ASSUME NEW c \in Convs, NEW i \in DOMAIN messages'[c]
                 PROVE  pc'[messages'[c][i].of] # "idle"
      BY DEF Owned
    <3>1. CASE c # t
      BY <2>1, <2>5, <3>1 DEF RecordInv, Owned
    <3>2. CASE c = t /\ i \in 1..n
      BY <2>3, <2>5, <3>2 DEF RecordInv, Owned
    <3>3. CASE c = t /\ i = n + 1
      BY <2>3, <2>4, <3>3
    <3> QED  BY <2>6, <3>1, <3>2, <3>3
  <2>9. Asked'
    <3> SUFFICES ASSUME NEW p \in Reqs, pc'[p] = "saveAssistant", Live(p)'
                 PROVE  Message("user", p) \in Elements(messages'[target[p]])
      BY DEF Asked, Message, Elements
    <3>1. Live(p)
      BY DEF Live
    <3>2. target[p] \in Convs
      BY <3>1 DEF Live, TypeInv, TypeOK
    <3>3. CASE p = q
      BY <2>3, <3>3 DEF m
    <3>4. CASE p # q
      <4>1. Message("user", p) \in Elements(messages[target[p]])
        BY <3>1, <3>4 DEF RecordInv, Asked
      <4> QED  BY <2>1, <2>3, <3>2, <4>1
    <3> QED  BY <3>3, <3>4
  <2>10. NoReplyWithoutQuestion'
    <3> SUFFICES ASSUME NEW c \in Convs, NEW j \in DOMAIN messages'[c],
                        kind[messages'[c][j].of] = "chat",
                        messages'[c][j].role = "assistant"
                 PROVE  \E i \in 1..(j - 1) :
                          messages'[c][i] = Message("user", messages'[c][j].of)
      BY DEF NoReplyWithoutQuestion, Message
    <3>1. CASE c # t
      BY <2>1, <3>1 DEF RecordInv, NoReplyWithoutQuestion
    <3>2. CASE c = t /\ j \in 1..n
      <4>1. messages'[c][j] = s[j] /\ j \in DOMAIN messages[t]
        BY <2>3, <3>2
      <4>2. PICK i \in 1..(j - 1) : s[i] = Message("user", s[j].of)
        BY <2>4, <3>2, <4>1 DEF RecordInv, NoReplyWithoutQuestion
      <4>3. i \in 1..n
        BY <2>3, <3>2
      <4> QED  BY <2>3, <3>2, <4>1, <4>2, <4>3
    <3>3. CASE c = t /\ j = n + 1
      <4>1. messages'[c][j].of = q /\ role = "assistant" /\ kind[q] = "chat"
        BY <2>3, <2>4, <3>3
      <4>2. Message("user", q) \in Elements(s)
        BY <2>1, <2>4, <4>1, ChatAssumption DEF RecordInv, Asked, Live, ChatAssumption
      <4>3. PICK i \in 1..n : s[i] = Message("user", q)
        BY <2>3, <4>2 DEF Elements
      <4>4. i \in 1..(j - 1)
        BY <2>3, <3>3
      <4> QED  BY <2>3, <3>3, <4>1, <4>3, <4>4
    <3> QED  BY <2>6, <3>1, <3>2, <3>3
  <2>11. AnsweredChatIsRecorded'
    <3> SUFFICES ASSUME NEW p \in Reqs, kind[p] = "chat", pc'[p] = "answered", Live(p)'
                 PROVE  \E i, j \in DOMAIN messages'[target[p]] :
                          /\ i < j
                          /\ messages'[target[p]][i] = Message("user", p)
                          /\ messages'[target[p]][j] = Message("assistant", p)
      BY DEF AnsweredChatIsRecorded, Recorded, Message
    <3>1. Live(p)
      BY DEF Live
    <3>2. target[p] \in Convs
      BY <3>1 DEF Live, TypeInv, TypeOK
    <3>3. CASE p = q
      <4>1. role = "assistant" /\ pc[q] = "saveAssistant"
        BY <3>3
      <4>2. Message("user", q) \in Elements(s)
        BY <3>1, <3>3, <4>1 DEF RecordInv, Asked
      <4>3. PICK i \in 1..n : s[i] = Message("user", q)
        BY <2>3, <4>2 DEF Elements
      <4>4. i < n + 1 /\ i \in DOMAIN messages'[t] /\ n + 1 \in DOMAIN messages'[t]
        BY <2>3
      <4>5. /\ messages'[t][i] = Message("user", q)
            /\ messages'[t][n + 1] = Message("assistant", q)
        BY <2>3, <4>1, <4>3 DEF m
      <4> QED  BY <3>3, <4>4, <4>5
    <3>4. CASE p # q
      <4>1. Recorded(p)
        BY <3>1, <3>4 DEF RecordInv, AnsweredChatIsRecorded
      <4>2. CASE target[p] # t
        BY <2>1, <3>2, <4>1, <4>2 DEF Recorded
      <4>3. CASE target[p] = t
        <5>1. PICK i \in 1..n, j \in 1..n :
                /\ i < j
                /\ s[i] = Message("user", p)
                /\ s[j] = Message("assistant", p)
          BY <2>3, <4>1, <4>3 DEF Recorded
        <5>2. i \in 1..(n + 1) /\ j \in 1..(n + 1)
          BY <2>3
        <5> QED  BY <2>3, <4>3, <5>1, <5>2
      <4> QED  BY <4>2, <4>3
    <3> QED  BY <3>3, <3>4
  <2> QED  BY <2>7, <2>8, <2>9, <2>10, <2>11 DEF RecordInv
<1> QED  BY <1>1, <1>2

\* Only an insert that finds its conversation adds a row, only a deletion takes rows.
LEMMA NextRecordInv == TypeInv /\ RecordInv /\ [Next]_vars => RecordInv'
<1> SUFFICES ASSUME TypeInv, RecordInv, [Next]_vars PROVE RecordInv'
  OBVIOUS
<1> USE DEF Goto
<1>0. /\ pc \in [Reqs -> PcStates] /\ kind \in [Reqs -> CallKinds \cup {"none"}]
      /\ target \in [Reqs -> Convs \cup {None}]
      /\ conv \in [Convs -> {"unused", "live", "deleted"}]
      /\ messages \in [Convs -> Seq(Messages)]
      /\ None \notin Convs
  BY ChatAssumption DEF TypeInv, TypeOK, ChatAssumption
<1>1. ASSUME NEW q \in Reqs, Post(q) PROVE RecordInv'
  <2>1. PICK k \in Kinds, c \in Convs \cup {None} :
          /\ kind' = [kind EXCEPT ![q] = k]
          /\ target' = [target EXCEPT ![q] = c]
          /\ pc' = [pc EXCEPT ![q] = IF c = None THEN "create" ELSE "find"]
    BY <1>1, Zenon DEF Post
  <2>2. UNCHANGED <<conv, messages>> /\ pc[q] = "idle"
    BY <1>1 DEF Post, rows
  <2> QED  BY <1>0, <2>1, <2>2, KeptRows
<1>2. ASSUME NEW q \in Reqs, CreateConversation(q) PROVE RecordInv'
  <2>1. PICK c \in Convs, applied \in BOOLEAN, threw \in BOOLEAN :
          /\ conv[c] = "unused"
          /\ conv' = [conv EXCEPT ![c] = IF applied THEN "live" ELSE @]
          /\ target' = [target EXCEPT ![q] = IF threw THEN @ ELSE c]
          /\ pc' = [pc EXCEPT ![q] = IF threw THEN "failed" ELSE "ask"]
    BY <1>2 DEF CreateConversation
  <2>2. UNCHANGED <<messages, kind>> /\ pc[q] = "create"
    BY <1>2 DEF CreateConversation
  <2>3. \A p \in Reqs : pc'[p] \in {"saveAssistant", "answered"} /\ Live(p)'
                          => p # q /\ target'[p] = target[p] /\ Live(p)
    BY <1>0, <2>1, <2>2 DEF Live, TypeInv, RequestInv
  <2>4. DeletedLeavesNothing'
    BY <1>0, <2>1, <2>2 DEF RecordInv, DeletedLeavesNothing
  <2>5. Owned'
    BY <1>0, <2>1, <2>2, MessageOwner DEF RecordInv, Owned
  <2>6. Asked'
    BY <1>0, <2>1, <2>2, <2>3 DEF RecordInv, Asked, Message, Elements
  <2>7. NoReplyWithoutQuestion'
    BY <2>2 DEF RecordInv, NoReplyWithoutQuestion, Message
  <2>8. AnsweredChatIsRecorded'
    BY <1>0, <2>1, <2>2, <2>3 DEF RecordInv, AnsweredChatIsRecorded, Message, Recorded
  <2> QED  BY <2>4, <2>5, <2>6, <2>7, <2>8 DEF RecordInv
<1>3. ASSUME NEW q \in Reqs, FindConversation(q) PROVE RecordInv'
  <2>1. /\ UNCHANGED <<conv, messages, kind, target>> /\ pc[q] = "find"
        /\ \E l \in {"delete", "findLastN", "failed"} : pc' = [pc EXCEPT ![q] = l]
    BY <1>3 DEF FindConversation, rows
  <2> QED  BY <1>0, <2>1, KeptRows
<1>4. ASSUME NEW q \in Reqs, FindLastN(q) PROVE RecordInv'
  <2>1. /\ UNCHANGED <<conv, messages, kind, target>> /\ pc[q] = "findLastN"
        /\ \E l \in {"ask", "failed"} : pc' = [pc EXCEPT ![q] = l]
    BY <1>4 DEF FindLastN, rows
  <2> QED  BY <1>0, <2>1, KeptRows
<1>5. ASSUME NEW q \in Reqs, AskModel(q) PROVE RecordInv'
  <2>1. /\ UNCHANGED <<conv, messages, kind, target>> /\ pc[q] = "ask"
        /\ \/ \E l \in {"saveUser", "stream", "failed"} : pc' = [pc EXCEPT ![q] = l]
           \/ kind[q] = "stream" /\ pc' = [pc EXCEPT ![q] = "answered"]
    BY <1>5 DEF AskModel, rows
  <2> QED  BY <1>0, <2>1, KeptRows
<1>6. ASSUME NEW q \in Reqs, SaveUserMessage(q) PROVE RecordInv'
  <2>1. PICK applied \in BOOLEAN, threw \in BOOLEAN :
          /\ CreateMessage(q, "user", applied, threw)
          /\ pc' = [pc EXCEPT ![q] = IF threw THEN "failed" ELSE "saveAssistant"]
    BY <1>6 DEF SaveUserMessage
  <2>2. UNCHANGED <<conv, kind, target>> /\ pc[q] = "saveUser"
    BY <1>6 DEF SaveUserMessage
  <2>3. target[q] \in Convs /\ "user" \in Roles
    BY <2>2 DEF TypeInv, RequestInv, Targeted, Roles
  <2>4. ~threw => applied
    BY <2>1, <2>3, InsertEffect
  <2>5. /\ \A p \in Reqs \ {q} : pc'[p] = pc[p]
        /\ pc'[q] = IF threw THEN "failed" ELSE "saveAssistant"
    BY <1>0, <2>1
  <2> QED  BY <2>1, <2>2, <2>3, <2>4, <2>5, InsertedRow
<1>7. ASSUME NEW q \in Reqs, SaveAssistantMessage(q) PROVE RecordInv'
  <2>1. PICK applied \in BOOLEAN, threw \in BOOLEAN :
          /\ CreateMessage(q, "assistant", applied, threw)
          /\ pc' = [pc EXCEPT ![q] = IF threw THEN "failed" ELSE "answered"]
    BY <1>7 DEF SaveAssistantMessage
  <2>2. UNCHANGED <<conv, kind, target>> /\ pc[q] = "saveAssistant"
    BY <1>7 DEF SaveAssistantMessage
  <2>3. target[q] \in Convs /\ "assistant" \in Roles
    BY <2>2 DEF TypeInv, RequestInv, Targeted, Roles
  <2>4. ~threw => applied
    BY <2>1, <2>3, InsertEffect
  <2>5. /\ \A p \in Reqs \ {q} : pc'[p] = pc[p]
        /\ pc'[q] = IF threw THEN "failed" ELSE "answered"
    BY <1>0, <2>1
  <2> QED  BY <2>1, <2>2, <2>3, <2>4, <2>5, InsertedRow
<1>8. ASSUME NEW q \in Reqs, StreamEnds(q) PROVE RecordInv'
  <2>1. /\ UNCHANGED <<conv, messages, kind, target>> /\ pc[q] = "stream"
        /\ \E l \in {"answered", "failed"} : pc' = [pc EXCEPT ![q] = l]
        /\ kind[q] = "stream"
    BY <1>8 DEF StreamEnds, rows, TypeInv, RequestInv
  <2> QED  BY <1>0, <2>1, KeptRows
<1>9. ASSUME NEW q \in Reqs, SaveSettles(q) PROVE RecordInv'
  <2>1. PICK role \in saves[q], applied \in BOOLEAN, threw \in BOOLEAN :
          CreateMessage(q, role, applied, threw)
    BY <1>9 DEF SaveSettles
  <2>2. UNCHANGED <<conv, pc, kind, target>>
    BY <1>9 DEF SaveSettles
  <2>3. /\ target[q] \in Convs /\ role \in Roles
        /\ pc[q] = "answered" /\ kind[q] = "stream"
    BY <2>1 DEF TypeInv, RequestInv, TypeOK
  <2> QED  BY <2>1, <2>2, <2>3, InsertedRow
<1>10. ASSUME NEW q \in Reqs, DeleteConversation(q) PROVE RecordInv'
  <2>1. /\ UNCHANGED <<kind, target>> /\ pc[q] = "delete" /\ kind[q] = "delete"
        /\ \E l \in {"answered", "failed"} : pc' = [pc EXCEPT ![q] = l]
    BY <1>10 DEF DeleteConversation, TypeInv, RequestInv
  <2>2. target[q] \in Convs
    BY <2>1 DEF TypeInv, RequestInv, Targeted
  <2>3. CASE UNCHANGED <<conv, messages>>
    BY <1>0, <2>1, <2>3, KeptRows
  <2>4. CASE /\ conv' = [conv EXCEPT ![target[q]] = "deleted"]
             /\ messages' = [messages EXCEPT ![target[q]] = <<>>]
    <3>1. DOMAIN <<>> = {}
      OBVIOUS
    <3>2. /\ messages'[target[q]] = <<>> /\ DOMAIN messages'[target[q]] = {}
          /\ \A c \in Convs \ {target[q]} : messages'[c] = messages[c] /\ conv'[c] = conv[c]
          /\ conv'[target[q]] = "deleted"
      BY <1>0, <2>2, <2>4, <3>1
    <3>3. \A p \in Reqs :
            Live(p)' => /\ Live(p) /\ target[p] \in Convs \ {target[q]}
                        /\ messages'[target[p]] = messages[target[p]]
      BY <1>0, <2>1, <2>2, <3>2 DEF Live
    <3>4. \A p \in Reqs : pc'[p] = pc[p] \/ (p = q /\ pc'[p] \in {"answered", "failed"})
      BY <1>0, <2>1
    <3>5. DeletedLeavesNothing'
      BY <3>2 DEF RecordInv, DeletedLeavesNothing
    <3>6. Owned'
      BY <3>2, <3>4, MessageOwner DEF RecordInv, Owned
    <3>7. Asked'
      BY <2>1, <3>3, <3>4 DEF RecordInv, Asked, Message, Elements
    <3>8. NoReplyWithoutQuestion'
      BY <2>1, <3>2 DEF RecordInv, NoReplyWithoutQuestion, Message
    <3>9. AnsweredChatIsRecorded'
      BY <2>1, <3>3, <3>4 DEF RecordInv, AnsweredChatIsRecorded, Message, Recorded
    <3> QED  BY <3>5, <3>6, <3>7, <3>8, <3>9 DEF RecordInv
  <2> QED  BY <1>10, <2>3, <2>4 DEF DeleteConversation, DeleteRows, rows
<1>11. ASSUME Crash PROVE RecordInv'
  <2>1. /\ UNCHANGED <<conv, messages, kind, target>>
        /\ \A q \in Reqs : pc'[q] = pc[q] \/ pc'[q] = "lost"
    BY <1>11 DEF Crash, rows
  <2> QED  BY <2>1, KeptRows
<1>12. ASSUME UNCHANGED vars PROVE RecordInv'
  BY <1>12, KeptRows DEF vars, rows
<1> QED
  BY <1>1, <1>2, <1>3, <1>4, <1>5, <1>6, <1>7, <1>8, <1>9, <1>10, <1>11, <1>12
  DEF Next, Step

\* What RecordInv says of the tables holds throughout.
LEMMA RecordCorrect == Spec => []RecordInv
<1> QED
  BY InitTypeInv, NextTypeInv, InitRecordInv, NextRecordInv, PTL DEF Spec

\* A conversation that is deleted stays without messages, although chats, streams
\* and background inserts for it may still be under way.
THEOREM DeletionIsFinal == Spec => []DeletedLeavesNothing
<1>1. RecordInv => DeletedLeavesNothing
  BY DEF RecordInv
<1> QED  BY RecordCorrect, <1>1, PTL

\* chat never stores a reply without its question before it.
THEOREM RepliesHaveQuestions == Spec => []NoReplyWithoutQuestion
<1>1. RecordInv => NoReplyWithoutQuestion
  BY DEF RecordInv
<1> QED  BY RecordCorrect, <1>1, PTL

\* Question and reply of every answered chat are stored in this order as long as
\* the conversation exists.
THEOREM AnswersAreRecorded == Spec => []AnsweredChatIsRecorded
<1>1. RecordInv => AnsweredChatIsRecorded
  BY DEF RecordInv
<1> QED  BY RecordCorrect, <1>1, PTL

-----------------------------------------------------------------------------
(***************************************************************************)
(* What the model is told                                                  *)
(***************************************************************************)

\* No request has read a history at first.
LEMMA InitContextInv == Init => ContextInv
BY DEF Init, ContextInv, Known, ContextIsKept

\* A step under which the messages of no live conversation get fewer keeps what
\* requests know of, when it brings no request to the awaits concerned.
LEMMA KeptContext ==
  ASSUME ContextInv, UNCHANGED <<target, history, after>>,
         \A q \in Reqs : Live(q)' => /\ Live(q)
                                     /\ Elements(messages[target[q]])
                                          \subseteq Elements(messages'[target[q]]),
         \A q \in Reqs : pc'[q] \in {"find", "findLastN"} => pc[q] \in {"find", "findLastN"},
         \A q \in Reqs : pc'[q] \in {"create", "ask"} => pc'[q] = pc[q]
  PROVE  ContextInv'
<1>1. Known'
  BY DEF ContextInv, Known, Message, Elements
<1>2. ContextIsKept'
  BY DEF ContextInv, ContextIsKept, InContext, Message, Elements
<1> QED  BY <1>1, <1>2 DEF ContextInv

\* An insert only adds messages.
LEMMA InsertOnlyAdds ==
  ASSUME TypeInv, NEW q \in Reqs, target[q] \in Convs, NEW role \in Roles,
         NEW applied \in BOOLEAN, NEW threw \in BOOLEAN,
         CreateMessage(q, role, applied, threw)
  PROVE  \A c \in Convs : Elements(messages[c]) \subseteq Elements(messages'[c])
<1>1. messages[target[q]] \in Seq(Messages) /\ Message(role, q) \in Messages
  BY DEF TypeInv, Message, Messages
<1>2. Elements(Append(messages[target[q]], Message(role, q)))
        = Elements(messages[target[q]]) \cup {Message(role, q)}
  BY <1>1, AppendEffect
<1>3. \A c \in Convs :
        \/ messages'[c] = messages[c]
        \/ c = target[q] /\ messages'[c] = Append(messages[target[q]], Message(role, q))
  BY InsertEffect
<1> QED  BY <1>2, <1>3

\* A history is read after the exchanges of after[q] were stored, and rows go only with
\* their conversation.
LEMMA NextContextInv == TypeInv /\ RecordInv /\ ContextInv /\ [Next]_vars => ContextInv'
<1> SUFFICES ASSUME TypeInv, RecordInv, ContextInv, [Next]_vars PROVE ContextInv'
  OBVIOUS
<1> USE DEF Goto
<1>0. /\ pc \in [Reqs -> PcStates] /\ kind \in [Reqs -> CallKinds \cup {"none"}]
      /\ target \in [Reqs -> Convs \cup {None}]
      /\ conv \in [Convs -> {"unused", "live", "deleted"}]
      /\ messages \in [Convs -> Seq(Messages)]
      /\ history \in [Reqs -> Seq(Messages)]
      /\ after \in [Reqs -> SUBSET Reqs]
      /\ None \notin Convs
  BY ChatAssumption DEF TypeInv, TypeOK, ChatAssumption
<1>1. ASSUME NEW q \in Reqs, Post(q) PROVE ContextInv'
  <2> DEFINE stored(c) == {p \in Reqs : /\ c # None
                                        /\ target[p] = c
                                        /\ pc[p] = "answered"
                                        /\ \/ kind[p] = "chat"
                                           \/ \A role \in Roles :
                                                Message(role, p) \in Elements(messages[c])}
  <2>1. PICK k \in Kinds, c \in Convs \cup {None} :
          /\ target' = [target EXCEPT ![q] = c]
          /\ after' = [after EXCEPT ![q] = stored(c)]
          /\ pc' = [pc EXCEPT ![q] = IF c = None THEN "create" ELSE "find"]
    BY <1>1, Zenon DEF Post
  <2>2. UNCHANGED <<conv, messages, history>> /\ pc[q] = "idle"
    BY <1>1 DEF Post, rows
  <2>3. ASSUME c # None, conv[c] = "live", NEW p \in stored(c), NEW role \in Roles
        PROVE  Message(role, p) \in Elements(messages[c])
    <3>1. CASE kind[p] = "chat"
      <4>1. Live(p) /\ target[p] = c
        BY <2>3 DEF Live
      <4>2. Recorded(p)
        BY <2>3, <3>1, <4>1 DEF RecordInv, AnsweredChatIsRecorded
      <4> QED  BY <4>1, <4>2 DEF Recorded, Elements, Roles
    <3> QED  BY <2>3, <3>1
  <2>4. stored(None) = {}
    OBVIOUS
  <2> HIDE DEF stored
  <2>5. \A p \in Reqs \ {q} : /\ target'[p] = target[p] /\ after'[p] = after[p]
                              /\ pc'[p] = pc[p]
    BY <1>0, <2>1
  <2>6. /\ target'[q] = c /\ after'[q] = stored(c)
        /\ pc'[q] = IF c = None THEN "create" ELSE "find"
    BY <1>0, <2>1
  <2>7. Known'
    <3> SUFFICES ASSUME NEW p \in Reqs
                 PROVE  /\ pc'[p] \in {"find", "findLastN"} /\ Live(p)'
                             => \A o \in after'[p], role \in Roles :
                                  Message(role, o) \in Elements(messages[target'[p]])
                        /\ pc'[p] = "create" => after'[p] = {}
      BY <2>2 DEF Known, Message, Elements
    <3>1. CASE p = q
      BY <2>2, <2>3, <2>4, <2>6, <3>1 DEF Live
    <3>2. CASE p # q
      BY <2>2, <2>5, <3>2 DEF ContextInv, Known, Live
    <3> QED  BY <3>1, <3>2
  <2>8. ContextIsKept'
    BY <2>2, <2>5, <2>6 DEF ContextInv, ContextIsKept, InContext, Live, Message, Elements
  <2> QED  BY <2>7, <2>8 DEF ContextInv
<1>2. ASSUME NEW q \in Reqs, CreateConversation(q) PROVE ContextInv'
  <2>1. PICK c \in Convs, applied \in BOOLEAN, threw \in BOOLEAN :
          /\ conv[c] = "unused"
          /\ conv' = [conv EXCEPT ![c] = IF applied THEN "live" ELSE @]
          /\ target' = [target EXCEPT ![q] = IF threw THEN @ ELSE c]
          /\ pc' = [pc EXCEPT ![q] = IF threw THEN "failed" ELSE "ask"]
    BY <1>2 DEF CreateConversation
  <2>2. UNCHANGED <<messages, history, after>> /\ pc[q] = "create" /\ after[q] = {}
    BY <1>2 DEF CreateConversation, ContextInv, Known
  <2>3. \A p \in Reqs \ {q} : /\ target'[p] = target[p] /\ pc'[p] = pc[p]
                              /\ Live(p)' => Live(p)
    BY <1>0, <2>1 DEF Live, TypeInv, RequestInv
  <2>4. pc'[q] \in {"failed", "ask"}
    BY <1>0, <2>1
  <2>5. Known'
    BY <2>2, <2>3, <2>4 DEF ContextInv, Known, Message, Elements
  <2>6. ContextIsKept'
    BY <2>2, <2>3, <2>4 DEF ContextInv, ContextIsKept, InContext, Message, Elements
  <2> QED  BY <2>5, <2>6 DEF ContextInv
<1>3. ASSUME NEW q \in Reqs, FindConversation(q) PROVE ContextInv'
  <2>1. /\ UNCHANGED <<conv, messages, target, history, after>> /\ pc[q] = "find"
        /\ \E l \in {"delete", "findLastN", "failed"} : pc' = [pc EXCEPT ![q] = l]
    BY <1>3 DEF FindConversation, rows
  <2> QED  BY <1>0, <2>1, KeptContext DEF Live
<1>4. ASSUME NEW q \in Reqs, FindLastN(q) PROVE ContextInv'
  <2>1. /\ UNCHANGED <<conv, messages, target, after>> /\ pc[q] = "findLastN"
        /\ \/ /\ history' = [history EXCEPT ![q] = LastN(messages[target[q]])]
              /\ pc' = [pc EXCEPT ![q] = "ask"]
           \/ pc' = [pc EXCEPT ![q] = "failed"] /\ UNCHANGED history
    BY <1>4 DEF FindLastN, rows
  <2>2. target[q] \in Convs
    BY <2>1 DEF TypeInv, RequestInv, Targeted
  <2>3. /\ \A p \in Reqs \ {q} : pc'[p] = pc[p] /\ history'[p] = history[p]
        /\ pc'[q] \in {"ask", "failed"}
        /\ pc'[q] = "ask" => history'[q] = LastN(messages[target[q]])
    BY <1>0, <2>1
  <2>4. \/ Len(LastN(messages[target[q]])) = HistoryLimit
        \/ Elements(messages[target[q]]) \subseteq Elements(LastN(messages[target[q]]))
    BY <1>0, <2>2, LastNEffect
  <2>5. Known'
    BY <2>1, <2>3 DEF ContextInv, Known, Live, Message, Elements
  <2>6. ContextIsKept'
    <3> SUFFICES ASSUME NEW p \in Reqs, pc'[p] = "ask", Live(p)', NEW o \in after[p]
                 PROVE  \/ Len(history'[p]) = HistoryLimit
                        \/ \A role \in Roles : Message(role, o) \in Elements(history'[p])
      BY <2>1 DEF ContextIsKept, InContext, Message, Elements
    <3>1. Live(p)
      BY <2>1 DEF Live
    <3>2. CASE p = q
      <4>1. \A role \in Roles : Message(role, o) \in Elements(messages[target[q]])
        BY <2>1, <3>1, <3>2 DEF ContextInv, Known
      <4> QED  BY <2>3, <2>4, <3>2, <4>1
    <3>3. CASE p # q
      BY <2>3, <3>1, <3>3 DEF ContextInv, ContextIsKept, InContext
    <3> QED  BY <3>2, <3>3
  <2> QED  BY <2>5, <2>6 DEF ContextInv
<1>5. ASSUME NEW q \in Reqs, AskModel(q) PROVE ContextInv'
  <2>1. /\ UNCHANGED <<conv, messages, target, history, after>>
        /\ \E l \in {"saveUser", "stream", "failed", "answered"} : pc' = [pc EXCEPT ![q] = l]
    BY <1>5 DEF AskModel, rows
  <2> QED  BY <1>0, <2>1, KeptContext DEF Live
<1>6. ASSUME NEW q \in Reqs, SaveUserMessage(q) \/ SaveAssistantMessage(q) PROVE ContextInv'
  <2>1. PICK role \in Roles, applied \in BOOLEAN, threw \in BOOLEAN :
          CreateMessage(q, role, applied, threw)
    BY <1>6 DEF SaveUserMessage, SaveAssistantMessage, Roles
  <2>2. /\ UNCHANGED <<conv, target, history, after>>
        /\ pc[q] \in {"saveUser", "saveAssistant"}
        /\ \E l \in {"failed", "saveAssistant", "answered"} : pc' = [pc EXCEPT ![q] = l]
    BY <1>6 DEF SaveUserMessage, SaveAssistantMessage
  <2>3. target[q] \in Convs
    BY <2>2 DEF TypeInv, RequestInv, Targeted
  <2>4. \A c \in Convs : Elements(messages[c]) \subseteq Elements(messages'[c])
    BY <2>1, <2>3, InsertOnlyAdds
  <2> QED  BY <1>0, <2>2, <2>4, KeptContext DEF Live
<1>7. ASSUME NEW q \in Reqs, StreamEnds(q) PROVE ContextInv'
  <2>1. /\ UNCHANGED <<conv, messages, target, history, after>>
        /\ \E l \in {"failed", "answered"} : pc' = [pc EXCEPT ![q] = l]
    BY <1>7 DEF StreamEnds, rows
  <2> QED  BY <1>0, <2>1, KeptContext DEF Live
<1>8. ASSUME NEW q \in Reqs, SaveSettles(q) PROVE ContextInv'
  <2>1. PICK role \in saves[q], applied \in BOOLEAN, threw \in BOOLEAN :
          CreateMessage(q, role, applied, threw)
    BY <1>8 DEF SaveSettles
  <2>2. UNCHANGED <<conv, pc, target, history, after>>
    BY <1>8 DEF SaveSettles
  <2>3. target[q] \in Convs /\ role \in Roles
    BY <2>1 DEF TypeInv, RequestInv, TypeOK
  <2>4. \A c \in Convs : Elements(messages[c]) \subseteq Elements(messages'[c])
    BY <2>1, <2>3, InsertOnlyAdds
  <2> QED  BY <1>0, <2>2, <2>4, KeptContext DEF Live
<1>9. ASSUME NEW q \in Reqs, DeleteConversation(q) PROVE ContextInv'
  <2>1. /\ UNCHANGED <<target, history, after>> /\ pc[q] = "delete"
        /\ \E l \in {"answered", "failed"} : pc' = [pc EXCEPT ![q] = l]
    BY <1>9 DEF DeleteConversation
  <2>2. target[q] \in Convs
    BY <2>1 DEF TypeInv, RequestInv, Targeted
  <2>3. \/ UNCHANGED <<conv, messages>>
        \/ /\ conv' = [conv EXCEPT ![target[q]] = "deleted"]
           /\ messages' = [messages EXCEPT ![target[q]] = <<>>]
    BY <1>9 DEF DeleteConversation, DeleteRows, rows
  <2>4. \A c \in Convs :
          conv'[c] = "live" => conv[c] = "live" /\ messages'[c] = messages[c]
    BY <1>0, <2>2, <2>3
  <2> QED  BY <1>0, <2>1, <2>4, KeptContext DEF Live
<1>10. ASSUME Crash PROVE ContextInv'
  <2>1. /\ UNCHANGED <<conv, messages, target, history, after>>
        /\ \A q \in Reqs : pc'[q] = pc[q] \/ pc'[q] = "lost"
    BY <1>10 DEF Crash, rows
  <2> QED  BY <2>1, KeptContext DEF Live
<1>11. ASSUME UNCHANGED vars PROVE ContextInv'
  BY <1>11, KeptContext DEF vars, rows, Live
<1> QED
  BY <1>1, <1>2, <1>3, <1>4, <1>5, <1>6, <1>7, <1>8, <1>9, <1>10, <1>11
  DEF Next, Step

\* A request never asks the model without every exchange of its conversation that
\* had been answered and stored when the request was made, unless the window is
\* full or the conversation is gone.
THEOREM ContextKept == Spec => []ContextIsKept
<1>1. ContextInv => ContextIsKept
  BY DEF ContextInv
<1> QED
  BY InitTypeInv, NextTypeInv, InitRecordInv, NextRecordInv, InitContextInv,
     NextContextInv, <1>1, PTL DEF Spec
=============================================================================
