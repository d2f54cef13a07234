------------------------------ MODULE SseStream ------------------------------
(***************************************************************************)
(* How the tokens of a streamed reply travel: the model provider sends     *)
(* server-sent events to ChatService.chatStream, which forwards each token *)
(* as an event of its own to ApiClient.chatStream.  TCP delivers both byte *)
(* streams in chunks that know nothing of events.                          *)
(*                                                                         *)
(* An event is the line "data: {json}" and a newline, in three pieces: the *)
(* beginning of the line, the rest of it, the newline.  A chunk may end    *)
(* after any piece.  Token 0 stands for the event {complete: true}.        *)
(***************************************************************************)
EXTENDS Naturals, Sequences

CONSTANTS
  TokenCount,  \* tokens of the reply
  MaxChunk     \* bound: the largest chunk, in pieces

ASSUME StreamAssumption ==
  /\ TokenCount \in Nat
  /\ MaxChunk \in Nat \ {0}

VARIABLES
  upstream,   \* pieces the provider has sent and the server not received
  fullReply,  \* tokens the server has collected, what it saves at the end
  cut,        \* history: tokens in whose line a chunk ended
  ended,      \* the server saw 'end' and answered complete
  wire,       \* pieces sent to the client and not received
  buffer,     \* the client's unfinished line
  shown,      \* tokens the client has yielded
  complete    \* the client saw the completion event and stopped reading

vars == <<upstream, fullReply, cut, ended, wire, buffer, shown, complete>>

Tokens == 1..TokenCount

Head1(t)  == [piece |-> "head", token |-> t]
Rest(t)   == [piece |-> "rest", token |-> t]
Newline   == [piece |-> "newline", token |-> 0]
Event(t)  == <<Head1(t), Rest(t), Newline>>

\* The events of a sequence of tokens, one after the other.
Events(ts) ==
  [i \in 1..(3 * Len(ts)) |-> Event(ts[(i + 2) \div 3])[((i - 1) % 3) + 1]]

Newlines(s) == {i \in DOMAIN s : s[i] = Newline}

\* Mutant: only lines that end with a newline are parsed.
Whole_Terminated(s, i) ==
  /\ i + 3 <= Len(s)
  /\ s[i + 1].piece = "head"
  /\ s[i + 2].piece = "rest"

\* split('\\n'): a line starts at the beginning and after every newline, the last
\* one may be unfinished.  A line that starts with "data: " and is whole parses,
\* anything else is skipped or fails to parse.
Whole(s, i) ==
  /\ i + 2 <= Len(s)
  /\ s[i + 1].piece = "head"
  /\ s[i + 2].piece = "rest"

Starts(s) == {0} \cup Newlines(s)

\* The tokens of the lines of s that parse, in order.
Parsed(s) ==
  LET upTo[i \in 0..Len(s)] ==
        IF i = 0 THEN <<>>
        ELSE IF i >= 2 /\ i - 2 \in Starts(s) /\ Whole(s, i - 2)
             THEN Append(upTo[i - 1], s[i].token)
             ELSE upTo[i - 1]
  IN  upTo[Len(s)]

\* A sequence of tokens without those in dropped.
Without(ts, dropped) ==
  LET kept[i \in 0..Len(ts)] ==
        IF i = 0 THEN <<>>
        ELSE IF ts[i] \in dropped THEN kept[i - 1] ELSE Append(kept[i - 1], ts[i])
  IN  kept[Len(ts)]

Init ==
  /\ upstream = Events([t \in Tokens |-> t])
  /\ fullReply = <<>>
  /\ cut = {}
  /\ ended = FALSE
  /\ wire = <<>>
  /\ buffer = <<>>
  /\ shown = <<>>
  /\ complete = FALSE

Take(s, n) == SubSeq(s, 1, n)
Drop(s, n) == SubSeq(s, n + 1, Len(s))

\* The token whose line goes on after the first n pieces.
CutAt(s, n) ==
  IF n < Len(s) /\ s[n + 1].piece = "rest" THEN {s[n + 1].token} ELSE {}

\* 'data': every chunk is split into lines by itself.
ServerReceives(n) ==
  /\ n <= Len(upstream)
  /\ upstream' = Drop(upstream, n)
  /\ LET tokens == Parsed(Take(upstream, n)) IN
       /\ fullReply' = fullReply \o tokens
       /\ cut' = cut \cup CutAt(upstream, n)
       /\ wire' = wire \o Events(tokens)
  /\ UNCHANGED <<ended, buffer, shown, complete>>

\* Mutant: the response is closed without the completion event.
ServerEnds_Silent ==
  /\ upstream = <<>> /\ ~ended
  /\ ended' = TRUE
  /\ UNCHANGED <<upstream, fullReply, cut, wire, buffer, shown, complete>>

\* 'end': the reply is saved and the client gets the completion event.
ServerEnds ==
  /\ upstream = <<>> /\ ~ended
  /\ ended' = TRUE
  /\ wire' = wire \o Event(0)
  /\ UNCHANGED <<upstream, fullReply, cut, buffer, shown, complete>>

\* The position after which the client's text has no newline any more.
LastNewline(s) == IF Newlines(s) = {} THEN 0
                  ELSE CHOOSE i \in Newlines(s) : \A j \in Newlines(s) : j <= i

\* Mutant: the rest of a chunk is thrown away.
Unfinished_Dropped(s) == <<>>

\* lines.pop(): what comes after the last newline is kept for the next chunk.
Unfinished(s) == Drop(s, LastNewline(s))

\* The client appends the chunk to its buffer, yields the tokens of the finished
\* lines and stops at the completion event.
ClientReceives(n) ==
  /\ ~complete
  /\ n <= Len(wire)
  /\ wire' = Drop(wire, n)
  /\ LET read   == buffer \o Take(wire, n)
         tokens == Parsed(Take(read, LastNewline(read)))
     IN  /\ buffer' = Unfinished(read)
         /\ shown' = shown \o Without(tokens, {0})
         /\ complete' = \E k \in DOMAIN tokens : tokens[k] = 0
  /\ UNCHANGED <<upstream, fullReply, cut, ended>>

Next ==
  \/ \E n \in 1..MaxChunk : ServerReceives(n) \/ ClientReceives(n)
  \/ ServerEnds

Spec == Init /\ [][Next]_vars

\* The sockets deliver, and both ends read what arrives.
FairSpec == Spec /\ WF_vars(Next)

-----------------------------------------------------------------------------
(***************************************************************************)
(* Properties                                                              *)
(***************************************************************************)

\* Nothing is lost, duplicated or reordered between server and client, wherever
\* the chunks are cut: what the client shows, what its buffer and the wire still
\* hold, together are what the server has collected.
ClientFollowsServer ==
  LET coming == Parsed(buffer \o wire)
  IN  shown \o Without(coming, {0}) = fullReply

\* The client always gets the completion event and stops, with the text the
\* server saved.
StreamCompletes == <>(complete /\ shown = fullReply)

\* What the server saves as "the complete reply" has every token of the reply, once
\* and in order, except those in whose line a chunk of the provider ended: a chunk
\* that ends at, before or after a newline loses nothing.
ReplyMissesOnlyCut ==
  ended => fullReply = Without([t \in Tokens |-> t], cut)
=============================================================================
