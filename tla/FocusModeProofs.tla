--------------------------- MODULE FocusModeProofs ---------------------------
(***************************************************************************)
(* What the focus mode of the chat page guarantees for any number of       *)
(* sessions and of overlapping, failing requests: no open session is left  *)
(* unseen, the screen shows what the database holds, and a session that    *)
(* has ended stays ended, apart from the losses and races that excused and *)
(* raced record.                                                           *)
(***************************************************************************)
EXTENDS FocusMode, FiniteSetTheorems, TLAPS

-----------------------------------------------------------------------------
(***************************************************************************)
(* The inductive invariant                                                 *)
(***************************************************************************)

Ending  == {"abandon", "duration", "complete"}
Pausing == {"pause", "resume"}

\* Sessions the properties say nothing about.
Out == excused \cup raced

\* A request of the finalizeSession that is running.
Ends(r) == r.mounted /\ r.kind \in Ending

\* The types of the page and the rows.
PageTyped ==
  /\ page \in Pages /\ rows \in [Ids -> Open \cup Ended \cup {"none"}]
  /\ excused \subseteq Ids /\ raced \subseteq Ids

\* Sessions are numbered in the order they are asked for.
SessionsAreCreated ==
  /\ page.ref <= page.created
  /\ \A r \in page.requests : r.session <= page.created
  /\ \A s \in Ids : s > page.created => rows[s] = "none"

\* There is a session on screen while it is started, and when focus mode is off it
\* is being ended.
ScreenHasSession ==
  /\ page.started <=> page.ref # 0
  /\ page.started /\ ~page.active => page.finalizing

\* Until its creation is answered no other request is about a session, and it is not
\* on screen.
CreationsAreAlone ==
  \A r \in page.requests : r.kind = "create" =>
    /\ r.state = "sent" => rows[r.session] = "none"
    /\ r.state = "ok" => rows[r.session] = "active"
    /\ page.ref # r.session
    /\ \A q \in page.requests : q.session = r.session => q = r

\* finalizingRef is set exactly while one finalizeSession has a request under way.
EndingIsExclusive ==
  /\ \A r, q \in page.requests : Ends(r) /\ Ends(q) => r = q
  /\ page.finalizing <=> \E r \in page.requests : Ends(r)
  /\ \A r \in page.requests : Ends(r) => page.started

\* Requests that outlive the page are about sessions that no other request, and no
\* page, is about any more.
LeftBehind ==
  \A r \in page.requests : ~r.mounted =>
    /\ r.session \in Out /\ r.session # page.ref
    /\ \A q \in page.requests : q.mounted => q.session # r.session

\* A pause or resume meets the end of its session only in a race.
PausesRace ==
  /\ \A r \in page.requests : Ends(r) /\ ~page.loading => r.session \in raced
  /\ \A r, q \in page.requests :
       r.kind \in Pausing /\ q.kind \in Ending /\ r.session = q.session
         => r.session \in raced
  /\ \A r \in page.requests :
       r.kind \in Pausing /\ r.state = "sent" /\ rows[r.session] \in Ended
         => r.session \in raced
  /\ page.ref # 0 /\ rows[page.ref] \in Ended
       => \E r \in page.requests : Ends(r) /\ r.session = page.ref

\* A session that the page is not about, or that another one took the place of, is
\* excused.
OverlapsAreExcused ==
  /\ \A r, q \in page.requests :
       r.mounted /\ q.mounted /\ r.kind = "create" /\ q.kind = "create"
         /\ r.session # q.session => r.session \in excused
  /\ \A r \in page.requests : r.mounted /\ r.kind = "create" /\ page.ref # 0
                                => r.session \in excused /\ page.ref \in excused
  /\ \A r \in page.requests : Ends(r) /\ r.session # page.ref
                                => r.session \in Out /\ page.ref \in Out
  /\ \A r \in page.requests : r.kind \in Pausing
                                => r.session = page.ref \/ r.session \in Out

\* An open session is on screen or about to be, and an end that was answered is one.
OpenIsKnown ==
  /\ \A s \in Ids : rows[s] \in Open =>
       \/ s \in Out \/ page.ref = s
       \/ \E r \in page.requests : r.kind = "create" /\ r.session = s
  /\ \A r \in page.requests : r.kind \in {"abandon", "complete"} /\ r.state = "ok"
                                => rows[r.session] \in Ended \/ r.session \in Out

Shown == IF page.paused THEN "paused" ELSE "active"

\* While nothing was lost and nothing raced, requests follow each other, and the
\* button agrees with the row.
ButtonAgrees ==
  Out = {} =>
    /\ \A r, q \in page.requests : r = q
    /\ page.requests # {} => page.loading
    /\ ~page.started => ~page.paused
    /\ page.started =>
         /\ page.requests = {} => rows[page.ref] = Shown
         /\ \A r \in page.requests : r.kind \in Pausing =>
              /\ r.state = "sent" => rows[page.ref] = Shown
              /\ r.state = "ok" => rows[page.ref] = Writes[r.kind]

ModeInv ==
  /\ PageTyped /\ SessionsAreCreated /\ ScreenHasSession /\ CreationsAreAlone
  /\ EndingIsExclusive /\ LeftBehind /\ PausesRace /\ OverlapsAreExcused
  /\ OpenIsKnown /\ ButtonAgrees

-----------------------------------------------------------------------------
(***************************************************************************)
(* The functions on the page                                               *)
(***************************************************************************)

\* The fields of a page, one after the other.
Has(p, requests, active, started, ref, finalizing, paused, loading, dialog, created) ==
  /\ p \in Pages
  /\ p.requests = requests /\ p.active = active /\ p.started = started
  /\ p.ref = ref /\ p.finalizing = finalizing /\ p.paused = paused
  /\ p.loading = loading /\ p.dialog = dialog /\ p.created = created

\* The fields of a page, one by one.
LEMMA PageFields ==
  ASSUME NEW p \in Pages
  PROVE  /\ p.active \in BOOLEAN /\ p.started \in BOOLEAN /\ p.ref \in Ids \cup {0}
         /\ p.finalizing \in BOOLEAN /\ p.paused \in BOOLEAN /\ p.loading \in BOOLEAN
         /\ p.dialog \in BOOLEAN /\ p.requests \in SUBSET Requests
         /\ p.created \in 0..MaxSessions
  BY DEF Pages

\* The fields of a request, one by one.
LEMMA RequestFields ==
  ASSUME NEW r \in Requests
  PROVE  /\ r.kind \in Kinds /\ r.session \in Ids
         /\ r.state \in {"sent", "ok", "error"} /\ r.mounted \in BOOLEAN
  BY DEF Requests

\* The kinds of request.
LEMMA KindsAre ==
  Kinds = {"create", "pause", "resume", "abandon", "complete", "duration"}
  BY DEF Kinds, Writes

\* Sessions are numbered from 1; 0 is no session.
LEMMA IdsAre == Ids \subseteq Nat /\ 0 \notin Ids /\ MaxSessions \in Nat
  BY FocusModeAssumption DEF Ids

\* A request as it is sent.
LEMMA RequestIs ==
  ASSUME NEW kind \in Kinds, NEW s \in Ids
  PROVE  /\ Request(kind, s) \in Requests
         /\ Request(kind, s).kind = kind /\ Request(kind, s).session = s
         /\ Request(kind, s).state = "sent" /\ Request(kind, s).mounted = TRUE
  BY DEF Request, Requests

\* Sending a request adds it and sets the loading flag.
LEMMA CallsIs ==
  ASSUME NEW p \in Pages, NEW kind \in Kinds, NEW s \in Ids
  PROVE  Has(Calls(p, kind, s), p.requests \cup {Request(kind, s)}, p.active, p.started,
             p.ref, p.finalizing, p.paused, TRUE, p.dialog, p.created)
<1>1. p.requests \cup {Request(kind, s)} \in SUBSET Requests
  BY PageFields, RequestIs
<1> HIDE DEF Request
<1> QED BY <1>1 DEF Calls, Pages, Has

\* initializeSession sends the creation of the next session.
LEMMA InitializeIs ==
  ASSUME NEW p \in Pages, p.created # MaxSessions
  PROVE  /\ p.created + 1 \in Ids
         /\ Has(InitializeSession(p), p.requests \cup {Request("create", p.created + 1)},
                p.active, p.started, p.ref, p.finalizing, p.paused, TRUE, p.dialog,
                p.created + 1)
<1>1. p.created + 1 \in Ids /\ p.created + 1 \in 0..MaxSessions /\ "create" \in Kinds
  BY PageFields, KindsAre, FocusModeAssumption DEF Ids
<1> DEFINE c == Calls(p, "create", p.created + 1)
<1>2. Has(c, p.requests \cup {Request("create", p.created + 1)}, p.active, p.started,
          p.ref, p.finalizing, p.paused, TRUE, p.dialog, p.created)
  BY <1>1, CallsIs
<1>3. InitializeSession(p) = [c EXCEPT !.created = @ + 1]
  BY DEF InitializeSession
<1> HIDE DEF c
<1> QED BY <1>1, <1>2, <1>3 DEF Has, Pages

\* finalizeSession sends its first request for the session on screen.
LEMMA FinalizeIs ==
  ASSUME NEW p \in Pages, NEW first \in Kinds, p.ref # 0, ~p.finalizing
  PROVE  Has(FinalizeSession(p, first), p.requests \cup {Request(first, p.ref)}, p.active,
             p.started, p.ref, TRUE, p.paused, TRUE, p.dialog, p.created)
<1>1. p.ref \in Ids
  BY PageFields
<1> DEFINE c == Calls(p, first, p.ref)
<1>2. Has(c, p.requests \cup {Request(first, p.ref)}, p.active, p.started,
          p.ref, p.finalizing, p.paused, TRUE, p.dialog, p.created)
  BY <1>1, CallsIs
<1>3. FinalizeSession(p, first) = [c EXCEPT !.finalizing = TRUE]
  BY DEF FinalizeSession
<1> HIDE DEF c
<1> QED BY <1>2, <1>3 DEF Has, Pages

\* resetSession clears what the screen knows of its session.
LEMMA ResetIs ==
  ASSUME NEW p \in Pages
  PROVE  Has(ResetSession(p), p.requests, p.active, FALSE, 0, FALSE, FALSE, p.loading,
             FALSE, p.created)
  BY DEF ResetSession, Has, Pages

\* An answer takes its request and clears the loading flag.
LEMMA AnsweredIs ==
  ASSUME page \in Pages, NEW r
  PROVE  Has(Answered(r), page.requests \ {r}, page.active, page.started, page.ref,
             page.finalizing, page.paused, FALSE, page.dialog, page.created)
<1>1. page.requests \ {r} \in SUBSET Requests
  BY PageFields
<1> QED BY <1>1 DEF Answered, Has, Pages

\* The effect does one of three things.
LEMMA EffectIs ==
  ASSUME NEW p \in Pages
  PROVE  /\ p.active /\ ~p.started => Effect(p) = InitializeSession(p)
         /\ ~p.active /\ p.started => Effect(p) = FinalizeSession(p, "abandon")
         /\ (p.active <=> p.started) => Effect(p) = p
  BY DEF Effect

\* What the history variables record.
LEMMA RecordsRaces ==
  ASSUME NEW r \in page'.requests, Ends(r),
         \/ ~page'.loading
         \/ /\ \A o \in page.requests : Ends(o) => o.session # r.session
            /\ \E q \in page.requests : q.mounted /\ q.kind \in Pausing
                                        /\ q.session = r.session
  PROVE  r.session \in Races
<1>1. r.session \in Pending(page', {"abandon", "duration", "complete"})
  BY DEF Pending, Ends, Ending
<1>2. ASSUME NEW q \in page.requests, q.mounted, q.kind \in Pausing
      PROVE  q.session \in Pending(page, {"pause", "resume"})
  BY <1>2 DEF Pending, Pausing
<1>3. ASSUME \A o \in page.requests : Ends(o) => o.session # r.session
      PROVE  r.session \notin Pending(page, {"abandon", "duration", "complete"})
  BY <1>3 DEF Pending, Ends, Ending
<1> QED BY <1>1, <1>2, <1>3 DEF Races

\* Two creations under way are seen as overlapping.
LEMMA RecordsOverlaps ==
  ASSUME page' \in Pages, NEW r \in page'.requests, NEW q \in page'.requests,
         r.mounted, q.mounted, r.kind = "create", q.kind = "create",
         r.session # q.session
  PROVE  r.session \in Overlaps
<1> DEFINE c == Pending(page', {"create"})
<1>1. r.session \in c /\ q.session \in c
  BY DEF Pending
<1>2. c \subseteq Ids
  BY PageFields, RequestFields DEF Pending
<1>3. IsFiniteSet(Ids)
  BY FocusModeAssumption, FS_Interval DEF Ids
<1> HIDE DEF c
<1>4. IsFiniteSet(c)
  BY <1>2, <1>3, FS_Subset
<1>5. IsFiniteSet({r.session, q.session}) /\ Cardinality({r.session, q.session}) = 2
  <2>1. IsFiniteSet({q.session}) /\ Cardinality({q.session}) = 1
    BY FS_Singleton
  <2>2. r.session \notin {q.session}
    OBVIOUS
  <2>3. IsFiniteSet({q.session} \cup {r.session})
        /\ Cardinality({q.session} \cup {r.session}) = Cardinality({q.session}) + 1
    BY <2>1, <2>2, FS_AddElement, Zenon
  <2>4. {q.session} \cup {r.session} = {r.session, q.session}
    OBVIOUS
  <2> QED BY <2>1, <2>3, <2>4
<1>6. {r.session, q.session} \subseteq c
  BY <1>1
<1>7. Cardinality({r.session, q.session}) <= Cardinality(c) /\ Cardinality(c) \in Nat
  BY <1>4, <1>6, FS_Subset, FS_CardinalityType
<1>8. Cardinality(c) > 1
  BY <1>5, <1>7
<1> QED BY <1>1, <1>8 DEF Overlaps, c

\* The history variables hold sessions and only grow.
LEMMA RecordsTypes ==
  ASSUME PageTyped, page' \in Pages, NEW lost \in SUBSET Ids, Records(lost)
  PROVE  /\ excused' \subseteq Ids /\ raced' \subseteq Ids
         /\ excused \cup lost \cup Overlaps \subseteq excused'
         /\ raced \cup Races \subseteq raced'
<1>1. \A kinds : Pending(page', kinds) \subseteq Ids
  BY PageFields, RequestFields DEF Pending
<1>2. Overlaps \subseteq Ids /\ Races \subseteq Ids
  BY <1>1 DEF Overlaps, Races
<1> QED BY <1>2 DEF Records, PageTyped

-----------------------------------------------------------------------------
(***************************************************************************)
(* Steps of the page                                                       *)
(*                                                                         *)
(* Every action makes one of the following steps: something on the page    *)
(* that is no request, a creation, the begin of an end, a pause, an answer *)
(* that changes nothing else, that brings a session to the screen or takes *)
(* it away, a page that is left, and the server.                           *)
(***************************************************************************)

Grows ==
  /\ excused \subseteq excused' /\ excused' \subseteq Ids
  /\ raced \subseteq raced' /\ raced' \subseteq Ids

\* What Records guarantees.
Recorded ==
  /\ Grows
  /\ \A r \in page'.requests :
       /\ Ends(r)
       /\ \/ ~page'.loading
          \/ /\ \A o \in page.requests : Ends(o) => o.session # r.session
             /\ \E q \in page.requests : q.mounted /\ q.kind \in Pausing
                                         /\ q.session = r.session
       => r.session \in raced'
  /\ \A r, q \in page'.requests :
       r.mounted /\ q.mounted /\ r.kind = "create" /\ q.kind = "create"
         /\ r.session # q.session => r.session \in excused'

\* Every step records the losses and races it causes.
LEMMA RecordsIsRecorded ==
  ASSUME PageTyped, page' \in Pages, NEW lost \in SUBSET Ids, Records(lost)
  PROVE  Recorded /\ lost \subseteq excused'
  BY RecordsTypes, RecordsRaces, RecordsOverlaps DEF Recorded, Grows

\* A session once lost or raced stays so.
LEMMA OutGrows == ASSUME Grows PROVE Out \subseteq Out'
  BY DEF Grows, Out

\* The types of what is under way.
LEMMA Typed ==
  ASSUME ModeInv
  PROVE  /\ page \in Pages /\ rows \in [Ids -> Open \cup Ended \cup {"none"}]
         /\ page.ref \in Ids \cup {0} /\ page.ref \in Nat /\ page.created \in Nat
         /\ page.active \in BOOLEAN /\ page.started \in BOOLEAN
         /\ page.finalizing \in BOOLEAN /\ page.dialog \in BOOLEAN
         /\ page.loading \in BOOLEAN /\ page.paused \in BOOLEAN
         /\ \A r \in page.requests :
              /\ r \in Requests /\ r.kind \in Kinds /\ r.session \in Ids
              /\ r.session \in Nat /\ r.session # 0
              /\ r.state \in {"sent", "ok", "error"} /\ r.mounted \in BOOLEAN
<1>1. page \in Pages /\ rows \in [Ids -> Open \cup Ended \cup {"none"}]
  BY DEF ModeInv, PageTyped
<1>2. page.ref \in Nat /\ page.created \in Nat
  <2>1. page.ref \in Ids \cup {0} /\ page.created \in 0..MaxSessions
    BY <1>1, PageFields, Zenon
  <2>2. \A n \in Ids \cup {0} : n \in Nat
    BY IdsAre
  <2>3. \A n \in 0..MaxSessions : n \in Nat
    BY IdsAre
  <2> QED BY <2>1, <2>2, <2>3, Zenon
<1>3. \A r \in page.requests : r \in Requests
  BY <1>1, PageFields
<1>4. \A r \in page.requests : r.session \in Nat /\ r.session # 0
  BY <1>3, RequestFields, IdsAre
<1>5. \A r \in page.requests :
        /\ r.kind \in Kinds /\ r.session \in Ids
        /\ r.state \in {"sent", "ok", "error"} /\ r.mounted \in BOOLEAN
  BY <1>3, RequestFields, Zenon
<1> QED BY <1>1, <1>2, <1>3, <1>4, <1>5, PageFields, Zenon

\* Focus mode or the dialog is switched, and nothing else.
LEMMA SwitchKeeps ==
  ASSUME ModeInv, NEW ac \in BOOLEAN, NEW di \in BOOLEAN,
         Has(page', page.requests, ac, page.started, page.ref, page.finalizing,
             page.paused, page.loading, di, page.created),
         page.started /\ ~ac => page.finalizing,
         rows' = rows, Grows
  PROVE  ModeInv'
<1>1. PageTyped'
  BY DEF ModeInv, PageTyped, Has, Grows
<1>2. SessionsAreCreated'
  BY DEF ModeInv, SessionsAreCreated, Has
<1>3. ScreenHasSession'
  BY DEF ModeInv, ScreenHasSession, Has
<1>4. CreationsAreAlone'
  BY DEF ModeInv, CreationsAreAlone, Has
<1>5. EndingIsExclusive'
  BY DEF ModeInv, EndingIsExclusive, Has, Ends
<1>6. LeftBehind'
  BY OutGrows DEF ModeInv, LeftBehind, Has
<1>7. PausesRace'
  BY DEF ModeInv, PausesRace, Has, Ends, Grows
<1>8. OverlapsAreExcused'
  BY OutGrows DEF ModeInv, OverlapsAreExcused, Has, Ends, Grows
<1>9. OpenIsKnown'
  BY OutGrows DEF ModeInv, OpenIsKnown, Has
<1>10. ButtonAgrees'
  BY OutGrows DEF ModeInv, ButtonAgrees, Has, Shown
<1> QED BY <1>1, <1>2, <1>3, <1>4, <1>5, <1>6, <1>7, <1>8, <1>9, <1>10 DEF ModeInv

\* A session is asked for while none is on screen.
LEMMA CreationKeeps ==
  ASSUME ModeInv, ~page.started, page.created + 1 \in Ids,
         Has(page', page.requests \cup {Request("create", page.created + 1)}, TRUE,
             page.started, page.ref, page.finalizing, page.paused, TRUE, page.dialog,
             page.created + 1),
         rows' = rows, Recorded
  PROVE  ModeInv'
<1> DEFINE n == page.created + 1
           c == Request("create", n)
<1>1. c \in Requests /\ c.kind = "create" /\ c.session = n /\ c.state = "sent"
      /\ c.mounted = TRUE
  <2>1. "create" \in Kinds
    BY KindsAre
  <2> QED BY <2>1 DEF Request, Requests
<1>2. n \in Nat /\ n \in Ids /\ n # 0 /\ page.created \in Nat /\ n > page.created
      /\ page.created <= n
  BY Typed, IdsAre
<1>3. Grows /\ Out \subseteq Out'
  BY OutGrows DEF Recorded
<1>4. /\ page.ref = 0
      /\ \A r \in page.requests : r.session # n /\ r.session <= page.created
                                  /\ r.session \in Nat
      /\ rows[n] = "none" /\ ~page.finalizing /\ \A r \in page.requests : ~Ends(r)
  <2>1. \A r \in page.requests : r.session <= page.created /\ r.session \in Nat
    BY Typed DEF ModeInv, SessionsAreCreated
  <2>2. \A r \in page.requests : r.session # n
    BY <1>2, <2>1
  <2>3. page.ref = 0 /\ rows[n] = "none"
    BY <1>2 DEF ModeInv, SessionsAreCreated, ScreenHasSession
  <2>4. ~page.finalizing /\ \A r \in page.requests : ~Ends(r)
    BY DEF ModeInv, EndingIsExclusive
  <2> QED BY <2>1, <2>2, <2>3, <2>4
<1> HIDE DEF n, c
<1>5. page'.requests = page.requests \cup {c} /\ page'.active = TRUE
      /\ page'.started = page.started /\ page'.ref = page.ref
      /\ page'.finalizing = page.finalizing /\ page'.paused = page.paused
      /\ page'.loading = TRUE /\ page'.dialog = page.dialog /\ page'.created = n
      /\ page' \in Pages
  BY DEF Has, n, c
<1>6. ~Ends(c)
  BY <1>1 DEF Ends, Ending
<1>7. PageTyped'
  BY <1>3, <1>5 DEF ModeInv, PageTyped, Grows
<1>8. SessionsAreCreated'
  <2>1. page'.ref <= page'.created
    BY <1>2, <1>4, <1>5
  <2>2. \A r \in page'.requests : r.session <= page'.created
    BY <1>1, <1>2, <1>4, <1>5
  <2>3. \A s \in Ids : s > page'.created => rows'[s] = "none"
    <3> SUFFICES ASSUME NEW s \in Ids, s > n PROVE rows[s] = "none"
      BY <1>5
    <3>1. s > page.created
      BY <1>2, IdsAre
    <3> QED BY <3>1 DEF ModeInv, SessionsAreCreated
  <2> QED BY <2>1, <2>2, <2>3 DEF SessionsAreCreated
<1>9. ScreenHasSession'
  BY <1>5 DEF ModeInv, ScreenHasSession
<1>10. CreationsAreAlone'
  BY <1>1, <1>2, <1>4, <1>5 DEF ModeInv, CreationsAreAlone
<1>11. EndingIsExclusive'
  BY <1>4, <1>5, <1>6 DEF EndingIsExclusive
<1>12. LeftBehind'
  BY <1>1, <1>3, <1>4, <1>5 DEF ModeInv, LeftBehind
<1>13. PausesRace'
  BY <1>1, <1>3, <1>4, <1>5, <1>6 DEF ModeInv, PausesRace, Grows, Pausing, Ending
<1>14. OverlapsAreExcused'
  BY <1>1, <1>3, <1>4, <1>5, <1>6 DEF ModeInv, OverlapsAreExcused, Recorded, Pausing
<1>15. OpenIsKnown'
  BY <1>1, <1>3, <1>5 DEF ModeInv, OpenIsKnown
<1>16. ButtonAgrees'
  <2> SUFFICES ASSUME Out' = {} PROVE ButtonAgrees'
    BY DEF ButtonAgrees
  <2>1. Out = {}
    BY <1>3
  <2>2. page.requests = {}
    <3> SUFFICES ASSUME NEW r \in page.requests PROVE FALSE
      OBVIOUS
    <3>1. r.kind = "create" \/ r.kind \in Pausing \/ r.kind \in Ending
      BY Typed, KindsAre DEF Pausing, Ending
    <3>2. r.mounted
      BY <2>1 DEF ModeInv, LeftBehind
    <3>3. r.kind # "create"
      <4> SUFFICES ASSUME r.kind = "create" PROVE FALSE
        OBVIOUS
      <4>1. r.session \in excused'
        BY <1>1, <1>4, <1>5, <3>2 DEF Recorded
      <4> QED BY <4>1 DEF Out
    <3>4. r.kind \notin Pausing
      BY <1>4, <2>1, Typed DEF ModeInv, OverlapsAreExcused
    <3> QED BY <1>4, <3>1, <3>2, <3>3, <3>4 DEF Ends
  <2>3. ~page'.started /\ ~page'.paused
    BY <1>5, <2>1 DEF ModeInv, ButtonAgrees
  <2> QED BY <1>5, <2>2, <2>3 DEF ButtonAgrees
<1> QED BY <1>7, <1>8, <1>9, <1>10, <1>11, <1>12, <1>13, <1>14, <1>15, <1>16 DEF ModeInv

\* finalizeSession begins with the session on screen.
LEMMA EndBegins ==
  ASSUME ModeInv, page.ref # 0, ~page.finalizing, NEW ac \in BOOLEAN,
         NEW kind \in {"abandon", "duration"},
         Has(page', page.requests \cup {Request(kind, page.ref)}, ac,
             page.started, page.ref, TRUE, page.paused, TRUE, page.dialog, page.created),
         rows' = rows, Recorded
  PROVE  ModeInv'
<1> DEFINE e == Request(kind, page.ref)
<1>1. e \in Requests /\ e.kind = kind /\ e.session = page.ref /\ e.state = "sent"
      /\ e.mounted = TRUE /\ page.ref \in Ids
  <2>1. kind \in Kinds /\ page.ref \in Ids
    BY KindsAre, Typed
  <2> QED BY <2>1 DEF Request, Requests
<1>2. Grows /\ Out \subseteq Out' /\ Ends(e) /\ e.kind \in Ending
  BY <1>1, OutGrows DEF Recorded, Ends, Ending
<1>3. page.started /\ \A r \in page.requests : ~Ends(r)
  BY DEF ModeInv, EndingIsExclusive, ScreenHasSession
<1> HIDE DEF e
<1>4. page'.requests = page.requests \cup {e} /\ page'.active = ac
      /\ page'.started = page.started /\ page'.ref = page.ref
      /\ page'.finalizing = TRUE /\ page'.paused = page.paused
      /\ page'.loading = TRUE /\ page'.dialog = page.dialog
      /\ page'.created = page.created /\ page' \in Pages
  BY DEF Has, e
<1>5. PageTyped'
  BY <1>2, <1>4 DEF ModeInv, PageTyped, Grows
<1>6. SessionsAreCreated'
  BY <1>1, <1>4 DEF ModeInv, SessionsAreCreated
<1>7. ScreenHasSession'
  BY <1>4 DEF ModeInv, ScreenHasSession
<1>8. CreationsAreAlone'
  BY <1>1, <1>4 DEF ModeInv, CreationsAreAlone
<1>9. EndingIsExclusive'
  BY <1>1, <1>2, <1>3, <1>4 DEF EndingIsExclusive
<1>10. LeftBehind'
  BY <1>1, <1>2, <1>4 DEF ModeInv, LeftBehind
<1>11. \A r \in page.requests : r.kind \in Pausing /\ r.session = page.ref
                                  => r.mounted /\ r.session \in raced'
  <2> SUFFICES ASSUME NEW r \in page.requests, r.kind \in Pausing, r.session = page.ref
               PROVE  r.mounted /\ r.session \in raced'
    OBVIOUS
  <2>1. r.mounted
    BY DEF ModeInv, LeftBehind
  <2>2. e \in page'.requests
    BY <1>4
  <2> QED BY <1>1, <1>2, <1>3, <2>1, <2>2 DEF Recorded
<1>12. PausesRace'
  <2>1. \A r \in page'.requests : Ends(r) => page'.loading
    BY <1>4
  <2>2. \A r, q \in page'.requests :
          r.kind \in Pausing /\ q.kind \in Ending /\ r.session = q.session
            => r.session \in raced'
    BY <1>1, <1>2, <1>4, <1>11 DEF ModeInv, PausesRace, Grows, Pausing
  <2>3. \A r \in page'.requests :
          r.kind \in Pausing /\ r.state = "sent" /\ rows'[r.session] \in Ended
            => r.session \in raced'
    BY <1>1, <1>2, <1>4 DEF ModeInv, PausesRace, Grows, Pausing
  <2>4. \E r \in page'.requests : Ends(r) /\ r.session = page'.ref
    BY <1>1, <1>2, <1>4
  <2> QED BY <2>1, <2>2, <2>3, <2>4 DEF PausesRace
<1>13. OverlapsAreExcused'
  BY <1>1, <1>2, <1>4 DEF ModeInv, OverlapsAreExcused, Recorded, Grows, Pausing
<1>14. OpenIsKnown'
  BY <1>1, <1>2, <1>4 DEF ModeInv, OpenIsKnown
<1>15. ButtonAgrees'
  <2> SUFFICES ASSUME Out' = {} PROVE ButtonAgrees'
    BY DEF ButtonAgrees
  <2>1. Out = {}
    BY <1>2
  <2>2. page.requests = {}
    <3> SUFFICES ASSUME NEW r \in page.requests PROVE FALSE
      OBVIOUS
    <3>1. r.kind = "create" \/ r.kind \in Pausing \/ r.kind \in Ending
      BY Typed, KindsAre DEF Pausing, Ending
    <3>2. r.mounted
      BY <2>1 DEF ModeInv, LeftBehind
    <3>3. r.kind # "create"
      BY <2>1, <3>2 DEF ModeInv, OverlapsAreExcused, Out
    <3>4. r.kind \notin Pausing
      <4> SUFFICES ASSUME r.kind \in Pausing PROVE FALSE
        OBVIOUS
      <4>1. r.session = page.ref
        BY <2>1 DEF ModeInv, OverlapsAreExcused
      <4> QED BY <1>11, <4>1 DEF Out
    <3> QED BY <1>3, <3>1, <3>2, <3>3, <3>4 DEF Ends
  <2>3. e.kind \notin Pausing
    BY <1>1 DEF Pausing
  <2> QED BY <1>3, <1>4, <2>2, <2>3 DEF ButtonAgrees
<1> QED BY <1>5, <1>6, <1>7, <1>8, <1>9, <1>10, <1>12, <1>13, <1>14, <1>15 DEF ModeInv

\* The pause button.
LEMMA PauseBegins ==
  ASSUME ModeInv, page.ref # 0, ~page.loading,
         Has(page', page.requests \cup
                      {Request(IF page.paused THEN "resume" ELSE "pause", page.ref)},
             page.active, page.started, page.ref, page.finalizing, page.paused, TRUE,
             page.dialog, page.created),
         rows' = rows, Recorded
  PROVE  ModeInv'
<1> DEFINE kind == IF page.paused THEN "resume" ELSE "pause"
           b == Request(kind, page.ref)
<1>1. b \in Requests /\ b.kind = kind /\ b.session = page.ref /\ b.state = "sent"
      /\ b.mounted = TRUE /\ page.ref \in Ids /\ kind \in Pausing
  <2>1. kind \in Kinds /\ page.ref \in Ids /\ kind \in Pausing
    BY KindsAre, Typed DEF Pausing
  <2> HIDE DEF kind
  <2> QED BY <2>1 DEF Request, Requests
<1>2. Grows /\ Out \subseteq Out' /\ ~Ends(b) /\ b.kind \notin Ending /\ b.kind # "create"
  BY <1>1, OutGrows DEF Recorded, Ends, Ending, Pausing
<1> HIDE DEF b
<1>3. page'.requests = page.requests \cup {b} /\ page'.active = page.active
      /\ page'.started = page.started /\ page'.ref = page.ref
      /\ page'.finalizing = page.finalizing /\ page'.paused = page.paused
      /\ page'.loading = TRUE /\ page'.dialog = page.dialog
      /\ page'.created = page.created /\ page' \in Pages
  BY DEF Has, b
<1>4. PageTyped'
  BY <1>2, <1>3 DEF ModeInv, PageTyped, Grows
<1>5. SessionsAreCreated'
  BY <1>1, <1>3 DEF ModeInv, SessionsAreCreated
<1>6. ScreenHasSession'
  BY <1>3 DEF ModeInv, ScreenHasSession
<1>7. CreationsAreAlone'
  BY <1>1, <1>2, <1>3 DEF ModeInv, CreationsAreAlone
<1>8. EndingIsExclusive'
  BY <1>2, <1>3 DEF ModeInv, EndingIsExclusive
<1>9. LeftBehind'
  BY <1>1, <1>2, <1>3 DEF ModeInv, LeftBehind
<1>10. \A q \in page.requests : q.kind \in Ending /\ q.session = page.ref
                                  => page.ref \in raced
  <2> SUFFICES ASSUME NEW q \in page.requests, q.kind \in Ending, q.session = page.ref
               PROVE  page.ref \in raced
    OBVIOUS
  <2>1. q.mounted
    BY DEF ModeInv, LeftBehind
  <2> QED BY <2>1 DEF ModeInv, PausesRace, Ends
<1>12. rows[page.ref] \in Ended => page.ref \in raced
  BY <1>10 DEF ModeInv, PausesRace, Ends
<1>13. PausesRace'
  <2>1. \A r \in page'.requests : Ends(r) => page'.loading
    BY <1>3
  <2>2. \A r, q \in page'.requests :
          r.kind \in Pausing /\ q.kind \in Ending /\ r.session = q.session
            => r.session \in raced'
    BY <1>1, <1>2, <1>3, <1>10 DEF ModeInv, PausesRace, Grows
  <2>3. \A r \in page'.requests :
          r.kind \in Pausing /\ r.state = "sent" /\ rows'[r.session] \in Ended
            => r.session \in raced'
    BY <1>1, <1>2, <1>3, <1>12 DEF ModeInv, PausesRace, Grows
  <2>4. page'.ref # 0 /\ rows'[page'.ref] \in Ended
          => \E r \in page'.requests : Ends(r) /\ r.session = page'.ref
    BY <1>3 DEF ModeInv, PausesRace
  <2> QED BY <2>1, <2>2, <2>3, <2>4 DEF PausesRace
<1>14. OverlapsAreExcused'
  BY <1>1, <1>2, <1>3 DEF ModeInv, OverlapsAreExcused, Grows
<1>15. OpenIsKnown'
  BY <1>1, <1>2, <1>3 DEF ModeInv, OpenIsKnown, Pausing
<1>16. ButtonAgrees'
  <2> SUFFICES ASSUME Out' = {} PROVE ButtonAgrees'
    BY DEF ButtonAgrees
  <2>1. Out = {}
    BY <1>2
  <2>2. page.requests = {} /\ page.started /\ rows[page.ref] = Shown
    BY <2>1 DEF ModeInv, ButtonAgrees, ScreenHasSession
  <2>3. Shown' = Shown
    BY <1>3 DEF Shown
  <2> QED BY <1>1, <1>3, <2>2, <2>3 DEF ButtonAgrees
<1> QED BY <1>4, <1>5, <1>6, <1>7, <1>8, <1>9, <1>13, <1>14, <1>15, <1>16 DEF ModeInv

\* An answer that only ends loading: it was an error, or the page was left.
LEMMA DropKeeps ==
  ASSUME ModeInv, NEW r \in page.requests, ~Ends(r), r.session \in Out',
         Has(page', page.requests \ {r}, page.active, page.started, page.ref,
             page.finalizing, page.paused, FALSE, page.dialog, page.created),
         rows' = rows, Recorded
  PROVE  ModeInv'
<1>1. Grows /\ Out \subseteq Out'
  BY OutGrows DEF Recorded
<1>2. page'.requests = page.requests \ {r} /\ page'.active = page.active
      /\ page'.started = page.started /\ page'.ref = page.ref
      /\ page'.finalizing = page.finalizing /\ page'.paused = page.paused
      /\ page'.loading = FALSE /\ page'.dialog = page.dialog
      /\ page'.created = page.created /\ page' \in Pages
  BY DEF Has
<1>3. \A q \in page'.requests : q \in page.requests /\ q # r
  BY <1>2
<1>4. \A q \in page.requests : Ends(q) => q \in page'.requests
  BY <1>2
<1>5. PageTyped'
  BY <1>1, <1>2 DEF ModeInv, PageTyped, Grows
<1>6. SessionsAreCreated'
  BY <1>2, <1>3 DEF ModeInv, SessionsAreCreated
<1>7. ScreenHasSession'
  BY <1>2 DEF ModeInv, ScreenHasSession
<1>8. CreationsAreAlone'
  BY <1>2, <1>3 DEF ModeInv, CreationsAreAlone
<1>9. EndingIsExclusive'
  BY <1>2, <1>3, <1>4 DEF ModeInv, EndingIsExclusive
<1>10. LeftBehind'
  BY <1>1, <1>2, <1>3 DEF ModeInv, LeftBehind
<1>11. PausesRace'
  BY <1>1, <1>2, <1>3, <1>4 DEF ModeInv, PausesRace, Grows, Recorded
<1>12. OverlapsAreExcused'
  BY <1>1, <1>2, <1>3 DEF ModeInv, OverlapsAreExcused, Grows
<1>13. OpenIsKnown'
  <2>1. \A s \in Ids : rows[s] \in Open =>
          \/ s \in Out' \/ page'.ref = s
          \/ \E q \in page'.requests : q.kind = "create" /\ q.session = s
    <3> SUFFICES ASSUME NEW s \in Ids, rows[s] \in Open, s \notin Out', page.ref # s
                 PROVE  \E q \in page'.requests : q.kind = "create" /\ q.session = s
      BY <1>2
    <3>1. PICK q \in page.requests : q.kind = "create" /\ q.session = s
      BY <1>1 DEF ModeInv, OpenIsKnown
    <3>2. q # r
      BY <3>1
    <3> QED BY <1>2, <3>1, <3>2
  <2>2. \A q \in page'.requests : q.kind \in {"abandon", "complete"} /\ q.state = "ok"
                                => rows[q.session] \in Ended \/ q.session \in Out'
    BY <1>1, <1>3 DEF ModeInv, OpenIsKnown
  <2> QED BY <2>1, <2>2 DEF OpenIsKnown
<1>14. ButtonAgrees'
  BY DEF ButtonAgrees
<1> QED BY <1>5, <1>6, <1>7, <1>8, <1>9, <1>10, <1>11, <1>12, <1>13, <1>14 DEF ModeInv

\* A pause or resume succeeded: the button follows.
LEMMA PauseEnds ==
  ASSUME ModeInv, NEW r \in page.requests, r.kind \in Pausing, r.state = "ok",
         Has(page', page.requests \ {r}, page.active, page.started, page.ref,
             page.finalizing, r.kind = "pause", FALSE, page.dialog, page.created),
         rows' = rows, Recorded
  PROVE  ModeInv'
<1>1. Grows /\ Out \subseteq Out' /\ ~Ends(r) /\ r.kind # "create"
  BY OutGrows DEF Recorded, Ends, Ending, Pausing
<1>2. page'.requests = page.requests \ {r} /\ page'.active = page.active
      /\ page'.started = page.started /\ page'.ref = page.ref
      /\ page'.finalizing = page.finalizing /\ page'.paused = (r.kind = "pause")
      /\ page'.loading = FALSE /\ page'.dialog = page.dialog
      /\ page'.created = page.created /\ page' \in Pages
  BY DEF Has
<1>3. \A q \in page'.requests : q \in page.requests /\ q # r
  BY <1>2
<1>4. \A q \in page.requests : Ends(q) \/ q.kind = "create" => q \in page'.requests
  BY <1>1, <1>2
<1>5. PageTyped'
  BY <1>1, <1>2 DEF ModeInv, PageTyped, Grows
<1>6. SessionsAreCreated'
  BY <1>2, <1>3 DEF ModeInv, SessionsAreCreated
<1>7. ScreenHasSession'
  BY <1>2 DEF ModeInv, ScreenHasSession
<1>8. CreationsAreAlone'
  BY <1>2, <1>3 DEF ModeInv, CreationsAreAlone
<1>9. EndingIsExclusive'
  BY <1>2, <1>3, <1>4 DEF ModeInv, EndingIsExclusive
<1>10. LeftBehind'
  BY <1>1, <1>2, <1>3 DEF ModeInv, LeftBehind
<1>11. PausesRace'
  BY <1>1, <1>2, <1>3, <1>4 DEF ModeInv, PausesRace, Grows, Recorded
<1>12. OverlapsAreExcused'
  BY <1>1, <1>2, <1>3 DEF ModeInv, OverlapsAreExcused, Grows
<1>13. OpenIsKnown'
  BY <1>1, <1>2, <1>3, <1>4 DEF ModeInv, OpenIsKnown
<1>14. ButtonAgrees'
  <2> SUFFICES ASSUME Out' = {} PROVE ButtonAgrees'
    BY DEF ButtonAgrees
  <2>1. Out = {}
    BY <1>1
  <2>2. page'.requests = {}
    BY <1>2, <2>1 DEF ModeInv, ButtonAgrees
  <2>3. page.started
    <3>1. r.session = page.ref /\ r.session # 0
      BY <2>1, Typed DEF ModeInv, OverlapsAreExcused
    <3> QED BY <3>1 DEF ModeInv, ScreenHasSession
  <2>4. rows[page.ref] = Writes[r.kind]
    BY <2>1, <2>3 DEF ModeInv, ButtonAgrees
  <2>5. Writes[r.kind] = IF r.kind = "pause" THEN "paused" ELSE "active"
    BY DEF Writes, Pausing
  <2>6. Shown' = IF r.kind = "pause" THEN "paused" ELSE "active"
    BY <1>2 DEF Shown
  <2> QED BY <1>2, <2>2, <2>3, <2>4, <2>5, <2>6 DEF ButtonAgrees
<1> QED BY <1>5, <1>6, <1>7, <1>8, <1>9, <1>10, <1>11, <1>12, <1>13, <1>14 DEF ModeInv

\* What holds before a created session is put on the screen.
LEMMA CreatedFacts ==
  ASSUME ModeInv, NEW r \in page.requests, r.mounted, r.kind = "create", r.state = "ok"
  PROVE  /\ rows[r.session] = "active" /\ r.session \in Ids /\ r.session # 0
         /\ page.ref # r.session /\ ~Ends(r)
         /\ \A q \in page.requests : q # r => q.session # r.session
         /\ page.ref # 0 => page.ref \in Out /\ r.session \in Out
         /\ \A q \in page.requests : q.mounted /\ q.kind = "create" /\ q # r
              => q.session \in excused /\ r.session \in excused
<1>1. \A q \in page.requests : q # r => q.session # r.session
  BY DEF ModeInv, CreationsAreAlone
<1>2. rows[r.session] = "active" /\ page.ref # r.session
  BY DEF ModeInv, CreationsAreAlone
<1>3. page.ref # 0 => page.ref \in Out /\ r.session \in Out
  BY DEF ModeInv, OverlapsAreExcused, Out
<1>4. \A q \in page.requests : q.mounted /\ q.kind = "create" /\ q # r
              => q.session \in excused /\ r.session \in excused
  BY <1>1 DEF ModeInv, OverlapsAreExcused
<1>5. r.session \in Ids /\ r.session # 0 /\ ~Ends(r)
  BY Typed DEF Ends, Ending
<1> QED BY <1>1, <1>2, <1>3, <1>4, <1>5

\* A created session is put on the screen.
LEMMA SessionShown ==
  ASSUME ModeInv, NEW r \in page.requests, r.mounted, r.kind = "create", r.state = "ok",
         page.started \/ page.active,
         Has(page', page.requests \ {r}, page.active, TRUE, r.session,
             page.finalizing, page.paused, FALSE, page.dialog, page.created),
         rows' = rows, Recorded
  PROVE  ModeInv'
<1>1. Grows /\ Out \subseteq Out'
  BY OutGrows DEF Recorded
<1>2. page'.requests = page.requests \ {r} /\ page'.active = page.active
      /\ page'.started = TRUE /\ page'.ref = r.session
      /\ page'.finalizing = page.finalizing /\ page'.paused = page.paused
      /\ page'.loading = FALSE /\ page'.dialog = page.dialog
      /\ page'.created = page.created /\ page' \in Pages
  BY DEF Has
<1>3. /\ rows[r.session] = "active" /\ r.session \in Ids /\ r.session # 0
      /\ page.ref # r.session /\ ~Ends(r)
      /\ \A q \in page.requests : q # r => q.session # r.session
      /\ page.ref # 0 => page.ref \in Out /\ r.session \in Out
      /\ \A q \in page.requests : q.mounted /\ q.kind = "create" /\ q # r
           => q.session \in excused /\ r.session \in excused
  BY CreatedFacts
<1>4. \A q \in page'.requests : q \in page.requests /\ q # r
  BY <1>2
<1>5. \A q \in page.requests : Ends(q) => q \in page'.requests
  BY <1>2, <1>3
<1>6. \A q \in page.requests : Ends(q) => page.ref # 0 /\ q.session \in Out
  BY <1>3 DEF ModeInv, EndingIsExclusive, ScreenHasSession, OverlapsAreExcused
<1>7. PageTyped'
  BY <1>1, <1>2 DEF ModeInv, PageTyped, Grows
<1>8. SessionsAreCreated'
  BY <1>2, <1>4 DEF ModeInv, SessionsAreCreated
<1>9. ScreenHasSession'
  BY <1>2, <1>3 DEF ModeInv, ScreenHasSession
<1>10. CreationsAreAlone'
  BY <1>2, <1>3, <1>4 DEF ModeInv, CreationsAreAlone
<1>11. EndingIsExclusive'
  BY <1>2, <1>4, <1>5 DEF ModeInv, EndingIsExclusive
<1>12. LeftBehind'
  BY <1>1, <1>2, <1>3, <1>4 DEF ModeInv, LeftBehind
<1>13. PausesRace'
  <2>1. rows'[page'.ref] \notin Ended
    BY <1>2, <1>3 DEF Ended
  <2> QED BY <1>1, <1>2, <1>3, <1>4, <2>1 DEF ModeInv, PausesRace, Grows, Recorded
<1>14. OverlapsAreExcused'
  <2>1. \A q, o \in page'.requests :
          q.mounted /\ o.mounted /\ q.kind = "create" /\ o.kind = "create"
            /\ q.session # o.session => q.session \in excused'
    BY DEF Recorded
  <2>2. \A q \in page'.requests : q.mounted /\ q.kind = "create" /\ page'.ref # 0
                                => q.session \in excused' /\ page'.ref \in excused'
    BY <1>1, <1>2, <1>3, <1>4 DEF Grows
  <2>3. \A q \in page'.requests : Ends(q) /\ q.session # page'.ref
                                => q.session \in Out' /\ page'.ref \in Out'
    BY <1>1, <1>2, <1>3, <1>4, <1>6
  <2>4. \A q \in page'.requests : q.kind \in Pausing
                                => q.session = page'.ref \/ q.session \in Out'
    <3> SUFFICES ASSUME NEW q \in page'.requests, q.kind \in Pausing
                 PROVE  q.session \in Out'
      OBVIOUS
    <3>1. q.session # 0 /\ (q.session = page.ref \/ q.session \in Out)
      BY <1>4, Typed DEF ModeInv, OverlapsAreExcused
    <3> QED BY <1>1, <1>3, <3>1
  <2> QED BY <2>1, <2>2, <2>3, <2>4 DEF OverlapsAreExcused
<1>15. OpenIsKnown'
  <2>1. \A s \in Ids : rows[s] \in Open =>
          \/ s \in Out' \/ page'.ref = s
          \/ \E q \in page'.requests : q.kind = "create" /\ q.session = s
    <3> SUFFICES ASSUME NEW s \in Ids, rows[s] \in Open, s \notin Out', r.session # s
                 PROVE  \E q \in page'.requests : q.kind = "create" /\ q.session = s
      BY <1>2
    <3>1. page.ref # s
      BY <1>1, <1>3, IdsAre
    <3>2. PICK q \in page.requests : q.kind = "create" /\ q.session = s
      BY <1>1, <3>1 DEF ModeInv, OpenIsKnown
    <3> QED BY <1>2, <3>2
  <2>2. \A q \in page'.requests : q.kind \in {"abandon", "complete"} /\ q.state = "ok"
                                => rows[q.session] \in Ended \/ q.session \in Out'
    BY <1>1, <1>4 DEF ModeInv, OpenIsKnown
  <2> QED BY <2>1, <2>2 DEF OpenIsKnown
<1>16. ButtonAgrees'
  <2> SUFFICES ASSUME Out' = {} PROVE ButtonAgrees'
    BY DEF ButtonAgrees
  <2>1. Out = {} /\ page.ref = 0
    BY <1>1, <1>3
  <2>2. page'.requests = {} /\ ~page.paused
    BY <1>2, <2>1 DEF ModeInv, ButtonAgrees, ScreenHasSession
  <2>3. Shown' = "active"
    BY <1>2, <2>2 DEF Shown
  <2> QED BY <1>2, <1>3, <2>2, <2>3 DEF ButtonAgrees
<1> QED BY <1>7, <1>8, <1>9, <1>10, <1>11, <1>12, <1>13, <1>14, <1>15, <1>16 DEF ModeInv

\* A created session is put on the screen after focus mode was switched off, and is
\* ended at once.
LEMMA SessionShownAndEnded ==
  ASSUME ModeInv, NEW r \in page.requests, r.mounted, r.kind = "create", r.state = "ok",
         ~page.started, ~page.active,
         Has(page', (page.requests \ {r}) \cup {Request("abandon", r.session)},
             page.active, TRUE, r.session, TRUE, page.paused, TRUE, page.dialog,
             page.created),
         rows' = rows, Recorded
  PROVE  ModeInv'
<1> DEFINE e == Request("abandon", r.session)
<1>1. Grows /\ Out \subseteq Out'
  BY OutGrows DEF Recorded
<1>2. /\ rows[r.session] = "active" /\ r.session \in Ids /\ r.session # 0
      /\ page.ref # r.session /\ ~Ends(r)
      /\ \A q \in page.requests : q # r => q.session # r.session
      /\ \A q \in page.requests : q.mounted /\ q.kind = "create" /\ q # r
           => q.session \in excused /\ r.session \in excused
  BY CreatedFacts
<1>3. e \in Requests /\ e.kind = "abandon" /\ e.session = r.session /\ e.state = "sent"
      /\ e.mounted = TRUE
  <2>1. "abandon" \in Kinds /\ r.session \in Ids
    BY <1>2, KindsAre
  <2> QED BY <2>1 DEF Request, Requests
<1>4. Ends(e) /\ e.kind \in Ending /\ e.kind \notin Pausing
  BY <1>3 DEF Ends, Ending, Pausing
<1> HIDE DEF e
<1>5. page'.requests = (page.requests \ {r}) \cup {e} /\ page'.active = page.active
      /\ page'.started = TRUE /\ page'.ref = r.session
      /\ page'.finalizing = TRUE /\ page'.paused = page.paused
      /\ page'.loading = TRUE /\ page'.dialog = page.dialog
      /\ page'.created = page.created /\ page' \in Pages
  BY DEF Has, e
<1>6. \A q \in page'.requests : (q \in page.requests /\ q # r) \/ q = e
  BY <1>5
<1>7. page.ref = 0 /\ \A q \in page.requests : ~Ends(q)
  BY DEF ModeInv, EndingIsExclusive, ScreenHasSession
<1>8. PageTyped'
  BY <1>1, <1>5 DEF ModeInv, PageTyped, Grows
<1>9. SessionsAreCreated'
  BY <1>3, <1>5, <1>6 DEF ModeInv, SessionsAreCreated
<1>10. ScreenHasSession'
  BY <1>2, <1>5 DEF ScreenHasSession
<1>11. CreationsAreAlone'
  BY <1>2, <1>3, <1>5, <1>6 DEF ModeInv, CreationsAreAlone
<1>12. EndingIsExclusive'
  BY <1>3, <1>4, <1>5, <1>6, <1>7 DEF EndingIsExclusive
<1>13. LeftBehind'
  BY <1>1, <1>2, <1>3, <1>5, <1>6 DEF ModeInv, LeftBehind
<1>14. PausesRace'
  <2>1. rows'[page'.ref] \notin Ended
    BY <1>2, <1>5 DEF Ended
  <2>2. \A q \in page'.requests : q.kind \in Pausing
          => q \in page.requests /\ q # r /\ q.session # r.session
    BY <1>2, <1>4, <1>6
  <2>3. \A q, o \in page'.requests :
          q.kind \in Pausing /\ o.kind \in Ending /\ q.session = o.session
            => q.session \in raced'
    <3> SUFFICES ASSUME NEW q \in page'.requests, NEW o \in page'.requests,
                        q.kind \in Pausing, o.kind \in Ending, q.session = o.session
                 PROVE  q.session \in raced'
      OBVIOUS
    <3>1. q \in page.requests /\ o \in page.requests
      BY <1>3, <1>6, <2>2
    <3> QED BY <1>1, <3>1 DEF ModeInv, PausesRace, Grows
  <2>4. \A q \in page'.requests :
          q.kind \in Pausing /\ q.state = "sent" /\ rows'[q.session] \in Ended
            => q.session \in raced'
    BY <1>1, <2>2 DEF ModeInv, PausesRace, Grows
  <2> QED BY <1>5, <2>1, <2>2, <2>3, <2>4 DEF PausesRace
<1>15. OverlapsAreExcused'
  <2>1. \A q, o \in page'.requests :
          q.mounted /\ o.mounted /\ q.kind = "create" /\ o.kind = "create"
            /\ q.session # o.session => q.session \in excused'
    BY DEF Recorded
  <2>2. \A q \in page'.requests : q.mounted /\ q.kind = "create" /\ page'.ref # 0
                                => q.session \in excused' /\ page'.ref \in excused'
    BY <1>1, <1>2, <1>3, <1>5, <1>6 DEF Grows
  <2>3. \A q \in page'.requests : Ends(q) => q.session = page'.ref
    BY <1>3, <1>5, <1>6, <1>7
  <2>4. \A q \in page'.requests : q.kind \in Pausing
                                => q.session = page'.ref \/ q.session \in Out'
    <3> SUFFICES ASSUME NEW q \in page'.requests, q.kind \in Pausing
                 PROVE  q.session \in Out'
      OBVIOUS
    <3>1. q \in page.requests
      BY <1>4, <1>6
    <3>2. q.session # 0 /\ (q.session = page.ref \/ q.session \in Out)
      BY <3>1, Typed DEF ModeInv, OverlapsAreExcused
    <3> QED BY <1>1, <1>7, <3>2
  <2> QED BY <2>1, <2>2, <2>3, <2>4 DEF OverlapsAreExcused
<1>16. OpenIsKnown'
  <2>1. \A s \in Ids : rows[s] \in Open =>
          \/ s \in Out' \/ page'.ref = s
          \/ \E q \in page'.requests : q.kind = "create" /\ q.session = s
    <3> SUFFICES ASSUME NEW s \in Ids, rows[s] \in Open, s \notin Out', r.session # s
                 PROVE  \E q \in page'.requests : q.kind = "create" /\ q.session = s
      BY <1>5
    <3>1. page.ref # s
      BY <1>7, IdsAre
    <3>2. PICK q \in page.requests : q.kind = "create" /\ q.session = s
      BY <1>1, <3>1 DEF ModeInv, OpenIsKnown
    <3> QED BY <1>5, <3>2
  <2>2. \A q \in page'.requests : q.kind \in {"abandon", "complete"} /\ q.state = "ok"
                                => rows[q.session] \in Ended \/ q.session \in Out'
    BY <1>1, <1>3, <1>6 DEF ModeInv, OpenIsKnown
  <2> QED BY <2>1, <2>2 DEF OpenIsKnown
<1>17. ButtonAgrees'
  <2> SUFFICES ASSUME Out' = {} PROVE ButtonAgrees'
    BY DEF ButtonAgrees
  <2>1. Out = {}
    BY <1>1
  <2>2. page'.requests = {e}
    BY <1>5, <2>1 DEF ModeInv, ButtonAgrees
  <2> QED BY <1>4, <1>5, <2>2 DEF ButtonAgrees
<1> QED BY <1>8, <1>9, <1>10, <1>11, <1>12, <1>13, <1>14, <1>15, <1>16, <1>17 DEF ModeInv

\* finalizeSession is over: the session is taken from the screen, and a new one is
\* asked for when focus mode is on again.
LEMMA SessionForgotten ==
  ASSUME ModeInv, NEW r \in page.requests, Ends(r), r.state # "sent",
         r.state = "error" => r.session \in excused',
         r.kind = "duration" => r.state = "error",
         NEW ac \in BOOLEAN, NEW lo \in BOOLEAN, NEW n \in Nat, NEW C \in SUBSET Requests,
         \A c \in C : /\ c.kind = "create" /\ c.session = page.created + 1
                      /\ c.state = "sent" /\ c.mounted = TRUE
         , \A c, d \in C : c = d,
         n = page.created \/ n = page.created + 1,
         C # {} => n = page.created + 1 /\ lo /\ page.created + 1 \in Ids,
         Has(page', (page.requests \ {r}) \cup C, ac, FALSE, 0, FALSE, FALSE, lo, FALSE, n),
         rows' = rows, Recorded
  PROVE  ModeInv'
<1>1. Grows /\ Out \subseteq Out'
  BY OutGrows DEF Recorded
<1>2. page'.requests = (page.requests \ {r}) \cup C /\ page'.active = ac
      /\ page'.started = FALSE /\ page'.ref = 0
      /\ page'.finalizing = FALSE /\ page'.paused = FALSE
      /\ page'.loading = lo /\ page'.dialog = FALSE
      /\ page'.created = n /\ page' \in Pages
  BY DEF Has
<1>3. \A q \in page'.requests : (q \in page.requests /\ q # r) \/ q \in C
  BY <1>2
<1>4. n \in Nat /\ page.created \in Nat /\ page.created <= n
      /\ page.created + 1 > page.created
  BY Typed
<1>5. \A q \in page.requests : q.session \in Nat /\ q.session <= page.created
                               /\ q.session # page.created + 1 /\ q.session <= n
  <2>1. \A q \in page.requests : q.session \in Nat /\ q.session <= page.created
    BY Typed DEF ModeInv, SessionsAreCreated
  <2> QED BY <1>4, <2>1
<1>6. C # {} => rows[page.created + 1] = "none"
  BY <1>4 DEF ModeInv, SessionsAreCreated
<1>7. \A c \in C : c.kind \notin Ending /\ c.kind \notin Pausing /\ ~Ends(c)
  BY DEF Ends, Ending, Pausing
<1>8. \A q \in page.requests : Ends(q) => q = r
  BY DEF ModeInv, EndingIsExclusive
<1>9. \A q \in page'.requests : ~Ends(q)
  BY <1>3, <1>7, <1>8
\* The session on screen needs no place there any more.
<1>10. page.ref \in Out' \/ rows[page.ref] \notin Open
  <2>1. CASE r.session # page.ref
    BY <1>1, <2>1 DEF ModeInv, OverlapsAreExcused
  <2>2. CASE r.session = page.ref /\ r.state = "error"
    BY <2>2 DEF Out
  <2>3. CASE r.session = page.ref /\ r.state = "ok"
    <3>1. r.kind \in {"abandon", "complete"}
      BY <2>3 DEF Ends, Ending
    <3>2. rows[r.session] \in Ended \/ r.session \in Out
      BY <2>3, <3>1 DEF ModeInv, OpenIsKnown
    <3> QED BY <1>1, <2>3, <3>2 DEF Open, Ended
  <2> QED BY <2>1, <2>2, <2>3, Typed
<1>11. \A q \in page.requests : q.kind \in Pausing => q.session \in Out'
  <2> SUFFICES ASSUME NEW q \in page.requests, q.kind \in Pausing PROVE q.session \in Out'
    OBVIOUS
  <2>1. q.session = page.ref \/ q.session \in Out
    BY DEF ModeInv, OverlapsAreExcused
  <2>2. CASE q.session = page.ref /\ r.session = page.ref
    <3>1. q.session \in raced
      BY <2>2 DEF ModeInv, PausesRace, Ends
    <3> QED BY <1>1, <3>1 DEF Out
  <2>3. CASE q.session = page.ref /\ r.session # page.ref
    BY <1>1, <2>3 DEF ModeInv, OverlapsAreExcused
  <2> QED BY <1>1, <2>1, <2>2, <2>3
<1>12. PageTyped'
  BY <1>1, <1>2 DEF ModeInv, PageTyped, Grows
<1>13. SessionsAreCreated'
  <2>1. \A q \in page'.requests : q.session <= n
    <3>1. \A c \in C : c.session <= n
      BY <1>4
    <3> QED BY <1>3, <1>5, <3>1
  <2>2. \A s \in Ids : s > n => rows'[s] = "none"
    <3> SUFFICES ASSUME NEW s \in Ids, s > n PROVE rows[s] = "none"
      OBVIOUS
    <3>1. s > page.created
      BY <1>4, IdsAre
    <3> QED BY <3>1 DEF ModeInv, SessionsAreCreated
  <2>3. 0 <= n
    BY <1>4
  <2> QED BY <1>2, <2>1, <2>2, <2>3 DEF SessionsAreCreated
<1>14. ScreenHasSession'
  BY <1>2 DEF ScreenHasSession
<1>15. CreationsAreAlone'
  <2> SUFFICES ASSUME NEW q \in page'.requests, q.kind = "create"
               PROVE  /\ q.state = "sent" => rows[q.session] = "none"
                      /\ q.state = "ok" => rows[q.session] = "active"
                      /\ 0 # q.session
                      /\ \A o \in page'.requests : o.session = q.session => o = q
    BY <1>2 DEF CreationsAreAlone
  <2>1. CASE q \in C
    BY <1>3, <1>4, <1>5, <1>6, <2>1
  <2>2. CASE q \in page.requests
    <3>1. /\ q.state = "sent" => rows[q.session] = "none"
          /\ q.state = "ok" => rows[q.session] = "active"
          /\ q.session # 0
      BY <2>2, Typed DEF ModeInv, CreationsAreAlone
    <3>2. \A o \in page'.requests : o.session = q.session => o = q
      BY <1>3, <1>5, <2>2 DEF ModeInv, CreationsAreAlone
    <3> QED BY <3>1, <3>2
  <2> QED BY <1>3, <2>1, <2>2
<1>16. EndingIsExclusive'
  BY <1>2, <1>9 DEF EndingIsExclusive
<1>17. LeftBehind'
  <2> SUFFICES ASSUME NEW q \in page'.requests, ~q.mounted
               PROVE  /\ q.session \in Out' /\ q.session # 0
                      /\ \A o \in page'.requests : o.mounted => o.session # q.session
    BY <1>2 DEF LeftBehind
  <2>1. q \in page.requests
    BY <1>3
  <2>2. q.session \in Out' /\ q.session # 0
    BY <1>1, <2>1, Typed DEF ModeInv, LeftBehind
  <2>3. \A o \in page'.requests : o.mounted => o.session # q.session
    BY <1>3, <1>5, <2>1 DEF ModeInv, LeftBehind
  <2> QED BY <2>2, <2>3
<1>18. PausesRace'
  <2>1. \A q \in page'.requests : q.kind \in Pausing => q \in page.requests
    BY <1>3, <1>7
  <2>2. \A q \in page'.requests : q.kind \in Ending => q \in page.requests
    BY <1>3, <1>7
  <2>3. \A q, o \in page'.requests :
          q.kind \in Pausing /\ o.kind \in Ending /\ q.session = o.session
            => q.session \in raced'
    BY <1>1, <2>1, <2>2 DEF ModeInv, PausesRace, Grows
  <2>4. \A q \in page'.requests :
          q.kind \in Pausing /\ q.state = "sent" /\ rows'[q.session] \in Ended
            => q.session \in raced'
    BY <1>1, <2>1 DEF ModeInv, PausesRace, Grows
  <2> QED BY <1>2, <1>9, <2>3, <2>4 DEF PausesRace
<1>19. OverlapsAreExcused'
  <2>1. \A q, o \in page'.requests :
          q.mounted /\ o.mounted /\ q.kind = "create" /\ o.kind = "create"
            /\ q.session # o.session => q.session \in excused'
    BY DEF Recorded
  <2>2. \A q \in page'.requests : q.kind \in Pausing => q.session \in Out'
    BY <1>3, <1>7, <1>11
  <2> QED BY <1>2, <1>9, <2>1, <2>2 DEF OverlapsAreExcused
<1>20. OpenIsKnown'
  <2>1. \A s \in Ids : rows[s] \in Open =>
          \/ s \in Out' \/ page'.ref = s
          \/ \E q \in page'.requests : q.kind = "create" /\ q.session = s
    <3> SUFFICES ASSUME NEW s \in Ids, rows[s] \in Open, s \notin Out'
                 PROVE  \E q \in page'.requests : q.kind = "create" /\ q.session = s
      OBVIOUS
    <3>1. page.ref # s
      BY <1>10
    <3>2. PICK q \in page.requests : q.kind = "create" /\ q.session = s
      BY <1>1, <3>1 DEF ModeInv, OpenIsKnown
    <3>3. q # r
      BY <3>2 DEF Ends, Ending
    <3> QED BY <1>2, <3>2, <3>3
  <2>2. \A q \in page'.requests : q.kind \in {"abandon", "complete"} /\ q.state = "ok"
                                => rows[q.session] \in Ended \/ q.session \in Out'
    BY <1>1, <1>3 DEF ModeInv, OpenIsKnown
  <2> QED BY <2>1, <2>2 DEF OpenIsKnown
<1>21. ButtonAgrees'
  <2> SUFFICES ASSUME Out' = {} PROVE ButtonAgrees'
    BY DEF ButtonAgrees
  <2>1. Out = {}
    BY <1>1
  <2>2. page'.requests = C
    BY <1>2, <2>1 DEF ModeInv, ButtonAgrees
  <2> QED BY <1>2, <2>2 DEF ButtonAgrees
<1> QED BY <1>12, <1>13, <1>14, <1>15, <1>16, <1>17, <1>18, <1>19, <1>20, <1>21 DEF ModeInv

\* The first request of a completion succeeded: the second one, for the session that
\* is on screen now.
LEMMA CompletionGoesOn ==
  ASSUME ModeInv, NEW r \in page.requests, Ends(r), r.kind = "duration",
         Has(page', (page.requests \ {r}) \cup {Request("complete", page.ref)}, page.active,
             page.started, page.ref, page.finalizing, page.paused, TRUE, page.dialog,
             page.created),
         rows' = rows, Recorded
  PROVE  ModeInv'
<1> DEFINE e == Request("complete", page.ref)
<1>1. Grows /\ Out \subseteq Out'
  BY OutGrows DEF Recorded
<1>2. page.started /\ page.finalizing /\ page.ref # 0 /\ page.ref \in Ids
  BY Typed DEF ModeInv, EndingIsExclusive, ScreenHasSession
<1>3. e \in Requests /\ e.kind = "complete" /\ e.session = page.ref /\ e.state = "sent"
      /\ e.mounted = TRUE
  <2>1. "complete" \in Kinds
    BY KindsAre
  <2> QED BY <1>2, <2>1, RequestIs
<1>4. Ends(e) /\ e.kind \in Ending /\ e.kind \notin Pausing
  BY <1>3 DEF Ends, Ending, Pausing
<1> HIDE DEF e
<1>5. page'.requests = (page.requests \ {r}) \cup {e} /\ page'.active = page.active
      /\ page'.started = page.started /\ page'.ref = page.ref
      /\ page'.finalizing = page.finalizing /\ page'.paused = page.paused
      /\ page'.loading = TRUE /\ page'.dialog = page.dialog
      /\ page'.created = page.created /\ page' \in Pages
  BY DEF Has, e
<1>6. \A q \in page'.requests : (q \in page.requests /\ q # r) \/ q = e
  BY <1>5
<1>7. \A q \in page.requests : Ends(q) => q = r
  BY DEF ModeInv, EndingIsExclusive
<1>8. \A q \in page'.requests : Ends(q) => q = e
  BY <1>6, <1>7
<1>9. PageTyped'
  BY <1>1, <1>5 DEF ModeInv, PageTyped, Grows
<1>10. SessionsAreCreated'
  BY <1>3, <1>5, <1>6 DEF ModeInv, SessionsAreCreated
<1>11. ScreenHasSession'
  BY <1>5 DEF ModeInv, ScreenHasSession
<1>12. CreationsAreAlone'
  BY <1>3, <1>5, <1>6 DEF ModeInv, CreationsAreAlone
<1>13. EndingIsExclusive'
  BY <1>2, <1>3, <1>4, <1>5, <1>8 DEF EndingIsExclusive
<1>14. LeftBehind'
  BY <1>1, <1>3, <1>5, <1>6 DEF ModeInv, LeftBehind
<1>15. PausesRace'
  <2>1. \A q \in page'.requests : q.kind \in Pausing => q \in page.requests
    BY <1>4, <1>6
  <2>2. \A q \in page.requests : q.kind \in Pausing /\ q.session = page.ref
                                   => q.session \in raced'
    <3> SUFFICES ASSUME NEW q \in page.requests, q.kind \in Pausing, q.session = page.ref
                 PROVE  q.session \in raced'
      OBVIOUS
    <3>1. CASE r.session = page.ref
      BY <1>1, <3>1 DEF ModeInv, PausesRace, Grows, Ends
    <3>2. CASE r.session # page.ref
      <4>1. q.mounted
        BY DEF ModeInv, LeftBehind
      <4>2. \A o \in page.requests : Ends(o) => o.session # e.session
        BY <1>3, <1>7, <3>2
      <4>3. e \in page'.requests
        BY <1>5
      <4> QED BY <1>3, <1>4, <4>1, <4>2, <4>3 DEF Recorded
    <3> QED BY <3>1, <3>2
  <2>3. \A q, o \in page'.requests :
          q.kind \in Pausing /\ o.kind \in Ending /\ q.session = o.session
            => q.session \in raced'
    <3> SUFFICES ASSUME NEW q \in page'.requests, NEW o \in page'.requests,
                        q.kind \in Pausing, o.kind \in Ending, q.session = o.session
                 PROVE  q.session \in raced'
      OBVIOUS
    <3>1. CASE o = e
      BY <1>3, <2>1, <2>2, <3>1
    <3>2. CASE o # e
      BY <1>1, <1>6, <2>1, <3>2 DEF ModeInv, PausesRace, Grows
    <3> QED BY <3>1, <3>2
  <2>4. \A q \in page'.requests :
          q.kind \in Pausing /\ q.state = "sent" /\ rows'[q.session] \in Ended
            => q.session \in raced'
    BY <1>1, <2>1 DEF ModeInv, PausesRace, Grows
  <2>5. e \in page'.requests
    BY <1>5
  <2> QED BY <1>3, <1>4, <1>5, <2>3, <2>4, <2>5 DEF PausesRace
<1>16. OverlapsAreExcused'
  <2>1. \A q, o \in page'.requests :
          q.mounted /\ o.mounted /\ q.kind = "create" /\ o.kind = "create"
            /\ q.session # o.session => q.session \in excused'
    BY DEF Recorded
  <2>2. \A q \in page'.requests : q.mounted /\ q.kind = "create" /\ page'.ref # 0
                                => q.session \in excused' /\ page'.ref \in excused'
    BY <1>1, <1>3, <1>5, <1>6 DEF ModeInv, OverlapsAreExcused, Grows
  <2>3. \A q \in page'.requests : Ends(q) => q.session = page'.ref
    BY <1>3, <1>5, <1>8
  <2>4. \A q \in page'.requests : q.kind \in Pausing
                                => q.session = page'.ref \/ q.session \in Out'
    BY <1>1, <1>4, <1>5, <1>6 DEF ModeInv, OverlapsAreExcused
  <2> QED BY <2>1, <2>2, <2>3, <2>4 DEF OverlapsAreExcused
<1>17. OpenIsKnown'
  <2>1. \A s \in Ids : rows[s] \in Open =>
          \/ s \in Out' \/ page'.ref = s
          \/ \E q \in page'.requests : q.kind = "create" /\ q.session = s
    BY <1>1, <1>5 DEF ModeInv, OpenIsKnown
  <2>2. \A q \in page'.requests : q.kind \in {"abandon", "complete"} /\ q.state = "ok"
                                => rows[q.session] \in Ended \/ q.session \in Out'
    BY <1>1, <1>3, <1>6 DEF ModeInv, OpenIsKnown
  <2> QED BY <2>1, <2>2 DEF OpenIsKnown
<1>18. ButtonAgrees'
  <2> SUFFICES ASSUME Out' = {} PROVE ButtonAgrees'
    BY DEF ButtonAgrees
  <2>1. Out = {}
    BY <1>1
  <2>2. page'.requests = {e}
    BY <1>5, <2>1 DEF ModeInv, ButtonAgrees
  <2> QED BY <1>2, <1>4, <1>5, <2>2 DEF ButtonAgrees
<1> QED BY <1>9, <1>10, <1>11, <1>12, <1>13, <1>14, <1>15, <1>16, <1>17, <1>18 DEF ModeInv

\* The page is left: its requests go on without it.
LEMMA LeavePageKeeps ==
  ASSUME ModeInv, LeavePage
  PROVE  ModeInv'
<1> DEFINE Left(r) == [r EXCEPT !.mounted = FALSE]
<1>1. \A r \in page.requests :
        /\ Left(r) \in Requests /\ Left(r).kind = r.kind /\ Left(r).session = r.session
        /\ Left(r).state = r.state /\ Left(r).mounted = FALSE
  BY Typed DEF Requests
<1>2. {Left(r) : r \in page.requests} \in SUBSET Requests
  BY <1>1
<1>3. /\ page'.requests = {Left(r) : r \in page.requests} /\ page'.active = FALSE
      /\ page'.started = FALSE /\ page'.ref = 0 /\ page'.finalizing = FALSE
      /\ page'.paused = FALSE /\ page'.loading = page.loading /\ page'.dialog = FALSE
      /\ page'.created = page.created /\ page' \in Pages
  BY <1>2, Typed DEF LeavePage, Pages
<1>4. /\ rows' = rows /\ raced' = raced
      /\ excused' = excused \cup ({page.ref} \ {0}) \cup Pending(page, {"create"})
  BY DEF LeavePage
<1> HIDE DEF Left
<1>5. \A q \in page'.requests : \E r \in page.requests : q = Left(r)
  BY <1>3
<1>6. \A q \in page'.requests : q.mounted = FALSE /\ ~Ends(q)
  BY <1>1, <1>5 DEF Ends
<1>7. Pending(page, {"create"}) \subseteq Ids
  BY Typed DEF Pending
<1>8. Grows /\ Out \subseteq Out'
  <2>1. Grows
    BY <1>4, <1>7, Typed DEF Grows, ModeInv, PageTyped
  <2> QED BY <2>1, OutGrows
<1>9. page.ref # 0 => page.ref \in Out'
  BY <1>4 DEF Out
<1>10. \A r \in page.requests : r.session \in Out' /\ r.session # 0
  <2> SUFFICES ASSUME NEW r \in page.requests PROVE r.session \in Out' /\ r.session # 0
    OBVIOUS
  <2>1. r.session # 0
    BY Typed
  <2>2. CASE ~r.mounted
    BY <1>8, <2>1, <2>2 DEF ModeInv, LeftBehind
  <2>3. CASE r.mounted /\ r.kind = "create"
    <3>1. r.session \in Pending(page, {"create"})
      BY <2>3 DEF Pending
    <3> QED BY <1>4, <2>1, <3>1 DEF Out
  <2>4. CASE r.kind \in Pausing
    BY <1>8, <1>9, <2>1, <2>4 DEF ModeInv, OverlapsAreExcused
  <2>5. CASE r.mounted /\ r.kind \in Ending
    BY <1>8, <1>9, <2>1, <2>5 DEF ModeInv, OverlapsAreExcused, Ends
  <2>6. r.kind = "create" \/ r.kind \in Pausing \/ r.kind \in Ending
    BY Typed, KindsAre DEF Pausing, Ending
  <2> QED BY <2>2, <2>3, <2>4, <2>5, <2>6
<1>11. PageTyped'
  BY <1>3, <1>4, <1>8 DEF ModeInv, PageTyped, Grows
<1>12. SessionsAreCreated'
  <2>1. 0 <= page.created
    BY Typed
  <2>2. \A q \in page'.requests : q.session <= page.created
    BY <1>1, <1>5 DEF ModeInv, SessionsAreCreated
  <2> QED BY <1>3, <1>4, <2>1, <2>2 DEF ModeInv, SessionsAreCreated
<1>13. ScreenHasSession'
  BY <1>3 DEF ScreenHasSession
<1>14. CreationsAreAlone'
  <2> SUFFICES ASSUME NEW q \in page'.requests, q.kind = "create"
               PROVE  /\ q.state = "sent" => rows[q.session] = "none"
                      /\ q.state = "ok" => rows[q.session] = "active"
                      /\ 0 # q.session
                      /\ \A o \in page'.requests : o.session = q.session => o = q
    BY <1>3, <1>4 DEF CreationsAreAlone
  <2>1. PICK r \in page.requests : q = Left(r)
    BY <1>5
  <2>2. r.kind = "create" /\ r.state = q.state /\ r.session = q.session
    BY <1>1, <2>1
  <2>3. \A o \in page'.requests : o.session = q.session => o = q
    <3> SUFFICES ASSUME NEW o \in page'.requests, o.session = q.session PROVE o = q
      OBVIOUS
    <3>1. PICK m \in page.requests : o = Left(m)
      BY <1>5
    <3>2. m.session = r.session
      BY <1>1, <2>2, <3>1
    <3>3. m = r
      BY <2>2, <3>2 DEF ModeInv, CreationsAreAlone
    <3> QED BY <2>1, <3>1, <3>3
  <2>4. /\ q.state = "sent" => rows[q.session] = "none"
        /\ q.state = "ok" => rows[q.session] = "active"
    BY <2>2 DEF ModeInv, CreationsAreAlone
  <2>5. 0 # q.session
    BY <1>10, <2>2
  <2> QED BY <2>3, <2>4, <2>5
<1>15. EndingIsExclusive'
  BY <1>3, <1>6 DEF EndingIsExclusive
<1>16. LeftBehind'
  BY <1>1, <1>3, <1>5, <1>6, <1>10 DEF LeftBehind
<1>17. PausesRace'
  <2>1. \A q, o \in page'.requests :
          q.kind \in Pausing /\ o.kind \in Ending /\ q.session = o.session
            => q.session \in raced'
    <3> SUFFICES ASSUME NEW q \in page'.requests, NEW o \in page'.requests,
                        q.kind \in Pausing, o.kind \in Ending, q.session = o.session
                 PROVE  q.session \in raced'
      OBVIOUS
    <3>1. PICK r \in page.requests : q = Left(r)
      BY <1>5
    <3>2. PICK m \in page.requests : o = Left(m)
      BY <1>5
    <3>3. r.kind \in Pausing /\ m.kind \in Ending /\ r.session = m.session
          /\ q.session = r.session
      BY <1>1, <3>1, <3>2
    <3> QED BY <1>4, <3>3 DEF ModeInv, PausesRace
  <2>2. \A q \in page'.requests :
          q.kind \in Pausing /\ q.state = "sent" /\ rows'[q.session] \in Ended
            => q.session \in raced'
    <3> SUFFICES ASSUME NEW q \in page'.requests, q.kind \in Pausing, q.state = "sent",
                        rows[q.session] \in Ended
                 PROVE  q.session \in raced'
      BY <1>4
    <3>1. PICK r \in page.requests : q = Left(r)
      BY <1>5
    <3>2. r.kind = q.kind /\ r.state = q.state /\ r.session = q.session
      BY <1>1, <3>1
    <3> QED BY <1>4, <3>2 DEF ModeInv, PausesRace
  <2> QED BY <1>3, <1>6, <2>1, <2>2 DEF PausesRace
<1>18. OverlapsAreExcused'
  BY <1>1, <1>3, <1>5, <1>6, <1>10 DEF OverlapsAreExcused
<1>19. OpenIsKnown'
  <2>1. \A s \in Ids : rows[s] \in Open => s \in Out'
    <3> SUFFICES ASSUME NEW s \in Ids, rows[s] \in Open PROVE s \in Out'
      OBVIOUS
    <3>1. s # 0
      BY IdsAre
    <3>2. CASE \E r \in page.requests : r.kind = "create" /\ r.session = s
      BY <1>10, <3>2
    <3> QED BY <1>8, <1>9, <3>1, <3>2 DEF ModeInv, OpenIsKnown
  <2>2. \A q \in page'.requests : q.session \in Out'
    BY <1>1, <1>5, <1>10
  <2> QED BY <1>4, <2>1, <2>2 DEF OpenIsKnown
<1>20. ButtonAgrees'
  <2> SUFFICES ASSUME Out' = {} PROVE ButtonAgrees'
    BY DEF ButtonAgrees
  <2>1. page.requests = {}
    BY <1>10
  <2>2. page'.requests = {}
    BY <1>5, <2>1
  <2> QED BY <1>3, <2>2 DEF ButtonAgrees
<1> QED BY <1>11, <1>12, <1>13, <1>14, <1>15, <1>16, <1>17, <1>18, <1>19, <1>20 DEF ModeInv

\* The server handles a request.
LEMMA ServerHandlesKeeps ==
  ASSUME ModeInv, NEW r \in page.requests, ServerHandles(r)
  PROVE  ModeInv'
<1>1. PICK st \in {"ok", "error"} :
        page' = Marked(r, st) /\ (rows' = Written(r) \/ (st = "error" /\ rows' = rows))
  BY DEF ServerHandles
<1>2. r.state = "sent" /\ excused' = excused /\ raced' = raced /\ Out' = Out
  BY DEF ServerHandles, Out
<1> DEFINE n == [r EXCEPT !.state = st]
<1>3. n \in Requests /\ n.kind = r.kind /\ n.session = r.session /\ n.state = st
      /\ n.mounted = r.mounted
  BY Typed DEF Requests
<1>4. (page.requests \ {r}) \cup {n} \in SUBSET Requests
  BY <1>3, Typed
<1>5. page'.requests = (page.requests \ {r}) \cup {n} /\ page'.active = page.active
      /\ page'.started = page.started /\ page'.ref = page.ref
      /\ page'.finalizing = page.finalizing /\ page'.paused = page.paused
      /\ page'.loading = page.loading /\ page'.dialog = page.dialog
      /\ page'.created = page.created /\ page' \in Pages
  BY <1>1, <1>4, Typed DEF Marked, Pages
<1> HIDE DEF n
<1>6. \A q \in page'.requests : (q \in page.requests /\ q # r) \/ q = n
  BY <1>5
<1>7. Ends(n) <=> Ends(r)
  BY <1>3 DEF Ends
<1>8. r.session \in Ids /\ r.session # 0 /\ r.kind \in Kinds
  BY Typed
\* The row changes only for this request, and as it says.
<1>9. /\ rows' \in [Ids -> Open \cup Ended \cup {"none"}]
      /\ \A s \in Ids : s # r.session => rows'[s] = rows[s]
      /\ \/ rows'[r.session] = rows[r.session] /\ (st = "error" \/ r.kind = "duration")
         \/ r.kind # "duration" /\ rows'[r.session] = Writes[r.kind]
  <2>1. rows \in [Ids -> Open \cup Ended \cup {"none"}]
    BY Typed
  <2>2. CASE rows' = rows /\ (st = "error" \/ r.kind = "duration")
    BY <2>1, <2>2
  <2>3. CASE r.kind # "duration" /\ rows' = [rows EXCEPT ![r.session] = Writes[r.kind]]
    <3>1. Writes[r.kind] \in Open \cup Ended
      BY <1>8, <2>3, KindsAre DEF Writes, Open, Ended
    <3> QED BY <1>8, <2>1, <2>3, <3>1
  <2> QED BY <1>1, <2>2, <2>3 DEF Written
<1>10. /\ Writes["create"] = "active" /\ Writes["abandon"] = "abandoned"
       /\ Writes["complete"] = "completed" /\ Writes["pause"] = "paused"
       /\ Writes["resume"] = "active"
  BY DEF Writes
<1>11. /\ r.kind = "create" => /\ rows[r.session] = "none"
                               /\ st = "ok" => rows'[r.session] = "active"
                               /\ \A q \in page.requests : q # r => q.session # r.session
                               /\ page.ref # r.session
       /\ \A q \in page.requests : q.kind = "create" /\ q # r => q.session # r.session
  <2>1. r.kind = "create" => /\ rows[r.session] = "none" /\ page.ref # r.session
                             /\ \A q \in page.requests : q # r => q.session # r.session
    BY <1>2 DEF ModeInv, CreationsAreAlone
  <2>2. r.kind = "create" /\ st = "ok" => rows'[r.session] = "active"
    BY <1>9, <1>10
  <2>3. \A q \in page.requests : q.kind = "create" /\ q # r => q.session # r.session
    BY DEF ModeInv, CreationsAreAlone
  <2> QED BY <2>1, <2>2, <2>3
<1>12. PageTyped'
  BY <1>2, <1>5, <1>9 DEF ModeInv, PageTyped
<1>13. SessionsAreCreated'
  <2>1. r.session <= page.created /\ page.created \in Nat /\ r.session \in Nat
    BY Typed DEF ModeInv, SessionsAreCreated
  <2>2. \A s \in Ids : s > page.created => s # r.session
    BY <2>1, IdsAre
  <2> QED BY <1>3, <1>5, <1>6, <1>9, <2>1, <2>2 DEF ModeInv, SessionsAreCreated
<1>14. ScreenHasSession'
  BY <1>5 DEF ModeInv, ScreenHasSession
<1>15. CreationsAreAlone'
  <2> SUFFICES ASSUME NEW q \in page'.requests, q.kind = "create"
               PROVE  /\ q.state = "sent" => rows'[q.session] = "none"
                      /\ q.state = "ok" => rows'[q.session] = "active"
                      /\ page.ref # q.session
                      /\ \A o \in page'.requests : o.session = q.session => o = q
    BY <1>5 DEF CreationsAreAlone
  <2>1. CASE q = n
    BY <1>1, <1>3, <1>6, <1>11, <2>1
  <2>2. CASE q \in page.requests /\ q # r
    <3>1. q.session # r.session /\ q.session \in Ids
      BY <1>11, <2>2, Typed
    <3>2. rows'[q.session] = rows[q.session]
      BY <1>9, <3>1
    <3> QED BY <1>3, <1>6, <2>2, <3>1, <3>2 DEF ModeInv, CreationsAreAlone
  <2> QED BY <1>6, <2>1, <2>2
<1>16. EndingIsExclusive'
  <2>1. \A q, o \in page'.requests : Ends(q) /\ Ends(o) => q = o
    BY <1>6, <1>7 DEF ModeInv, EndingIsExclusive
  <2>2. (\E q \in page'.requests : Ends(q)) <=> \E q \in page.requests : Ends(q)
    BY <1>5, <1>7
  <2> QED BY <1>3, <1>5, <1>6, <1>7, <2>1, <2>2 DEF ModeInv, EndingIsExclusive
<1>17. LeftBehind'
  BY <1>2, <1>3, <1>5, <1>6 DEF ModeInv, LeftBehind
<1>18. PausesRace'
  <2>1. \A q \in page'.requests : Ends(q) /\ ~page'.loading => q.session \in raced'
    BY <1>2, <1>3, <1>5, <1>6, <1>7 DEF ModeInv, PausesRace
  <2>2. \A q, o \in page'.requests :
          q.kind \in Pausing /\ o.kind \in Ending /\ q.session = o.session
            => q.session \in raced'
    BY <1>2, <1>3, <1>6 DEF ModeInv, PausesRace
  <2>3. \A q \in page'.requests :
          q.kind \in Pausing /\ q.state = "sent" /\ rows'[q.session] \in Ended
            => q.session \in raced'
    <3> SUFFICES ASSUME NEW q \in page'.requests, q.kind \in Pausing, q.state = "sent",
                        rows'[q.session] \in Ended
                 PROVE  q.session \in raced
      BY <1>2
    <3>1. q \in page.requests /\ q # r /\ q.session \in Ids
      BY <1>1, <1>3, <1>6, Typed
    <3>2. CASE q.session # r.session
      BY <1>9, <3>1, <3>2 DEF ModeInv, PausesRace
    <3>3. CASE q.session = r.session /\ r.kind \in Ending
      BY <3>1, <3>3 DEF ModeInv, PausesRace
    <3>4. CASE q.session = r.session /\ r.kind \notin Ending
      <4>1. r.kind \in {"create", "pause", "resume"}
        BY <1>8, <3>4, KindsAre DEF Ending
      <4>2. r.kind # "create"
        BY <1>11, <3>1, <3>4
      <4>3. rows'[r.session] = rows[r.session] \/ rows'[r.session] \notin Ended
        BY <1>9, <1>10, <4>1 DEF Ended
      <4> QED BY <3>1, <3>4, <4>3 DEF ModeInv, PausesRace
    <3> QED BY <3>2, <3>3, <3>4
  <2>4. page'.ref # 0 /\ rows'[page'.ref] \in Ended
          => \E q \in page'.requests : Ends(q) /\ q.session = page'.ref
    <3> SUFFICES ASSUME page.ref # 0, rows'[page.ref] \in Ended
                 PROVE  \E q \in page'.requests : Ends(q) /\ q.session = page.ref
      BY <1>5
    <3>1. CASE rows[page.ref] \in Ended
      <4>1. PICK q \in page.requests : Ends(q) /\ q.session = page.ref
        BY <3>1 DEF ModeInv, PausesRace
      <4> QED BY <1>3, <1>5, <1>7, <4>1
    <3>2. CASE rows[page.ref] \notin Ended
      <4>1. page.ref \in Ids /\ page.ref = r.session /\ r.kind # "duration"
            /\ rows'[r.session] = Writes[r.kind]
        BY <1>9, <3>2, Typed
      <4>2. r.kind \in Ending
        BY <1>8, <1>10, <4>1, KindsAre DEF Ending, Ended
      <4>3. r.mounted
        BY <4>1 DEF ModeInv, LeftBehind
      <4> QED BY <1>3, <1>5, <1>7, <4>1, <4>2, <4>3 DEF Ends
    <3> QED BY <3>1, <3>2
  <2> QED BY <2>1, <2>2, <2>3, <2>4 DEF PausesRace
<1>19. OverlapsAreExcused'
  BY <1>2, <1>3, <1>5, <1>6, <1>7 DEF ModeInv, OverlapsAreExcused
<1>20. OpenIsKnown'
  <2>1. \A s \in Ids : rows'[s] \in Open =>
          \/ s \in Out \/ page.ref = s
          \/ \E q \in page'.requests : q.kind = "create" /\ q.session = s
    <3> SUFFICES ASSUME NEW s \in Ids, rows'[s] \in Open, s \notin Out, page.ref # s
                 PROVE  \E q \in page'.requests : q.kind = "create" /\ q.session = s
      OBVIOUS
    <3>1. CASE rows[s] \in Open
      <4>1. PICK q \in page.requests : q.kind = "create" /\ q.session = s
        BY <3>1 DEF ModeInv, OpenIsKnown
      <4> QED BY <1>3, <1>5, <4>1
    <3>2. CASE rows[s] \notin Open
      <4>1. s = r.session /\ r.kind # "duration" /\ rows'[s] = Writes[r.kind]
        BY <1>9, <3>2
      <4>2. r.kind \in {"create", "pause", "resume"}
        BY <1>8, <1>10, <4>1, KindsAre DEF Open
      <4>3. r.kind = "create"
        BY <4>1, <4>2 DEF ModeInv, OverlapsAreExcused, Pausing
      <4> QED BY <1>3, <1>5, <4>1, <4>3
    <3> QED BY <3>1, <3>2
  <2>2. \A q \in page'.requests : q.kind \in {"abandon", "complete"} /\ q.state = "ok"
                                => rows'[q.session] \in Ended \/ q.session \in Out
    <3> SUFFICES ASSUME NEW q \in page'.requests, q.kind \in {"abandon", "complete"},
                        q.state = "ok"
                 PROVE  rows'[q.session] \in Ended \/ q.session \in Out
      OBVIOUS
    <3>1. CASE q = n
      <4>1. rows'[r.session] = Writes[r.kind] /\ r.kind = q.kind
        BY <1>3, <1>9, <3>1
      <4> QED BY <1>3, <1>10, <3>1, <4>1 DEF Ended
    <3>2. CASE q \in page.requests /\ q # r
      <4>1. q.session \in Ids /\ (rows[q.session] \in Ended \/ q.session \in Out)
        BY <3>2, Typed DEF ModeInv, OpenIsKnown
      <4>2. CASE q.session # r.session
        BY <1>9, <4>1, <4>2
      <4>3. CASE q.session = r.session /\ r.kind \in Pausing
        BY <3>2, <4>3 DEF ModeInv, PausesRace, Ending, Out
      <4>4. CASE q.session = r.session /\ r.kind \notin Pausing
        <5>1. r.kind # "create"
          BY <1>11, <3>2, <4>4
        <5>2. r.kind \in Ending
          BY <1>8, <4>4, <5>1, KindsAre DEF Pausing, Ending
        <5>3. rows'[r.session] = rows[r.session] \/ rows'[r.session] \in Ended
          BY <1>9, <1>10, <5>2 DEF Ending, Ended
        <5> QED BY <4>1, <4>4, <5>3
      <4> QED BY <4>2, <4>3, <4>4
    <3> QED BY <1>6, <3>1, <3>2
  <2> QED BY <1>2, <1>5, <2>1, <2>2 DEF OpenIsKnown
<1>21. ButtonAgrees'
  <2> SUFFICES ASSUME Out = {} PROVE ButtonAgrees'
    BY <1>2 DEF ButtonAgrees
  <2>1. page.requests = {r} /\ page.loading /\ (~page.started => ~page.paused)
    BY DEF ModeInv, ButtonAgrees
  <2>2. page'.requests = {n}
    BY <1>5, <2>1
  <2>3. ASSUME page.started, n.kind \in Pausing, n.state = "ok"
        PROVE  rows'[page.ref] = Writes[n.kind]
    <3>1. r.session = page.ref
      BY <1>3, <2>3 DEF ModeInv, OverlapsAreExcused
    <3>2. r.kind # "duration" /\ st = "ok"
      BY <1>3, <2>3 DEF Pausing
    <3> QED BY <1>3, <1>9, <3>1, <3>2
  <2>4. n.state # "sent"
    BY <1>1, <1>3
  <2> QED BY <1>5, <2>1, <2>2, <2>3, <2>4 DEF ButtonAgrees
<1> QED BY <1>12, <1>13, <1>14, <1>15, <1>16, <1>17, <1>18, <1>19, <1>20, <1>21 DEF ModeInv

-----------------------------------------------------------------------------
(***************************************************************************)
(* The actions make these steps                                            *)
(***************************************************************************)

\* Switching on asks for a session, switching off ends the one on screen, if any.
LEMMA ToggleFocusModeKeeps ==
  ASSUME ModeInv, ToggleFocusMode
  PROVE  ModeInv'
<1> DEFINE p == [page EXCEPT !.active = ~@]
<1>1. Has(p, page.requests, ~page.active, page.started, page.ref, page.finalizing,
          page.paused, page.loading, page.dialog, page.created)
  BY Typed DEF Has, Pages
<1>2. page' = Effect(p) /\ rows' = rows /\ Records({})
  BY DEF ToggleFocusMode
<1> HIDE DEF p
<1>3. p \in Pages /\ p.active = ~page.active /\ p.started = page.started
  BY <1>1 DEF Has
<1>4. ASSUME page' \in Pages PROVE Recorded
  BY <1>2, <1>4, RecordsIsRecorded DEF ModeInv
<1>5. ASSUME page' = p, page.started /\ ~p.active => page.finalizing
      PROVE  ModeInv'
  <2>1. Grows
    BY <1>3, <1>4, <1>5 DEF Recorded
  <2>2. Has(page', page.requests, p.active, page.started, page.ref, page.finalizing,
            page.paused, page.loading, page.dialog, page.created)
    BY <1>1, <1>3, <1>5
  <2>3. p.active \in BOOLEAN /\ page.dialog \in BOOLEAN
    BY <1>3, PageFields, Typed
  <2> QED BY <1>2, <1>5, <2>1, <2>2, <2>3, SwitchKeeps
<1>6. CASE p.active /\ ~p.started
  <2>1. page' = InitializeSession(p)
    BY <1>2, <1>3, <1>6, EffectIs
  <2>2. CASE p.created = MaxSessions
    <3>1. page' = p
      BY <2>1, <2>2 DEF InitializeSession
    <3>2. page.started /\ ~p.active => page.finalizing
      BY <1>6
    <3> QED BY <1>5, <3>1, <3>2
  <2>3. CASE p.created # MaxSessions
    <3>1. p.created = page.created /\ p.requests = page.requests /\ p.ref = page.ref
          /\ p.finalizing = page.finalizing /\ p.paused = page.paused
          /\ p.dialog = page.dialog /\ p.active = TRUE
      BY <1>1, <1>3, <1>6, PageFields DEF Has
    <3>2. /\ p.created + 1 \in Ids
          /\ Has(InitializeSession(p), p.requests \cup {Request("create", p.created + 1)},
                 p.active, p.started, p.ref, p.finalizing, p.paused, TRUE, p.dialog,
                 p.created + 1)
      BY <1>3, <2>3, InitializeIs
    <3>3. Has(page', page.requests \cup {Request("create", page.created + 1)}, TRUE,
              page.started, page.ref, page.finalizing, page.paused, TRUE, page.dialog,
              page.created + 1)
      BY <1>3, <2>1, <3>1, <3>2
    <3>4. Recorded
      BY <1>4, <3>3 DEF Has
    <3> QED BY <1>2, <1>3, <1>6, <3>1, <3>2, <3>3, <3>4, CreationKeeps
  <2> QED BY <2>2, <2>3
<1>7. CASE ~p.active /\ p.started
  <2>1. page' = FinalizeSession(p, "abandon")
    BY <1>2, <1>3, <1>7, EffectIs
  <2>2. p.created = page.created /\ p.requests = page.requests /\ p.ref = page.ref
        /\ p.finalizing = page.finalizing /\ p.paused = page.paused
        /\ p.dialog = page.dialog /\ p.active \in BOOLEAN
    BY <1>1, <1>3, PageFields DEF Has
  <2>3. p.ref # 0
    BY <1>3, <1>7, <2>2 DEF ModeInv, ScreenHasSession
  <2>4. CASE p.finalizing
    <3>1. page' = p
      BY <2>1, <2>4 DEF FinalizeSession
    <3>2. page.started /\ ~p.active => page.finalizing
      BY <2>2, <2>4
    <3> QED BY <1>5, <3>1, <3>2
  <2>5. CASE ~p.finalizing
    <3>1. "abandon" \in Kinds
      BY KindsAre
    <3>2. Has(page', p.requests \cup {Request("abandon", p.ref)}, p.active, p.started,
              p.ref, TRUE, p.paused, TRUE, p.dialog, p.created)
      BY <1>3, <2>1, <2>3, <2>5, <3>1, FinalizeIs
    <3>3. Has(page', page.requests \cup {Request("abandon", page.ref)}, p.active,
              page.started, page.ref, TRUE, page.paused, TRUE, page.dialog, page.created)
      BY <1>3, <2>2, <3>2
    <3>4. Recorded
      BY <1>4, <3>3 DEF Has
    <3>5. page.ref # 0 /\ ~page.finalizing /\ p.active \in BOOLEAN
      BY <2>2, <2>3, <2>5
    <3> QED BY <1>2, <3>3, <3>4, <3>5, EndBegins
  <2> QED BY <2>4, <2>5
<1>8. CASE p.active <=> p.started
  <2>1. page' = p
    BY <1>2, <1>3, <1>8, EffectIs
  <2>2. page.started /\ ~p.active => page.finalizing
    BY <1>3, <1>8
  <2> QED BY <1>5, <2>1, <2>2
<1> QED BY <1>6, <1>7, <1>8

\* The button is enabled only while the session is not being ended, or already counts as
\* raced.
LEMMA PauseResumeKeeps ==
  ASSUME ModeInv, PauseResume
  PROVE  ModeInv'
<1> DEFINE kind == IF page.paused THEN "resume" ELSE "pause"
<1>1. page.ref # 0 /\ ~page.loading /\ rows' = rows /\ Records({})
      /\ page' = Calls(page, kind, page.ref)
  BY DEF PauseResume
<1>2. kind \in Kinds /\ page.ref \in Ids /\ page \in Pages
  BY <1>1, Typed, KindsAre
<1> HIDE DEF kind
<1>3. Has(page', page.requests \cup {Request(kind, page.ref)}, page.active, page.started,
          page.ref, page.finalizing, page.paused, TRUE, page.dialog, page.created)
  BY <1>1, <1>2, CallsIs
<1>4. Recorded
  BY <1>1, <1>3, RecordsIsRecorded DEF ModeInv, Has
<1> QED BY <1>1, <1>3, <1>4, PauseBegins DEF kind

\* The dialog sends nothing.
LEMMA DialogKeeps ==
  ASSUME ModeInv, OpenDialog \/ CloseDialog
  PROVE  ModeInv'
<1>1. PICK di \in BOOLEAN : page' = [page EXCEPT !.dialog = di]
  BY DEF OpenDialog, CloseDialog
<1>2. rows' = rows /\ excused' = excused /\ raced' = raced
  BY DEF OpenDialog, CloseDialog
<1>3. Has(page', page.requests, page.active, page.started, page.ref, page.finalizing,
          page.paused, page.loading, di, page.created)
  BY <1>1, Typed DEF Has, Pages
<1>4. Grows
  BY <1>2 DEF Grows, ModeInv, PageTyped
<1>5. page.active \in BOOLEAN /\ (page.started /\ ~page.active => page.finalizing)
  BY Typed DEF ModeInv, ScreenHasSession
<1> QED BY <1>1, <1>2, <1>3, <1>4, <1>5, SwitchKeeps

\* The proof is uploaded while the page stays as it is.
LEMMA ProofKeeps ==
  ASSUME ModeInv, UNCHANGED <<page, rows, excused, raced>>
  PROVE  ModeInv'
  BY DEF ModeInv, PageTyped, SessionsAreCreated, ScreenHasSession, CreationsAreAlone,
     EndingIsExclusive, LeftBehind, PausesRace, OverlapsAreExcused, OpenIsKnown,
     ButtonAgrees, Out, Shown

\* Once the proof is there, the session then on screen is completed, or, when there is
\* none or it is being ended, focus mode is switched off.
LEMMA ProofUploadedKeeps ==
  ASSUME ModeInv, ProofUploaded
  PROVE  ModeInv'
<1>1. rows' = rows /\ Records({})
  BY DEF ProofUploaded
<1>2. ASSUME page' \in Pages PROVE Recorded
  BY <1>1, <1>2, RecordsIsRecorded DEF ModeInv
<1>3. CASE page.ref # 0 /\ ~page.finalizing
  <2>1. page' = FinalizeSession(page, "duration") /\ "duration" \in Kinds
    BY <1>3, KindsAre DEF ProofUploaded
  <2>2. Has(page', page.requests \cup {Request("duration", page.ref)}, page.active,
            page.started, page.ref, TRUE, page.paused, TRUE, page.dialog, page.created)
    BY <1>3, <2>1, Typed, FinalizeIs
  <2>3. Recorded /\ page.active \in BOOLEAN
    BY <1>2, <2>2, Typed DEF Has
  <2> QED BY <1>1, <1>3, <2>2, <2>3, EndBegins
<1>4. CASE page.ref = 0 \/ page.finalizing
  <2> DEFINE p == [page EXCEPT !.dialog = FALSE, !.active = FALSE]
  <2>1. Has(p, page.requests, FALSE, page.started, page.ref, page.finalizing,
            page.paused, page.loading, FALSE, page.created)
    BY Typed DEF Has, Pages
  <2>2. page' = Effect(p)
    BY <1>4 DEF ProofUploaded
  <2> HIDE DEF p
  <2>3. p \in Pages /\ ~p.active /\ p.started = page.started /\ p.ref = page.ref
        /\ p.finalizing = page.finalizing /\ (page.started => page.finalizing)
    BY <1>4, <2>1 DEF ModeInv, ScreenHasSession, Has
  <2>4. page' = p
    <3>1. CASE page.started
      BY <2>2, <2>3, <3>1, EffectIs DEF FinalizeSession
    <3>2. CASE ~page.started
      BY <2>2, <2>3, <3>2, EffectIs
    <3> QED BY <3>1, <3>2
  <2>5. Grows
    BY <1>2, <2>3, <2>4 DEF Recorded
  <2> QED BY <1>1, <2>1, <2>3, <2>4, <2>5, SwitchKeeps
<1> QED BY <1>3, <1>4

\* What every answer records.
LEMMA AnswerRecords ==
  ASSUME ModeInv, NEW r \in page.requests, page' \in Pages, Records(Lost(r))
  PROVE  Recorded /\ (r.state = "error" => r.session \in excused' /\ r.session \in Out')
<1>1. Lost(r) \in SUBSET Ids /\ (r.state = "error" => r.session \in Lost(r))
  BY Typed DEF Lost
<1>2. Recorded /\ Lost(r) \subseteq excused'
  BY <1>1, RecordsIsRecorded DEF ModeInv
<1> QED BY <1>1, <1>2 DEF Out

\* An answer after the page was left only clears the loading flag.
LEMMA AnswerUnmountedKeeps ==
  ASSUME ModeInv, NEW r \in page.requests, AnswerUnmounted(r)
  PROVE  ModeInv'
<1>1. ~r.mounted /\ page' = Answered(r) /\ Records(Lost(r)) /\ rows' = rows
  BY DEF AnswerUnmounted
<1>2. Has(page', page.requests \ {r}, page.active, page.started, page.ref,
          page.finalizing, page.paused, FALSE, page.dialog, page.created)
  BY <1>1, Typed, AnsweredIs
<1>3. Recorded
  BY <1>1, <1>2, AnswerRecords DEF Has
<1>4. ~Ends(r) /\ r.session \in Out'
  BY <1>1, <1>3, OutGrows DEF ModeInv, LeftBehind, Ends, Recorded
<1> QED BY <1>1, <1>2, <1>3, <1>4, DropKeeps

\* A created session comes on screen, or is ended at once when focus mode is off.
LEMMA CreateAnsweredKeeps ==
  ASSUME ModeInv, NEW r \in page.requests, CreateAnswered(r)
  PROVE  ModeInv'
<1> DEFINE p == [Answered(r) EXCEPT !.ref = r.session, !.started = TRUE]
<1>1. r.mounted /\ r.kind = "create" /\ r.state # "sent" /\ rows' = rows
      /\ Records(Lost(r))
      /\ page' = IF r.state = "error" THEN Answered(r)
                 ELSE IF page.started THEN p ELSE Effect(p)
  BY DEF CreateAnswered, Answering
<1>2. Has(Answered(r), page.requests \ {r}, page.active, page.started, page.ref,
          page.finalizing, page.paused, FALSE, page.dialog, page.created)
  BY Typed, AnsweredIs
<1>3. Has(p, page.requests \ {r}, page.active, TRUE, r.session,
          page.finalizing, page.paused, FALSE, page.dialog, page.created)
  <2>1. r.session \in Ids \cup {0}
    BY Typed
  <2> QED BY <1>2, <2>1 DEF Has, Pages
<1> HIDE DEF p
<1>4. ASSUME page' \in Pages
      PROVE  Recorded /\ (r.state = "error" => r.session \in Out')
  BY <1>1, <1>4, AnswerRecords
<1>5. CASE r.state = "error"
  <2>1. page' = Answered(r)
    BY <1>1, <1>5
  <2>2. Recorded /\ r.session \in Out'
    BY <1>2, <1>4, <1>5, <2>1 DEF Has
  <2>3. ~Ends(r)
    BY <1>1 DEF Ends, Ending
  <2> QED BY <1>1, <1>2, <2>1, <2>2, <2>3, DropKeeps
<1>6. CASE r.state = "ok" /\ (page.started \/ page.active)
  <2>1. p \in Pages /\ p.active = page.active /\ p.started = TRUE
    BY <1>3 DEF Has
  <2>2. page' = p
    BY <1>1, <1>6, <2>1, EffectIs
  <2>3. Recorded
    BY <1>4, <2>1, <2>2
  <2> QED BY <1>1, <1>3, <1>6, <2>2, <2>3, SessionShown
<1>7. CASE r.state = "ok" /\ ~page.started /\ ~page.active
  <2>1. p \in Pages /\ p.active = page.active /\ p.started = TRUE /\ p.ref = r.session
        /\ p.finalizing = page.finalizing /\ p.requests = page.requests \ {r}
        /\ p.paused = page.paused /\ p.dialog = page.dialog /\ p.created = page.created
    BY <1>3 DEF Has
  <2>2. page' = FinalizeSession(p, "abandon") /\ "abandon" \in Kinds
    BY <1>1, <1>7, <2>1, EffectIs, KindsAre
  <2>3. p.ref # 0 /\ ~p.finalizing
    BY <1>7, <2>1, Typed DEF ModeInv, EndingIsExclusive
  <2>4. Has(page', p.requests \cup {Request("abandon", p.ref)}, p.active,
             p.started, p.ref, TRUE, p.paused, TRUE, p.dialog, p.created)
    BY <2>1, <2>2, <2>3, FinalizeIs
  <2>5. Has(page', (page.requests \ {r}) \cup {Request("abandon", r.session)},
            page.active, TRUE, r.session, TRUE, page.paused, TRUE, page.dialog,
            page.created)
    BY <2>1, <2>4
  <2>6. Recorded
    BY <1>4, <2>5 DEF Has
  <2> QED BY <1>1, <1>7, <2>5, <2>6, SessionShownAndEnded
<1> QED BY <1>1, <1>5, <1>6, <1>7, Typed

\* The button follows the row when the request succeeded.
LEMMA PauseAnsweredKeeps ==
  ASSUME ModeInv, NEW r \in page.requests, PauseAnswered(r)
  PROVE  ModeInv'
<1>1. r.mounted /\ r.kind \in Pausing /\ r.state # "sent" /\ rows' = rows
      /\ Records(Lost(r))
      /\ page' = IF r.state = "error" THEN Answered(r)
                 ELSE [Answered(r) EXCEPT !.paused = r.kind = "pause"]
  BY DEF PauseAnswered, Answering, Pausing
<1>2. Has(Answered(r), page.requests \ {r}, page.active, page.started, page.ref,
          page.finalizing, page.paused, FALSE, page.dialog, page.created)
  BY Typed, AnsweredIs
<1>3. CASE r.state = "error"
  <2>1. page' = Answered(r)
    BY <1>1, <1>3
  <2>2. Recorded /\ r.session \in Out'
    BY <1>1, <1>2, <1>3, <2>1, AnswerRecords DEF Has
  <2>3. ~Ends(r)
    BY <1>1 DEF Ends, Ending, Pausing
  <2> QED BY <1>1, <1>2, <2>1, <2>2, <2>3, DropKeeps
<1>4. CASE r.state = "ok"
  <2>1. Has(page', page.requests \ {r}, page.active, page.started, page.ref,
            page.finalizing, r.kind = "pause", FALSE, page.dialog, page.created)
    <3> DEFINE a == Answered(r)
    <3>1. page' = [a EXCEPT !.paused = r.kind = "pause"]
      BY <1>1, <1>4
    <3>2. (r.kind = "pause") \in BOOLEAN
      OBVIOUS
    <3> HIDE DEF a
    <3> QED BY <1>2, <3>1, <3>2 DEF Has, Pages, a
  <2>2. Recorded
    BY <1>1, <2>1, AnswerRecords DEF Has
  <2> QED BY <1>1, <1>4, <2>1, <2>2, PauseEnds
<1> QED BY <1>1, <1>3, <1>4, Typed

\* What is left of the page when finalizeSession is over.
LEMMA ForgottenIs ==
  ASSUME ModeInv, NEW r
  PROVE  Has(ResetSession(Answered(r)), page.requests \ {r}, page.active, FALSE, 0, FALSE,
             FALSE, FALSE, FALSE, page.created)
<1> DEFINE a == Answered(r)
<1>1. Has(a, page.requests \ {r}, page.active, page.started, page.ref,
          page.finalizing, page.paused, FALSE, page.dialog, page.created)
  BY Typed, AnsweredIs
<1> HIDE DEF a
<1>2. a \in Pages
  BY <1>1 DEF Has
<1>3. Has(ResetSession(a), a.requests, a.active, FALSE, 0, FALSE, FALSE, a.loading,
          FALSE, a.created)
  BY <1>2, ResetIs
<1>4. a.requests = page.requests \ {r} /\ a.active = page.active /\ a.loading = FALSE
      /\ a.created = page.created
  BY <1>1 DEF Has
<1> QED BY <1>3, <1>4 DEF a

\* ... and no session is asked for.
LEMMA ForgottenKeeps ==
  ASSUME ModeInv, NEW r \in page.requests, Ends(r), r.state # "sent",
         r.kind = "duration" => r.state = "error", NEW ac \in BOOLEAN,
         Has(page', page.requests \ {r}, ac, FALSE, 0, FALSE, FALSE, FALSE, FALSE,
             page.created),
         rows' = rows, Records(Lost(r))
  PROVE  ModeInv'
<1>1. Recorded /\ (r.state = "error" => r.session \in excused')
  BY AnswerRecords DEF Has
<1> DEFINE C == {}
<1>2. (page.requests \ {r}) \cup C = page.requests \ {r}
  OBVIOUS
<1>3. C \in SUBSET Requests /\ page.created \in Nat /\ FALSE \in BOOLEAN
  BY Typed
<1>4. Has(page', (page.requests \ {r}) \cup C, ac, FALSE, 0, FALSE, FALSE, FALSE, FALSE,
          page.created)
  BY <1>2
<1>5. /\ \A c \in C : /\ c.kind = "create" /\ c.session = page.created + 1
                      /\ c.state = "sent" /\ c.mounted = TRUE
      /\ \A c, d \in C : c = d
      /\ C = {}
  OBVIOUS
<1> HIDE DEF C
<1> QED BY <1>1, <1>3, <1>4, <1>5, SessionForgotten

\* After the end the screen forgets the session; a failure counts it as lost.
LEMMA AbandonAnsweredKeeps ==
  ASSUME ModeInv, NEW r \in page.requests, AbandonAnswered(r)
  PROVE  ModeInv'
<1> DEFINE p == ResetSession(Answered(r))
<1>1. r.mounted /\ r.kind = "abandon" /\ r.state # "sent" /\ rows' = rows
      /\ Records(Lost(r)) /\ page' = Effect(p)
  BY DEF AbandonAnswered, Answering
<1>2. Has(p, page.requests \ {r}, page.active, FALSE, 0, FALSE, FALSE, FALSE, FALSE,
          page.created)
  BY ForgottenIs
<1>3. Ends(r)
  BY <1>1 DEF Ends, Ending
<1> HIDE DEF p
<1>4. p \in Pages /\ p.active = page.active /\ p.started = FALSE /\ page.active \in BOOLEAN
      /\ p.created = page.created /\ p.requests = page.requests \ {r} /\ p.ref = 0
      /\ p.finalizing = FALSE /\ p.paused = FALSE /\ p.dialog = FALSE
  BY <1>2, Typed DEF Has
<1>5. CASE page' = p
  BY <1>1, <1>2, <1>3, <1>4, <1>5, ForgottenKeeps
<1>6. CASE page.active /\ p.created # MaxSessions
  <2> DEFINE C == {Request("create", page.created + 1)}
  <2>1. page' = InitializeSession(p)
    BY <1>1, <1>4, <1>6, EffectIs
  <2>2. /\ p.created + 1 \in Ids
        /\ Has(page', p.requests \cup {Request("create", p.created + 1)},
               p.active, p.started, p.ref, p.finalizing, p.paused, TRUE, p.dialog,
               p.created + 1)
    BY <1>4, <1>6, <2>1, InitializeIs
  <2>3. Has(page', (page.requests \ {r}) \cup C, page.active, FALSE, 0, FALSE, FALSE, TRUE,
            FALSE, page.created + 1)
    BY <1>4, <2>2
  <2>4. page.created + 1 \in Ids /\ page.created + 1 \in Nat /\ "create" \in Kinds
    BY <1>4, <2>2, IdsAre, KindsAre
  <2> DEFINE c0 == Request("create", page.created + 1)
  <2>5. /\ c0 \in Requests /\ c0.kind = "create" /\ c0.session = page.created + 1
        /\ c0.state = "sent" /\ c0.mounted = TRUE
    BY <2>4, RequestIs
  <2>6. C = {c0}
    OBVIOUS
  <2> HIDE DEF c0, C
  <2>7. /\ \A c \in C : /\ c.kind = "create" /\ c.session = page.created + 1
                        /\ c.state = "sent" /\ c.mounted = TRUE
        /\ \A c, d \in C : c = d
        /\ C \in SUBSET Requests
    BY <2>5, <2>6
  <2>8. Recorded /\ (r.state = "error" => r.session \in excused')
    BY <1>1, <2>3, AnswerRecords DEF Has
  <2>9. r.kind # "duration" /\ r.state # "sent" /\ rows' = rows
    BY <1>1
  <2>10. page.active \in BOOLEAN
    BY <1>4
  <2> QED BY <1>3, <2>3, <2>4, <2>7, <2>8, <2>9, <2>10, SessionForgotten
<1>7. CASE ~page.active
  <2>1. page' = p
    BY <1>1, <1>4, <1>7, EffectIs
  <2> QED BY <1>5, <2>1
<1>8. CASE page.active /\ p.created = MaxSessions
  <2>1. page' = InitializeSession(p)
    BY <1>1, <1>4, <1>8, EffectIs
  <2>2. page' = p
    BY <1>8, <2>1 DEF InitializeSession
  <2> QED BY <1>5, <2>2
<1> QED BY <1>6, <1>7, <1>8

\* A completion ends, or fails: focus mode is switched off.
LEMMA CompletionEnds ==
  ASSUME ModeInv, NEW r \in page.requests, Ends(r), r.state # "sent",
         r.kind = "duration" => r.state = "error",
         page' = [ResetSession(Answered(r)) EXCEPT !.active = FALSE],
         rows' = rows, Records(Lost(r))
  PROVE  ModeInv'
<1> DEFINE p == ResetSession(Answered(r))
<1>1. Has(p, page.requests \ {r}, page.active, FALSE, 0, FALSE, FALSE, FALSE, FALSE,
          page.created)
  BY ForgottenIs
<1>2. page' = [p EXCEPT !.active = FALSE]
  OBVIOUS
<1> HIDE DEF p
<1>3. Has(page', page.requests \ {r}, FALSE, FALSE, 0, FALSE, FALSE, FALSE, FALSE,
          page.created)
  BY <1>1, <1>2 DEF Has, Pages
<1>4. FALSE \in BOOLEAN
  OBVIOUS
<1> QED BY <1>3, <1>4, ForgottenKeeps

\* The first request of a completion is followed by the second, for the same session; a
\* failure ends it.
LEMMA DurationAnsweredKeeps ==
  ASSUME ModeInv, NEW r \in page.requests, DurationAnswered(r)
  PROVE  ModeInv'
<1>1. r.mounted /\ r.kind = "duration" /\ r.state # "sent" /\ rows' = rows
      /\ Records(Lost(r))
      /\ page' = IF r.state = "ok" THEN Calls(Answered(r), "complete", page.ref)
                 ELSE [ResetSession(Answered(r)) EXCEPT !.active = FALSE]
  BY DEF DurationAnswered, Answering
<1>2. Ends(r) /\ r.state \in {"ok", "error"}
  BY <1>1, Typed DEF Ends, Ending
<1>3. CASE r.state = "error"
  <2>1. page' = [ResetSession(Answered(r)) EXCEPT !.active = FALSE]
    BY <1>1, <1>3
  <2> QED BY <1>1, <1>2, <1>3, <2>1, CompletionEnds
<1>4. CASE r.state = "ok"
  <2> DEFINE a == Answered(r)
  <2>1. Has(a, page.requests \ {r}, page.active, page.started, page.ref,
            page.finalizing, page.paused, FALSE, page.dialog, page.created)
    BY Typed, AnsweredIs
  <2>2. page' = Calls(a, "complete", page.ref)
    BY <1>1, <1>4
  <2> HIDE DEF a
  <2>3. a \in Pages /\ page.ref \in Ids /\ "complete" \in Kinds
    BY <1>2, <2>1, Typed, KindsAre
       DEF Has, ModeInv, EndingIsExclusive, ScreenHasSession
  <2>4. Has(page', a.requests \cup {Request("complete", page.ref)}, a.active, a.started,
            a.ref, a.finalizing, a.paused, TRUE, a.dialog, a.created)
    BY <2>2, <2>3, CallsIs
  <2>5. Has(page', (page.requests \ {r}) \cup {Request("complete", page.ref)},
            page.active, page.started, page.ref, page.finalizing, page.paused, TRUE,
            page.dialog, page.created)
    BY <2>1, <2>4 DEF Has
  <2>6. Recorded
    BY <1>1, <2>5, AnswerRecords DEF Has
  <2> QED BY <1>1, <1>2, <2>5, <2>6, CompletionGoesOn
<1> QED BY <1>2, <1>3, <1>4

\* After the second request the screen forgets the session and focus mode is off.
LEMMA CompleteAnsweredKeeps ==
  ASSUME ModeInv, NEW r \in page.requests, CompleteAnswered(r)
  PROVE  ModeInv'
<1>1. r.mounted /\ r.kind = "complete" /\ r.state # "sent" /\ rows' = rows
      /\ Records(Lost(r))
      /\ page' = [ResetSession(Answered(r)) EXCEPT !.active = FALSE]
  BY DEF CompleteAnswered, Answering
<1>2. Ends(r) /\ r.kind # "duration"
  BY <1>1 DEF Ends, Ending
<1> QED BY <1>1, <1>2, CompletionEnds

\* Focus mode is off and there is no session.
LEMMA ModeInvInit == Init => ModeInv
<1> SUFFICES ASSUME Init PROVE ModeInv
  OBVIOUS
<1>1. page.requests = {} /\ page.started = FALSE /\ page.ref = 0 /\ page.created = 0
      /\ page.finalizing = FALSE /\ page.paused = FALSE /\ page \in Pages
      /\ excused = {} /\ raced = {} /\ rows = [s \in Ids |-> "none"]
  BY FocusModeAssumption DEF Init, Pages
<1>2. PageTyped
  BY <1>1 DEF PageTyped
<1>3. OpenIsKnown
  BY <1>1 DEF OpenIsKnown, Open
<1>4. SessionsAreCreated /\ ScreenHasSession /\ CreationsAreAlone /\ EndingIsExclusive
      /\ LeftBehind /\ PausesRace /\ OverlapsAreExcused
  BY <1>1 DEF SessionsAreCreated, ScreenHasSession, CreationsAreAlone, EndingIsExclusive,
              LeftBehind, PausesRace, OverlapsAreExcused
<1>5. ButtonAgrees
  BY <1>1 DEF ButtonAgrees
<1> QED BY <1>2, <1>3, <1>4, <1>5 DEF ModeInv

\* Every action keeps ModeInv.
LEMMA ModeInvNext == ModeInv /\ [Next]_vars => ModeInv'
<1> SUFFICES ASSUME ModeInv, [Next]_vars PROVE ModeInv'
  OBVIOUS
<1>1. ASSUME NEW r \in page.requests, ServerHandles(r) PROVE ModeInv'
  BY <1>1, ServerHandlesKeeps
<1>2. ASSUME NEW r \in page.requests, Answer(r) PROVE ModeInv'
  BY <1>2, AnswerUnmountedKeeps, CreateAnsweredKeeps, PauseAnsweredKeeps,
     AbandonAnsweredKeeps, DurationAnsweredKeeps, CompleteAnsweredKeeps DEF Answer
<1>3. CASE SubmitWork \/ ProofFails \/ UNCHANGED vars
  BY <1>3, ProofKeeps DEF SubmitWork, ProofFails, vars
<1> QED BY <1>1, <1>2, <1>3, ToggleFocusModeKeeps, PauseResumeKeeps, DialogKeeps,
           ProofUploadedKeeps, LeavePageKeeps DEF Next

\* ModeInv holds throughout.
LEMMA ModeInvariant == Spec => []ModeInv
  BY ModeInvInit, ModeInvNext, PTL DEF Spec

-----------------------------------------------------------------------------

\* Type correctness: in particular the second request of a completion, which reads
\* sessionIdRef again, always finds a session there.
THEOREM TypeCorrect == Spec => []TypeOK
<1>1. Init => proof \in BOOLEAN
  BY DEF Init
<1>2. proof \in BOOLEAN /\ [Next]_vars => (proof \in BOOLEAN)'
  BY DEF Next, vars, ToggleFocusMode, PauseResume, OpenDialog, CloseDialog, SubmitWork,
         ProofUploaded, ProofFails, LeavePage, ServerHandles, Answer, AnswerUnmounted,
         CreateAnswered, PauseAnswered, AbandonAnswered, DurationAnswered,
         CompleteAnswered
<1>3. ModeInv /\ proof \in BOOLEAN => TypeOK
  BY DEF ModeInv, PageTyped, TypeOK
<1> QED BY <1>1, <1>2, <1>3, ModeInvariant, PTL DEF Spec

\* No open session is left behind unseen: when nothing is under way, an open session
\* that was neither lost nor raced is the one on screen, and focus mode is on.
THEOREM NoSessionIsLeftOpen == Spec => []OpenSessionsAreShown
<1>1. ModeInv => OpenSessionsAreShown
  <2> SUFFICES ASSUME ModeInv, Quiet, NEW s \in Ids \ (excused \cup raced),
                      rows[s] \in Open
               PROVE  page.active /\ page.started /\ page.ref = s
    BY DEF OpenSessionsAreShown
  <2>1. page.requests = {} /\ s \notin Out /\ s \in Ids
    BY DEF Quiet, Out
  <2>2. page.ref = s
    BY <2>1 DEF ModeInv, OpenIsKnown
  <2>3. page.started
    BY <2>1, <2>2, IdsAre DEF ModeInv, ScreenHasSession
  <2>4. ~page.finalizing
    BY <2>1 DEF ModeInv, EndingIsExclusive
  <2>5. page.active
    BY <2>3, <2>4 DEF ModeInv, ScreenHasSession
  <2> QED BY <2>2, <2>3, <2>5
<1> QED BY <1>1, ModeInvariant, PTL

\* The screen shows what the database holds when nothing is under way and nothing was
\* lost or raced.
THEOREM ScreenShowsRow == Spec => []ScreenAgrees
<1>1. ModeInv => ScreenAgrees
  BY DEF ModeInv, ButtonAgrees, ScreenAgrees, Quiet, Out, Shown
<1> QED BY <1>1, ModeInvariant, PTL

\* A session that has ended is opened again only in a race.
THEOREM NoSessionReopens == Spec => EndedStaysEnded
<1> DEFINE Step == \A s \in Ids : rows[s] \in Ended /\ rows'[s] \notin Ended => s \in raced
<1>1. ModeInv /\ [Next]_vars => [Step]_vars
  <2> SUFFICES ASSUME ModeInv, Next, NEW s \in Ids, rows[s] \in Ended,
                      rows'[s] \notin Ended
               PROVE  s \in raced
    OBVIOUS
  <2>1. PICK r \in page.requests : ServerHandles(r)
    BY DEF Next, ToggleFocusMode, PauseResume, OpenDialog, CloseDialog, SubmitWork,
           ProofUploaded, ProofFails, LeavePage, Answer, AnswerUnmounted, CreateAnswered, PauseAnswered,
           AbandonAnswered, DurationAnswered, CompleteAnswered
  <2>2. rows' = Written(r) /\ r.state = "sent" /\ r.kind \in Kinds
        /\ rows \in [Ids -> Open \cup Ended \cup {"none"}]
    BY <2>1, Typed DEF ServerHandles
  <2>3. r.kind # "duration" /\ r.session = s /\ rows'[s] = Writes[r.kind]
    BY <2>2 DEF Written
  <2>4. r.kind \in Pausing \/ r.kind = "create"
    BY <2>2, <2>3, KindsAre DEF Pausing, Writes, Ended
  <2>5. r.kind # "create"
    BY <2>2, <2>3 DEF ModeInv, CreationsAreAlone, Ended
  <2> QED BY <2>1, <2>2, <2>3, <2>4, <2>5 DEF ModeInv, PausesRace
<1>2. Spec => [][Step]_vars
  BY <1>1, ModeInvariant, PTL DEF Spec
<1> QED BY <1>2 DEF EndedStaysEnded

=============================================================================
