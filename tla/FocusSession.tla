---------------------------- MODULE FocusSession ----------------------------
(***************************************************************************)
(* One focus session as the API serves it (FocusService): the client       *)
(* creates the row, then any number of PUT /sessions/:id, POST .../complete *)
(* and POST .../distractions requests are in progress at the same time.    *)
(* Each request reads the row in one statement and writes in later ones,   *)
(* without a transaction.                                                  *)
(***************************************************************************)
EXTENDS FocusScore, FiniteSets

CONSTANTS
  Reqs,        \* requests; each serves one call
  TickSeconds, \* how far the clock moves in one step
  MaxTime,     \* bound on the clock, seconds since the session was created
  ActiveTimes, \* activeDuration values clients send
  DbFaults     \* whether a database statement may fail

Statuses == {"active", "paused", "completed", "abandoned"}
Ended    == {"completed", "abandoned"}
Types    == {"tab_switch", "window_blur"}  \* the other types count like a blur

Nullable(S) == S \cup {Null}

Sessions ==
  [status : Statuses, endTime : Nullable(Nat), totalDuration : Nullable(Nat),
   activeDuration : Nullable(Nat), pauseCount : Nat, distractionCount : Nat,
   tabSwitchCount : Nat, focusScore : Nullable(0..100)]

ASSUME FocusAssumption ==
  /\ IsFiniteSet(Reqs)
  /\ Null \notin Int /\ Null \notin Sessions
  /\ TickSeconds \in Nat \ {0}
  /\ MaxTime \in Nat
  /\ ActiveTimes \subseteq Nat
  /\ DbFaults \in BOOLEAN

VARIABLES
  session,     \* the FocusSession row, Null before createSession
  distraction, \* the FocusDistraction rows: how many of each type
  clock,       \* seconds since the session was created
  pc,          \* where a request is
  call,        \* what it was asked: an update or a distraction
  seen,        \* the row it read
  at           \* the time it took right after the read

vars == <<session, distraction, clock, pc, call, seen, at>>

NewSession ==
  [status |-> "active", endTime |-> Null, totalDuration |-> Null,
   activeDuration |-> Null, pauseCount |-> 0, distractionCount |-> 0,
   tabSwitchCount |-> 0, focusScore |-> Null]

\* Fields left out of a request body are Null.  completeSession sends only the
\* status; the web client sends an active time with a pause, a resume and an
\* abandonment, and alone before it completes.
Updates ==
  {[status |-> "completed", pauseCount |-> Null, activeDuration |-> Null]}
    \cup [status : {"active", "abandoned", Null}, pauseCount : {Null},
          activeDuration : ActiveTimes]
    \cup [status : {"paused"}, pauseCount : 1..2, activeDuration : ActiveTimes]

Distractions == [type : Types]

Init ==
  /\ session = Null
  /\ distraction = [t \in Types |-> 0]
  /\ clock = 0
  /\ pc = [q \in Reqs |-> "idle"]
  /\ call = [q \in Reqs |-> Null]
  /\ seen = [q \in Reqs |-> Null]
  /\ at = [q \in Reqs |-> 0]

CreateSession ==
  /\ session = Null
  /\ session' = NewSession
  /\ UNCHANGED <<distraction, clock, pc, call, seen, at>>

Tick ==
  /\ session # Null
  /\ clock + TickSeconds <= MaxTime
  /\ clock' = clock + TickSeconds
  /\ UNCHANGED <<session, distraction, pc, call, seen, at>>

-----------------------------------------------------------------------------
\* findUnique; a missing row or a foreign owner answers with an error and
\* changes nothing.
ReadSession(q, c, next) ==
  /\ pc[q] = "idle"
  /\ call' = [call EXCEPT ![q] = c]
  /\ seen' = [seen EXCEPT ![q] = session]
  /\ at' = [at EXCEPT ![q] = clock]
  /\ pc' = [pc EXCEPT ![q] = IF session = Null THEN "failed" ELSE next]
  /\ UNCHANGED <<session, distraction, clock>>

UpdateSessionRead(q) == \E u \in Updates : ReadSession(q, u, "update")

Given(x, old) == IF x = Null THEN old ELSE x

\* Mutant: start minus end.
EndFields_Swapped(q, row) ==
  [row EXCEPT !.endTime = at[q],
              !.totalDuration = 0 - at[q],
              !.focusScore = CalculateFocusScore(seen[q])]

\* Mutant: the duration is left to a later update.
EndFields_NoDuration(q, row) ==
  [row EXCEPT !.endTime = at[q],
              !.focusScore = CalculateFocusScore(seen[q])]

\* The fields updateSession writes on completion or abandonment: the score is
\* computed from the row as it was read.
EndFields(q, row) ==
  [row EXCEPT !.endTime = at[q],
              !.totalDuration = at[q],
              !.focusScore = CalculateFocusScore(seen[q])]

\* The update statement writes the fields of the request and the end fields, the
\* counters of the row are not touched.
UpdatedSession(q) ==
  LET u     == call[q]
      ended == IF u.status \in Ended THEN EndFields(q, session) ELSE session
  IN  [ended EXCEPT !.status = Given(u.status, @),
                    !.pauseCount = Given(u.pauseCount, @),
                    !.activeDuration = Given(u.activeDuration, @)]

UpdateSessionWrite(q) ==
  /\ pc[q] = "update"
  /\ \/ /\ session' = UpdatedSession(q)
        /\ pc' = [pc EXCEPT ![q] = "done"]
     \/ /\ DbFaults
        /\ pc' = [pc EXCEPT ![q] = "failed"]
        /\ UNCHANGED session
  /\ UNCHANGED <<distraction, clock, call, seen, at>>

-----------------------------------------------------------------------------
LogDistractionRead(q) == \E c \in Distractions : ReadSession(q, c, "log")

LogDistractionCreate(q) ==
  /\ pc[q] = "log"
  /\ \/ /\ distraction' = [distraction EXCEPT ![call[q].type] = @ + 1]
        /\ pc' = [pc EXCEPT ![q] = "count"]
     \/ /\ DbFaults
        /\ pc' = [pc EXCEPT ![q] = "failed"]
        /\ UNCHANGED distraction
  /\ UNCHANGED <<session, clock, call, seen, at>>

\* Mutant: the counters are computed from the row read first (lost update).
CountedSession_FromSeen(q) ==
  [session EXCEPT !.distractionCount = seen[q].distractionCount + 1,
                  !.tabSwitchCount = seen[q].tabSwitchCount
                    + (IF call[q].type = "tab_switch" THEN 1 ELSE 0)]

\* { increment: 1 }: the database adds to the row as it is now.
CountedSession(q) ==
  [session EXCEPT !.distractionCount = @ + 1,
                  !.tabSwitchCount = @ + (IF call[q].type = "tab_switch" THEN 1 ELSE 0)]

LogDistractionCount(q) ==
  /\ pc[q] = "count"
  /\ \/ /\ session' = CountedSession(q)
        /\ pc' = [pc EXCEPT ![q] = "done"]
     \/ /\ DbFaults
        /\ pc' = [pc EXCEPT ![q] = "uncounted"]
        /\ UNCHANGED session
  /\ UNCHANGED <<distraction, clock, call, seen, at>>

Next ==
  \/ CreateSession
  \/ Tick
  \/ \E q \in Reqs :
       \/ UpdateSessionRead(q)
       \/ UpdateSessionWrite(q)
       \/ LogDistractionRead(q)
       \/ LogDistractionCreate(q)
       \/ LogDistractionCount(q)

Spec == Init /\ [][Next]_vars

-----------------------------------------------------------------------------
(***************************************************************************)
(* Properties                                                              *)
(***************************************************************************)

\* Every variable has its type; a stored focus score is between 0 and 100.
TypeOK ==
  /\ session \in Nullable(Sessions)
  /\ distraction \in [Types -> Nat]
  /\ clock \in 0..MaxTime
  /\ pc \in [Reqs -> {"idle", "update", "log", "count", "uncounted", "done",
                       "failed"}]
  /\ call \in [Reqs -> Nullable(Updates \cup Distractions)]
  /\ seen \in [Reqs -> Nullable(Sessions)]
  /\ at \in [Reqs -> 0..MaxTime]

\* Requests that created a distraction row and did not count it (yet).
Uncounted(types) ==
  {q \in Reqs : pc[q] \in {"count", "uncounted"} /\ call[q].type \in types}

\* No distraction is lost or counted twice however logDistraction and
\* updateSession requests overlap: the counters the score reads equal the
\* FocusDistraction rows, less those whose request has not reached (or failed)
\* its second statement.
CountersMatchRows ==
  session # Null =>
    /\ session.distractionCount + Cardinality(Uncounted(Types))
         = distraction["tab_switch"] + distraction["window_blur"]
    /\ session.tabSwitchCount + Cardinality(Uncounted({"tab_switch"}))
         = distraction["tab_switch"]

\* However two ending requests overlap, with each other and with a resume, the
\* end of a session is recorded as one: an ended session has an end, and end,
\* total duration and score are all there or all absent.
EndRecordedTogether ==
  session # Null =>
    /\ session.status \in Ended => session.endTime # Null
    /\ session.totalDuration = session.endTime
    /\ (session.focusScore = Null) <=> (session.endTime = Null)

\* "Computes the focus score (0-100) from distractions, pauses, session
\* duration...": the score written when a session ends is the score of the
\* session as it ended.
ScoreReflectsSession ==
  [][session # Null /\ session.endTime = Null /\ session'.endTime # Null
       => session'.focusScore = CalculateFocusScore(session')]_vars
=============================================================================
