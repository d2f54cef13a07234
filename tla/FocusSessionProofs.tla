------------------------- MODULE FocusSessionProofs -------------------------
(***************************************************************************)
(* Invariants of FocusSession for any number of requests, any clock and    *)
(* any active times.                                                       *)
(***************************************************************************)
EXTENDS FocusSession, FiniteSetTheorems, TLAPS

\* What a request holds at each of its awaits, beside the types.
RequestInv ==
  \A q \in Reqs :
    /\ pc[q] = "update" => call[q] \in Updates /\ seen[q] \in Sessions
    /\ pc[q] \in {"log", "count", "uncounted"} => call[q] \in Distractions
    /\ pc[q] \notin {"idle", "failed"} => session # Null

TypeInv == TypeOK /\ RequestInv

-----------------------------------------------------------------------------
\* The score of every row is an integer between 0 and 100: the division is by a
\* positive number whenever it is made.
LEMMA ScoreType ==
  ASSUME NEW s \in Sessions
  PROVE  CalculateFocusScore(s) \in 0..100
<1> DEFINE duration == Or(s.totalDuration, 0)
           active   == Or(s.activeDuration, duration)
           scaled   == duration * (BaseScore - CountPenalty(s))
                         - RatioPenalty(active, duration)
           rounded  == (2 * scaled + duration) \div (2 * duration)
<1>1. /\ s.totalDuration \in Nullable(Nat) /\ s.activeDuration \in Nullable(Nat)
      /\ s.distractionCount \in Nat /\ s.pauseCount \in Nat /\ s.tabSwitchCount \in Nat
  BY DEF Sessions
<1>2. duration \in Nat /\ active \in Nat
  BY <1>1 DEF Or, Nullable
<1>3. CountPenalty(s) \in Int
  BY <1>1 DEF CountPenalty, AtMost
<1>4. RatioPenalty(active, duration) \in Int
  <2> HIDE DEF duration, active
  <2> QED  BY <1>2 DEF RatioPenalty
<1>5. scaled \in Int
  <2> HIDE DEF duration, active
  <2> QED  BY <1>2, <1>3, <1>4 DEF BaseScore
<1>6. CASE duration < MinDurationSeconds
  <2>1. CalculateFocusScore(s) = ShortSessionScore
    BY <1>6 DEF CalculateFocusScore
  <2> QED  BY <2>1 DEF ShortSessionScore
<1>7. CASE ~(duration < MinDurationSeconds)
  <2>1. rounded \in Int
    <3> HIDE DEF duration, scaled
    <3>1. 2 * scaled + duration \in Int /\ 2 * duration \in Int /\ 2 * duration > 0
      BY <1>2, <1>5, <1>7 DEF MinDurationSeconds
    <3> QED  BY <3>1
  <2>2. CalculateFocusScore(s) = AtLeast(AtMost(rounded, 100), 0)
    BY <1>7 DEF CalculateFocusScore
  <2> HIDE DEF rounded
  <2> QED  BY <2>1, <2>2 DEF AtLeast, AtMost
<1> QED  BY <1>6, <1>7

\* The fields an update request may carry.
LEMMA UpdateType ==
  ASSUME NEW u \in Updates
  PROVE  /\ u.status \in Nullable(Statuses)
         /\ u.pauseCount \in Nullable(Nat)
         /\ u.activeDuration \in Nullable(Nat)
<1>1. CASE u = [status |-> "completed", pauseCount |-> Null, activeDuration |-> Null]
  BY <1>1 DEF Nullable, Statuses
<1>2. CASE u \in [status : {"active", "abandoned", Null}, pauseCount : {Null},
                  activeDuration : ActiveTimes]
  BY <1>2, FocusAssumption DEF Nullable, Statuses, FocusAssumption
<1>3. CASE u \in [status : {"paused"}, pauseCount : 1..2, activeDuration : ActiveTimes]
  <2>1. u.status = "paused" /\ u.pauseCount \in 1..2 /\ u.activeDuration \in ActiveTimes
    BY <1>3
  <2>2. u.status \in Statuses
    BY <2>1 DEF Statuses
  <2>3. u.pauseCount \in Nat
    BY <2>1
  <2>4. u.activeDuration \in Nat
    BY <2>1, FocusAssumption DEF FocusAssumption
  <2> QED  BY <2>2, <2>3, <2>4 DEF Nullable
<1> QED  BY <1>1, <1>2, <1>3 DEF Updates

\* The update statement leaves a row of the table's type; only the end fields can
\* change beside the ones of the request.
LEMMA UpdatedType ==
  ASSUME TypeInv, NEW q \in Reqs, pc[q] = "update"
  PROVE  /\ session \in Sessions
         /\ UpdatedSession(q) \in Sessions
         /\ UpdatedSession(q).distractionCount = session.distractionCount
         /\ UpdatedSession(q).tabSwitchCount = session.tabSwitchCount
         /\ UpdatedSession(q).status = Given(call[q].status, session.status)
         /\ IF call[q].status \in Ended
            THEN /\ UpdatedSession(q).endTime = at[q]
                 /\ UpdatedSession(q).totalDuration = at[q]
                 /\ UpdatedSession(q).focusScore = CalculateFocusScore(seen[q])
            ELSE /\ UpdatedSession(q).endTime = session.endTime
                 /\ UpdatedSession(q).totalDuration = session.totalDuration
                 /\ UpdatedSession(q).focusScore = session.focusScore
<1>1. session \in Sessions /\ seen[q] \in Sessions /\ call[q] \in Updates
  BY DEF TypeInv, TypeOK, RequestInv, Nullable
<1>2. at[q] \in Nat
  BY FocusAssumption DEF TypeInv, TypeOK, FocusAssumption
<1>3. CalculateFocusScore(seen[q]) \in 0..100
  BY <1>1, ScoreType
<1> DEFINE u     == call[q]
           ended == IF u.status \in Ended THEN EndFields(q, session) ELSE session
<1>4. /\ u.status \in Nullable(Statuses) /\ u.pauseCount \in Nullable(Nat)
      /\ u.activeDuration \in Nullable(Nat)
  BY <1>1, UpdateType
<1>5. /\ ended \in Sessions
      /\ ended.status = session.status
      /\ ended.distractionCount = session.distractionCount
      /\ ended.tabSwitchCount = session.tabSwitchCount
      /\ IF u.status \in Ended
         THEN /\ ended.endTime = at[q] /\ ended.totalDuration = at[q]
              /\ ended.focusScore = CalculateFocusScore(seen[q])
         ELSE /\ ended.endTime = session.endTime
              /\ ended.totalDuration = session.totalDuration
              /\ ended.focusScore = session.focusScore
  BY <1>1, <1>2, <1>3 DEF EndFields, Sessions, Nullable
<1>6. UpdatedSession(q) = [ended EXCEPT !.status = Given(u.status, @),
                                        !.pauseCount = Given(u.pauseCount, @),
                                        !.activeDuration = Given(u.activeDuration, @)]
  BY DEF UpdatedSession
<1> HIDE DEF u, ended
<1>7. /\ Given(u.status, ended.status) \in Statuses
      /\ Given(u.pauseCount, ended.pauseCount) \in Nat
      /\ Given(u.activeDuration, ended.activeDuration) \in Nullable(Nat)
  BY <1>4, <1>5 DEF Given, Nullable, Sessions
<1>8. UpdatedSession(q) \in Sessions
  BY <1>5, <1>6, <1>7 DEF Sessions
<1> QED  BY <1>1, <1>5, <1>6, <1>8 DEF Sessions, u

\* So does the statement that counts a distraction.
LEMMA CountedType ==
  ASSUME TypeInv, NEW q \in Reqs, pc[q] = "count"
  PROVE  /\ session \in Sessions
         /\ CountedSession(q) \in Sessions
         /\ CountedSession(q).distractionCount = session.distractionCount + 1
         /\ CountedSession(q).tabSwitchCount = session.tabSwitchCount
              + (IF call[q].type = "tab_switch" THEN 1 ELSE 0)
         /\ CountedSession(q).status = session.status
         /\ CountedSession(q).endTime = session.endTime
         /\ CountedSession(q).totalDuration = session.totalDuration
         /\ CountedSession(q).focusScore = session.focusScore
<1>1. session \in Sessions
  BY DEF TypeInv, TypeOK, RequestInv, Nullable
<1> DEFINE inc == IF call[q].type = "tab_switch" THEN 1 ELSE 0
<1>2. inc \in Nat
  OBVIOUS
<1>3. CountedSession(q) = [session EXCEPT !.distractionCount = @ + 1,
                                          !.tabSwitchCount = @ + inc]
  BY DEF CountedSession
<1> HIDE DEF inc
<1>4. session.distractionCount + 1 \in Nat /\ session.tabSwitchCount + inc \in Nat
  BY <1>1, <1>2 DEF Sessions
<1>5. CountedSession(q) \in Sessions
  BY <1>1, <1>3, <1>4 DEF Sessions
<1>6. /\ CountedSession(q).distractionCount = session.distractionCount + 1
      /\ CountedSession(q).tabSwitchCount = session.tabSwitchCount + inc
      /\ CountedSession(q).status = session.status
      /\ CountedSession(q).endTime = session.endTime
      /\ CountedSession(q).totalDuration = session.totalDuration
      /\ CountedSession(q).focusScore = session.focusScore
  BY <1>1, <1>3 DEF Sessions
<1> QED  BY <1>1, <1>5, <1>6 DEF inc

-----------------------------------------------------------------------------
(***************************************************************************)
(* Type correctness                                                        *)
(***************************************************************************)

\* No session and no request at first.
LEMMA InitTypeInv == Init => TypeInv
BY FocusAssumption
   DEF Init, TypeInv, TypeOK, RequestInv, Nullable, Types, FocusAssumption

\* A created session has its type.
LEMMA CreateTypeInv == TypeInv /\ CreateSession => TypeInv'
<1> SUFFICES ASSUME TypeInv, CreateSession PROVE TypeInv'
  OBVIOUS
<1>1. NewSession \in Sessions
  BY DEF NewSession, Sessions, Statuses, Nullable
<1>2. session' \in Nullable(Sessions) /\ session' # Null
  BY <1>1, FocusAssumption DEF CreateSession, Nullable, FocusAssumption
<1> QED  BY <1>2 DEF CreateSession, TypeInv, TypeOK, RequestInv

\* A request goes on with a row that exists and the call it was made with.
LEMMA ReadTypeInv ==
  ASSUME TypeInv, NEW q \in Reqs, NEW c, NEW next, ReadSession(q, c, next),
         \/ next = "update" /\ c \in Updates
         \/ next = "log" /\ c \in Distractions
  PROVE  TypeInv'
<1>1. TypeOK'
  BY DEF ReadSession, TypeInv, TypeOK, Nullable
<1>2. RequestInv'
  <2> SUFFICES ASSUME NEW r \in Reqs
               PROVE  /\ pc'[r] = "update" => call'[r] \in Updates /\ seen'[r] \in Sessions
                      /\ pc'[r] \in {"log", "count", "uncounted"} => call'[r] \in Distractions
                      /\ pc'[r] \notin {"idle", "failed"} => session' # Null
    BY DEF RequestInv
  <2>1. CASE r = q
    <3>1. /\ pc'[r] = IF session = Null THEN "failed" ELSE next
          /\ call'[r] = c /\ seen'[r] = session /\ session' = session
      BY <2>1 DEF ReadSession, TypeInv, TypeOK
    <3>2. session # Null => session \in Sessions
      BY DEF TypeInv, TypeOK, Nullable
    <3> QED  BY <3>1, <3>2
  <2>2. CASE r # q
    <3>1. pc'[r] = pc[r] /\ call'[r] = call[r] /\ seen'[r] = seen[r] /\ session' = session
      BY <2>2 DEF ReadSession, TypeInv, TypeOK
    <3> QED  BY <3>1 DEF TypeInv, RequestInv
  <2> QED  BY <2>1, <2>2
<1> QED  BY <1>1, <1>2 DEF TypeInv

\* The statements of a request after its read: pc moves on, the row keeps its type.
LEMMA WriteTypeInv ==
  ASSUME TypeInv, NEW q \in Reqs,
         UpdateSessionWrite(q) \/ LogDistractionCreate(q) \/ LogDistractionCount(q)
  PROVE  TypeInv'
<1>1. /\ call' = call /\ seen' = seen /\ at' = at /\ clock' = clock
      /\ \E v \in {"done", "failed", "count", "uncounted"} :
           /\ pc' = [pc EXCEPT ![q] = v]
           /\ v \in {"count", "uncounted"} => pc[q] \in {"log", "count"}
      /\ pc[q] \in {"update", "log", "count"}
  BY DEF UpdateSessionWrite, LogDistractionCreate, LogDistractionCount
<1>2. session' \in Sessions /\ session # Null
  <2>1. session \in Sessions /\ session # Null
    BY <1>1 DEF TypeInv, TypeOK, RequestInv, Nullable
  <2>2. CASE UpdateSessionWrite(q)
    BY <2>1, <2>2, UpdatedType DEF UpdateSessionWrite
  <2>3. CASE LogDistractionCreate(q)
    BY <2>1, <2>3 DEF LogDistractionCreate
  <2>4. CASE LogDistractionCount(q)
    BY <2>1, <2>4, CountedType DEF LogDistractionCount
  <2> QED  BY <2>1, <2>2, <2>3, <2>4
<1>3. distraction' \in [Types -> Nat]
  <2>1. CASE LogDistractionCreate(q)
    <3>1. call[q].type \in Types
      BY <2>1 DEF LogDistractionCreate, TypeInv, RequestInv, Distractions
    <3> QED  BY <2>1, <3>1 DEF LogDistractionCreate, TypeInv, TypeOK
  <2>2. CASE UpdateSessionWrite(q) \/ LogDistractionCount(q)
    BY <2>2 DEF UpdateSessionWrite, LogDistractionCount, TypeInv, TypeOK
  <2> QED  BY <2>1, <2>2
<1>4. TypeOK'
  BY <1>1, <1>2, <1>3 DEF TypeInv, TypeOK, Nullable
<1>5. RequestInv'
  <2>1. session' # Null
    BY <1>2, FocusAssumption DEF FocusAssumption
  <2> QED  BY <1>1, <2>1 DEF TypeInv, TypeOK, RequestInv
<1> QED  BY <1>4, <1>5 DEF TypeInv

\* Every step of a request keeps types and what the request holds.
LEMMA NextTypeInv == TypeInv /\ [Next]_vars => TypeInv'
<1> SUFFICES ASSUME TypeInv, [Next]_vars PROVE TypeInv'
  OBVIOUS
<1>1. CASE CreateSession
  BY <1>1, CreateTypeInv
<1>2. CASE Tick
  <2>1. clock' \in 0..MaxTime
    BY <1>2, FocusAssumption DEF Tick, TypeInv, TypeOK, FocusAssumption
  <2> QED  BY <1>2, <2>1 DEF Tick, TypeInv, TypeOK, RequestInv
<1>3. ASSUME NEW q \in Reqs, UpdateSessionRead(q) PROVE TypeInv'
  BY <1>3, ReadTypeInv DEF UpdateSessionRead
<1>4. ASSUME NEW q \in Reqs, LogDistractionRead(q) PROVE TypeInv'
  BY <1>4, ReadTypeInv DEF LogDistractionRead
<1>5. ASSUME NEW q \in Reqs,
             UpdateSessionWrite(q) \/ LogDistractionCreate(q) \/ LogDistractionCount(q)
      PROVE  TypeInv'
  BY <1>5, WriteTypeInv
<1>6. CASE UNCHANGED vars
  BY <1>6 DEF vars, TypeInv, TypeOK, RequestInv
<1> QED  BY <1>1, <1>2, <1>3, <1>4, <1>5, <1>6 DEF Next

\* Every stored row has its type however requests overlap and fail; in particular
\* the score updateSession stores is always between 0 and 100.
THEOREM TypeCorrect == Spec => []TypeOK
<1>1. TypeInv => TypeOK
  BY DEF TypeInv
<1> QED  BY <1>1, InitTypeInv, NextTypeInv, PTL DEF Spec

\* TypeInv holds throughout.
LEMMA TypeInvariant == Spec => []TypeInv
BY InitTypeInv, NextTypeInv, PTL DEF Spec

-----------------------------------------------------------------------------
(***************************************************************************)
(* The end of a session                                                    *)
(***************************************************************************)

\* Only an update to an ended status writes end, duration or score, and it writes all three.
LEMMA NextEnd ==
  TypeInv /\ EndRecordedTogether /\ [Next]_vars => EndRecordedTogether'
<1> SUFFICES ASSUME TypeInv, EndRecordedTogether, [Next]_vars
             PROVE  EndRecordedTogether'
  OBVIOUS
<1>1. CASE UNCHANGED session
  BY <1>1 DEF EndRecordedTogether
<1>2. CASE CreateSession
  BY <1>2 DEF CreateSession, NewSession, EndRecordedTogether, Ended
<1>3. ASSUME NEW q \in Reqs, pc[q] = "update", session' = UpdatedSession(q)
      PROVE  EndRecordedTogether'
  <2>1. session # Null
    BY <1>3 DEF TypeInv, RequestInv
  <2>2. CASE call[q].status \in Ended
    <3>1. /\ session'.endTime = at[q] /\ session'.totalDuration = at[q]
          /\ session'.focusScore = CalculateFocusScore(seen[q])
      BY <1>3, <2>2, UpdatedType
    <3>2. at[q] # Null
      BY FocusAssumption DEF TypeInv, TypeOK, FocusAssumption
    <3>3. CalculateFocusScore(seen[q]) \in 0..100
      BY <1>3, ScoreType DEF TypeInv, RequestInv
    <3>4. CalculateFocusScore(seen[q]) # Null
      BY <3>3, FocusAssumption DEF FocusAssumption
    <3> QED  BY <3>1, <3>2, <3>4 DEF EndRecordedTogether
  <2>3. CASE call[q].status \notin Ended
    <3>1. /\ session'.status = Given(call[q].status, session.status)
          /\ session'.endTime = session.endTime
          /\ session'.totalDuration = session.totalDuration
          /\ session'.focusScore = session.focusScore
      BY <1>3, <2>3, UpdatedType
    <3> QED  BY <2>1, <2>3, <3>1 DEF EndRecordedTogether, Given
  <2> QED  BY <2>2, <2>3
<1>4. ASSUME NEW q \in Reqs, pc[q] = "count", session' = CountedSession(q)
      PROVE  EndRecordedTogether'
  <2>1. session # Null
    BY <1>4 DEF TypeInv, RequestInv
  <2> QED  BY <1>4, <2>1, CountedType DEF EndRecordedTogether
<1>5. CASE Tick \/ UNCHANGED vars
  BY <1>1, <1>5 DEF Tick, vars
<1>6. ASSUME NEW q \in Reqs, UpdateSessionRead(q) \/ LogDistractionRead(q)
      PROVE  EndRecordedTogether'
  BY <1>1, <1>6 DEF UpdateSessionRead, LogDistractionRead, ReadSession
<1>7. ASSUME NEW q \in Reqs, UpdateSessionWrite(q) PROVE EndRecordedTogether'
  BY <1>1, <1>3, <1>7 DEF UpdateSessionWrite
<1>8. ASSUME NEW q \in Reqs, LogDistractionCreate(q) PROVE EndRecordedTogether'
  BY <1>1, <1>8 DEF LogDistractionCreate
<1>9. ASSUME NEW q \in Reqs, LogDistractionCount(q) PROVE EndRecordedTogether'
  BY <1>1, <1>4, <1>9 DEF LogDistractionCount
<1> QED  BY <1>2, <1>5, <1>6, <1>7, <1>8, <1>9 DEF Next

\* However completions, abandonments, pauses and resumes overlap, the end of a
\* session is recorded as one: an ended row has an end, and end, duration and
\* score come together.
THEOREM EndIsRecordedTogether == Spec => []EndRecordedTogether
<1>1. Init => EndRecordedTogether
  BY DEF Init, EndRecordedTogether
<1> QED  BY <1>1, TypeInvariant, NextEnd, PTL DEF Spec

-----------------------------------------------------------------------------
(***************************************************************************)
(* The counters                                                            *)
(***************************************************************************)

\* A session that does not exist has no distractions: with CountersMatchRows this
\* is inductive, because the counters of a new row start at 0.
CounterInv ==
  /\ session = Null => \A t \in Types : distraction[t] = 0
  /\ CountersMatchRows

\* Finitely many requests have a distraction row still uncounted.
LEMMA UncountedFinite ==
  ASSUME NEW T
  PROVE  IsFiniteSet(Uncounted(T)) /\ Cardinality(Uncounted(T)) \in Nat
<1>1. Uncounted(T) \in SUBSET Reqs
  BY DEF Uncounted
<1>2. IsFiniteSet(Uncounted(T))
  BY <1>1, FocusAssumption, FS_Subset DEF FocusAssumption
<1> QED  BY <1>2, FS_CardinalityType

\* A request that moves on without leaving or entering the second statement.
LEMMA UncountedSame ==
  ASSUME TypeInv, NEW T, NEW q \in Reqs,
         \A r \in Reqs \ {q} : pc'[r] = pc[r] /\ call'[r] = call[r],
         pc[q] \notin {"count", "uncounted"}, pc'[q] \notin {"count", "uncounted"}
  PROVE  Uncounted(T)' = Uncounted(T)
BY DEF Uncounted

\* Adding the row of a distraction makes its request uncounted.
LEMMA UncountedAdd ==
  ASSUME TypeInv, NEW T, NEW q \in Reqs, call' = call, pc[q] = "log",
         pc' = [pc EXCEPT ![q] = "count"]
  PROVE  Cardinality(Uncounted(T)') = Cardinality(Uncounted(T))
           + (IF call[q].type \in T THEN 1 ELSE 0)
<1>1. q \notin Uncounted(T)
  BY DEF Uncounted
<1>2. CASE call[q].type \in T
  <2>1. Uncounted(T)' = Uncounted(T) \cup {q}
    BY <1>2 DEF Uncounted, TypeInv, TypeOK
  <2> QED  BY <1>1, <1>2, <2>1, UncountedFinite, FS_AddElement
<1>3. CASE call[q].type \notin T
  <2>1. Uncounted(T)' = Uncounted(T)
    BY <1>3 DEF Uncounted, TypeInv, TypeOK
  <2> QED  BY <1>3, <2>1, UncountedFinite
<1> QED  BY <1>2, <1>3

\* The increment takes it out again.
LEMMA UncountedRemove ==
  ASSUME TypeInv, NEW T, NEW q \in Reqs, call' = call, pc[q] = "count",
         pc' = [pc EXCEPT ![q] = "done"]
  PROVE  Cardinality(Uncounted(T)') = Cardinality(Uncounted(T))
           - (IF call[q].type \in T THEN 1 ELSE 0)
<1>1. CASE call[q].type \in T
  <2>1. q \in Uncounted(T) /\ Uncounted(T)' = Uncounted(T) \ {q}
    BY <1>1 DEF Uncounted, TypeInv, TypeOK
  <2> QED  BY <1>1, <2>1, UncountedFinite, FS_RemoveElement
<1>2. CASE call[q].type \notin T
  <2>1. Uncounted(T)' = Uncounted(T)
    BY <1>2 DEF Uncounted, TypeInv, TypeOK
  <2> QED  BY <1>2, <2>1, UncountedFinite
<1> QED  BY <1>1, <1>2

\* A step that leaves rows, counters and the uncounted requests alone.
LEMMA CountersFrame ==
  ASSUME CounterInv, distraction' = distraction,
         session' = Null <=> session = Null,
         session # Null =>
           /\ session'.distractionCount = session.distractionCount
           /\ session'.tabSwitchCount = session.tabSwitchCount,
         Uncounted(Types)' = Uncounted(Types),
         Uncounted({"tab_switch"})' = Uncounted({"tab_switch"})
  PROVE  CounterInv'
BY DEF CounterInv, CountersMatchRows

\* A row inserted makes its request an uncounted one, the increment takes it from them.
LEMMA NextCounters == TypeInv /\ CounterInv /\ [Next]_vars => CounterInv'
<1> SUFFICES ASSUME TypeInv, CounterInv, [Next]_vars PROVE CounterInv'
  OBVIOUS
<1>1. CASE CreateSession
  <2>1. session' # Null
    BY <1>1, CreateTypeInv, FocusAssumption
       DEF CreateSession, NewSession, Sessions, Statuses, Nullable, FocusAssumption
  <2>2. \A r \in Reqs : pc[r] \in {"idle", "failed"}
    BY <1>1 DEF CreateSession, TypeInv, RequestInv
  <2>3. /\ Uncounted(Types)' = {}
        /\ Uncounted({"tab_switch"})' = {}
    BY <1>1, <2>2 DEF CreateSession, Uncounted
  <2>4. Cardinality(Uncounted(Types)') = 0 /\ Cardinality(Uncounted({"tab_switch"})') = 0
    BY <2>3, FS_EmptySet
  <2>5. /\ distraction'["tab_switch"] = 0 /\ distraction'["window_blur"] = 0
        /\ session'.distractionCount = 0 /\ session'.tabSwitchCount = 0
    BY <1>1 DEF CreateSession, CounterInv, NewSession, Types
  <2>6. CountersMatchRows'
    BY <2>4, <2>5 DEF CountersMatchRows
  <2> QED  BY <2>1, <2>6 DEF CounterInv
<1>2. CASE Tick \/ UNCHANGED vars
  BY <1>2 DEF Tick, vars, CounterInv, CountersMatchRows, Uncounted
<1>3. ASSUME NEW q \in Reqs, UpdateSessionRead(q) \/ LogDistractionRead(q)
      PROVE  CounterInv'
  <2>1. PICK c \in Updates \cup Distractions, next \in {"update", "log"} :
          ReadSession(q, c, next)
    BY <1>3 DEF UpdateSessionRead, LogDistractionRead
  <2>2. /\ \A r \in Reqs \ {q} : pc'[r] = pc[r] /\ call'[r] = call[r]
        /\ pc[q] \notin {"count", "uncounted"} /\ pc'[q] \notin {"count", "uncounted"}
    BY <2>1 DEF ReadSession, TypeInv, TypeOK
  <2>3. \A T : Uncounted(T)' = Uncounted(T)
    BY <2>2, UncountedSame
  <2> QED  BY <2>1, <2>3, CountersFrame DEF ReadSession
<1>4. ASSUME NEW q \in Reqs, UpdateSessionWrite(q) PROVE CounterInv'
  <2>1. /\ \A r \in Reqs \ {q} : pc'[r] = pc[r] /\ call'[r] = call[r]
        /\ pc[q] \notin {"count", "uncounted"} /\ pc'[q] \notin {"count", "uncounted"}
        /\ distraction' = distraction
    BY <1>4 DEF UpdateSessionWrite, TypeInv, TypeOK
  <2>2. \A T : Uncounted(T)' = Uncounted(T)
    BY <2>1, UncountedSame
  <2>3. /\ session # Null /\ session' # Null
        /\ session'.distractionCount = session.distractionCount
        /\ session'.tabSwitchCount = session.tabSwitchCount
    BY <1>4, UpdatedType, FocusAssumption DEF UpdateSessionWrite, FocusAssumption
  <2> QED  BY <2>1, <2>2, <2>3, CountersFrame
<1>5. ASSUME NEW q \in Reqs, LogDistractionCreate(q) PROVE CounterInv'
  <2>1. pc[q] = "log" /\ session' = session /\ call' = call
    BY <1>5 DEF LogDistractionCreate
  <2>2. session # Null /\ call[q].type \in Types
    BY <2>1 DEF TypeInv, RequestInv, Distractions
  <2>3. CASE pc' = [pc EXCEPT ![q] = "failed"] /\ distraction' = distraction
    <3>1. /\ \A r \in Reqs \ {q} : pc'[r] = pc[r] /\ call'[r] = call[r]
          /\ pc[q] \notin {"count", "uncounted"} /\ pc'[q] \notin {"count", "uncounted"}
      BY <2>1, <2>3 DEF TypeInv, TypeOK
    <3>2. \A T : Uncounted(T)' = Uncounted(T)
      BY <3>1, UncountedSame
    <3> QED  BY <2>1, <2>3, <3>2, CountersFrame
  <2>4. CASE /\ pc' = [pc EXCEPT ![q] = "count"]
             /\ distraction' = [distraction EXCEPT ![call[q].type] = @ + 1]
    <3>1. \A T : Cardinality(Uncounted(T)') = Cardinality(Uncounted(T))
                   + (IF call[q].type \in T THEN 1 ELSE 0)
      BY <2>1, <2>4, UncountedAdd
    <3>2. /\ Cardinality(Uncounted(Types)) \in Nat
          /\ Cardinality(Uncounted({"tab_switch"})) \in Nat
      BY UncountedFinite
    <3>3. /\ Cardinality(Uncounted(Types)') = Cardinality(Uncounted(Types)) + 1
          /\ Cardinality(Uncounted({"tab_switch"})') = Cardinality(Uncounted({"tab_switch"}))
               + (IF call[q].type = "tab_switch" THEN 1 ELSE 0)
      BY <2>2, <3>1
    <3>4. /\ session.distractionCount \in Nat /\ session.tabSwitchCount \in Nat
          /\ distraction["tab_switch"] \in Nat /\ distraction["window_blur"] \in Nat
      BY <2>2 DEF TypeInv, TypeOK, Nullable, Sessions, Types
    <3>5. /\ distraction'["tab_switch"] = distraction["tab_switch"]
               + (IF call[q].type = "tab_switch" THEN 1 ELSE 0)
          /\ distraction'["window_blur"] = distraction["window_blur"]
               + (IF call[q].type = "tab_switch" THEN 0 ELSE 1)
      BY <2>2, <2>4, <3>4 DEF TypeInv, TypeOK, Types
    <3>6. CountersMatchRows'
      BY <2>1, <2>2, <3>2, <3>3, <3>4, <3>5 DEF CounterInv, CountersMatchRows
    <3> QED  BY <2>1, <2>2, <3>6 DEF CounterInv
  <2> QED  BY <1>5, <2>3, <2>4 DEF LogDistractionCreate
<1>6. ASSUME NEW q \in Reqs, LogDistractionCount(q) PROVE CounterInv'
  <2>1. pc[q] = "count" /\ distraction' = distraction /\ call' = call
    BY <1>6 DEF LogDistractionCount
  <2>2. session # Null /\ call[q].type \in Types
    BY <2>1 DEF TypeInv, RequestInv, Distractions
  <2>3. CASE pc' = [pc EXCEPT ![q] = "uncounted"] /\ session' = session
    <3>1. \A T : Uncounted(T)' = Uncounted(T)
      BY <2>1, <2>3 DEF Uncounted, TypeInv, TypeOK
    <3> QED  BY <2>1, <2>3, <3>1, CountersFrame
  <2>4. CASE pc' = [pc EXCEPT ![q] = "done"] /\ session' = CountedSession(q)
    <3>1. \A T : Cardinality(Uncounted(T)') = Cardinality(Uncounted(T))
                   - (IF call[q].type \in T THEN 1 ELSE 0)
      BY <2>1, <2>4, UncountedRemove
    <3>2. /\ Cardinality(Uncounted(Types)) \in Nat
          /\ Cardinality(Uncounted({"tab_switch"})) \in Nat
      BY UncountedFinite
    <3>3. /\ Cardinality(Uncounted(Types)') = Cardinality(Uncounted(Types)) - 1
          /\ Cardinality(Uncounted({"tab_switch"})') = Cardinality(Uncounted({"tab_switch"}))
               - (IF call[q].type = "tab_switch" THEN 1 ELSE 0)
      BY <2>2, <3>1
    <3>4. /\ session.distractionCount \in Nat /\ session.tabSwitchCount \in Nat
          /\ distraction["tab_switch"] \in Nat /\ distraction["window_blur"] \in Nat
      BY <2>2 DEF TypeInv, TypeOK, Nullable, Sessions, Types
    <3>5. /\ session' # Null
          /\ session'.distractionCount = session.distractionCount + 1
          /\ session'.tabSwitchCount = session.tabSwitchCount
               + (IF call[q].type = "tab_switch" THEN 1 ELSE 0)
      BY <2>1, <2>4, CountedType, FocusAssumption DEF FocusAssumption
    <3>6. CountersMatchRows'
      BY <2>1, <2>2, <3>2, <3>3, <3>4, <3>5 DEF CounterInv, CountersMatchRows
    <3> QED  BY <3>5, <3>6 DEF CounterInv
  <2> QED  BY <1>6, <2>3, <2>4 DEF LogDistractionCount
<1> QED  BY <1>1, <1>2, <1>3, <1>4, <1>5, <1>6 DEF Next

\* However many logDistraction and updateSession requests overlap, and whichever of
\* their statements fail, the counters of the session equal the FocusDistraction
\* rows less those whose request did not reach its increment.
THEOREM CountersAreExact == Spec => []CountersMatchRows
<1>1. Init => CounterInv
  BY DEF Init, CounterInv, CountersMatchRows
<1>2. CounterInv => CountersMatchRows
  BY DEF CounterInv
<1> QED  BY <1>1, <1>2, TypeInvariant, NextCounters, PTL DEF Spec
=============================================================================
