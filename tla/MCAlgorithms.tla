---------------------------- MODULE MCAlgorithms ----------------------------
(***************************************************************************)
(* The pure functions of the API over bounded inputs.  A behaviour is      *)
(* about one of them and builds its input up step by step:                 *)
(*                                                                         *)
(*   score   a session row without distractions, pauses and tab switches,  *)
(*           worsened one event (one batch of tab switches) or one second  *)
(*           of active time at a time, past the cap of every penalty;      *)
(*   streak  the completed sessions of a user, one more at a time, on the  *)
(*           day of the latest one or up to MaxGap days later;             *)
(*   pdf     a PDF, one more page at a time, blank or not.                 *)
(***************************************************************************)
EXTENDS FocusScore, Gamification, PdfPages

Sets == INSTANCE FiniteSetsExt

CONSTANTS
  Durations,      \* totalDuration values, around 60 s and above
  ActivePercent,  \* active time in percent of the total
  MaxDistractions, MaxPauses, MaxTabSwitches,
  TabBatch,       \* tab switches added at once
  MaxSessions,    \* completed sessions
  MaxGap,         \* days between two of them
  Scores,         \* focus scores of them
  MaxPages, MaxBlank

ASSUME BoundsAssumption ==
  /\ Null \notin Int
  /\ Durations \subseteq Nat
  /\ ActivePercent \subseteq 0..100
  /\ {MaxDistractions, MaxPauses, MaxTabSwitches, TabBatch} \subseteq Nat
  /\ {MaxSessions, MaxGap, MaxPages, MaxBlank} \subseteq Nat
  /\ Scores \subseteq 0..100

VARIABLES subject, row, sessions, pageCount, blank

vars == <<subject, row, sessions, pageCount, blank>>

\* activeDuration is Null until a client has sent one.
Rows ==
  UNION {[totalDuration : {d},
          activeDuration : {Null} \cup (IF d = Null THEN {0}
                             ELSE {(d * p) \div 100 : p \in ActivePercent}),
          distractionCount : {0}, pauseCount : {0}, tabSwitchCount : {0}] :
         d \in Durations \cup {Null}}

Init ==
  /\ \/ subject = "score" /\ row \in Rows
     \/ subject \in {"streak", "pdf"} /\ row = Null
  /\ sessions = <<>>
  /\ pageCount = 0 /\ blank = {}

Worsen(worse) ==
  /\ subject = "score"
  /\ row' = worse
  /\ UNCHANGED <<subject, sessions, pageCount, blank>>

Distraction ==
  /\ subject = "score" /\ row.distractionCount < MaxDistractions
  /\ Worsen([row EXCEPT !.distractionCount = @ + 1])

Pause ==
  /\ subject = "score" /\ row.pauseCount < MaxPauses
  /\ Worsen([row EXCEPT !.pauseCount = @ + 1])

TabSwitches ==
  /\ subject = "score" /\ row.tabSwitchCount + TabBatch <= MaxTabSwitches
  /\ Worsen([row EXCEPT !.tabSwitchCount = @ + TabBatch])

\* One second of active time less.
LessActive ==
  /\ subject = "score" /\ row.activeDuration # Null
  /\ row.activeDuration > 1
  /\ Worsen([row EXCEPT !.activeDuration = @ - 1])

CompleteSession ==
  /\ subject = "streak" /\ Len(sessions) < MaxSessions
  /\ \E gap \in 0..MaxGap, score \in Scores :
       LET day == IF sessions = <<>> THEN 0 ELSE sessions[1].day + gap
       IN  sessions' = <<[day |-> day, focusScore |-> score]>> \o sessions
  /\ UNCHANGED <<subject, row, pageCount, blank>>

NextPage ==
  /\ subject = "pdf" /\ pageCount < MaxPages
  /\ pageCount' = pageCount + 1
  /\ \/ UNCHANGED blank
     \/ /\ Cardinality(blank) < MaxBlank
        /\ blank' = blank \cup {pageCount + 1}
  /\ UNCHANGED <<subject, row, sessions>>

Next == Distraction \/ Pause \/ TabSwitches \/ LessActive \/ CompleteSession \/ NextPage

Spec == Init /\ [][Next]_vars

-----------------------------------------------------------------------------
(***************************************************************************)
(* Properties                                                              *)
(***************************************************************************)

\* The stored score stays between 0 and 100 although the penalties together can
\* exceed the base score (40 + 20 + 10 + 35 > 100).
ScoreInRange == subject = "score" => CalculateFocusScore(row) \in 0..100

\* Another distraction, pause or batch of tab switches, or a second of active
\* time less, never raises the score.  An active time of 0 is left out: the code
\* reads 0 as "not reported" and takes the total duration instead.
WorseNeverScoresHigher ==
  [][subject = "score" => CalculateFocusScore(row') <= CalculateFocusScore(row)]_vars

\* The length of the longest run of days of D that ends with day d.
RunEndingAt(D, d) ==
  CHOOSE n \in 1..Cardinality(D) :
    ((d - n + 1)..d) \subseteq D /\ d - n \notin D

\* The sessions getUserProgress reads, and the day of the oldest of them.
SessionsRead == DOMAIN sessions \cap 1..Take
ReadSince == sessions[Cardinality(SessionsRead)].day

\* A streak as the gamification plan defines it, the run of consecutive days with a
\* completed session that ends with day d, over ALL the sessions of the user; and
\* what is left of it in the days that were read.
Streak(d) == RunEndingAt({sessions[i].day : i \in DOMAIN sessions}, d)
StreakRead(d) ==
  IF d - Streak(d) + 1 >= ReadSince THEN Streak(d) ELSE d - ReadSince + 1

\* The streaks of getUserProgress are those of the plan cut off at the day of the
\* Take-th latest session, and nothing else is wrong with them: a streak that began
\* on or after that day is reported in full, however many sessions a day has; a
\* longer one is reported as the days since then, so it stops growing, and shrinks
\* when more sessions a day are completed.  Points are those of the same sessions.
StreaksMissOnlyOldDays ==
  LET p == GetUserProgress(sessions)
      D == {sessions[i].day : i \in SessionsRead}
  IN  subject = "streak" /\ sessions # <<>> =>
        /\ p.currentStreak = StreakRead(sessions[1].day)
        /\ \E d \in D : p.longestStreak = StreakRead(d)
        /\ \A d \in D : p.longestStreak >= StreakRead(d)
        /\ p.totalPoints = Sets!MapThenSumSet(LAMBDA i : sessions[i].focusScore, SessionsRead)

\* Every page with text is stored, once.  The number it is stored under, by which the
\* prompts cite it and a question finds it (document-context.helper.ts), is its number
\* in the document for all of them exactly when the pages with text are the first m
\* pages, m <= 9: a blank page before a page with text shifts the numbers after it,
\* and from the tenth page with text on the order of the file names scrambles them.
PageNumbersRightUpToNine ==
  LET pages    == PageContents(pageCount, blank)
      withText == (1..pageCount) \ blank
  IN  subject = "pdf" =>
        /\ {pages[k] : k \in DOMAIN pages} = withText
        /\ \A k, l \in DOMAIN pages : k # l => pages[k] # pages[l]
        /\ (\A k \in DOMAIN pages : pages[k] = k) <=> (\E m \in 0..9 : withText = 1..m)
=============================================================================
