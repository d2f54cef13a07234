---------------------------- MODULE Gamification ----------------------------
(***************************************************************************)
(* GamificationService.getUserProgress: the streaks, points, average score *)
(* and badges of a user, from the completed sessions, given newest first   *)
(* as records with a day number and a focusScore.  Of them only the latest *)
(* Take count.  The score of a completed session is a number: the UPDATE   *)
(* that writes 'completed' writes it too (focus.service.ts).               *)
(***************************************************************************)
EXTENDS Integers, Sequences

CONSTANT Take  \* how many sessions findMany returns (30)

ASSUME TakeAssumption == Take \in Nat \ {0}

\* orderBy startTime desc, take.
Recent(sessions) ==
  SubSeq(sessions, 1, IF Len(sessions) < Take THEN Len(sessions) ELSE Take)

\* The days, each at its first place.
DayStrings(sessions) ==
  LET upTo[i \in 0..Len(sessions)] ==
        IF i = 0 THEN <<>>
        ELSE IF \E j \in 1..(i - 1) : sessions[j].day = sessions[i].day THEN upTo[i - 1]
        ELSE Append(upTo[i - 1], sessions[i].day)
  IN  upTo[Len(sessions)]

DaysBetween(a, b) == IF a > b THEN a - b ELSE b - a

\* The first day i whose distance to the day before it in the list is over 1 ends
\* the loop; the distance of the first day is 0.
CalculateCurrentStreak(days) ==
  LET upTo[i \in 0..Len(days)] ==
        IF i = 0 THEN 0
        ELSE IF i > 1 /\ upTo[i - 1] < i - 1 THEN upTo[i - 1]
        ELSE IF i > 1 /\ DaysBetween(days[i], days[i - 1]) > 1 THEN i - 1
        ELSE i
  IN  upTo[Len(days)]

\* Mutant: the run that reaches the end of the list is forgotten.
CalculateLongestStreak_LastRun(days) ==
  LET at[i \in 1..Len(days)] ==
        IF i = 1 THEN [longest |-> 1, current |-> 1]
        ELSE IF DaysBetween(days[i], days[i - 1]) <= 1
             THEN [at[i - 1] EXCEPT !.current = @ + 1]
             ELSE [longest |-> IF at[i - 1].current > at[i - 1].longest
                               THEN at[i - 1].current ELSE at[i - 1].longest,
                   current |-> 1]
  IN  IF days = <<>> THEN 0 ELSE at[Len(days)].longest

CalculateLongestStreak(days) ==
  LET Larger(x, y) == IF x > y THEN x ELSE y
      at[i \in 1..Len(days)] ==
        IF i = 1 THEN [longest |-> 1, current |-> 1]
        ELSE IF DaysBetween(days[i], days[i - 1]) <= 1
             THEN [at[i - 1] EXCEPT !.current = @ + 1]
             ELSE [longest |-> Larger(at[i - 1].longest, at[i - 1].current),
                   current |-> 1]
  IN  IF days = <<>> THEN 0 ELSE Larger(at[Len(days)].longest, at[Len(days)].current)

TotalPoints(sessions) ==
  LET sum[i \in 0..Len(sessions)] == IF i = 0 THEN 0 ELSE sum[i - 1] + sessions[i].focusScore
  IN  sum[Len(sessions)]

\* In tenths, toFixed(1); a tie is rounded up.
AverageFocusScore(sessions) ==
  IF sessions = <<>> THEN 0
  ELSE (20 * TotalPoints(sessions) + Len(sessions)) \div (2 * Len(sessions))

BuildBadges(currentStreak, longestStreak, totalPoints) ==
  (IF currentStreak >= 7 THEN {"7-Day Streak"} ELSE {})
    \cup (IF longestStreak >= 30 THEN {"30-Day Legend"} ELSE {})
    \cup (IF totalPoints >= 1000 THEN {"1k Points"} ELSE {})

GetUserProgress(all) ==
  LET sessions == Recent(all)
      days     == DayStrings(sessions)
      current  == CalculateCurrentStreak(days)
      longest  == CalculateLongestStreak(days)
      points   == TotalPoints(sessions)
  IN  [currentStreak |-> current,
       longestStreak |-> longest,
       averageFocusScore |-> AverageFocusScore(sessions),
       totalPoints |-> points,
       badges |-> BuildBadges(current, longest, points)]
=============================================================================
