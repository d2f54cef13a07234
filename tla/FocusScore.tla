----------------------------- MODULE FocusScore -----------------------------
(***************************************************************************)
(* FocusService.calculateFocusScore.  A session row is a record with (at   *)
(* least) totalDuration, activeDuration, distractionCount, pauseCount and  *)
(* tabSwitchCount; a duration that was never written is Null.  The code    *)
(* computes the active-time penalty in floating point; here the whole      *)
(* score is one fraction over 2 * duration, so that Math.round (half up)   *)
(* is an integer division.                                                 *)
(***************************************************************************)
EXTENDS Integers

CONSTANT Null

\* JavaScript's `x || y` for a nullable number: 0 and null are both falsy.
Or(x, y) == IF x = Null \/ x = 0 THEN y ELSE x

AtMost(x, cap) == IF x < cap THEN x ELSE cap
AtLeast(x, floor) == IF x > floor THEN x ELSE floor

BaseScore == 100
MinDurationSeconds == 60
ShortSessionScore == 50

\* Mutant: the remainder instead of the quotient of the tab switches.
CountPenalty_Remainder(s) ==
  AtMost(2 * s.distractionCount, 40)
    + AtMost(5 * s.pauseCount, 20)
    + AtMost(2 * (s.tabSwitchCount % 5), 10)

\* Penalties for distractions, pauses and tab switches, each capped.
CountPenalty(s) ==
  AtMost(2 * s.distractionCount, 40)
    + AtMost(5 * s.pauseCount, 20)
    + AtMost(2 * (s.tabSwitchCount \div 5), 10)

\* (0.7 - active / duration) * 50 when the ratio is below 0.7, times duration.
RatioPenalty(active, duration) ==
  IF 10 * active < 7 * duration THEN 35 * duration - 50 * active ELSE 0

\* Mutant: no lower bound.
CalculateFocusScore_Unclamped(s) ==
  LET duration == Or(s.totalDuration, 0)
      active   == Or(s.activeDuration, duration)
      scaled   == duration * (BaseScore - CountPenalty(s))
                    - RatioPenalty(active, duration)
      rounded  == (2 * scaled + duration) \div (2 * duration)
  IN  IF duration < MinDurationSeconds THEN ShortSessionScore
      ELSE AtMost(rounded, 100)

CalculateFocusScore(s) ==
  LET duration == Or(s.totalDuration, 0)
      active   == Or(s.activeDuration, duration)
      scaled   == duration * (BaseScore - CountPenalty(s))
                    - RatioPenalty(active, duration)
      rounded  == (2 * scaled + duration) \div (2 * duration)
  IN  IF duration < MinDurationSeconds THEN ShortSessionScore
      ELSE AtLeast(AtMost(rounded, 100), 0)
=============================================================================
