-------------------------- MODULE AlgorithmsProofs --------------------------
(***************************************************************************)
(* What the pure functions of the API promise for every input.             *)
(*                                                                         *)
(*   calculateFocusScore   a score between 0 and 100 that no further       *)
(*                         distraction, pause, tab switch or second        *)
(*                         without activity raises;                        *)
(*   extractPdfFromGcs     every page with text once, below ten pages in   *)
(*                         order;                                          *)
(*   getUserProgress       streaks that are runs of consecutive days.      *)
(*                                                                         *)
(* The loops of the last two are recursive functions; that they exist, and *)
(* what they compute, is proved by induction over the natural numbers,     *)
(* which is drawn from their being well-founded.                           *)
(***************************************************************************)
EXTENDS MCAlgorithms, FiniteSetTheorems, SequenceTheorems, WellFoundedInduction, TLAPS

\* The rows the score is computed from: durations may be missing, counts are there.
SessionRows ==
  [totalDuration : Nat \cup {Null}, activeDuration : Nat \cup {Null},
   distractionCount : Nat, pauseCount : Nat, tabSwitchCount : Nat]

RowInv == subject = "score" => row \in SessionRows

-----------------------------------------------------------------------------
(***************************************************************************)
(* Arithmetic                                                              *)
(***************************************************************************)

\* Division by a positive number is monotone.
LEMMA DivMonotone ==
  ASSUME NEW a \in Int, NEW b \in Int, NEW c \in Nat \ {0}, a <= b
  PROVE  a \div c \in Int /\ b \div c \in Int /\ a \div c <= b \div c
  OBVIOUS

\* Multiplication by a duration is monotone.
LEMMA TimesMonotone ==
  ASSUME NEW a \in Int, NEW b \in Int, NEW c \in Nat, a <= b
  PROVE  c * a \in Int /\ c * b \in Int /\ c * a <= c * b
  OBVIOUS

-----------------------------------------------------------------------------
(***************************************************************************)
(* The score                                                               *)
(***************************************************************************)

\* The durations the score uses are numbers.
LEMMA DurationsAreNumbers ==
  ASSUME NEW s \in SessionRows
  PROVE  /\ Or(s.totalDuration, 0) \in Nat
         /\ Or(s.activeDuration, Or(s.totalDuration, 0)) \in Nat
  BY BoundsAssumption DEF SessionRows, Or

\* The penalty for counted events is a natural number.
LEMMA CountPenaltyIsNumber ==
  ASSUME NEW s \in SessionRows
  PROVE  CountPenalty(s) \in Nat
<1>1. s.tabSwitchCount \div 5 \in Nat
  BY DEF SessionRows
<1> QED BY <1>1 DEF SessionRows, CountPenalty, AtMost

\* The score before it is rounded, times the duration.
Scaled(penalty, active, duration) ==
  duration * (BaseScore - penalty) - RatioPenalty(active, duration)

\* calculateFocusScore with its local names expanded once.
LEMMA ScoreIs ==
  ASSUME NEW s
  PROVE  CalculateFocusScore(s) =
           LET duration == Or(s.totalDuration, 0)
               active   == Or(s.activeDuration, duration)
           IN  IF duration < MinDurationSeconds THEN ShortSessionScore
               ELSE AtLeast(AtMost((2 * Scaled(CountPenalty(s), active, duration) + duration)
                                     \div (2 * duration), 100), 0)
  BY DEF CalculateFocusScore, Scaled

\* The score before rounding, times the duration, is an integer.
LEMMA ScaledIsNumber ==
  ASSUME NEW penalty \in Nat, NEW active \in Nat, NEW duration \in Nat
  PROVE  Scaled(penalty, active, duration) \in Int
  BY DEF Scaled, BaseScore, RatioPenalty

\* The score is between 0 and 100 for every row.
LEMMA ScoreOfRow ==
  ASSUME NEW s \in SessionRows
  PROVE  CalculateFocusScore(s) \in 0..100
<1> DEFINE duration == Or(s.totalDuration, 0)
           active   == Or(s.activeDuration, duration)
           scaled   == Scaled(CountPenalty(s), active, duration)
<1>1. duration \in Nat /\ scaled \in Int
  BY DurationsAreNumbers, CountPenaltyIsNumber, ScaledIsNumber
<1>2. CalculateFocusScore(s) = IF duration < 60 THEN 50
        ELSE AtLeast(AtMost((2 * scaled + duration) \div (2 * duration), 100), 0)
  BY ScoreIs DEF MinDurationSeconds, ShortSessionScore
<1> HIDE DEF duration, active, scaled
<1>3. CASE duration < 60
  BY <1>2, <1>3
<1>4. CASE ~(duration < 60)
  <2>1. (2 * scaled + duration) \div (2 * duration) \in Int
    <3>1. 2 * scaled + duration \in Int /\ 2 * duration \in Nat \ {0}
      BY <1>1, <1>4
    <3> QED BY <3>1, DivMonotone
  <2> QED BY <1>2, <1>4, <2>1 DEF AtLeast, AtMost
<1> QED BY <1>3, <1>4

\* More penalty or less activity over the same duration gives no better score.
LEMMA ScaledMonotone ==
  ASSUME NEW p \in Nat, NEW q \in Nat, NEW a \in Nat, NEW b \in Nat, NEW d \in Nat,
         p <= q, b <= a
  PROVE  Scaled(q, b, d) <= Scaled(p, a, d)
<1>1. d * (BaseScore - q) <= d * (BaseScore - p)
  BY TimesMonotone DEF BaseScore
<1>2. d * (BaseScore - q) \in Int /\ d * (BaseScore - p) \in Int
  BY TimesMonotone DEF BaseScore
<1>3. RatioPenalty(a, d) <= RatioPenalty(b, d) /\ RatioPenalty(a, d) \in Int
      /\ RatioPenalty(b, d) \in Int
  BY DEF RatioPenalty
<1> QED BY <1>1, <1>2, <1>3 DEF Scaled

\* At the same total duration, a higher penalty and less activity give no higher score.
LEMMA ScoreMonotone ==
  ASSUME NEW s \in SessionRows, NEW t \in SessionRows,
         t.totalDuration = s.totalDuration, CountPenalty(s) <= CountPenalty(t),
         Or(t.activeDuration, Or(s.totalDuration, 0))
           <= Or(s.activeDuration, Or(s.totalDuration, 0))
  PROVE  CalculateFocusScore(t) <= CalculateFocusScore(s)
<1> DEFINE d == Or(s.totalDuration, 0)
           x == Scaled(CountPenalty(s), Or(s.activeDuration, d), d)
           y == Scaled(CountPenalty(t), Or(t.activeDuration, d), d)
<1>1. d \in Nat /\ x \in Int /\ y \in Int
  BY DurationsAreNumbers, CountPenaltyIsNumber, ScaledIsNumber
<1>2. y <= x
  BY DurationsAreNumbers, CountPenaltyIsNumber, ScaledMonotone
<1>3. CalculateFocusScore(s) = IF d < 60 THEN 50
        ELSE AtLeast(AtMost((2 * x + d) \div (2 * d), 100), 0)
  BY ScoreIs DEF MinDurationSeconds, ShortSessionScore
<1>4. CalculateFocusScore(t) = IF d < 60 THEN 50
        ELSE AtLeast(AtMost((2 * y + d) \div (2 * d), 100), 0)
  BY ScoreIs DEF MinDurationSeconds, ShortSessionScore
<1> HIDE DEF d, x, y
<1>5. CASE d < 60
  BY <1>3, <1>4, <1>5
<1>6. CASE ~(d < 60)
  <2> DEFINE u == (2 * x + d) \div (2 * d)
             v == (2 * y + d) \div (2 * d)
  <2>1. 2 * x + d \in Int /\ 2 * y + d \in Int /\ 2 * d \in Nat \ {0}
        /\ 2 * y + d <= 2 * x + d
    BY <1>1, <1>2, <1>6
  <2>2. u \in Int /\ v \in Int /\ v <= u
    BY <2>1, DivMonotone
  <2>3. CalculateFocusScore(s) = AtLeast(AtMost(u, 100), 0)
        /\ CalculateFocusScore(t) = AtLeast(AtMost(v, 100), 0)
    BY <1>3, <1>4, <1>6
  <2> HIDE DEF u, v
  <2> QED BY <2>2, <2>3 DEF AtLeast, AtMost
<1> QED BY <1>5, <1>6

-----------------------------------------------------------------------------
(***************************************************************************)
(* The specification                                                       *)
(***************************************************************************)

\* The rows a behaviour starts from are session rows.
LEMMA RowInvInit == Init => RowInv
<1> SUFFICES ASSUME row \in Rows PROVE row \in SessionRows
  BY DEF Init, RowInv
<1>1. PICK d \in Durations \cup {Null} :
        row \in [totalDuration : {d},
                 activeDuration : {Null} \cup (IF d = Null THEN {0}
                                    ELSE {(d * p) \div 100 : p \in ActivePercent}),
                 distractionCount : {0}, pauseCount : {0}, tabSwitchCount : {0}]
  BY DEF Rows
<1>2. ASSUME NEW p \in ActivePercent, d # Null PROVE (d * p) \div 100 \in Nat
  <2>1. d \in Nat /\ p \in Nat
    BY <1>2, BoundsAssumption
  <2>2. d * p \in Nat
    BY <2>1
  <2> QED BY <2>2
<1> QED BY <1>1, <1>2, BoundsAssumption DEF SessionRows

\* Each action of the score leaves a row that is no better.
LEMMA RowWorsens ==
  ASSUME RowInv, [Next]_vars, subject = "score"
  PROVE  /\ subject' = "score" /\ row \in SessionRows /\ row' \in SessionRows
         /\ CalculateFocusScore(row') <= CalculateFocusScore(row)
<1>1. row \in SessionRows
  BY DEF RowInv
<1>2. /\ row.totalDuration \in Nat \cup {Null} /\ row.activeDuration \in Nat \cup {Null}
      /\ row.distractionCount \in Nat /\ row.pauseCount \in Nat
      /\ row.tabSwitchCount \in Nat
  BY <1>1 DEF SessionRows
<1>3. CalculateFocusScore(row) <= CalculateFocusScore(row)
  BY <1>1, ScoreOfRow
<1>4. CASE Distraction
  <2>1. subject' = "score" /\ row' = [row EXCEPT !.distractionCount = @ + 1]
    BY <1>4 DEF Distraction, Worsen
  <2>2. row' \in SessionRows /\ row'.totalDuration = row.totalDuration
        /\ row'.activeDuration = row.activeDuration
        /\ row'.distractionCount = row.distractionCount + 1
        /\ row'.pauseCount = row.pauseCount /\ row'.tabSwitchCount = row.tabSwitchCount
    BY <1>1, <2>1 DEF SessionRows
  <2>3. row.tabSwitchCount \div 5 \in Nat
    BY <1>2
  <2>4. CountPenalty(row) <= CountPenalty(row')
    BY <1>2, <2>2, <2>3 DEF CountPenalty, AtMost
  <2>5. Or(row'.activeDuration, Or(row.totalDuration, 0))
          <= Or(row.activeDuration, Or(row.totalDuration, 0))
    BY <1>1, <2>2, DurationsAreNumbers
  <2> QED BY <1>1, <2>1, <2>2, <2>4, <2>5, ScoreMonotone
<1>5. CASE Pause
  <2>1. subject' = "score" /\ row' = [row EXCEPT !.pauseCount = @ + 1]
    BY <1>5 DEF Pause, Worsen
  <2>2. row' \in SessionRows /\ row'.totalDuration = row.totalDuration
        /\ row'.activeDuration = row.activeDuration
        /\ row'.distractionCount = row.distractionCount
        /\ row'.pauseCount = row.pauseCount + 1 /\ row'.tabSwitchCount = row.tabSwitchCount
    BY <1>1, <2>1 DEF SessionRows
  <2>3. row.tabSwitchCount \div 5 \in Nat
    BY <1>2
  <2>4. CountPenalty(row) <= CountPenalty(row')
    BY <1>2, <2>2, <2>3 DEF CountPenalty, AtMost
  <2>5. Or(row'.activeDuration, Or(row.totalDuration, 0))
          <= Or(row.activeDuration, Or(row.totalDuration, 0))
    BY <1>1, <2>2, DurationsAreNumbers
  <2> QED BY <1>1, <2>1, <2>2, <2>4, <2>5, ScoreMonotone
<1>6. CASE TabSwitches
  <2>1. subject' = "score" /\ row' = [row EXCEPT !.tabSwitchCount = @ + TabBatch]
    BY <1>6 DEF TabSwitches, Worsen
  <2>2. TabBatch \in Nat
    BY BoundsAssumption
  <2>3. row' \in SessionRows /\ row'.totalDuration = row.totalDuration
        /\ row'.activeDuration = row.activeDuration
        /\ row'.distractionCount = row.distractionCount
        /\ row'.pauseCount = row.pauseCount
        /\ row'.tabSwitchCount = row.tabSwitchCount + TabBatch
    BY <1>1, <2>1, <2>2 DEF SessionRows
  <2>4. row.tabSwitchCount \div 5 \in Nat
        /\ (row.tabSwitchCount + TabBatch) \div 5 \in Nat
        /\ row.tabSwitchCount \div 5 <= (row.tabSwitchCount + TabBatch) \div 5
    BY <1>2, <2>2
  <2>5. CountPenalty(row) <= CountPenalty(row')
    BY <1>2, <2>3, <2>4 DEF CountPenalty, AtMost
  <2>6. Or(row'.activeDuration, Or(row.totalDuration, 0))
          <= Or(row.activeDuration, Or(row.totalDuration, 0))
    BY <1>1, <2>3, DurationsAreNumbers
  <2> QED BY <1>1, <2>1, <2>3, <2>5, <2>6, ScoreMonotone
<1>7. CASE LessActive
  <2>1. subject' = "score" /\ row' = [row EXCEPT !.activeDuration = @ - 1]
        /\ row.activeDuration \in Nat /\ row.activeDuration > 1
    BY <1>2, <1>7 DEF LessActive, Worsen
  <2>2. row' \in SessionRows /\ row'.totalDuration = row.totalDuration
        /\ row'.activeDuration = row.activeDuration - 1
        /\ row'.distractionCount = row.distractionCount
        /\ row'.pauseCount = row.pauseCount /\ row'.tabSwitchCount = row.tabSwitchCount
    BY <1>1, <2>1 DEF SessionRows
  <2>3. CountPenalty(row') = CountPenalty(row)
    BY <2>2 DEF CountPenalty
  <2>4. CountPenalty(row) <= CountPenalty(row')
    BY <1>1, <2>3, CountPenaltyIsNumber
  <2>5. Or(row'.activeDuration, Or(row.totalDuration, 0)) = row.activeDuration - 1
        /\ Or(row.activeDuration, Or(row.totalDuration, 0)) = row.activeDuration
    BY <2>1, <2>2, BoundsAssumption DEF Or
  <2>6. Or(row'.activeDuration, Or(row.totalDuration, 0))
          <= Or(row.activeDuration, Or(row.totalDuration, 0))
    BY <2>1, <2>5
  <2> QED BY <1>1, <2>1, <2>2, <2>4, <2>6, ScoreMonotone
<1>8. CASE CompleteSession \/ NextPage
  BY <1>8 DEF CompleteSession, NextPage
<1>9. CASE UNCHANGED vars
  BY <1>1, <1>3, <1>9 DEF vars
<1> QED BY <1>4, <1>5, <1>6, <1>7, <1>8, <1>9 DEF Next

\* The row is a session row throughout.
LEMMA RowInvariant == Spec => []RowInv
<1>1. RowInv /\ [Next]_vars => RowInv'
  <2> SUFFICES ASSUME RowInv, [Next]_vars, subject' = "score" PROVE row' \in SessionRows
    BY DEF RowInv
  <2>1. subject = "score"
    BY DEF Next, Distraction, Pause, TabSwitches, LessActive, Worsen, CompleteSession,
           NextPage, vars
  <2> QED BY <2>1, RowWorsens
<1> QED BY <1>1, RowInvInit, PTL DEF Spec

\* calculateFocusScore: the score of a session is between 0 and 100, whatever its
\* durations and counts.
THEOREM ScoresAreInRange == Spec => []ScoreInRange
<1>1. RowInv => ScoreInRange
  BY ScoreOfRow DEF RowInv, ScoreInRange
<1> QED BY <1>1, RowInvariant, PTL

\* calculateFocusScore: a distraction, a pause, tab switches or a second of activity
\* less never raise the score, wherever the penalties reach their caps and however the
\* score is rounded.
THEOREM WorseIsNotBetter == Spec => WorseNeverScoresHigher
<1> DEFINE Step == subject = "score" => CalculateFocusScore(row') <= CalculateFocusScore(row)
<1>1. RowInv /\ [Next]_vars => [Step]_vars
  BY RowWorsens
<1>2. Spec => [][Step]_vars
  BY <1>1, RowInvariant, PTL DEF Spec
<1> QED BY <1>2 DEF WorseNeverScoresHigher

-----------------------------------------------------------------------------
(***************************************************************************)
(* Numbers                                                                 *)
(***************************************************************************)

\* A set of numbers has a least one.
LEMMA Least ==
  ASSUME NEW S \in SUBSET Nat, S # {}
  PROVE  \E n \in S : \A m \in S : n <= m
<1> DEFINE R == OpToRel(<,Nat)
<1>1. IsWellFoundedOn(R, Nat)
  BY NatLessThanWellFounded, Zenon
<1>2. \A m, n \in Nat : m < n => <<m, n>> \in R
  BY Zenon DEF OpToRel
<1> HIDE DEF R
<1>3. PICK n \in S : \A m \in S : ~(<<m, n>> \in R)
  BY <1>1, WFMin
<1>4. \A m \in S : ~(m < n)
  BY <1>2, <1>3
<1>5. \A m \in S : n <= m
  BY <1>4
<1> QED BY <1>3, <1>5

\* Induction: no number is the least one outside of S.
LEMMA Induction ==
  ASSUME NEW S \in SUBSET Nat, 0 \in S, \A n \in S : n + 1 \in S
  PROVE  S = Nat
<1> SUFFICES ASSUME S # Nat PROVE FALSE
  OBVIOUS
<1>1. PICK n \in Nat \ S : \A m \in Nat \ S : n <= m
  <2>1. Nat \ S \in SUBSET Nat /\ Nat \ S # {}
    OBVIOUS
  <2> QED BY <2>1, Least
<1>2. n # 0 /\ n - 1 \in Nat /\ n - 1 + 1 = n /\ ~(n <= n - 1)
  BY <1>1
<1>3. n - 1 \in S
  BY <1>1, <1>2
<1> QED BY <1>1, <1>2, <1>3

\* Induction with all the smaller numbers.
LEMMA StrongInduction ==
  ASSUME NEW S \in SUBSET Nat,
         \A n \in Nat : (\A m \in 0..(n - 1) : m \in S) => n \in S
  PROVE  S = Nat
<1> SUFFICES ASSUME S # Nat PROVE FALSE
  OBVIOUS
<1>1. PICK n \in Nat \ S : \A m \in Nat \ S : n <= m
  <2>1. Nat \ S \in SUBSET Nat /\ Nat \ S # {}
    OBVIOUS
  <2> QED BY <2>1, Least
<1>2. ASSUME NEW m \in 0..(n - 1) PROVE m \in S
  <2>1. m \in Nat /\ ~(n <= m)
    BY <1>1
  <2> QED BY <1>1, <2>1
<1> QED BY <1>1, <1>2

-----------------------------------------------------------------------------
(***************************************************************************)
(* File names.  Digits is a recursive function: it exists because the      *)
(* quotient by ten is smaller.                                             *)
(***************************************************************************)

\* f is Digits up to n.
DigitsUpTo(f, n) ==
  f = [i \in 0..n |-> IF i < 10 THEN <<i>> ELSE Append(f[i \div 10], i % 10)]

\* Its values.
LEMMA DigitsUpToAt ==
  ASSUME NEW f, NEW n \in Nat, DigitsUpTo(f, n), NEW i \in 0..n
  PROVE  f[i] = IF i < 10 THEN <<i>> ELSE Append(f[i \div 10], i % 10)
<1>1. \A k \in 0..n : f[k] = IF k < 10 THEN <<k>> ELSE Append(f[k \div 10], k % 10)
  BY DEF DigitsUpTo
<1> QED BY <1>1

\* There is one for every n.
LEMMA DigitsUpToExists ==
  \A n \in Nat : \E f : DigitsUpTo(f, n)
<1> DEFINE S == {n \in Nat : \E f : DigitsUpTo(f, n)}
<1>1. 0 \in S
  <2>1. \A i \in 0..0 : i < 10 /\ i = 0
    OBVIOUS
  <2>2. DigitsUpTo([i \in 0..0 |-> <<0>>], 0)
    BY <2>1 DEF DigitsUpTo
  <2> QED BY <2>2
<1>2. ASSUME NEW n \in S PROVE n + 1 \in S
  <2>1. PICK f : DigitsUpTo(f, n)
    OBVIOUS
  <2> DEFINE v == IF n + 1 < 10 THEN <<n + 1>> ELSE Append(f[(n + 1) \div 10], (n + 1) % 10)
             g == [i \in 0..(n + 1) |-> IF i = n + 1 THEN v ELSE f[i]]
  <2>2. n \in Nat /\ g[n + 1] = v /\ \A i \in 0..n : g[i] = f[i]
    OBVIOUS
  <2> HIDE DEF v, g
  <2>3. ASSUME NEW i \in 0..(n + 1)
        PROVE  g[i] = IF i < 10 THEN <<i>> ELSE Append(g[i \div 10], i % 10)
    <3>1. CASE i = n + 1
      <4>1. i \div 10 \in 0..n \/ i < 10
        BY <2>2, <3>1
      <4> QED BY <2>2, <3>1, <4>1 DEF v
    <3>2. CASE i # n + 1
      <4>1. i \in 0..n /\ i \div 10 \in 0..n
        BY <2>2, <3>2
      <4>2. f[i] = IF i < 10 THEN <<i>> ELSE Append(f[i \div 10], i % 10)
        BY <2>1, <2>2, <4>1, DigitsUpToAt
      <4> QED BY <2>2, <4>1, <4>2
    <3> QED BY <3>1, <3>2
  <2>4. DigitsUpTo(g, n + 1)
    BY <2>3 DEF DigitsUpTo, g
  <2> QED BY <2>2, <2>4
<1>3. S = Nat
  <2> HIDE DEF S
  <2> QED BY <1>1, <1>2, Induction DEF S
<1> QED BY <1>3

\* Two of them agree as far as both go.
LEMMA DigitsUpToAgree ==
  ASSUME NEW f, NEW m \in Nat, DigitsUpTo(f, m), NEW g, NEW n \in Nat, DigitsUpTo(g, n)
  PROVE  \A i \in Nat : i <= m /\ i <= n => f[i] = g[i]
<1> DEFINE S == {i \in Nat : i <= m /\ i <= n => f[i] = g[i]}
<1>1. ASSUME NEW i \in Nat, \A k \in 0..(i - 1) : k \in S PROVE i \in S
  <2> SUFFICES ASSUME i <= m, i <= n PROVE f[i] = g[i]
    OBVIOUS
  <2>1. i \in 0..m /\ i \in 0..n
    OBVIOUS
  <2>2. f[i] = IF i < 10 THEN <<i>> ELSE Append(f[i \div 10], i % 10)
    BY <2>1, DigitsUpToAt
  <2>3. g[i] = IF i < 10 THEN <<i>> ELSE Append(g[i \div 10], i % 10)
    BY <2>1, DigitsUpToAt
  <2>4. CASE i < 10
    BY <2>2, <2>3, <2>4
  <2>5. CASE ~(i < 10)
    <3>1. i \div 10 \in 0..(i - 1) /\ i \div 10 <= m /\ i \div 10 <= n
      BY <2>5
    <3>2. f[i \div 10] = g[i \div 10]
      BY <1>1, <3>1
    <3> QED BY <2>2, <2>3, <2>5, <3>2
  <2> QED BY <2>4, <2>5
<1>2. S = Nat
  <2> HIDE DEF S
  <2> QED BY <1>1, StrongInduction DEF S
<1> QED BY <1>2

\* So there is Digits, and it is what its definition says.
LEMMA DigitsIs ==
  ASSUME NEW n \in Nat
  PROVE  Digits[n] = IF n < 10 THEN <<n>> ELSE Append(Digits[n \div 10], n % 10)
<1> DEFINE Loop(k) == k = [i \in Nat |-> IF i < 10 THEN <<i>> ELSE Append(k[i \div 10], i % 10)]
           part(i) == CHOOSE f : DigitsUpTo(f, i)
           g == [i \in Nat |-> part(i)[i]]
           d == CHOOSE k : Loop(k)
<1>1. \A i \in Nat : DigitsUpTo(part(i), i)
  BY DigitsUpToExists
<1> HIDE DEF part
<1>2. ASSUME NEW i \in Nat PROVE g[i] = IF i < 10 THEN <<i>> ELSE Append(g[i \div 10], i % 10)
  <2>1. i \in 0..i /\ g[i] = part(i)[i]
    OBVIOUS
  <2>2. part(i)[i] = IF i < 10 THEN <<i>> ELSE Append(part(i)[i \div 10], i % 10)
    BY <1>1, <2>1, DigitsUpToAt
  <2>3. i \div 10 \in Nat /\ i \div 10 <= i /\ i \div 10 <= i \div 10
    OBVIOUS
  <2>4. part(i)[i \div 10] = part(i \div 10)[i \div 10]
    BY <1>1, <2>3, DigitsUpToAgree
  <2>5. g[i \div 10] = part(i \div 10)[i \div 10]
    BY <2>3
  <2> HIDE DEF g
  <2> QED BY <2>1, <2>2, <2>4, <2>5
<1>3. Loop(g)
  BY <1>2
<1>4. Loop(d)
  BY <1>3
<1>5. Digits = d
  BY DEF Digits
<1> HIDE DEF d
<1>6. d[n] = IF n < 10 THEN <<n>> ELSE Append(d[n \div 10], n % 10)
  <2>1. \A i \in Nat : d[i] = IF i < 10 THEN <<i>> ELSE Append(d[i \div 10], i % 10)
    BY <1>4
  <2> QED BY <2>1
<1> QED BY <1>5, <1>6

\* The digits of a number, at least one.
LEMMA DigitsType ==
  \A n \in Nat : Digits[n] \in Seq(Nat) /\ Len(Digits[n]) >= 1
<1> DEFINE S == {n \in Nat : Digits[n] \in Seq(Nat) /\ Len(Digits[n]) >= 1}
<1>1. ASSUME NEW n \in Nat, \A m \in 0..(n - 1) : m \in S PROVE n \in S
  <2>1. CASE n < 10
    <3>1. Digits[n] = <<n>>
      BY <2>1, DigitsIs
    <3>2. <<n>> \in Seq(Nat) /\ Len(<<n>>) = 1
      OBVIOUS
    <3>3. Digits[n] \in Seq(Nat) /\ Len(Digits[n]) >= 1
      BY <3>1, <3>2
    <3> QED BY <3>3
  <2>2. CASE ~(n < 10)
    <3> DEFINE h == Digits[n \div 10]
               d == n % 10
    <3>1. n \div 10 \in 0..(n - 1) /\ d \in Nat
      BY <2>2
    <3>2. h \in Seq(Nat) /\ Len(h) >= 1
      BY <1>1, <3>1
    <3>3. Digits[n] = Append(h, d)
      BY <2>2, DigitsIs
    <3> HIDE DEF h, d
    <3>4. Append(h, d) \in Seq(Nat) /\ Len(Append(h, d)) = Len(h) + 1 /\ Len(h) \in Nat
      BY <3>1, <3>2, AppendProperties
    <3>5. Digits[n] \in Seq(Nat) /\ Len(Digits[n]) >= 1
      BY <3>2, <3>3, <3>4
    <3> QED BY <3>5
  <2> QED BY <2>1, <2>2
<1>2. S = Nat
  <2> HIDE DEF S
  <2> QED BY <1>1, StrongInduction DEF S
<1> QED BY <1>2

\* One digit, or the digits of the quotient and the remainder.
LEMMA DigitsCases ==
  ASSUME NEW n \in Nat
  PROVE  /\ n < 10 => Digits[n] = <<n>>
         /\ n >= 10 => Digits[n] = Append(Digits[n \div 10], n % 10)
<1> DEFINE d == Append(Digits[n \div 10], n % 10)
<1>1. Digits[n] = IF n < 10 THEN <<n>> ELSE d
  BY DigitsIs
<1> HIDE DEF d
<1>2. /\ n < 10 => Digits[n] = <<n>>
      /\ n >= 10 => Digits[n] = d
  BY <1>1
<1> QED BY <1>2 DEF d

\* A number of one digit has a shorter name than one of more.
LEMMA DigitsLength ==
  ASSUME NEW n \in Nat
  PROVE  /\ n < 10 => Len(Digits[n]) = 1 /\ Digits[n][1] = n
         /\ n >= 10 => Len(Digits[n]) >= 2
<1>1. CASE n < 10
  <2>1. Digits[n] = <<n>>
    BY <1>1, DigitsCases
  <2>2. Len(<<n>>) = 1 /\ <<n>>[1] = n
    OBVIOUS
  <2> QED BY <1>1, <2>1, <2>2
<1>2. CASE n >= 10
  <2> DEFINE h == Digits[n \div 10]
             d == n % 10
  <2>1. n \div 10 \in Nat /\ d \in Nat
    OBVIOUS
  <2>2. h \in Seq(Nat) /\ Len(h) >= 1
    BY <2>1, DigitsType
  <2>3. Digits[n] = Append(h, d)
    BY <1>2, DigitsCases
  <2> HIDE DEF h, d
  <2>4. Len(Append(h, d)) = Len(h) + 1 /\ Len(h) \in Nat
    BY <2>1, <2>2, AppendProperties
  <2> QED BY <1>2, <2>2, <2>3, <2>4
<1> QED BY <1>1, <1>2

\* Different numbers have different digits.
LEMMA DigitsInjective ==
  \A n \in Nat : \A m \in Nat : Digits[m] = Digits[n] => m = n
<1> DEFINE S == {n \in Nat : \A m \in Nat : Digits[m] = Digits[n] => m = n}
<1>1. ASSUME NEW n \in Nat, \A k \in 0..(n - 1) : k \in S PROVE n \in S
  <2> SUFFICES ASSUME NEW m \in Nat, Digits[m] = Digits[n] PROVE m = n
    OBVIOUS
  <2>1. /\ m < 10 => Len(Digits[m]) = 1 /\ Digits[m][1] = m
        /\ m >= 10 => Len(Digits[m]) >= 2
    BY DigitsLength
  <2>2. /\ n < 10 => Len(Digits[n]) = 1 /\ Digits[n][1] = n
        /\ n >= 10 => Len(Digits[n]) >= 2
    BY DigitsLength
  <2>3. CASE m < 10 /\ n < 10
    BY <2>1, <2>2, <2>3
  <2>4. ~(m < 10 /\ n >= 10) /\ ~(m >= 10 /\ n < 10)
    <3>1. Len(Digits[m]) = Len(Digits[n])
      BY Zenon
    <3>2. ~(1 >= 2)
      OBVIOUS
    <3> QED BY <2>1, <2>2, <3>1, <3>2, Zenon
  <2>5. CASE m >= 10 /\ n >= 10
    <3> DEFINE a == Digits[m \div 10]
               b == Digits[n \div 10]
               d == m % 10
               e == n % 10
    <3>1. m \div 10 \in Nat /\ n \div 10 \in 0..(n - 1) /\ n \div 10 \in Nat
      BY <2>5
    <3>2. a \in Seq(Nat) /\ b \in Seq(Nat)
      BY <3>1, DigitsType
    <3>3. d \in Nat /\ e \in Nat
      OBVIOUS
    <3>4. Digits[m] = Append(a, d)
      BY <2>5, DigitsCases
    <3>5. Digits[n] = Append(b, e)
      BY <2>5, DigitsCases
    <3> HIDE DEF a, b, d, e
    <3>6. a = b /\ d = e
      <4>1. Append(a, d) = Append(b, e)
        BY <3>4, <3>5, Zenon
      <4>2. \A s, t \in Seq(Nat), x, y \in Nat : Append(s, x) = Append(t, y) => s = t /\ x = y
        <5> HIDE DEF S
        <5> TAKE s, t \in Seq(Nat), x, y \in Nat
        <5> QED BY AppendInjective
      <4> QED BY <3>2, <3>3, <4>1, <4>2
    <3>7. m \div 10 = n \div 10
      BY <1>1, <3>1, <3>6 DEF a, b
    <3>8. m % 10 = n % 10
      BY <3>6 DEF d, e
    <3> QED BY <3>7, <3>8
  <2> QED BY <2>3, <2>4, <2>5
<1>2. S = Nat
  <2> HIDE DEF S
  <2> QED BY <1>1, StrongInduction DEF S
<1> QED BY <1>2

-----------------------------------------------------------------------------
(***************************************************************************)
(* The order of names is a strict total order.                             *)
(***************************************************************************)

\* a and b agree before place k, where a ends or has the smaller digit.
DiffersAt(a, b, k) ==
  /\ k \in 1..Len(b)
  /\ \A m \in 1..(k - 1) : m \in 1..Len(a) /\ a[m] = b[m]
  /\ k \in 1..Len(a) => a[k] < b[k]

\* The order of names in these terms.
LEMMA NameBeforeIs ==
  ASSUME NEW i \in Nat, NEW j \in Nat
  PROVE  NameBefore(i, j) <=> \E k : DiffersAt(Digits[i], Digits[j], k)
<1>1. DOMAIN Digits[i] = 1..Len(Digits[i]) /\ DOMAIN Digits[j] = 1..Len(Digits[j])
  BY DigitsType
<1> QED BY <1>1, Zenon DEF NameBefore, DiffersAt

\* No name is before itself.
LEMMA NameIrreflexive ==
  ASSUME NEW i \in Nat
  PROVE  ~NameBefore(i, i)
<1> DEFINE a == Digits[i]
<1>1. a \in Seq(Nat)
  BY DigitsType
<1> HIDE DEF a
<1> SUFFICES ASSUME NEW k, DiffersAt(a, a, k) PROVE FALSE
  BY NameBeforeIs DEF a
<1>2. k \in 1..Len(a) /\ a[k] < a[k]
  BY DEF DiffersAt
<1>3. a[k] \in Nat
  BY <1>1, <1>2, ElementOfSeq
<1> QED BY <1>2, <1>3

\* The first of the two places decides.
LEMMA NameTransitive ==
  ASSUME NEW i \in Nat, NEW j \in Nat, NEW h \in Nat, NameBefore(i, j), NameBefore(j, h)
  PROVE  NameBefore(i, h)
<1> DEFINE a == Digits[i]
           b == Digits[j]
           c == Digits[h]
<1>1. a \in Seq(Nat) /\ b \in Seq(Nat) /\ c \in Seq(Nat)
  BY DigitsType
<1>2. PICK k : DiffersAt(a, b, k)
  BY NameBeforeIs
<1>3. PICK l : DiffersAt(b, c, l)
  BY NameBeforeIs
<1> HIDE DEF a, b, c
<1>4. Len(a) \in Nat /\ Len(b) \in Nat /\ Len(c) \in Nat
  BY <1>1
<1>5. /\ \A p \in 1..Len(a) : a[p] \in Nat
      /\ \A p \in 1..Len(b) : b[p] \in Nat
      /\ \A p \in 1..Len(c) : c[p] \in Nat
  BY <1>1, ElementOfSeq
<1>6. CASE k < l
  <2>1. DiffersAt(a, c, k)
    BY <1>2, <1>3, <1>4, <1>5, <1>6 DEF DiffersAt
  <2> QED BY <2>1, NameBeforeIs DEF a, c
<1>7. CASE k = l
  <2>1. DiffersAt(a, c, k)
    BY <1>2, <1>3, <1>4, <1>5, <1>7 DEF DiffersAt
  <2> QED BY <2>1, NameBeforeIs DEF a, c
<1>8. CASE l < k
  <2>1. DiffersAt(a, c, l)
    BY <1>2, <1>3, <1>4, <1>5, <1>8 DEF DiffersAt
  <2> QED BY <2>1, NameBeforeIs DEF a, c
<1>9. k \in Nat /\ l \in Nat
  BY <1>2, <1>3 DEF DiffersAt
<1> QED BY <1>6, <1>7, <1>8, <1>9

\* Of two different names one is before the other: the least place where they differ.
LEMMA NameTotal ==
  ASSUME NEW i \in Nat, NEW j \in Nat, i # j
  PROVE  NameBefore(i, j) \/ NameBefore(j, i)
<1> DEFINE a == Digits[i]
           b == Digits[j]
           P == {k \in Nat : k >= 1 /\ ~(k \in 1..Len(a) /\ k \in 1..Len(b) /\ a[k] = b[k])}
<1>1. a \in Seq(Nat) /\ b \in Seq(Nat) /\ a # b
  BY DigitsType, DigitsInjective
<1> HIDE DEF a, b
<1>2. Len(a) \in Nat /\ Len(b) \in Nat
  BY <1>1
<1>3. PICK k \in P : \A m \in P : k <= m
  <2>1. P \in SUBSET Nat /\ Len(a) + 1 \in P
    BY <1>2
  <2> HIDE DEF P
  <2> QED BY <2>1, Least
<1>4. \A m \in 1..(k - 1) : m \in 1..Len(a) /\ m \in 1..Len(b) /\ a[m] = b[m]
  BY <1>3
<1>5. k \in Nat /\ k >= 1 /\ ~(k \in 1..Len(a) /\ k \in 1..Len(b) /\ a[k] = b[k])
  BY <1>3
<1> HIDE DEF P
<1>6. CASE k \in 1..Len(b) /\ k \notin 1..Len(a)
  <2>1. DiffersAt(a, b, k)
    BY <1>4, <1>6 DEF DiffersAt
  <2> QED BY <2>1, NameBeforeIs DEF a, b
<1>7. CASE k \in 1..Len(a) /\ k \notin 1..Len(b)
  <2>1. DiffersAt(b, a, k)
    BY <1>4, <1>7 DEF DiffersAt
  <2> QED BY <2>1, NameBeforeIs DEF a, b
<1>8. CASE k \in 1..Len(a) /\ k \in 1..Len(b)
  <2>1. a[k] \in Nat /\ b[k] \in Nat /\ a[k] # b[k]
    BY <1>1, <1>5, <1>8, ElementOfSeq
  <2>2. CASE a[k] < b[k]
    <3>1. DiffersAt(a, b, k)
      BY <1>4, <1>8, <2>2 DEF DiffersAt
    <3> QED BY <3>1, NameBeforeIs DEF a, b
  <2>3. CASE b[k] < a[k]
    <3>1. DiffersAt(b, a, k)
      BY <1>4, <1>8, <2>3 DEF DiffersAt
    <3> QED BY <3>1, NameBeforeIs DEF a, b
  <2> QED BY <2>1, <2>2, <2>3
<1>9. CASE k \notin 1..Len(a) /\ k \notin 1..Len(b)
  <2>1. Len(a) < k /\ Len(b) < k
    BY <1>2, <1>5, <1>9
  <2>2. Len(a) = k - 1 /\ Len(b) = k - 1
    <3>1. CASE k = 1
      BY <1>2, <2>1, <3>1
    <3>2. CASE k > 1
      <4>1. k - 1 \in 1..(k - 1)
        BY <1>5, <3>2
      <4>2. k - 1 \in 1..Len(a) /\ k - 1 \in 1..Len(b)
        BY <1>4, <4>1
      <4> QED BY <1>2, <1>5, <2>1, <4>2
    <3> QED BY <1>5, <3>1, <3>2
  <2>3. Len(a) = Len(b) /\ \A m \in 1..Len(a) : a[m] = b[m]
    BY <1>4, <2>2
  <2> QED BY <1>1, <2>3, SeqEqual
<1> QED BY <1>6, <1>7, <1>8, <1>9

-----------------------------------------------------------------------------
(***************************************************************************)
(* Sorting.  A file's rank is the number of names before its own, so       *)
(* SortedFiles lists every page exactly once.                              *)
(***************************************************************************)

\* The pages whose names are before page i's.
Below(n, i) == {j \in 1..n : NameBefore(j, i)}

\* A name that is before another one has fewer names before it.
LEMMA BelowGrows ==
  ASSUME NEW n \in Nat, NEW i \in 1..n, NEW j \in 1..n, NameBefore(i, j)
  PROVE  Cardinality(Below(n, i)) < Cardinality(Below(n, j))
<1> DEFINE A == Below(n, i)
           B == Below(n, j)
<1>1. A \in SUBSET B
  BY NameTransitive DEF Below
<1>2. i \in B /\ i \notin A
  BY NameIrreflexive DEF Below
<1>3. IsFiniteSet(B) /\ Cardinality(B) \in Nat
  <2>1. IsFiniteSet(1..n) /\ B \in SUBSET (1..n)
    BY FS_Interval DEF Below
  <2> HIDE DEF B
  <2> QED BY <2>1, FS_Subset, FS_CardinalityType
<1> HIDE DEF A, B
<1>4. IsFiniteSet(A) /\ Cardinality(A) <= Cardinality(B) /\ (Cardinality(B) = Cardinality(A) => B = A)
  BY <1>1, <1>3, FS_Subset
<1>5. Cardinality(A) \in Nat
  BY <1>4, FS_CardinalityType
<1>6. A # B
  BY <1>2
<1> QED BY <1>3, <1>4, <1>5, <1>6 DEF A, B

\* The rank of a page is below the number of pages.
LEMMA RankType ==
  ASSUME NEW n \in Nat, NEW i \in 1..n
  PROVE  Cardinality(Below(n, i)) \in 0..(n - 1)
<1> DEFINE A == Below(n, i)
<1>1. IsFiniteSet(1..n) /\ Cardinality(1..n) = n
  BY FS_Interval
<1>2. A \in SUBSET (1..n) /\ i \notin A /\ i \in 1..n
  BY NameIrreflexive DEF Below
<1> HIDE DEF A
<1>3. IsFiniteSet(A) /\ Cardinality(A) <= Cardinality(1..n) /\ (Cardinality(1..n) = Cardinality(A) => 1..n = A)
  BY <1>1, <1>2, FS_Subset
<1>4. Cardinality(A) \in Nat
  BY <1>3, FS_CardinalityType
<1>5. Cardinality(A) # n
  BY <1>1, <1>2, <1>3
<1> QED BY <1>1, <1>3, <1>4, <1>5 DEF A

\* Different pages have different ranks.
LEMMA RankInjective ==
  ASSUME NEW n \in Nat, NEW i \in 1..n, NEW j \in 1..n,
         Cardinality(Below(n, i)) = Cardinality(Below(n, j))
  PROVE  i = j
<1> SUFFICES ASSUME i # j PROVE FALSE
  OBVIOUS
<1>1. Cardinality(Below(n, i)) \in Int /\ Cardinality(Below(n, j)) \in Int
  BY RankType
<1>2. NameBefore(i, j) \/ NameBefore(j, i)
  BY NameTotal
<1>3. \/ Cardinality(Below(n, i)) < Cardinality(Below(n, j))
      \/ Cardinality(Below(n, j)) < Cardinality(Below(n, i))
  BY <1>2, BelowGrows
<1> QED BY <1>1, <1>3

\* Every rank is some page's.
LEMMA RankSurjective ==
  ASSUME NEW n \in Nat, NEW k \in 1..n
  PROVE  \E i \in 1..n : Cardinality(Below(n, i)) = k - 1
<1> DEFINE rank == [i \in 1..n |-> Cardinality(Below(n, i))]
           D == 1..n
           C == 0..(n - 1)
<1>1. rank \in [D -> C]
  BY RankType
<1>2. \A i, j \in D : rank[i] = rank[j] => i = j
  BY RankInjective
<1>3. IsFiniteSet(C) /\ Cardinality(C) = n /\ Cardinality(D) = n
  BY FS_Interval
<1>4. k - 1 \in C
  OBVIOUS
<1>5. \A i \in D : rank[i] = Cardinality(Below(n, i))
  OBVIOUS
<1> HIDE DEF rank, C, D
<1>6. rank \in Injection(D, C)
  BY <1>1, <1>2 DEF Injection, IsInjective
<1>7. rank \in Surjection(D, C)
  BY <1>3, <1>6, FS_Injection
<1>8. \E i \in D : rank[i] = k - 1
  BY <1>4, <1>7 DEF Surjection
<1> QED BY <1>5, <1>8 DEF D

\* File k has k - 1 names before its own.
LEMMA FileRank ==
  ASSUME NEW n \in Nat, NEW k \in 1..n
  PROVE  SortedFiles(n)[k] \in 1..n /\ Cardinality(Below(n, SortedFiles(n)[k])) = k - 1
<1> DEFINE files == SortedFiles(n)
<1>1. files[k] = CHOOSE i \in 1..n : Cardinality(Below(n, i)) = k - 1
  BY DEF SortedFiles, Below
<1>2. \E i \in 1..n : Cardinality(Below(n, i)) = k - 1
  BY RankSurjective
<1> HIDE DEF files
<1>3. files[k] \in 1..n /\ Cardinality(Below(n, files[k])) = k - 1
  BY <1>1, <1>2
<1> QED BY <1>3 DEF files

\* SortedFiles lists the pages, each once.
LEMMA SortedFilesIs ==
  ASSUME NEW n \in Nat
  PROVE  /\ \A k \in 1..n : SortedFiles(n)[k] \in 1..n
         /\ \A k, l \in 1..n : SortedFiles(n)[k] = SortedFiles(n)[l] => k = l
         /\ \A i \in 1..n : \E k \in 1..n : SortedFiles(n)[k] = i
<1> DEFINE files == SortedFiles(n)
<1>1. \A k \in 1..n : files[k] \in 1..n /\ Cardinality(Below(n, files[k])) = k - 1
  BY FileRank
<1> HIDE DEF files
<1>2. \A k, l \in 1..n : files[k] = files[l] => k = l
  <2> TAKE k, l \in 1..n
  <2> HAVE files[k] = files[l]
  <2>1. k - 1 = l - 1
    BY <1>1
  <2> QED BY <2>1
<1>3. \A i \in 1..n : \E k \in 1..n : files[k] = i
  <2> TAKE i \in 1..n
  <2> DEFINE r == Cardinality(Below(n, i))
  <2>1. r \in 0..(n - 1)
    BY RankType
  <2> DEFINE k == r + 1
  <2>2. k \in 1..n /\ k - 1 = r
    BY <2>1
  <2> HIDE DEF r, k
  <2>3. files[k] \in 1..n /\ Cardinality(Below(n, files[k])) = r
    BY <1>1, <2>2
  <2>4. files[k] = i
    BY <2>3, RankInjective DEF r
  <2> QED BY <2>2, <2>4
<1> QED BY <1>1, <1>2, <1>3 DEF files

\* Below ten pages the names have one digit and the order is that of the numbers.
LEMMA OneDigit ==
  ASSUME NEW i \in 0..9, NEW j \in 0..9
  PROVE  NameBefore(i, j) <=> i < j
<1> DEFINE a == Digits[i]
           b == Digits[j]
<1>1. Len(a) = 1 /\ a[1] = i /\ Len(b) = 1 /\ b[1] = j
  BY DigitsLength
<1>2. NameBefore(i, j) <=> \E k : DiffersAt(a, b, k)
  BY NameBeforeIs
<1> HIDE DEF a, b
<1>3. ASSUME NEW k, DiffersAt(a, b, k) PROVE i < j
  BY <1>1, <1>3 DEF DiffersAt
<1>4. ASSUME i < j PROVE DiffersAt(a, b, 1)
  BY <1>1, <1>4 DEF DiffersAt
<1> QED BY <1>2, <1>3, <1>4

\* But the name of page 10 is before that of page 2.
LEMMA TenBeforeTwo == ~NameBefore(2, 10)
<1> DEFINE a == Digits[2]
           b == Digits[10]
<1>1. Len(a) = 1 /\ a[1] = 2
  BY DigitsLength
<1>2. b[1] = 1
  <2>1. Digits[1] = <<1>> /\ Digits[10] = Append(Digits[1], 0)
    BY DigitsCases
  <2>2. Append(<<1>>, 0)[1] = 1
    OBVIOUS
  <2> QED BY <2>1, <2>2
<1>3. NameBefore(2, 10) <=> \E k : DiffersAt(a, b, k)
  BY NameBeforeIs
<1> HIDE DEF a, b
<1>4. ASSUME NEW k, DiffersAt(a, b, k) PROVE FALSE
  <2>1. k = 1 \/ 1 \in 1..(k - 1)
    BY <1>4 DEF DiffersAt
  <2>2. k = 1 => a[1] < b[1]
    BY <1>1, <1>4 DEF DiffersAt
  <2>3. 1 \in 1..(k - 1) => a[1] = b[1]
    BY <1>4 DEF DiffersAt
  <2> QED BY <1>1, <1>2, <2>1, <2>2, <2>3
<1> QED BY <1>3, <1>4

-----------------------------------------------------------------------------
(***************************************************************************)
(* Loops.  A loop over b..n starts with v and takes x to step[i][x] at i.  *)
(***************************************************************************)

\* Induction over the rounds of a loop.
LEMMA RangeInduction ==
  ASSUME NEW b \in Nat, NEW n \in Nat, NEW S, b \in S,
         \A i \in (b + 1)..n : i - 1 \in S => i \in S
  PROVE  \A i \in b..n : i \in S
<1> DEFINE Q == {m \in Nat : b + m <= n => b + m \in S}
<1>1. 0 \in Q
  OBVIOUS
<1>2. ASSUME NEW m \in Q PROVE m + 1 \in Q
  <2> SUFFICES ASSUME b + (m + 1) <= n PROVE b + (m + 1) \in S
    OBVIOUS
  <2> DEFINE i == b + (m + 1)
  <2>1. i \in (b + 1)..n /\ i - 1 = b + m /\ b + m <= n
    OBVIOUS
  <2>2. i - 1 \in S
    BY <2>1
  <2> HIDE DEF i
  <2> QED BY <2>1, <2>2 DEF i
<1>3. Q = Nat
  <2>1. Q \in SUBSET Nat
    OBVIOUS
  <2> HIDE DEF Q
  <2> QED BY <1>1, <1>2, <2>1, Induction
<1>4. ASSUME NEW i \in b..n PROVE i \in S
  <2>1. i - b \in Nat /\ b + (i - b) = i /\ i <= n
    OBVIOUS
  <2>2. i - b \in Q
    BY <1>3, <2>1
  <2> QED BY <2>1, <2>2
<1> QED BY <1>4

\* g holds the values of the loop at b..m.
LoopUpTo(V, b, v, step, m, g) ==
  /\ g \in [b..m -> V]
  /\ g[b] = v
  /\ \A i \in (b + 1)..m : g[i] = step[i][g[i - 1]]

\* The loop has values.
LEMMA LoopExists ==
  ASSUME NEW V, NEW b \in Nat, NEW n \in Nat, b <= n, NEW v \in V,
         NEW step \in [(b + 1)..n -> [V -> V]]
  PROVE  \E g : LoopUpTo(V, b, v, step, n, g)
<1> DEFINE S == {m \in b..n : \E g : LoopUpTo(V, b, v, step, m, g)}
<1>1. b \in S
  <2> DEFINE g == [i \in b..b |-> v]
  <2>1. g \in [b..b -> V] /\ g[b] = v /\ (b + 1)..b = {}
    OBVIOUS
  <2>2. LoopUpTo(V, b, v, step, b, g)
    BY <2>1 DEF LoopUpTo
  <2>3. b \in b..n
    OBVIOUS
  <2> QED BY <2>2, <2>3
<1>2. ASSUME NEW m \in (b + 1)..n, m - 1 \in S PROVE m \in S
  <2>1. PICK f : LoopUpTo(V, b, v, step, m - 1, f)
    BY <1>2
  <2> DEFINE w == step[m][f[m - 1]]
             g == [i \in b..m |-> IF i = m THEN w ELSE f[i]]
  <2>2. f \in [b..(m - 1) -> V] /\ f[b] = v
        /\ \A i \in (b + 1)..(m - 1) : f[i] = step[i][f[i - 1]]
    BY <2>1 DEF LoopUpTo
  <2>3. w \in V
    <3>1. m - 1 \in b..(m - 1)
      OBVIOUS
    <3>2. f[m - 1] \in V
      BY <2>2, <3>1
    <3>3. step[m] \in [V -> V]
      OBVIOUS
    <3> QED BY <3>2, <3>3
  <2>4. g[m] = w /\ \A i \in b..(m - 1) : g[i] = f[i]
    OBVIOUS
  <2>5. \A i \in b..m : g[i] \in V
    <3> TAKE i \in b..m
    <3>1. i = m \/ i \in b..(m - 1)
      OBVIOUS
    <3> HIDE DEF g, w
    <3> QED BY <2>2, <2>3, <2>4, <3>1
  <2>6. g \in [b..m -> V]
    <3> HIDE DEF w
    <3> QED BY <2>5
  <2>7. g[b] = v
    <3>1. b \in b..(m - 1)
      OBVIOUS
    <3> HIDE DEF g
    <3> QED BY <2>2, <2>4, <3>1
  <2>8. ASSUME NEW i \in (b + 1)..m PROVE g[i] = step[i][g[i - 1]]
    <3>1. i - 1 \in b..(m - 1) /\ (i = m \/ i \in (b + 1)..(m - 1)) /\ i \in b..m
      OBVIOUS
    <3>2. g[i - 1] = f[i - 1]
      <4> HIDE DEF g
      <4> QED BY <2>4, <3>1
    <3>3. CASE i = m
      <4> HIDE DEF g
      <4> QED BY <2>4, <3>2, <3>3 DEF w
    <3>4. CASE i \in (b + 1)..(m - 1)
      <4>1. i \in b..(m - 1)
        BY <3>4
      <4> HIDE DEF g
      <4> QED BY <2>2, <2>4, <3>2, <3>4, <4>1
    <3> QED BY <3>1, <3>3, <3>4
  <2> HIDE DEF g
  <2>9. LoopUpTo(V, b, v, step, m, g)
    BY <2>6, <2>7, <2>8 DEF LoopUpTo
  <2>10. m \in b..n
    OBVIOUS
  <2> QED BY <2>9, <2>10
<1>3. n \in b..n
  OBVIOUS
<1> HIDE DEF S
<1>4. n \in S
  BY <1>1, <1>2, <1>3, RangeInduction
<1> QED BY <1>4 DEF S

-----------------------------------------------------------------------------
(***************************************************************************)
(* The pages that are kept                                                 *)
(***************************************************************************)

\* What the loop over the files does at file k.
PagesLoop(n, hidden, files, g) ==
  g = [k \in 0..n |-> IF k = 0 THEN <<>>
                      ELSE IF files[k] \in hidden THEN g[k - 1] ELSE Append(g[k - 1], files[k])]

\* The loop has values, and pageContents is the last of them.
LEMMA PageContentsIs ==
  ASSUME NEW n \in Nat, NEW hidden
  PROVE  \E g : PagesLoop(n, hidden, SortedFiles(n), g) /\ PageContents(n, hidden) = g[n]
<1> DEFINE files == SortedFiles(n)
           V == Seq(Nat)
           step == [k \in (0 + 1)..n |->
                      [s \in V |-> IF files[k] \in hidden THEN s ELSE Append(s, files[k])]]
<1>1. ASSUME NEW k \in 1..n PROVE files[k] \in Nat
  <2>1. files[k] \in 1..n
    BY SortedFilesIs
  <2> QED BY <2>1
<1> HIDE DEF files
<1>2. step \in [(0 + 1)..n -> [V -> V]]
  <2>1. ASSUME NEW k \in (0 + 1)..n, NEW s \in V
        PROVE  (IF files[k] \in hidden THEN s ELSE Append(s, files[k])) \in V
    <3>1. files[k] \in Nat
      BY <1>1
    <3>2. Append(s, files[k]) \in V
      BY <3>1, AppendProperties
    <3> QED BY <3>2
  <2> HIDE DEF V
  <2> QED BY <2>1
<1>3. /\ \A k \in 1..n : \A s \in V :
           step[k][s] = IF files[k] \in hidden THEN s ELSE Append(s, files[k])
  <2>1. \A k \in (0 + 1)..n : \A s \in V :
          step[k][s] = IF files[k] \in hidden THEN s ELSE Append(s, files[k])
    <3> HIDE DEF V
    <3> QED OBVIOUS
  <2>2. 0 + 1 = 1
    OBVIOUS
  <2> HIDE DEF V, step
  <2> QED BY <2>1, <2>2
<1>4. <<>> \in V
  BY EmptySeq
<1> HIDE DEF step, V
<1>5. PICK f : LoopUpTo(V, 0, <<>>, step, n, f)
  <2> DEFINE none == <<>>
  <2>1. none \in V
    BY <1>4
  <2> HIDE DEF none
  <2>2. 0 \in Nat /\ 0 <= n
    OBVIOUS
  <2>3. \E f : LoopUpTo(V, 0, none, step, n, f)
    BY <1>2, <2>1, <2>2, LoopExists
  <2> QED BY <2>3 DEF none
<1>6. f \in [0..n -> V] /\ f[0] = <<>> /\ \A k \in 1..n : f[k] = step[k][f[k - 1]]
  <2>1. 0 + 1 = 1
    OBVIOUS
  <2> QED BY <1>5, <2>1, Zenon DEF LoopUpTo
<1>7. ASSUME NEW k \in 0..n
      PROVE  f[k] = IF k = 0 THEN <<>>
                    ELSE IF files[k] \in hidden THEN f[k - 1] ELSE Append(f[k - 1], files[k])
  <2>1. CASE k = 0
    BY <1>6, <2>1
  <2>2. CASE k # 0
    <3>1. k \in 1..n /\ k - 1 \in 0..n
      BY <2>2
    <3>2. f[k] = step[k][f[k - 1]] /\ f[k - 1] \in V
      BY <1>6, <3>1
    <3> QED BY <1>3, <2>2, <3>1, <3>2
  <2> QED BY <2>1, <2>2
<1>8. PagesLoop(n, hidden, files, f)
  <2>1. f = [k \in 0..n |-> f[k]]
    BY <1>6
  <2> QED BY <1>7, <2>1 DEF PagesLoop
<1> DEFINE g == CHOOSE h : PagesLoop(n, hidden, files, h)
<1>9. PagesLoop(n, hidden, files, g)
  BY <1>8
<1>10. PageContents(n, hidden) = g[n]
  BY DEF PageContents, PagesLoop, files
<1> HIDE DEF g
<1> QED BY <1>9, <1>10 DEF files

\* The files are in the order of their names.
LEMMA FilesInOrder ==
  ASSUME NEW n \in Nat, NEW k \in 1..n, NEW l \in 1..n, k < l
  PROVE  NameBefore(SortedFiles(n)[k], SortedFiles(n)[l])
<1> DEFINE i == SortedFiles(n)[k]
           j == SortedFiles(n)[l]
<1>1. /\ i \in 1..n /\ Cardinality(Below(n, i)) = k - 1
      /\ j \in 1..n /\ Cardinality(Below(n, j)) = l - 1
  BY FileRank
<1> HIDE DEF i, j
<1>2. ~NameBefore(j, i)
  <2>1. NameBefore(j, i) => l - 1 < k - 1
    BY <1>1, BelowGrows
  <2> QED BY <2>1
<1>3. i # j
  BY <1>1
<1>4. NameBefore(i, j)
  BY <1>1, <1>2, <1>3, NameTotal
<1> QED BY <1>4 DEF i, j

\* s holds the pages of the first k files with text, in order.
Holds(hidden, files, k, s) ==
  /\ s \in Seq(Nat)
  /\ \A p \in 1..Len(s) : \E l \in 1..k : s[p] = files[l] /\ files[l] \notin hidden
  /\ \A l \in 1..k : files[l] \notin hidden => \E p \in 1..Len(s) : s[p] = files[l]
  /\ \A p, q \in 1..Len(s) : p < q => NameBefore(s[p], s[q])

\* A file with text is added behind the others.
LEMMA HoldsMore ==
  ASSUME NEW n \in Nat, NEW hidden, NEW files, NEW k \in 1..n, NEW s,
         Holds(hidden, files, k - 1, s), files[k] \in Nat, files[k] \notin hidden,
         \A l \in 1..(k - 1) : NameBefore(files[l], files[k])
  PROVE  Holds(hidden, files, k, Append(s, files[k]))
<1> DEFINE e == files[k]
           t == Append(s, e)
<1>1. s \in Seq(Nat) /\ e \in Nat /\ e \notin hidden
  BY DEF Holds
<1>2. /\ \A p \in 1..Len(s) : \E l \in 1..(k - 1) : s[p] = files[l] /\ files[l] \notin hidden
      /\ \A l \in 1..(k - 1) : files[l] \notin hidden => \E p \in 1..Len(s) : s[p] = files[l]
      /\ \A p, q \in 1..Len(s) : p < q => NameBefore(s[p], s[q])
  BY DEF Holds
<1>3. e = files[k]
  OBVIOUS
<1> HIDE DEF e
<1>4. /\ t \in Seq(Nat) /\ Len(t) = Len(s) + 1 /\ t[Len(s) + 1] = e
      /\ \A p \in 1..Len(s) : t[p] = s[p]
  BY <1>1, AppendProperties
<1>5. Len(s) \in Nat
  BY <1>1
<1> HIDE DEF t
<1>6. \A p \in 1..Len(t) : p \in 1..Len(s) \/ p = Len(s) + 1
  BY <1>4, <1>5
<1>7. \A l \in 1..k : l \in 1..(k - 1) \/ l = k
  OBVIOUS
<1>8. 1..(k - 1) \subseteq 1..k /\ k \in 1..k /\ 1..Len(s) \subseteq 1..Len(t) /\ Len(s) + 1 \in 1..Len(t)
  BY <1>4, <1>5
<1>9. ASSUME NEW p \in 1..Len(t)
      PROVE  \E l \in 1..k : t[p] = files[l] /\ files[l] \notin hidden
  <2>1. CASE p \in 1..Len(s)
    <3>1. PICK l \in 1..(k - 1) : s[p] = files[l] /\ files[l] \notin hidden
      BY <1>2, <2>1
    <3>2. t[p] = s[p] /\ l \in 1..k
      BY <1>4, <1>8, <2>1
    <3> QED BY <3>1, <3>2
  <2>2. CASE p = Len(s) + 1
    BY <1>1, <1>3, <1>4, <1>8, <2>2, Zenon
  <2> QED BY <1>6, <2>1, <2>2
<1>10. ASSUME NEW l \in 1..k, files[l] \notin hidden
       PROVE  \E p \in 1..Len(t) : t[p] = files[l]
  <2>1. CASE l \in 1..(k - 1)
    <3>1. PICK p \in 1..Len(s) : s[p] = files[l]
      BY <1>2, <1>10, <2>1
    <3>2. t[p] = s[p] /\ p \in 1..Len(t)
      BY <1>4, <1>8
    <3> QED BY <3>1, <3>2
  <2>2. CASE l = k
    BY <1>3, <1>4, <1>8, <2>2, Zenon
  <2> QED BY <1>7, <2>1, <2>2
<1>11. ASSUME NEW p \in 1..Len(t), NEW q \in 1..Len(t), p < q
       PROVE  NameBefore(t[p], t[q])
  <2>1. p \in 1..Len(s)
    BY <1>4, <1>5, <1>11
  <2>2. t[p] = s[p]
    BY <1>4, <2>1
  <2>3. CASE q \in 1..Len(s)
    <3>1. t[q] = s[q] /\ NameBefore(s[p], s[q])
      BY <1>2, <1>4, <1>11, <2>1, <2>3
    <3> QED BY <2>2, <3>1
  <2>4. CASE q = Len(s) + 1
    <3>1. PICK l \in 1..(k - 1) : s[p] = files[l]
      BY <1>2, <2>1
    <3>2. NameBefore(files[l], e)
      BY <1>3
    <3> QED BY <1>4, <2>2, <2>4, <3>1, <3>2, Zenon
  <2> QED BY <1>6, <2>3, <2>4
<1>12. Holds(hidden, files, k, t)
  BY <1>4, <1>9, <1>10, <1>11 DEF Holds
<1> QED BY <1>12 DEF t, e

\* A blank page is passed over.
LEMMA HoldsSame ==
  ASSUME NEW n \in Nat, NEW hidden, NEW files, NEW k \in 1..n, NEW s,
         Holds(hidden, files, k - 1, s), files[k] \in hidden
  PROVE  Holds(hidden, files, k, s)
<1>1. \A l \in 1..k : l \in 1..(k - 1) \/ l = k
  OBVIOUS
<1>2. 1..(k - 1) \subseteq 1..k
  OBVIOUS
<1>3. \A p \in 1..Len(s) : \E l \in 1..k : s[p] = files[l] /\ files[l] \notin hidden
  BY <1>2 DEF Holds
<1>4. \A l \in 1..k : files[l] \notin hidden => \E p \in 1..Len(s) : s[p] = files[l]
  BY <1>1 DEF Holds
<1> QED BY <1>3, <1>4 DEF Holds

\* So pageContents holds the pages with text.
LEMMA PageContentsHold ==
  ASSUME NEW n \in Nat, NEW hidden
  PROVE  Holds(hidden, SortedFiles(n), n, PageContents(n, hidden))
<1> DEFINE files == SortedFiles(n)
<1>1. PICK g : PagesLoop(n, hidden, files, g) /\ PageContents(n, hidden) = g[n]
  BY PageContentsIs
<1>2. \A k \in 1..n : files[k] \in Nat
  <2>1. \A k \in 1..n : files[k] \in 1..n
    BY SortedFilesIs
  <2> HIDE DEF files
  <2> QED BY <2>1
<1>3. \A k, l \in 1..n : k < l => NameBefore(files[k], files[l])
  BY FilesInOrder
<1> HIDE DEF files
<1>4. \A k \in 0..n : g[k] = IF k = 0 THEN <<>>
                             ELSE IF files[k] \in hidden THEN g[k - 1] ELSE Append(g[k - 1], files[k])
  BY <1>1 DEF PagesLoop
<1> DEFINE S == {k \in 0..n : Holds(hidden, files, k, g[k])}
<1>5. 0 \in S
  <2>1. g[0] = <<>> /\ 0 \in 0..n
    BY <1>4
  <2>2. <<>> \in Seq(Nat) /\ Len(<<>>) = 0 /\ 1..0 = {}
    BY EmptySeq
  <2>3. Holds(hidden, files, 0, g[0])
    BY <2>1, <2>2 DEF Holds
  <2> QED BY <2>1, <2>3
<1>6. ASSUME NEW k \in (0 + 1)..n, k - 1 \in S PROVE k \in S
  <2>1. k \in 1..n /\ k \in 0..n /\ k # 0
    OBVIOUS
  <2>2. Holds(hidden, files, k - 1, g[k - 1])
    BY <1>6
  <2>3. g[k] = IF files[k] \in hidden THEN g[k - 1] ELSE Append(g[k - 1], files[k])
    BY <1>4, <2>1
  <2> HIDE DEF S
  <2>4. CASE files[k] \in hidden
    <3>1. g[k] = g[k - 1]
      BY <2>3, <2>4, Zenon
    <3>2. Holds(hidden, files, k, g[k - 1])
      BY <2>1, <2>2, <2>4, HoldsSame
    <3> QED BY <2>1, <3>1, <3>2, Zenon DEF S
  <2>5. CASE files[k] \notin hidden
    <3>1. g[k] = Append(g[k - 1], files[k])
      BY <2>3, <2>5, Zenon
    <3>2. \A l \in 1..(k - 1) : NameBefore(files[l], files[k])
      BY <1>3, <2>1
    <3>3. Holds(hidden, files, k, Append(g[k - 1], files[k]))
      BY <1>2, <2>1, <2>2, <2>5, <3>2, HoldsMore
    <3> QED BY <2>1, <3>1, <3>3, Zenon DEF S
  <2> QED BY <2>4, <2>5
<1>7. n \in S
  <2>1. n \in 0..n
    OBVIOUS
  <2> HIDE DEF S
  <2> QED BY <1>5, <1>6, <2>1, RangeInduction
<1> QED BY <1>1, <1>7 DEF files

-----------------------------------------------------------------------------
(***************************************************************************)
(* The document                                                            *)
(***************************************************************************)

\* Blank pages are pages of the document.
PdfInv == pageCount \in Nat /\ blank \subseteq 1..pageCount

\* A sequence of the numbers 1..m in ascending order is the identity.
LEMMA AscendingIsIdentity ==
  ASSUME NEW s \in Seq(Nat), NEW m \in Nat,
         \A p \in 1..Len(s) : s[p] \in 1..m,
         \A i \in 1..m : \E p \in 1..Len(s) : s[p] = i,
         \A p, q \in 1..Len(s) : p < q => s[p] < s[q]
  PROVE  \A k \in 1..Len(s) : s[k] = k
<1> DEFINE S == {k \in Nat : k \in 1..Len(s) => s[k] = k}
<1>1. Len(s) \in Nat
  BY LenProperties
<1>2. ASSUME NEW k \in Nat, \A j \in 0..(k - 1) : j \in S PROVE k \in S
  <2> SUFFICES ASSUME k \in 1..Len(s) PROVE s[k] = k
    OBVIOUS
  <2>1. \A j \in 1..(k - 1) : s[j] = j
    <3> TAKE j \in 1..(k - 1)
    <3>1. j \in 0..(k - 1) /\ j \in 1..Len(s)
      BY <1>1
    <3> QED BY <1>2, <3>1
  <2>2. s[k] \in 1..m
    OBVIOUS
  <2>3. s[k] >= k
    <3>1. CASE k = 1
      BY <2>2, <3>1
    <3>2. CASE k # 1
      <4>1. k - 1 \in 1..(k - 1) /\ k - 1 \in 1..Len(s) /\ k - 1 < k
        BY <1>1, <3>2
      <4>2. s[k - 1] = k - 1 /\ s[k - 1] < s[k]
        BY <2>1, <4>1
      <4> QED BY <2>2, <4>2
    <3> QED BY <3>1, <3>2
  <2>4. k \in 1..m
    BY <2>2, <2>3
  <2>5. PICK q \in 1..Len(s) : s[q] = k
    BY <2>4
  <2>6. ~(q < k)
    <3>1. q < k => q \in 1..(k - 1)
      BY <1>1
    <3>2. q < k => s[q] = q
      BY <2>1, <3>1
    <3> QED BY <1>1, <2>5, <3>2
  <2>7. ~(k < q)
    <3>1. k < q => s[k] < s[q]
      OBVIOUS
    <3> QED BY <2>2, <2>3, <2>5, <3>1
  <2>8. q = k
    BY <1>1, <2>6, <2>7
  <2> QED BY <2>5, <2>8
<1>3. S = Nat
  <2> HIDE DEF S
  <2> QED BY <1>2, StrongInduction DEF S
<1>4. \A k \in 1..Len(s) : k \in Nat
  BY <1>1
<1>5. \A k \in 1..Len(s) : k \in S
  <2> HIDE DEF S
  <2> QED BY <1>3, <1>4
<1> QED BY <1>5

\* The pages kept and their numbers, when PdfInv holds.
LEMMA PagesAreKept == PdfInv => PageNumbersRightUpToNine
<1> SUFFICES ASSUME PdfInv PROVE PageNumbersRightUpToNine
  OBVIOUS
<1> DEFINE pages == PageContents(pageCount, blank)
           files == SortedFiles(pageCount)
           withText == (1..pageCount) \ blank
           N == Len(pages)
<1>1. pageCount \in Nat /\ blank \subseteq 1..pageCount
  BY DEF PdfInv
<1>2. Holds(blank, files, pageCount, pages)
  BY <1>1, PageContentsHold
<1>3. /\ \A k \in 1..pageCount : files[k] \in 1..pageCount
      /\ \A i \in 1..pageCount : \E k \in 1..pageCount : files[k] = i
  BY <1>1, SortedFilesIs
<1> HIDE DEF pages, files
<1>4. DOMAIN pages = 1..N /\ N \in Nat /\ pages \in Seq(Nat)
  BY <1>2, LenProperties DEF Holds
<1>5. \A k \in 1..N : pages[k] \in withText
  <2> TAKE k \in 1..N
  <2>1. PICK l \in 1..pageCount : pages[k] = files[l] /\ files[l] \notin blank
    BY <1>2 DEF Holds
  <2> QED BY <1>3, <2>1
<1>6. \A i \in withText : \E k \in 1..N : pages[k] = i
  <2> TAKE i \in withText
  <2>1. PICK l \in 1..pageCount : files[l] = i
    BY <1>3
  <2> QED BY <1>2, <2>1 DEF Holds
<1>7. \A k, l \in 1..N : k < l => NameBefore(pages[k], pages[l])
  BY <1>2 DEF Holds
<1>8. \A k \in 1..N : pages[k] \in Nat
  BY <1>4, ElementOfSeq
<1> HIDE DEF withText, N
<1>9. {pages[k] : k \in DOMAIN pages} = withText
  BY <1>4, <1>5, <1>6
<1>10. ASSUME NEW k \in 1..N, NEW l \in 1..N, k # l PROVE pages[k] # pages[l]
  <2>1. k < l \/ l < k
    BY <1>4, <1>10
  <2>2. NameBefore(pages[k], pages[l]) \/ NameBefore(pages[l], pages[k])
    BY <1>7, <2>1
  <2> QED BY <1>8, <2>2, NameIrreflexive
<1>11. ASSUME NEW m \in 0..9, withText = 1..m PROVE \A k \in 1..N : pages[k] = k
  <2>1. m \in Nat
    OBVIOUS
  <2>2. \A k \in 1..N : pages[k] \in 1..m
    BY <1>5, <1>11
  <2>3. \A i \in 1..m : \E k \in 1..N : pages[k] = i
    BY <1>6, <1>11
  <2>4. ASSUME NEW k \in 1..N, NEW l \in 1..N, k < l PROVE pages[k] < pages[l]
    <3>1. pages[k] \in 0..9 /\ pages[l] \in 0..9
      BY <2>2
    <3> QED BY <1>7, <2>4, <3>1, OneDigit
  <2> QED BY <1>4, <2>1, <2>2, <2>3, <2>4, AscendingIsIdentity DEF N
<1>12. ASSUME \A k \in 1..N : pages[k] = k PROVE N \in 0..9 /\ withText = 1..N
  <2>1. withText = 1..N
    <3>1. ASSUME NEW i \in withText PROVE i \in 1..N
      BY <1>6, <1>12
    <3>2. ASSUME NEW k \in 1..N PROVE k \in withText
      BY <1>5, <1>12
    <3> QED BY <3>1, <3>2
  <2>2. N <= 9
    <3> SUFFICES ASSUME ~(N <= 9) PROVE FALSE
      OBVIOUS
    <3>1. 2 \in 1..N /\ 10 \in 1..N /\ 2 < 10
      BY <1>4
    <3>2. pages[2] = 2 /\ pages[10] = 10 /\ NameBefore(pages[2], pages[10])
      BY <1>7, <1>12, <3>1
    <3> QED BY <3>2, TenBeforeTwo
  <2> QED BY <1>4, <2>1, <2>2
<1>13. (\A k \in DOMAIN pages : pages[k] = k) <=> (\E m \in 0..9 : withText = 1..m)
  BY <1>4, <1>11, <1>12
<1>14. \A k, l \in DOMAIN pages : k # l => pages[k] # pages[l]
  BY <1>4, <1>10
<1> QED BY <1>9, <1>13, <1>14, Zenon DEF PageNumbersRightUpToNine, pages, withText

\* It holds throughout.
LEMMA PdfInvariant == Spec => []PdfInv
<1>1. Init => PdfInv
  BY DEF Init, PdfInv
<1>2. PdfInv /\ [Next]_vars => PdfInv'
  <2> SUFFICES ASSUME PdfInv, [Next]_vars PROVE PdfInv'
    OBVIOUS
  <2>1. CASE UNCHANGED <<pageCount, blank>>
    BY <2>1 DEF PdfInv
  <2>2. CASE NextPage
    <3>1. pageCount \in Nat /\ blank \subseteq 1..pageCount
      BY DEF PdfInv
    <3>2. pageCount' = pageCount + 1 /\ (blank' = blank \/ blank' = blank \cup {pageCount + 1})
      BY <2>2 DEF NextPage
    <3>3. 1..pageCount \subseteq 1..(pageCount + 1) /\ pageCount + 1 \in 1..(pageCount + 1)
      BY <3>1
    <3>4. blank' \subseteq 1..(pageCount + 1)
      BY <3>1, <3>2, <3>3
    <3> QED BY <3>1, <3>2, <3>4 DEF PdfInv
  <2> QED BY <2>1, <2>2 DEF Next, Distraction, Pause, TabSwitches, LessActive, Worsen,
                            CompleteSession, vars
<1> QED BY <1>1, <1>2, PTL DEF Spec

\* extractPdfFromGcs: whatever the number of pages and whichever of them are blank,
\* sorting the result files by name and numbering the pages in that order stores every
\* page with text exactly once, and gives all of them their number in the document if
\* and only if they are its first m pages, m <= 9.
THEOREM PageNumbersAreRightUpToNine == Spec => []PageNumbersRightUpToNine
  BY PagesAreKept, PdfInvariant, PTL

-----------------------------------------------------------------------------
(***************************************************************************)
(* The days of the sessions                                                *)
(***************************************************************************)

\* Completed sessions, newest first.
Completed == [day : Nat, focusScore : Nat]

NewestFirst(rs) ==
  /\ rs \in Seq(Completed)
  /\ \A i, j \in 1..Len(rs) : i < j => rs[i].day >= rs[j].day

\* What the loop over the sessions does at session i.
DaysLoop(rs, g) ==
  g = [i \in 0..Len(rs) |->
         IF i = 0 THEN <<>>
         ELSE IF \E j \in 1..(i - 1) : rs[j].day = rs[i].day THEN g[i - 1]
         ELSE Append(g[i - 1], rs[i].day)]

\* The loop has values, and dayStrings is the last of them.
LEMMA DayStringsIs ==
  ASSUME NEW rs \in Seq(Completed)
  PROVE  \E g : DaysLoop(rs, g) /\ DayStrings(rs) = g[Len(rs)]
<1> DEFINE n == Len(rs)
           Old(i) == \E j \in 1..(i - 1) : rs[j].day = rs[i].day
           V == Seq(Nat)
           step == [i \in (0 + 1)..n |->
                      [s \in V |-> IF Old(i) THEN s ELSE Append(s, rs[i].day)]]
<1>1. n \in Nat
  BY LenProperties
<1>2. ASSUME NEW i \in 1..n PROVE rs[i].day \in Nat
  <2>1. rs[i] \in Completed
    BY ElementOfSeq
  <2> QED BY <2>1 DEF Completed
<1> HIDE DEF Old, n
<1>3. step \in [(0 + 1)..n -> [V -> V]]
  <2>1. ASSUME NEW i \in (0 + 1)..n, NEW s \in V
        PROVE  (IF Old(i) THEN s ELSE Append(s, rs[i].day)) \in V
    <3>1. rs[i].day \in Nat
      BY <1>2
    <3>2. Append(s, rs[i].day) \in V
      BY <3>1, AppendProperties
    <3> QED BY <3>2
  <2> HIDE DEF V
  <2> QED BY <2>1
<1>4. \A i \in 1..n : \A s \in V : step[i][s] = IF Old(i) THEN s ELSE Append(s, rs[i].day)
  <2>1. \A i \in (0 + 1)..n : \A s \in V :
          step[i][s] = IF Old(i) THEN s ELSE Append(s, rs[i].day)
    <3> HIDE DEF V
    <3> QED OBVIOUS
  <2>2. 0 + 1 = 1
    OBVIOUS
  <2> HIDE DEF V, step
  <2> QED BY <2>1, <2>2
<1>5. <<>> \in V
  BY EmptySeq
<1> HIDE DEF step, V
<1>6. PICK f : LoopUpTo(V, 0, <<>>, step, n, f)
  <2> DEFINE none == <<>>
  <2>1. none \in V
    BY <1>5
  <2> HIDE DEF none
  <2>2. 0 \in Nat /\ 0 <= n
    BY <1>1
  <2>3. \E f : LoopUpTo(V, 0, none, step, n, f)
    BY <1>1, <1>3, <2>1, <2>2, LoopExists
  <2> QED BY <2>3 DEF none
<1>7. f \in [0..n -> V] /\ f[0] = <<>> /\ \A i \in 1..n : f[i] = step[i][f[i - 1]]
  <2>1. 0 + 1 = 1
    OBVIOUS
  <2> QED BY <1>6, <2>1, Zenon DEF LoopUpTo
<1>8. ASSUME NEW i \in 0..n
      PROVE  f[i] = IF i = 0 THEN <<>>
                    ELSE IF Old(i) THEN f[i - 1] ELSE Append(f[i - 1], rs[i].day)
  <2>1. CASE i = 0
    BY <1>7, <2>1
  <2>2. CASE i # 0
    <3>1. i \in 1..n /\ i - 1 \in 0..n
      BY <1>1, <2>2
    <3>2. f[i] = step[i][f[i - 1]] /\ f[i - 1] \in V
      BY <1>7, <3>1
    <3> QED BY <1>4, <2>2, <3>1, <3>2
  <2> QED BY <2>1, <2>2
<1>9. DaysLoop(rs, f)
  <2>1. f = [i \in 0..n |-> f[i]]
    BY <1>7
  <2>2. f = [i \in 0..n |-> IF i = 0 THEN <<>>
                            ELSE IF Old(i) THEN f[i - 1] ELSE Append(f[i - 1], rs[i].day)]
    BY <1>8, <2>1
  <2> QED BY <2>2 DEF DaysLoop, Old, n
<1> DEFINE g == CHOOSE h : DaysLoop(rs, h)
<1>10. DaysLoop(rs, g)
  BY <1>9
<1>11. DayStrings(rs) = g[n]
  BY DEF DayStrings, DaysLoop, n
<1> HIDE DEF g
<1> QED BY <1>10, <1>11 DEF n

\* s lists the days of the first i sessions, falling.
Lists(rs, i, s) ==
  /\ s \in Seq(Nat)
  /\ \A p \in 1..Len(s) : \E j \in 1..i : s[p] = rs[j].day
  /\ \A j \in 1..i : \E p \in 1..Len(s) : s[p] = rs[j].day
  /\ \A p, q \in 1..Len(s) : p < q => s[p] > s[q]

\* A day that is new is earlier than the days before it.
LEMMA ListsMore ==
  ASSUME NEW rs, NewestFirst(rs), NEW i \in 1..Len(rs), NEW s, Lists(rs, i - 1, s),
         ~ \E j \in 1..(i - 1) : rs[j].day = rs[i].day
  PROVE  Lists(rs, i, Append(s, rs[i].day))
<1> DEFINE e == rs[i].day
           t == Append(s, e)
<1>1. rs \in Seq(Completed) /\ Len(rs) \in Nat /\ i \in Nat
  BY LenProperties DEF NewestFirst
<1>2. \A j \in 1..Len(rs) : rs[j].day \in Nat
  <2>1. \A j \in 1..Len(rs) : rs[j] \in Completed
    BY <1>1, ElementOfSeq
  <2> QED BY <2>1 DEF Completed
<1>3. \A j \in 1..(i - 1) : j \in 1..Len(rs) /\ j < i
  BY <1>1
<1>4. \A j \in 1..(i - 1) : rs[j].day > e
  <2>1. \A j \in 1..(i - 1) : rs[j].day >= e /\ rs[j].day # e
    BY <1>3 DEF NewestFirst
  <2> QED BY <1>2, <1>3, <2>1
<1>5. s \in Seq(Nat) /\ e \in Nat /\ e = rs[i].day
  BY <1>2 DEF Lists
<1>6. /\ \A p \in 1..Len(s) : \E j \in 1..(i - 1) : s[p] = rs[j].day
      /\ \A j \in 1..(i - 1) : \E p \in 1..Len(s) : s[p] = rs[j].day
      /\ \A p, q \in 1..Len(s) : p < q => s[p] > s[q]
  BY DEF Lists
<1> HIDE DEF e
<1>7. /\ t \in Seq(Nat) /\ Len(t) = Len(s) + 1 /\ t[Len(s) + 1] = e
      /\ \A p \in 1..Len(s) : t[p] = s[p]
  BY <1>5, AppendProperties
<1>8. Len(s) \in Nat
  BY <1>5
<1> HIDE DEF t
<1>9. \A p \in 1..Len(t) : p \in 1..Len(s) \/ p = Len(s) + 1
  BY <1>7, <1>8
<1>10. \A j \in 1..i : j \in 1..(i - 1) \/ j = i
  BY <1>1
<1>11. 1..(i - 1) \subseteq 1..i /\ i \in 1..i /\ 1..Len(s) \subseteq 1..Len(t) /\ Len(s) + 1 \in 1..Len(t)
  BY <1>1, <1>7, <1>8
<1>12. ASSUME NEW p \in 1..Len(t) PROVE \E j \in 1..i : t[p] = rs[j].day
  <2>1. CASE p \in 1..Len(s)
    <3>1. PICK j \in 1..(i - 1) : s[p] = rs[j].day
      BY <1>6, <2>1
    <3>2. t[p] = s[p] /\ j \in 1..i
      BY <1>7, <1>11, <2>1
    <3> QED BY <3>1, <3>2
  <2>2. CASE p = Len(s) + 1
    BY <1>5, <1>7, <1>11, <2>2, Zenon
  <2> QED BY <1>9, <2>1, <2>2
<1>13. ASSUME NEW j \in 1..i PROVE \E p \in 1..Len(t) : t[p] = rs[j].day
  <2>1. CASE j \in 1..(i - 1)
    <3>1. PICK p \in 1..Len(s) : s[p] = rs[j].day
      BY <1>6, <2>1
    <3>2. t[p] = s[p] /\ p \in 1..Len(t)
      BY <1>7, <1>11
    <3> QED BY <3>1, <3>2
  <2>2. CASE j = i
    BY <1>5, <1>7, <1>11, <2>2, Zenon
  <2> QED BY <1>10, <2>1, <2>2
<1>14. ASSUME NEW p \in 1..Len(t), NEW q \in 1..Len(t), p < q PROVE t[p] > t[q]
  <2>1. p \in 1..Len(s)
    BY <1>7, <1>8, <1>14
  <2>2. t[p] = s[p]
    BY <1>7, <2>1
  <2>3. CASE q \in 1..Len(s)
    <3>1. t[q] = s[q] /\ s[p] > s[q]
      BY <1>6, <1>7, <1>14, <2>1, <2>3
    <3> QED BY <2>2, <3>1
  <2>4. CASE q = Len(s) + 1
    <3>1. PICK j \in 1..(i - 1) : s[p] = rs[j].day
      BY <1>6, <2>1
    <3>2. rs[j].day > e
      BY <1>4
    <3> QED BY <1>7, <2>2, <2>4, <3>1, <3>2, Zenon
  <2> QED BY <1>9, <2>3, <2>4
<1>15. Lists(rs, i, t)
  BY <1>7, <1>12, <1>13, <1>14 DEF Lists
<1> QED BY <1>15 DEF t, e

\* A day that is in the list already is not added.
LEMMA ListsSame ==
  ASSUME NEW rs, NEW i \in Nat \ {0}, NEW s, Lists(rs, i - 1, s),
         \E j \in 1..(i - 1) : rs[j].day = rs[i].day
  PROVE  Lists(rs, i, s)
<1>1. \A j \in 1..i : j \in 1..(i - 1) \/ j = i
  OBVIOUS
<1>2. 1..(i - 1) \subseteq 1..i
  OBVIOUS
<1>3. \A p \in 1..Len(s) : \E j \in 1..i : s[p] = rs[j].day
  BY <1>2 DEF Lists
<1>4. ASSUME NEW j \in 1..i PROVE \E p \in 1..Len(s) : s[p] = rs[j].day
  <2>1. \E k \in 1..(i - 1) : rs[k].day = rs[j].day
    BY <1>1
  <2> QED BY <2>1 DEF Lists
<1> QED BY <1>3, <1>4 DEF Lists

\* dayStrings lists the days of all the sessions.
LEMMA DayStringsLists ==
  ASSUME NEW rs, NewestFirst(rs)
  PROVE  Lists(rs, Len(rs), DayStrings(rs))
<1> DEFINE n == Len(rs)
<1>1. rs \in Seq(Completed) /\ n \in Nat
  BY LenProperties DEF NewestFirst
<1>2. PICK g : DaysLoop(rs, g) /\ DayStrings(rs) = g[Len(rs)]
  BY <1>1, DayStringsIs
<1>3. \A i \in 0..n : g[i] = IF i = 0 THEN <<>>
                             ELSE IF \E j \in 1..(i - 1) : rs[j].day = rs[i].day THEN g[i - 1]
                             ELSE Append(g[i - 1], rs[i].day)
  BY <1>2, Zenon DEF DaysLoop
<1> HIDE DEF n
<1> DEFINE S == {i \in 0..n : Lists(rs, i, g[i])}
<1>4. 0 \in S
  <2>1. g[0] = <<>> /\ 0 \in 0..n
    BY <1>1, <1>3
  <2>2. <<>> \in Seq(Nat) /\ Len(<<>>) = 0 /\ 1..0 = {}
    BY EmptySeq
  <2>3. Lists(rs, 0, g[0])
    BY <2>1, <2>2 DEF Lists
  <2> QED BY <2>1, <2>3
<1>5. ASSUME NEW i \in (0 + 1)..n, i - 1 \in S PROVE i \in S
  <2>1. i \in 1..n /\ i \in 0..n /\ i # 0 /\ i \in Nat \ {0}
    BY <1>1
  <2>2. Lists(rs, i - 1, g[i - 1])
    BY <1>5
  <2> HIDE DEF S
  <2> DEFINE Old == \E j \in 1..(i - 1) : rs[j].day = rs[i].day
  <2>3. g[i] = IF Old THEN g[i - 1] ELSE Append(g[i - 1], rs[i].day)
    BY <1>3, <2>1, Zenon
  <2>4. CASE Old
    <3>1. Lists(rs, i, g[i - 1])
      BY <2>1, <2>2, <2>4, ListsSame
    <3> HIDE DEF Old
    <3>2. g[i] = g[i - 1]
      BY <2>3, <2>4, Zenon
    <3> QED BY <2>1, <3>1, <3>2, Zenon DEF S
  <2>5. CASE ~Old
    <3>1. Lists(rs, i, Append(g[i - 1], rs[i].day))
      BY <2>1, <2>2, <2>5, ListsMore DEF n
    <3> HIDE DEF Old
    <3>2. g[i] = Append(g[i - 1], rs[i].day)
      BY <2>3, <2>5, Zenon
    <3> QED BY <2>1, <3>1, <3>2, Zenon DEF S
  <2> HIDE DEF Old
  <2> QED BY <2>4, <2>5
<1>6. n \in S
  <2>1. n \in 0..n
    BY <1>1
  <2> HIDE DEF S
  <2> QED BY <1>1, <1>4, <1>5, <2>1, RangeInduction
<1> QED BY <1>2, <1>6 DEF n

-----------------------------------------------------------------------------
(***************************************************************************)
(* Runs of consecutive days in a falling list                              *)
(***************************************************************************)

Falling(ds) ==
  /\ ds \in Seq(Nat)
  /\ \A p, q \in 1..Len(ds) : p < q => ds[p] > ds[q]

DaysOf(ds) == {ds[p] : p \in 1..Len(ds)}

\* The day at k is the day before the one at k - 1.
Linked(ds, k) == ds[k] = ds[k - 1] - 1

\* The loops' test of the distance is about that.
LEMMA LinkedIs ==
  ASSUME NEW ds, Falling(ds), NEW k \in 2..Len(ds)
  PROVE  (DaysBetween(ds[k], ds[k - 1]) <= 1 <=> Linked(ds, k))
         /\ (DaysBetween(ds[k], ds[k - 1]) > 1 <=> ~Linked(ds, k))
<1>1. ds \in Seq(Nat) /\ Len(ds) \in Nat
  BY LenProperties DEF Falling
<1>2. k \in 1..Len(ds) /\ k - 1 \in 1..Len(ds) /\ k - 1 < k
  BY <1>1
<1> DEFINE a == ds[k]
           b == ds[k - 1]
<1>3. a \in Nat /\ b \in Nat
  BY <1>1, <1>2, ElementOfSeq
<1>4. b > a
  BY <1>2 DEF Falling
<1>5. Linked(ds, k) <=> a = b - 1
  BY DEF Linked
<1> HIDE DEF a, b
<1>6. (DaysBetween(a, b) <= 1 <=> a = b - 1) /\ (DaysBetween(a, b) > 1 <=> a # b - 1)
  BY <1>3, <1>4 DEF DaysBetween
<1> QED BY <1>5, <1>6 DEF a, b

\* There is one number of days that a run of days that ends with d has.
LEMMA RunIs ==
  ASSUME NEW D \in SUBSET Int, IsFiniteSet(D), NEW d \in Int, NEW n \in Nat \ {0},
         ((d - n + 1)..d) \subseteq D, d - n \notin D
  PROVE  RunEndingAt(D, d) = n
<1> DEFINE IsRun(m) == m \in 1..Cardinality(D) /\ ((d - m + 1)..d) \subseteq D /\ d - m \notin D
<1>1. Cardinality(D) \in Nat
  BY FS_CardinalityType
<1>2. n \in 1..Cardinality(D)
  <2> DEFINE R == (d - n + 1)..d
  <2>1. Cardinality(R) = n
    <3>1. d - n + 1 \in Int /\ ~(d - n + 1 > d) /\ d - (d - n + 1) + 1 = n
      OBVIOUS
    <3> QED BY <3>1, FS_Interval
  <2>2. R \in SUBSET D
    OBVIOUS
  <2> HIDE DEF R
  <2>3. Cardinality(R) <= Cardinality(D)
    BY <2>2, FS_Subset
  <2> QED BY <1>1, <2>1, <2>3
<1>3. IsRun(n)
  BY <1>2
<1>4. ASSUME NEW m, IsRun(m) PROVE m = n
  <2>1. m \in Nat
    BY <1>1, <1>4
  <2>2. ~(m < n)
    <3>1. m < n => d - m \in (d - n + 1)..d
      BY <2>1
    <3> QED BY <1>4, <3>1
  <2>3. ~(n < m)
    <3>1. n < m => d - n \in (d - m + 1)..d
      BY <2>1
    <3> QED BY <1>4, <3>1
  <2> QED BY <2>1, <2>2, <2>3
<1>5. RunEndingAt(D, d) = CHOOSE m \in 1..Cardinality(D) : ((d - m + 1)..d) \subseteq D /\ d - m \notin D
  BY DEF RunEndingAt
<1>6. \E m \in 1..Cardinality(D) : ((d - m + 1)..d) \subseteq D /\ d - m \notin D
  BY <1>3
<1>7. IsRun(RunEndingAt(D, d))
  BY <1>5, <1>6, Zenon
<1> HIDE DEF IsRun
<1> QED BY <1>4, <1>7

\* Linked days count down.
LEMMA LinkedDays ==
  ASSUME NEW ds \in Seq(Nat), NEW p \in 1..Len(ds), NEW q \in p..Len(ds),
         \A k \in (p + 1)..q : Linked(ds, k)
  PROVE  \A k \in p..q : ds[k] = ds[p] - (k - p)
<1> DEFINE S == {k \in p..q : ds[k] = ds[p] - (k - p)}
<1>1. Len(ds) \in Nat /\ p \in Nat /\ q \in Nat /\ p <= q
  BY LenProperties
<1>2. ds[p] \in Nat
  BY ElementOfSeq
<1>3. p \in S
  BY <1>1, <1>2
<1>4. ASSUME NEW k \in (p + 1)..q, k - 1 \in S PROVE k \in S
  <2>1. ds[k - 1] = ds[p] - ((k - 1) - p)
    BY <1>4
  <2>2. ds[k] = ds[k - 1] - 1
    BY DEF Linked
  <2>3. k \in Int /\ k \in p..q
    BY <1>1
  <2>4. ds[k] = ds[p] - (k - p)
    <3> DEFINE x == ds[p]
               y == ds[k - 1]
    <3>1. x \in Nat /\ y = x - ((k - 1) - p)
      BY <1>2, <2>1
    <3> HIDE DEF x, y
    <3>2. y - 1 = x - (k - p)
      BY <1>1, <2>3, <3>1
    <3> QED BY <2>2, <3>2 DEF x, y
  <2> QED BY <2>3, <2>4
<1>5. \A k \in p..q : k \in S
  <2> HIDE DEF S
  <2> QED BY <1>1, <1>3, <1>4, RangeInduction
<1> QED BY <1>5

\* The linked days from p to q, and no more of them, are the run that ends with the day
\* at p.
LEMMA BlockIsRun ==
  ASSUME NEW ds, Falling(ds), NEW p \in 1..Len(ds), NEW q \in p..Len(ds),
         \A k \in (p + 1)..q : Linked(ds, k),
         q < Len(ds) => ~Linked(ds, q + 1)
  PROVE  RunEndingAt(DaysOf(ds), ds[p]) = q - p + 1
<1> DEFINE D == DaysOf(ds)
           d == ds[p]
           n == q - p + 1
<1>1. ds \in Seq(Nat) /\ Len(ds) \in Nat /\ p \in Nat /\ q \in Nat /\ p <= q
  BY LenProperties DEF Falling
<1>2. n \in Nat \ {0}
  BY <1>1
<1>3. \A k \in 1..Len(ds) : ds[k] \in Nat
  BY <1>1, ElementOfSeq
<1>4. D \in SUBSET Int /\ IsFiniteSet(D) /\ d \in Int
  <2>1. IsFiniteSet(1..Len(ds))
    BY <1>1, FS_Interval
  <2>2. IsFiniteSet(D)
    <3> DEFINE f == [k \in 1..Len(ds) |-> ds[k]]
               C == 1..Len(ds)
    <3>1. f \in Surjection(C, D)
      BY DEF Surjection, DaysOf
    <3> HIDE DEF f, C, D
    <3>2. IsFiniteSet(C)
      BY <2>1 DEF C
    <3> QED BY <3>1, <3>2, FS_Surjection
  <2>3. D \in SUBSET Int /\ d \in Int
    BY <1>3 DEF DaysOf
  <2> QED BY <2>2, <2>3
<1>5. \A k \in p..q : ds[k] = d - (k - p)
  BY <1>1, LinkedDays
<1>6. ASSUME NEW x \in (d - n + 1)..d PROVE x \in D
  <2> DEFINE k == p + (d - x)
  <2>1. k \in p..q /\ k \in 1..Len(ds) /\ d - (k - p) = x
    <3>1. x \in Int /\ d - n + 1 <= x /\ x <= d
      BY <1>2, <1>4
    <3> HIDE DEF d
    <3> QED BY <1>1, <1>4, <3>1
  <2> HIDE DEF k
  <2>2. ds[k] = x
    BY <1>5, <2>1
  <2> QED BY <2>1, <2>2 DEF DaysOf
<1>7. d - n \notin D
  <2> SUFFICES ASSUME NEW k \in 1..Len(ds), ds[k] = d - n PROVE FALSE
    BY DEF DaysOf
  <2>1. q \in p..q /\ q \in 1..Len(ds)
    BY <1>1
  <2>2. ds[q] = d - (q - p)
    BY <1>5, <2>1
  <2>3. ds[k] = ds[q] - 1 /\ ds[k] \in Nat /\ ds[q] \in Nat
    <3>1. ds[k] \in Nat /\ ds[q] \in Nat
      BY <1>3, <2>1
    <3>2. d - n = d - (q - p) - 1
      <4> HIDE DEF d
      <4> QED BY <1>1, <1>4
    <3> QED BY <2>2, <3>1, <3>2
  <2>4. ~(k < q) /\ k # q
    <3>1. k < q => ds[k] > ds[q]
      BY <2>1 DEF Falling
    <3> QED BY <2>3, <3>1
  <2>5. k > q
    BY <1>1, <2>4
  <2>6. q + 1 \in 1..Len(ds) /\ q < Len(ds) /\ q < q + 1 /\ q + 1 - 1 = q
    BY <1>1, <2>5
  <2>7. ds[q] > ds[q + 1] /\ ds[q + 1] \in Nat
    BY <1>3, <2>1, <2>6 DEF Falling
  <2>8. ds[q + 1] # ds[q] - 1
    <3>1. Linked(ds, q + 1) <=> ds[q + 1] = ds[q + 1 - 1] - 1
      BY DEF Linked
    <3>2. q + 1 - 1 = q /\ (q + 1) - 1 = q
      BY <1>1
    <3>3. ~Linked(ds, q + 1)
      BY <2>6
    <3> QED BY <3>1, <3>2, <3>3
  <2>9. ds[k] <= ds[q + 1]
    <3>1. k = q + 1 \/ q + 1 < k
      BY <1>1, <2>5
    <3>2. q + 1 < k => ds[q + 1] > ds[k]
      BY <2>6 DEF Falling
    <3> QED BY <2>3, <2>7, <3>1, <3>2
  <2> QED BY <2>3, <2>7, <2>8, <2>9
<1> HIDE DEF D, d, n
<1>8. ((d - n + 1)..d) \subseteq D
  BY <1>6
<1>9. RunEndingAt(D, d) = n
  BY <1>2, <1>4, <1>7, <1>8, RunIs
<1> QED BY <1>9 DEF D, d, n

-----------------------------------------------------------------------------
(***************************************************************************)
(* calculateCurrentStreak                                                  *)
(***************************************************************************)

\* What the loop does at day i.
CurrentLoop(ds, g) ==
  g = [i \in 0..Len(ds) |->
         IF i = 0 THEN 0
         ELSE IF i > 1 /\ g[i - 1] < i - 1 THEN g[i - 1]
         ELSE IF i > 1 /\ DaysBetween(ds[i], ds[i - 1]) > 1 THEN i - 1
         ELSE i]

\* The loop has values, and the current streak is the last of them.
LEMMA CurrentStreakIs ==
  ASSUME NEW ds \in Seq(Nat)
  PROVE  \E g : CurrentLoop(ds, g) /\ CalculateCurrentStreak(ds) = g[Len(ds)]
<1> DEFINE n == Len(ds)
           Far(i) == DaysBetween(ds[i], ds[i - 1]) > 1
           step == [i \in (0 + 1)..n |->
                      [c \in Nat |-> IF i > 1 /\ c < i - 1 THEN c
                                     ELSE IF i > 1 /\ Far(i) THEN i - 1 ELSE i]]
<1>1. n \in Nat
  BY LenProperties
<1> HIDE DEF Far, n
<1>2. step \in [(0 + 1)..n -> [Nat -> Nat]]
  <2>1. ASSUME NEW i \in (0 + 1)..n, NEW c \in Nat
        PROVE  (IF i > 1 /\ c < i - 1 THEN c ELSE IF i > 1 /\ Far(i) THEN i - 1 ELSE i) \in Nat
    OBVIOUS
  <2> QED BY <2>1
<1>3. \A i \in 1..n : \A c \in Nat :
        step[i][c] = IF i > 1 /\ c < i - 1 THEN c ELSE IF i > 1 /\ Far(i) THEN i - 1 ELSE i
  <2>1. \A i \in (0 + 1)..n : \A c \in Nat :
          step[i][c] = IF i > 1 /\ c < i - 1 THEN c ELSE IF i > 1 /\ Far(i) THEN i - 1 ELSE i
    OBVIOUS
  <2>2. 0 + 1 = 1
    OBVIOUS
  <2> HIDE DEF step
  <2> QED BY <2>1, <2>2
<1> HIDE DEF step
<1>4. PICK f : LoopUpTo(Nat, 0, 0, step, n, f)
  <2>1. 0 \in Nat /\ 0 <= n
    BY <1>1
  <2> QED BY <1>1, <1>2, <2>1, LoopExists
<1>5. f \in [0..n -> Nat] /\ f[0] = 0 /\ \A i \in 1..n : f[i] = step[i][f[i - 1]]
  <2>1. 0 + 1 = 1
    OBVIOUS
  <2> QED BY <1>4, <2>1, Zenon DEF LoopUpTo
<1>6. ASSUME NEW i \in 0..n
      PROVE  f[i] = IF i = 0 THEN 0
                    ELSE IF i > 1 /\ f[i - 1] < i - 1 THEN f[i - 1]
                    ELSE IF i > 1 /\ Far(i) THEN i - 1 ELSE i
  <2>1. CASE i = 0
    BY <1>5, <2>1
  <2>2. CASE i # 0
    <3>1. i \in 1..n /\ i - 1 \in 0..n
      BY <1>1, <2>2
    <3>2. f[i] = step[i][f[i - 1]] /\ f[i - 1] \in Nat
      BY <1>5, <3>1
    <3> QED BY <1>3, <2>2, <3>1, <3>2
  <2> QED BY <2>1, <2>2
<1>7. CurrentLoop(ds, f)
  <2>1. f = [i \in 0..n |-> f[i]]
    BY <1>5
  <2>2. f = [i \in 0..n |-> IF i = 0 THEN 0
                            ELSE IF i > 1 /\ f[i - 1] < i - 1 THEN f[i - 1]
                            ELSE IF i > 1 /\ Far(i) THEN i - 1 ELSE i]
    BY <1>6, <2>1
  <2> QED BY <2>2 DEF CurrentLoop, Far, n
<1> DEFINE g == CHOOSE h : CurrentLoop(ds, h)
<1>8. CurrentLoop(ds, g)
  BY <1>7
<1>9. CalculateCurrentStreak(ds) = g[n]
  BY DEF CalculateCurrentStreak, CurrentLoop, n
<1> HIDE DEF g
<1> QED BY <1>8, <1>9 DEF n

\* After i days: the first c of them are linked, and c is i or the end of them.
CountsTo(ds, i, c) ==
  /\ c \in 1..i
  /\ \A k \in 2..c : Linked(ds, k)
  /\ c < i => ~Linked(ds, c + 1)

\* The current streak is the run that ends with the first day of the list.
LEMMA CurrentStreakIsRun ==
  ASSUME NEW ds, Falling(ds), Len(ds) >= 1
  PROVE  CalculateCurrentStreak(ds) = RunEndingAt(DaysOf(ds), ds[1])
<1> DEFINE n == Len(ds)
<1>1. ds \in Seq(Nat) /\ n \in Nat /\ n >= 1
  BY LenProperties DEF Falling
<1>2. PICK g : CurrentLoop(ds, g) /\ CalculateCurrentStreak(ds) = g[n]
  BY <1>1, CurrentStreakIs
<1>3. \A i \in 0..n : g[i] = IF i = 0 THEN 0
                             ELSE IF i > 1 /\ g[i - 1] < i - 1 THEN g[i - 1]
                             ELSE IF i > 1 /\ DaysBetween(ds[i], ds[i - 1]) > 1 THEN i - 1
                             ELSE i
  BY <1>2, Zenon DEF CurrentLoop
<1>4. \A k \in 2..n : DaysBetween(ds[k], ds[k - 1]) > 1 <=> ~Linked(ds, k)
  BY LinkedIs
<1> HIDE DEF n
<1> DEFINE S == {i \in 1..n : CountsTo(ds, i, g[i])}
<1>5. 1 \in S
  <2>1. 1 \in 0..n /\ 1 \in 1..n
    BY <1>1
  <2>2. g[1] = 1
    BY <1>3, <2>1
  <2>3. CountsTo(ds, 1, 1)
    BY DEF CountsTo
  <2> QED BY <2>1, <2>2, <2>3
<1>6. ASSUME NEW i \in (1 + 1)..n, i - 1 \in S PROVE i \in S
  <2> DEFINE c == g[i - 1]
  <2>1. i \in 0..n /\ i \in 1..n /\ i \in 2..n /\ i > 1 /\ i # 0 /\ i \in Nat
    BY <1>1
  <2>2. CountsTo(ds, i - 1, c)
    BY <1>6
  <2>3. g[i] = IF i > 1 /\ c < i - 1 THEN c
               ELSE IF i > 1 /\ DaysBetween(ds[i], ds[i - 1]) > 1 THEN i - 1 ELSE i
    BY <1>3, <2>1
  <2>4. (DaysBetween(ds[i], ds[i - 1]) > 1) <=> ~Linked(ds, i)
    BY <1>4, <2>1
  <2> HIDE DEF S, c
  <2>5. c \in 1..(i - 1) /\ \A k \in 2..c : Linked(ds, k)
    BY <2>2 DEF CountsTo
  <2>6. CASE c < i - 1
    <3>1. g[i] = c
      BY <2>1, <2>3, <2>6
    <3>2. ~Linked(ds, c + 1)
      BY <2>2, <2>6 DEF CountsTo
    <3>3. c \in 1..i
      BY <2>1, <2>5
    <3>4. CountsTo(ds, i, c)
      BY <2>5, <3>2, <3>3 DEF CountsTo
    <3> QED BY <2>1, <3>1, <3>4 DEF S
  <2>7. CASE c = i - 1 /\ ~Linked(ds, i)
    <3>1. g[i] = i - 1
      BY <2>1, <2>3, <2>4, <2>5, <2>7
    <3>2. i - 1 \in 1..i /\ (i - 1) + 1 = i
      BY <2>1
    <3>3. \A k \in 2..(i - 1) : Linked(ds, k)
      BY <2>5, <2>7
    <3>4. CountsTo(ds, i, i - 1)
      BY <2>7, <3>2, <3>3 DEF CountsTo
    <3> QED BY <2>1, <3>1, <3>4 DEF S
  <2>8. CASE c = i - 1 /\ Linked(ds, i)
    <3>1. g[i] = i
      BY <2>1, <2>3, <2>4, <2>5, <2>8
    <3>2. \A k \in 2..(i - 1) : Linked(ds, k)
      BY <2>5, <2>8
    <3>3. \A k \in 2..i : k \in 2..(i - 1) \/ k = i
      BY <2>1
    <3>4. \A k \in 2..i : Linked(ds, k)
      BY <2>8, <3>2, <3>3
    <3>5. i \in 1..i /\ ~(i < i)
      BY <2>1
    <3>6. CountsTo(ds, i, i)
      BY <3>4, <3>5 DEF CountsTo
    <3> QED BY <2>1, <3>1, <3>6 DEF S
  <2> QED BY <2>1, <2>5, <2>6, <2>7, <2>8
<1>7. n \in S
  <2>1. n \in 1..n
    BY <1>1
  <2> HIDE DEF S
  <2> QED BY <1>1, <1>5, <1>6, <2>1, RangeInduction
<1>8. CountsTo(ds, n, g[n])
  BY <1>7
<1> HIDE DEF S
<1> DEFINE c == g[n]
<1>9. c \in 1..n /\ (\A k \in 2..c : Linked(ds, k)) /\ (c < n => ~Linked(ds, c + 1))
  BY <1>8 DEF CountsTo
<1> HIDE DEF c
<1>10. 1 \in 1..Len(ds) /\ c \in 1..Len(ds) /\ (\A k \in (1 + 1)..c : Linked(ds, k))
       /\ (c < Len(ds) => ~Linked(ds, c + 1))
  BY <1>1, <1>9 DEF n
<1>11. RunEndingAt(DaysOf(ds), ds[1]) = c - 1 + 1
  BY <1>10, BlockIsRun
<1>12. c - 1 + 1 = c
  BY <1>9
<1> QED BY <1>2, <1>11, <1>12 DEF c

-----------------------------------------------------------------------------
(***************************************************************************)
(* calculateLongestStreak                                                  *)
(***************************************************************************)

LargerOf(x, y) == IF x > y THEN x ELSE y

Streaks == [longest : Nat, current : Nat]

\* What the loop does at day i.
LongestLoop(ds, g) ==
  g = [i \in 1..Len(ds) |->
         IF i = 1 THEN [longest |-> 1, current |-> 1]
         ELSE IF DaysBetween(ds[i], ds[i - 1]) <= 1 THEN [g[i - 1] EXCEPT !.current = @ + 1]
         ELSE [longest |-> LargerOf(g[i - 1].longest, g[i - 1].current), current |-> 1]]

\* The loop has values, and the longest streak is the larger number of the last of them.
LEMMA LongestStreakIs ==
  ASSUME NEW ds \in Seq(Nat), Len(ds) >= 1
  PROVE  \E g : /\ LongestLoop(ds, g)
                /\ CalculateLongestStreak(ds) = LargerOf(g[Len(ds)].longest, g[Len(ds)].current)
<1> DEFINE n == Len(ds)
           Near(i) == DaysBetween(ds[i], ds[i - 1]) <= 1
           V == Streaks
           More(a) == [a EXCEPT !.current = @ + 1]
           Anew(a) == [longest |-> LargerOf(a.longest, a.current), current |-> 1]
           first == [longest |-> 1, current |-> 1]
           step == [i \in (1 + 1)..n |-> [a \in V |-> IF Near(i) THEN More(a) ELSE Anew(a)]]
<1>1. n \in Nat /\ n >= 1
  BY LenProperties
<1>2. first \in V /\ \A a \in V : More(a) \in V /\ Anew(a) \in V
  BY DEF Streaks, LargerOf
<1> HIDE DEF Near, n, V, More, Anew, first
<1>3. step \in [(1 + 1)..n -> [V -> V]]
  BY <1>2
<1>4. \A i \in 2..n : \A a \in V : step[i][a] = IF Near(i) THEN More(a) ELSE Anew(a)
  <2>1. \A i \in (1 + 1)..n : \A a \in V : step[i][a] = IF Near(i) THEN More(a) ELSE Anew(a)
    OBVIOUS
  <2>2. 1 + 1 = 2
    OBVIOUS
  <2> HIDE DEF step
  <2> QED BY <2>1, <2>2
<1> HIDE DEF step
<1>5. PICK f : LoopUpTo(V, 1, first, step, n, f)
  <2>1. 1 \in Nat /\ 1 <= n
    BY <1>1
  <2> QED BY <1>1, <1>2, <1>3, <2>1, LoopExists
<1>6. f \in [1..n -> V] /\ f[1] = first /\ \A i \in 2..n : f[i] = step[i][f[i - 1]]
  <2>1. 1 + 1 = 2
    OBVIOUS
  <2> QED BY <1>5, <2>1, Zenon DEF LoopUpTo
<1>7. ASSUME NEW i \in 1..n
      PROVE  f[i] = IF i = 1 THEN first
                    ELSE IF Near(i) THEN More(f[i - 1]) ELSE Anew(f[i - 1])
  <2>1. CASE i = 1
    BY <1>6, <2>1
  <2>2. CASE i # 1
    <3>1. i \in 2..n /\ i - 1 \in 1..n
      BY <1>1, <2>2
    <3>2. f[i] = step[i][f[i - 1]] /\ f[i - 1] \in V
      BY <1>6, <3>1
    <3> QED BY <1>4, <2>2, <3>1, <3>2
  <2> QED BY <2>1, <2>2
<1>8. LongestLoop(ds, f)
  <2>1. f = [i \in 1..n |-> f[i]]
    BY <1>6
  <2>2. f = [i \in 1..n |-> IF i = 1 THEN first
                            ELSE IF Near(i) THEN More(f[i - 1]) ELSE Anew(f[i - 1])]
    BY <1>7, <2>1
  <2> QED BY <2>2, Zenon DEF LongestLoop, Near, n, More, Anew, first
<1> DEFINE g == CHOOSE h : LongestLoop(ds, h)
<1>9. LongestLoop(ds, g)
  BY <1>8
<1>10. ds # <<>>
  BY <1>1, EmptySeq DEF n
<1>11. CalculateLongestStreak(ds) = LargerOf(g[n].longest, g[n].current)
  BY <1>10, Zenon DEF CalculateLongestStreak, LongestLoop, LargerOf, n
<1> HIDE DEF g
<1> QED BY <1>9, <1>11 DEF n

\* The length of the run that ends with the day at p.
RunAt(ds, p) == RunEndingAt(DaysOf(ds), ds[p])

\* After i days: the last of them from s on are linked; longest bounds the runs of
\* those before s, and is 1 or the length of one of them.
Tracks(ds, i, s, longest) ==
  /\ s \in 1..i
  /\ \A k \in (s + 1)..i : Linked(ds, k)
  /\ longest \in Nat /\ longest >= 1
  /\ \A p \in 1..(s - 1) : RunAt(ds, p) <= longest
  /\ longest = 1 \/ \E p \in 1..(s - 1) : RunAt(ds, p) = longest

\* Where the linked days end, the larger of longest and their number bounds the runs of
\* all the days and is the length of one of them.
LEMMA TracksAll ==
  ASSUME NEW ds, Falling(ds), NEW i \in 1..Len(ds), NEW s, NEW longest,
         Tracks(ds, i, s, longest), i < Len(ds) => ~Linked(ds, i + 1)
  PROVE  LET all == LargerOf(longest, i - s + 1)
         IN  /\ all \in Nat /\ all >= 1
             /\ \A p \in 1..i : RunAt(ds, p) <= all
             /\ \E p \in 1..i : RunAt(ds, p) = all
<1> DEFINE c == i - s + 1
           all == LargerOf(longest, c)
<1>1. ds \in Seq(Nat) /\ Len(ds) \in Nat /\ i \in Nat
  BY LenProperties DEF Falling
<1>2. s \in 1..i /\ longest \in Nat /\ longest >= 1
  BY DEF Tracks
<1>3. c \in Nat /\ c >= 1
  BY <1>1, <1>2
<1>4. ASSUME NEW p \in s..i PROVE RunAt(ds, p) = i - p + 1
  <2>1. p \in 1..Len(ds) /\ i \in p..Len(ds)
    BY <1>1, <1>2
  <2>2. \A k \in (p + 1)..i : k \in (s + 1)..i
    BY <1>1, <1>2
  <2>3. \A k \in (p + 1)..i : Linked(ds, k)
    BY <2>2 DEF Tracks
  <2> QED BY <2>1, <2>3, BlockIsRun DEF RunAt
<1>5. RunAt(ds, s) = c /\ s \in 1..i
  <2>1. s \in s..i
    BY <1>1, <1>2
  <2> QED BY <1>2, <1>4, <2>1
<1> HIDE DEF c
<1>6. all \in Nat /\ all >= 1 /\ longest <= all /\ c <= all /\ (all = longest \/ all = c)
  BY <1>2, <1>3 DEF LargerOf
<1>7. all = 1 => c = 1
  BY <1>3, <1>6
<1> HIDE DEF all
<1>8. ASSUME NEW p \in 1..i PROVE RunAt(ds, p) <= all
  <2>1. CASE p \in 1..(s - 1)
    <3>1. RunAt(ds, p) <= longest
      BY <2>1 DEF Tracks
    <3>2. RunAt(ds, p) \in Int
      <4>1. PICK q \in p..Len(ds) : /\ \A k \in (p + 1)..q : Linked(ds, k)
                                    /\ q < Len(ds) => ~Linked(ds, q + 1)
        <5> DEFINE E == {q \in Nat : q >= p /\ (q < Len(ds) => ~Linked(ds, q + 1))}
        <5>1. Len(ds) \in E /\ E \in SUBSET Nat
          BY <1>1
        <5>2. PICK q \in E : \A x \in E : q <= x
          <6> HIDE DEF E
          <6> QED BY <5>1, Least
        <5>3. q \in Nat /\ q >= p /\ q <= Len(ds) /\ (q < Len(ds) => ~Linked(ds, q + 1))
          BY <5>1, <5>2
        <5>4. ASSUME NEW k \in (p + 1)..q PROVE Linked(ds, k)
          <6>1. k - 1 \in Nat /\ k - 1 >= p /\ k - 1 < Len(ds) /\ ~(q <= k - 1) /\ (k - 1) + 1 = k
            BY <1>1, <5>3
          <6>2. k - 1 \notin E
            BY <5>2, <6>1
          <6> QED BY <6>1, <6>2
        <5>5. q \in p..Len(ds)
          BY <1>1, <5>3
        <5> QED BY <5>3, <5>4, <5>5
      <4>2. p \in 1..Len(ds)
        BY <1>1
      <4>3. RunAt(ds, p) = q - p + 1
        BY <4>1, <4>2, BlockIsRun DEF RunAt
      <4> QED BY <1>1, <4>1, <4>3
    <3> QED BY <1>2, <1>6, <3>1, <3>2
  <2>2. CASE p \in s..i
    <3>1. RunAt(ds, p) = i - p + 1
      BY <1>4, <2>2
    <3>2. i - p + 1 <= c /\ i - p + 1 \in Int
      BY <1>1, <1>2, <2>2 DEF c
    <3> QED BY <1>3, <1>6, <3>1, <3>2
  <2> QED BY <1>1, <1>2, <2>1, <2>2
<1>9. \E p \in 1..i : RunAt(ds, p) = all
  <2>1. CASE all = c
    BY <1>5, <2>1
  <2>2. CASE all # c
    <3>1. all = longest /\ longest # 1
      BY <1>6, <1>7, <2>2
    <3>2. PICK p \in 1..(s - 1) : RunAt(ds, p) = longest
      BY <3>1 DEF Tracks
    <3>3. p \in 1..i
      BY <1>1, <1>2
    <3> QED BY <3>1, <3>2, <3>3
  <2> QED BY <2>1, <2>2
<1> QED BY <1>6, <1>8, <1>9 DEF all, c

\* What the loop holds after i days.
TracksAt(ds, i, a) ==
  /\ a \in Streaks
  /\ a.current \in 1..i
  /\ Tracks(ds, i, i - a.current + 1, a.longest)

\* One more linked day.
LEMMA TracksLinked ==
  ASSUME NEW ds, NEW i \in Nat \ {0}, NEW a, TracksAt(ds, i, a), Linked(ds, i + 1)
  PROVE  TracksAt(ds, i + 1, [a EXCEPT !.current = @ + 1])
<1> DEFINE c == a.current
           s == i - c + 1
           b == [a EXCEPT !.current = @ + 1]
<1>1. a \in Streaks /\ c \in 1..i /\ Tracks(ds, i, s, a.longest)
  BY DEF TracksAt
<1>2. b \in Streaks /\ b.current = c + 1 /\ b.longest = a.longest
  BY <1>1 DEF Streaks
<1>3. c \in Nat /\ c + 1 \in 1..(i + 1) /\ (i + 1) - (c + 1) + 1 = s /\ s \in 1..i /\ s \in 1..(i + 1)
  BY <1>1
<1> HIDE DEF c, s, b
<1>4. \A k \in (s + 1)..(i + 1) : k \in (s + 1)..i \/ k = i + 1
  BY <1>3
<1>5. \A k \in (s + 1)..(i + 1) : Linked(ds, k)
  BY <1>1, <1>4 DEF Tracks
<1>6. Tracks(ds, i + 1, s, a.longest)
  BY <1>1, <1>3, <1>5 DEF Tracks
<1>7. Tracks(ds, i + 1, (i + 1) - b.current + 1, b.longest)
  BY <1>2, <1>3, <1>6
<1>8. b.current \in 1..(i + 1)
  BY <1>2, <1>3
<1> QED BY <1>2, <1>7, <1>8 DEF TracksAt, b

\* A gap before the next day.
LEMMA TracksGap ==
  ASSUME NEW ds, Falling(ds), NEW i \in 1..Len(ds), i < Len(ds), NEW a, TracksAt(ds, i, a),
         ~Linked(ds, i + 1)
  PROVE  TracksAt(ds, i + 1, [longest |-> LargerOf(a.longest, a.current), current |-> 1])
<1> DEFINE c == a.current
           s == i - c + 1
           all == LargerOf(a.longest, c)
           b == [longest |-> all, current |-> 1]
<1>1. a \in Streaks /\ c \in 1..i /\ Tracks(ds, i, s, a.longest)
  BY DEF TracksAt
<1>2. Len(ds) \in Nat /\ i \in Nat /\ c \in Nat /\ i - s + 1 = c
  BY <1>1, LenProperties DEF Falling
<1> HIDE DEF c, s
<1>3. LET x == LargerOf(a.longest, i - s + 1)
      IN  /\ x \in Nat /\ x >= 1
          /\ \A p \in 1..i : RunAt(ds, p) <= x
          /\ \E p \in 1..i : RunAt(ds, p) = x
  BY <1>1, TracksAll
<1>4. /\ all \in Nat /\ all >= 1
      /\ \A p \in 1..i : RunAt(ds, p) <= all
      /\ \E p \in 1..i : RunAt(ds, p) = all
  BY <1>2, <1>3
<1> HIDE DEF all
<1>5. b \in Streaks /\ b.current = 1 /\ b.longest = all
  BY <1>4 DEF Streaks
<1> HIDE DEF b
<1>6. 1 \in 1..(i + 1) /\ (i + 1) - 1 + 1 = i + 1 /\ i + 1 \in 1..(i + 1) /\ (i + 1) - 1 = i
      /\ ((i + 1) + 1)..(i + 1) = {}
  BY <1>2
<1>7. \A p \in 1..((i + 1) - 1) : RunAt(ds, p) <= all
  BY <1>4, <1>6
<1>8. \E p \in 1..((i + 1) - 1) : RunAt(ds, p) = all
  BY <1>4, <1>6
<1>9. \A k \in ((i + 1) + 1)..(i + 1) : Linked(ds, k)
  BY <1>6
<1>10. Tracks(ds, i + 1, i + 1, all)
  BY <1>4, <1>6, <1>7, <1>8, <1>9 DEF Tracks
<1>11. Tracks(ds, i + 1, (i + 1) - b.current + 1, b.longest)
  BY <1>5, <1>6, <1>10
<1>12. b.current \in 1..(i + 1)
  BY <1>5, <1>6
<1>13. TracksAt(ds, i + 1, b)
  BY <1>5, <1>11, <1>12 DEF TracksAt
<1> QED BY <1>13 DEF b, all, c

\* The longest streak is the length of a run, and of no shorter one than any other.
LEMMA LongestStreakIsRun ==
  ASSUME NEW ds, Falling(ds), Len(ds) >= 1
  PROVE  /\ \A p \in 1..Len(ds) : RunAt(ds, p) <= CalculateLongestStreak(ds)
         /\ \E p \in 1..Len(ds) : RunAt(ds, p) = CalculateLongestStreak(ds)
         /\ CalculateLongestStreak(ds) \in Nat
<1> DEFINE n == Len(ds)
           Anew(a) == [longest |-> LargerOf(a.longest, a.current), current |-> 1]
<1>1. ds \in Seq(Nat) /\ n \in Nat /\ n >= 1
  BY LenProperties DEF Falling
<1>2. PICK g : LongestLoop(ds, g) /\ CalculateLongestStreak(ds) = LargerOf(g[n].longest, g[n].current)
  BY <1>1, LongestStreakIs
<1>3. \A i \in 1..n : g[i] = IF i = 1 THEN [longest |-> 1, current |-> 1]
                             ELSE IF DaysBetween(ds[i], ds[i - 1]) <= 1
                                  THEN [g[i - 1] EXCEPT !.current = @ + 1]
                             ELSE Anew(g[i - 1])
  BY <1>2, Zenon DEF LongestLoop
<1>4. \A k \in 2..n : DaysBetween(ds[k], ds[k - 1]) <= 1 <=> Linked(ds, k)
  BY LinkedIs
<1> HIDE DEF n, Anew
<1> DEFINE S == {i \in 1..n : TracksAt(ds, i, g[i])}
<1>5. 1 \in S
  <2> DEFINE a == [longest |-> 1, current |-> 1]
  <2>1. 1 \in 1..n
    BY <1>1
  <2>2. g[1] = a
    BY <1>3, <2>1, Zenon
  <2>3. a \in Streaks /\ a.current = 1 /\ a.longest = 1
    BY DEF Streaks
  <2> HIDE DEF a
  <2>4. Tracks(ds, 1, 1, 1)
    BY DEF Tracks
  <2>5. 1 - 1 + 1 = 1
    OBVIOUS
  <2>6. TracksAt(ds, 1, a)
    BY <2>3, <2>4, <2>5 DEF TracksAt
  <2> QED BY <2>1, <2>2, <2>6
<1>6. ASSUME NEW i \in (1 + 1)..n, i - 1 \in S PROVE i \in S
  <2> DEFINE j == i - 1
  <2>1. j \in Nat \ {0} /\ j + 1 = i /\ j \in 1..n /\ j < n /\ i \in 1..n /\ i \in 2..n /\ i # 1
    BY <1>1
  <2>2. TracksAt(ds, j, g[j])
    BY <1>6
  <2>3. CASE Linked(ds, i)
    <3>1. DaysBetween(ds[i], ds[i - 1]) <= 1
      BY <1>4, <2>1, <2>3
    <3>2. g[i] = [g[i - 1] EXCEPT !.current = @ + 1]
      BY <1>3, <2>1, <3>1, Zenon
    <3> HIDE DEF S, j
    <3>3. TracksAt(ds, j + 1, [g[j] EXCEPT !.current = @ + 1])
      BY <2>1, <2>2, <2>3, TracksLinked
    <3>4. TracksAt(ds, i, g[i])
      BY <2>1, <3>2, <3>3, Zenon DEF j
    <3> QED BY <2>1, <3>4 DEF S
  <2>4. CASE ~Linked(ds, i)
    <3>1. ~(DaysBetween(ds[i], ds[i - 1]) <= 1)
      BY <1>4, <2>1, <2>4
    <3>2. g[i] = Anew(g[i - 1])
      BY <1>3, <2>1, <3>1, Zenon
    <3> HIDE DEF S, j
    <3>3. j \in 1..Len(ds) /\ j < Len(ds) /\ ~Linked(ds, j + 1)
      BY <2>1, <2>4 DEF n
    <3>4. TracksAt(ds, j + 1, Anew(g[j]))
      BY <2>2, <3>3, TracksGap DEF Anew
    <3>5. TracksAt(ds, i, g[i])
      BY <2>1, <3>2, <3>4, Zenon DEF j
    <3> QED BY <2>1, <3>5 DEF S
  <2> QED BY <2>3, <2>4
<1>7. n \in S
  <2>1. n \in 1..n
    BY <1>1
  <2> HIDE DEF S
  <2> QED BY <1>1, <1>5, <1>6, <2>1, RangeInduction
<1> DEFINE a == g[n]
           s == n - a.current + 1
<1>8. TracksAt(ds, n, a)
  BY <1>7
<1> HIDE DEF S, a
<1>9. a.current \in 1..n /\ Tracks(ds, n, s, a.longest)
  BY <1>8 DEF TracksAt
<1>10. n - s + 1 = a.current
  BY <1>1, <1>9
<1> HIDE DEF s
<1>11. n \in 1..Len(ds) /\ ~(n < Len(ds))
  BY <1>1 DEF n
<1>12. LET x == LargerOf(a.longest, n - s + 1)
       IN  /\ x \in Nat /\ x >= 1
           /\ \A p \in 1..n : RunAt(ds, p) <= x
           /\ \E p \in 1..n : RunAt(ds, p) = x
  BY <1>9, <1>11, TracksAll
<1>13. CalculateLongestStreak(ds) = LargerOf(a.longest, n - s + 1)
  BY <1>2, <1>10 DEF a
<1> QED BY <1>12, <1>13 DEF n

-----------------------------------------------------------------------------
(***************************************************************************)
(* totalPoints                                                             *)
(***************************************************************************)

Points(rs, i) == rs[i].focusScore

\* g sums up, one after the other, the points of those of the first n sessions that are
\* in P.
SumsUp(rs, n, P, g) ==
  /\ g \in [0..n -> Nat]
  /\ g[0] = 0
  /\ \A i \in 1..n : g[i] = g[i - 1] + (IF i \in P THEN Points(rs, i) ELSE 0)

PointsOf(rs, n, P) == (CHOOSE g : SumsUp(rs, n, P, g))[n]

\* There is such a sum.
LEMMA SumsUpExists ==
  ASSUME NEW rs, NEW n \in Nat, \A i \in 1..n : Points(rs, i) \in Nat, NEW P
  PROVE  \E g : SumsUp(rs, n, P, g)
<1> DEFINE add(i) == IF i \in P THEN Points(rs, i) ELSE 0
           step == [i \in (0 + 1)..n |-> [x \in Nat |-> x + add(i)]]
<1>1. \A i \in 1..n : add(i) \in Nat
  OBVIOUS
<1> HIDE DEF add
<1>2. step \in [(0 + 1)..n -> [Nat -> Nat]]
  BY <1>1
<1>3. \A i \in 1..n : \A x \in Nat : step[i][x] = x + add(i)
  OBVIOUS
<1> HIDE DEF step
<1>4. PICK f : LoopUpTo(Nat, 0, 0, step, n, f)
  <2>1. 0 \in Nat /\ 0 <= n
    OBVIOUS
  <2> QED BY <1>2, <2>1, LoopExists
<1>5. f \in [0..n -> Nat] /\ f[0] = 0 /\ \A i \in 1..n : f[i] = step[i][f[i - 1]]
  <2>1. 0 + 1 = 1
    OBVIOUS
  <2> QED BY <1>4, <2>1, Zenon DEF LoopUpTo
<1>6. ASSUME NEW i \in 1..n PROVE f[i] = f[i - 1] + add(i)
  <2>1. i - 1 \in 0..n
    OBVIOUS
  <2>2. f[i - 1] \in Nat
    BY <1>5, <2>1
  <2> QED BY <1>3, <1>5, <2>2
<1>7. SumsUp(rs, n, P, f)
  BY <1>5, <1>6, Zenon DEF SumsUp, add
<1> QED BY <1>7

\* PointsOf is the last of its values.
LEMMA PointsOfIs ==
  ASSUME NEW rs, NEW n \in Nat, \A i \in 1..n : Points(rs, i) \in Nat, NEW P
  PROVE  \E g : SumsUp(rs, n, P, g) /\ PointsOf(rs, n, P) = g[n] /\ g[n] \in Nat
<1> DEFINE g == CHOOSE h : SumsUp(rs, n, P, h)
<1>1. SumsUp(rs, n, P, g)
  BY SumsUpExists
<1>2. PointsOf(rs, n, P) = g[n]
  BY DEF PointsOf
<1> HIDE DEF g
<1>3. g[n] \in Nat
  <2>1. n \in 0..n
    OBVIOUS
  <2> QED BY <1>1, <2>1 DEF SumsUp
<1> QED BY <1>1, <1>2, <1>3

\* No session has no points.
LEMMA PointsOfNone ==
  ASSUME NEW rs, NEW n \in Nat, \A i \in 1..n : Points(rs, i) \in Nat
  PROVE  PointsOf(rs, n, {}) = 0
<1>1. PICK g : SumsUp(rs, n, {}, g) /\ PointsOf(rs, n, {}) = g[n]
  BY PointsOfIs
<1> DEFINE S == {i \in 0..n : g[i] = 0}
<1>2. 0 \in S
  BY <1>1 DEF SumsUp
<1>3. ASSUME NEW i \in (0 + 1)..n, i - 1 \in S PROVE i \in S
  <2>1. i \in 1..n /\ i \in 0..n /\ g[i - 1] = 0
    BY <1>3
  <2>2. g[i] = g[i - 1] + 0
    BY <1>1, <2>1 DEF SumsUp
  <2> QED BY <2>1, <2>2
<1>4. n \in S
  <2>1. n \in 0..n
    OBVIOUS
  <2> HIDE DEF S
  <2> QED BY <1>2, <1>3, <2>1, RangeInduction
<1> QED BY <1>1, <1>4

\* One session more adds its points.
LEMMA PointsOfOneMore ==
  ASSUME NEW rs, NEW n \in Nat, \A i \in 1..n : Points(rs, i) \in Nat, NEW P, NEW x \in 1..n, x \in P
  PROVE  PointsOf(rs, n, P) = Points(rs, x) + PointsOf(rs, n, P \ {x})
<1>1. PICK g : SumsUp(rs, n, P, g) /\ PointsOf(rs, n, P) = g[n] /\ g[n] \in Nat
  BY PointsOfIs
<1> DEFINE Q == P \ {x}
<1>2. \A i \in 1..n : i # x => (i \in P <=> i \in Q)
  OBVIOUS
<1>3. x \notin Q
  OBVIOUS
<1> HIDE DEF Q
<1>4. PICK h : SumsUp(rs, n, Q, h) /\ PointsOf(rs, n, Q) = h[n] /\ h[n] \in Nat
  BY PointsOfIs
<1> DEFINE v == Points(rs, x)
           S == {i \in 0..n : (i < x => g[i] = h[i]) /\ (i >= x => g[i] = v + h[i])}
<1>5. v \in Nat
  OBVIOUS
<1> HIDE DEF v
<1>6. 0 \in S
  <2>1. g[0] = 0 /\ h[0] = 0 /\ 0 < x /\ ~(0 >= x) /\ 0 \in 0..n
    BY <1>1, <1>4 DEF SumsUp
  <2> QED BY <2>1
<1>7. ASSUME NEW i \in (0 + 1)..n, i - 1 \in S PROVE i \in S
  <2>1. i \in 1..n /\ i \in 0..n /\ i - 1 \in 0..n
    OBVIOUS
  <2>2. (i - 1 < x => g[i - 1] = h[i - 1]) /\ (i - 1 >= x => g[i - 1] = v + h[i - 1])
    BY <1>7
  <2>3. g[i - 1] \in Nat /\ h[i - 1] \in Nat
    BY <1>1, <1>4, <2>1 DEF SumsUp
  <2>4. /\ g[i] = g[i - 1] + (IF i \in P THEN Points(rs, i) ELSE 0)
        /\ h[i] = h[i - 1] + (IF i \in Q THEN Points(rs, i) ELSE 0)
    BY <1>1, <1>4, <2>1 DEF SumsUp
  <2>5. CASE i = x
    <3>1. g[i] = g[i - 1] + v /\ h[i] = h[i - 1] + 0
      BY <1>3, <2>4, <2>5 DEF v
    <3>2. g[i - 1] = h[i - 1]
      BY <2>2, <2>5
    <3>3. g[i] = v + h[i]
      BY <1>5, <2>3, <3>1, <3>2
    <3> QED BY <2>1, <2>5, <3>3
  <2>6. CASE i # x
    <3> DEFINE e == IF i \in P THEN Points(rs, i) ELSE 0
    <3>1. e \in Nat
      BY <2>1
    <3>2. g[i] = g[i - 1] + e /\ h[i] = h[i - 1] + e
      BY <1>2, <2>1, <2>4, <2>6
    <3> HIDE DEF e
    <3>3. CASE i < x
      <4>1. g[i - 1] = h[i - 1]
        BY <2>1, <2>2, <3>3
      <4> QED BY <2>1, <3>2, <3>3, <4>1
    <3>4. CASE i > x
      <4>1. g[i - 1] = v + h[i - 1]
        BY <2>1, <2>2, <3>4
      <4>2. g[i] = v + h[i]
        BY <1>5, <2>3, <3>1, <3>2, <4>1
      <4> QED BY <2>1, <3>4, <4>2
    <3> QED BY <2>6, <3>3, <3>4
  <2> QED BY <2>5, <2>6
<1>8. n \in S
  <2>1. n \in 0..n
    OBVIOUS
  <2> HIDE DEF S
  <2> QED BY <1>6, <1>7, <2>1, RangeInduction
<1>9. g[n] = v + h[n]
  BY <1>8
<1> QED BY <1>1, <1>4, <1>9 DEF v, Q

\* g sums up the points of sets of sessions, taking any one of a set first.
FoldsUp(rs, n, g) ==
  g = [s \in SUBSET (1..n) |->
         IF s = {} THEN 0
         ELSE rs[CHOOSE x \in s : TRUE].focusScore + g[s \ {CHOOSE x \in s : TRUE}]]

\* In whichever order it takes the sessions, it is that sum.
LEMMA FoldIs ==
  ASSUME NEW rs, NEW n \in Nat, \A i \in 1..n : Points(rs, i) \in Nat
  PROVE  (CHOOSE g : FoldsUp(rs, n, g))[1..n] = PointsOf(rs, n, 1..n)
<1> DEFINE W == 1..n
           pick(s) == CHOOSE x \in s : TRUE
           f == [s \in SUBSET W |-> PointsOf(rs, n, s)]
           g == CHOOSE h : FoldsUp(rs, n, h)
<1>1. \A s \in SUBSET W : s # {} => pick(s) \in s /\ pick(s) \in W
  OBVIOUS
<1> HIDE DEF pick
<1>2. ASSUME NEW s \in SUBSET W
      PROVE  PointsOf(rs, n, s) =
               IF s = {} THEN 0 ELSE Points(rs, pick(s)) + PointsOf(rs, n, s \ {pick(s)})
  <2>1. CASE s = {}
    BY <2>1, PointsOfNone
  <2>2. CASE s # {}
    <3>1. pick(s) \in s /\ pick(s) \in W
      BY <1>1, <2>2
    <3>2. PointsOf(rs, n, s) = Points(rs, pick(s)) + PointsOf(rs, n, s \ {pick(s)})
      BY <3>1, PointsOfOneMore
    <3> QED BY <2>2, <3>2
  <2> QED BY <2>1, <2>2
<1>3. f = [s \in SUBSET W |-> IF s = {} THEN 0 ELSE Points(rs, pick(s)) + f[s \ {pick(s)}]]
  <2>1. ASSUME NEW s \in SUBSET W
        PROVE  f[s] = IF s = {} THEN 0 ELSE Points(rs, pick(s)) + f[s \ {pick(s)}]
    <3>1. s \ {pick(s)} \in SUBSET W
      OBVIOUS
    <3>2. f[s] = PointsOf(rs, n, s) /\ f[s \ {pick(s)}] = PointsOf(rs, n, s \ {pick(s)})
      BY <3>1
    <3> HIDE DEF f
    <3> QED BY <1>2, <3>2
  <2>2. f = [s \in SUBSET W |-> f[s]]
    OBVIOUS
  <2> HIDE DEF f
  <2> QED BY <2>1, <2>2
<1>4. FoldsUp(rs, n, f)
  <2> HIDE DEF f
  <2> QED BY <1>3 DEF FoldsUp, Points, pick
<1>5. FoldsUp(rs, n, g)
  BY <1>4
<1> HIDE DEF g, f
<1>6. \A s \in SUBSET W : g[s] = IF s = {} THEN 0 ELSE Points(rs, pick(s)) + g[s \ {pick(s)}]
  BY <1>5, Zenon DEF FoldsUp, Points, pick
<1>7. IsFiniteSet(W)
  BY FS_Interval
<1> HIDE DEF W
<1> DEFINE S == {k \in Nat : \A s \in SUBSET W : Cardinality(s) = k => g[s] = PointsOf(rs, n, s)}
<1>8. ASSUME NEW k \in Nat, \A m \in 0..(k - 1) : m \in S PROVE k \in S
  <2> SUFFICES ASSUME NEW s \in SUBSET W, Cardinality(s) = k PROVE g[s] = PointsOf(rs, n, s)
    OBVIOUS
  <2>1. CASE s = {}
    BY <1>2, <1>6, <2>1
  <2>2. CASE s # {}
    <3> DEFINE t == s \ {pick(s)}
    <3>1. IsFiniteSet(s) /\ pick(s) \in s
      BY <1>1, <1>7, <2>2, FS_Subset
    <3>2. t \in SUBSET W /\ Cardinality(t) = k - 1
      BY <3>1, FS_RemoveElement
    <3>3. IsFiniteSet(t) /\ Cardinality(t) \in Nat
      BY <3>1, FS_RemoveElement, FS_CardinalityType
    <3>4. g[s] = Points(rs, pick(s)) + g[t]
      BY <1>6, <2>2
    <3>5. PointsOf(rs, n, s) = Points(rs, pick(s)) + PointsOf(rs, n, t)
      BY <1>2, <2>2
    <3> HIDE DEF t
    <3>6. k - 1 \in 0..(k - 1)
      BY <3>2, <3>3
    <3>7. k - 1 \in S
      BY <1>8, <3>6
    <3>8. g[t] = PointsOf(rs, n, t)
      BY <3>2, <3>7
    <3> QED BY <3>4, <3>5, <3>8
  <2> QED BY <2>1, <2>2
<1>9. S = Nat
  <2> HIDE DEF S
  <2> QED BY <1>8, StrongInduction DEF S
<1>10. Cardinality(W) \in Nat /\ W \in SUBSET W
  BY <1>7, FS_CardinalityType
<1>11. g[W] = PointsOf(rs, n, W)
  <2>1. Cardinality(W) \in S
    BY <1>9, <1>10
  <2> QED BY <1>10, <2>1
<1> QED BY <1>11 DEF g, W

\* totalPoints is the sum of the points of all the sessions it is given.
LEMMA TotalPointsIs ==
  ASSUME NEW rs, NEW n \in Nat, \A i \in 1..n : Points(rs, i) \in Nat,
         NEW r, Len(r) = n, \A i \in 1..n : r[i] = rs[i]
  PROVE  TotalPoints(r) = PointsOf(rs, n, 1..n)
<1> DEFINE Loop(h) == h = [i \in 0..n |-> IF i = 0 THEN 0 ELSE h[i - 1] + r[i].focusScore]
           sum == CHOOSE h : Loop(h)
<1>1. PICK g : SumsUp(rs, n, 1..n, g) /\ PointsOf(rs, n, 1..n) = g[n]
  BY PointsOfIs
<1>2. g \in [0..n -> Nat] /\ g[0] = 0
  BY <1>1 DEF SumsUp
<1>3. \A i \in 1..n : g[i] = g[i - 1] + r[i].focusScore
  BY <1>1 DEF SumsUp, Points
<1>4. Loop(g)
  <2>1. ASSUME NEW i \in 0..n PROVE g[i] = IF i = 0 THEN 0 ELSE g[i - 1] + r[i].focusScore
    <3>1. i = 0 \/ i \in 1..n
      OBVIOUS
    <3> QED BY <1>2, <1>3, <3>1
  <2>2. g = [i \in 0..n |-> g[i]]
    BY <1>2
  <2> QED BY <2>1, <2>2
<1>5. Loop(sum)
  BY <1>4
<1>6. TotalPoints(r) = sum[n]
  BY DEF TotalPoints
<1> HIDE DEF sum
<1>7. \A i \in 0..n : sum[i] = IF i = 0 THEN 0 ELSE sum[i - 1] + r[i].focusScore
  BY <1>5
<1> DEFINE S == {i \in 0..n : sum[i] = g[i]}
<1>8. 0 \in S
  <2>1. 0 \in 0..n
    OBVIOUS
  <2>2. sum[0] = 0
    BY <1>7, <2>1
  <2> QED BY <1>2, <2>1, <2>2
<1>9. ASSUME NEW i \in (0 + 1)..n, i - 1 \in S PROVE i \in S
  <2>1. i \in 1..n /\ i \in 0..n /\ i # 0 /\ sum[i - 1] = g[i - 1]
    BY <1>9
  <2>2. sum[i] = sum[i - 1] + r[i].focusScore
    BY <1>7, <2>1
  <2>3. g[i] = g[i - 1] + r[i].focusScore
    BY <1>3, <2>1
  <2> QED BY <2>1, <2>2, <2>3
<1>10. n \in S
  <2>1. n \in 0..n
    OBVIOUS
  <2> HIDE DEF S
  <2> QED BY <1>8, <1>9, <2>1, RangeInduction
<1> QED BY <1>1, <1>6, <1>10

-----------------------------------------------------------------------------
(***************************************************************************)
(* Progress                                                                *)
(***************************************************************************)

\* The number of sessions that count.
Count(rs) == IF Len(rs) < Take THEN Len(rs) ELSE Take

\* They are the newest ones.
LEMMA RecentIs ==
  ASSUME NEW rs, NewestFirst(rs), rs # <<>>
  PROVE  /\ Count(rs) \in Nat /\ Count(rs) >= 1 /\ Count(rs) <= Len(rs)
         /\ DOMAIN rs \cap 1..Take = 1..Count(rs)
         /\ NewestFirst(Recent(rs)) /\ Len(Recent(rs)) = Count(rs)
         /\ \A i \in 1..Count(rs) : Recent(rs)[i] = rs[i]
<1> DEFINE n == Count(rs)
           r == Recent(rs)
<1>1. rs \in Seq(Completed) /\ Len(rs) \in Nat /\ DOMAIN rs = 1..Len(rs) /\ Len(rs) >= 1
  <2>1. rs \in Seq(Completed)
    BY DEF NewestFirst
  <2>2. Len(rs) \in Nat \ {0}
    BY <2>1, EmptySeq
  <2> QED BY <2>1, <2>2, LenProperties
<1>2. n \in Nat /\ n >= 1 /\ n <= Len(rs) /\ DOMAIN rs \cap 1..Take = 1..n
  BY <1>1, TakeAssumption DEF Count
<1>3. \A i \in 1..n : rs[i] \in Completed
  BY <1>1, <1>2, ElementOfSeq
<1>4. r = SubSeq(rs, 1, n)
  BY DEF Recent, Count
<1> HIDE DEF n, r
<1>5. r \in Seq(Completed) /\ Len(r) = n /\ \A i \in 1..n : r[i] = rs[i]
  <2> DEFINE s == SubSeq(rs, 1, n)
  <2>1. /\ s \in Seq(Completed)
        /\ Len(s) = IF 1 <= n THEN n - 1 + 1 ELSE 0
        /\ \A i \in 1..(n - 1 + 1) : s[i] = rs[1 + i - 1]
    BY <1>2, <1>3, SubSeqProperties
  <2> HIDE DEF s
  <2>2. n - 1 + 1 = n /\ 1 <= n /\ \A i \in 1..n : 1 + i - 1 = i
    BY <1>2
  <2>3. Len(s) = n /\ \A i \in 1..n : s[i] = rs[i]
    BY <2>1, <2>2
  <2> QED BY <1>4, <2>1, <2>3 DEF s
<1>6. NewestFirst(r)
  <2>1. \A i, j \in 1..Len(rs) : i < j => rs[i].day >= rs[j].day
    BY DEF NewestFirst
  <2>2. 1..n \subseteq 1..Len(rs)
    BY <1>1, <1>2
  <2>3. \A i, j \in 1..n : i < j => rs[i].day >= rs[j].day
    BY <2>1, <2>2
  <2>4. \A i, j \in 1..Len(r) : i < j => r[i].day >= r[j].day
    BY <1>5, <2>3
  <2> QED BY <1>5, <2>4 DEF NewestFirst
<1> QED BY <1>2, <1>5, <1>6 DEF n, r

\* The days of the sessions and their list.
LEMMA DayStringsAre ==
  ASSUME NEW rs, NewestFirst(rs), Len(rs) >= 1
  PROVE  /\ Falling(DayStrings(rs)) /\ Len(DayStrings(rs)) >= 1
         /\ DaysOf(DayStrings(rs)) = {rs[i].day : i \in 1..Len(rs)}
         /\ DayStrings(rs)[1] = rs[1].day
<1> DEFINE ds == DayStrings(rs)
           n == Len(rs)
<1>1. Lists(rs, n, ds)
  BY DayStringsLists
<1>2. rs \in Seq(Completed) /\ n \in Nat /\ n >= 1
  BY LenProperties DEF NewestFirst
<1> HIDE DEF ds, n
<1>3. /\ ds \in Seq(Nat)
      /\ \A p \in 1..Len(ds) : \E j \in 1..n : ds[p] = rs[j].day
      /\ \A j \in 1..n : \E p \in 1..Len(ds) : ds[p] = rs[j].day
      /\ \A p, q \in 1..Len(ds) : p < q => ds[p] > ds[q]
  BY <1>1 DEF Lists
<1>4. Falling(ds)
  BY <1>3 DEF Falling
<1>5. DaysOf(ds) = {rs[i].day : i \in 1..n}
  <2>1. ASSUME NEW d \in DaysOf(ds) PROVE d \in {rs[i].day : i \in 1..n}
    <3>1. PICK p \in 1..Len(ds) : d = ds[p]
      BY DEF DaysOf
    <3>2. PICK j \in 1..n : ds[p] = rs[j].day
      BY <1>3
    <3> QED BY <3>1, <3>2
  <2>2. ASSUME NEW j \in 1..n PROVE rs[j].day \in DaysOf(ds)
    <3>1. PICK p \in 1..Len(ds) : ds[p] = rs[j].day
      BY <1>3
    <3> QED BY <3>1 DEF DaysOf
  <2> QED BY <2>1, <2>2
<1>6. PICK q \in 1..Len(ds) : ds[q] = rs[1].day
  <2>1. 1 \in 1..n
    BY <1>2
  <2> QED BY <1>3, <2>1
<1>7. Len(ds) \in Nat
  BY <1>3, LenProperties
<1>8. Len(ds) >= 1 /\ 1 \in 1..Len(ds)
  BY <1>6, <1>7
<1>9. ds[1] = rs[1].day
  <2>1. PICK j \in 1..n : ds[1] = rs[j].day
    BY <1>3, <1>8
  <2>2. ds[1] \in Nat /\ ds[q] \in Nat
    BY <1>3, <1>8, ElementOfSeq
  <2>3. ds[1] <= ds[q]
    <3>1. CASE j = 1
      BY <1>6, <2>1, <2>2, <3>1
    <3>2. CASE j # 1
      <4>1. 1 \in 1..n /\ 1 < j
        BY <1>2, <3>2
      <4>2. rs[1].day >= rs[j].day
        BY <4>1 DEF NewestFirst, n
      <4> QED BY <1>6, <2>1, <2>2, <4>2
    <3> QED BY <3>1, <3>2
  <2>4. 1 < q => ds[1] > ds[q]
    BY <1>3, <1>8
  <2>5. q = 1
    BY <1>7, <2>2, <2>3, <2>4
  <2> QED BY <1>6, <2>5
<1> QED BY <1>4, <1>5, <1>8, <1>9 DEF ds, n

\* What the loops compute: the streaks of the days that are read, and their points.
ReadStreaks ==
  LET p == GetUserProgress(sessions)
      D == {sessions[i].day : i \in SessionsRead}
  IN  subject = "streak" /\ sessions # <<>> =>
        /\ p.currentStreak = RunEndingAt(D, sessions[1].day)
        /\ \E d \in D : p.longestStreak = RunEndingAt(D, d)
        /\ \A d \in D : p.longestStreak >= RunEndingAt(D, d)
        /\ p.totalPoints = Sets!MapThenSumSet(LAMBDA i : sessions[i].focusScore, SessionsRead)

\* The loops compute that when the sessions are listed newest first.
LEMMA StreaksOfSessions == NewestFirst(sessions) => ReadStreaks
<1> SUFFICES ASSUME NewestFirst(sessions), subject = "streak", sessions # <<>>
             PROVE  ReadStreaks
  BY DEF ReadStreaks
<1> DEFINE r == Recent(sessions)
           m == Count(sessions)
           window == DOMAIN sessions \cap 1..Take
           D == {sessions[i].day : i \in window}
           p == GetUserProgress(sessions)
           ds == DayStrings(r)
<1>1. /\ m \in Nat /\ m >= 1 /\ m <= Len(sessions) /\ window = 1..m
      /\ NewestFirst(r) /\ Len(r) = m /\ \A i \in 1..m : r[i] = sessions[i]
  BY RecentIs
<1>2. /\ p.currentStreak = CalculateCurrentStreak(ds)
      /\ p.longestStreak = CalculateLongestStreak(ds)
      /\ p.totalPoints = TotalPoints(r)
  BY DEF GetUserProgress
<1> HIDE DEF r, m, p
<1>3. Falling(ds) /\ Len(ds) >= 1 /\ DaysOf(ds) = {r[i].day : i \in 1..m} /\ ds[1] = r[1].day
  BY <1>1, DayStringsAre
<1>4. D = DaysOf(ds) /\ ds[1] = sessions[1].day
  <2>1. {r[i].day : i \in 1..m} = {sessions[i].day : i \in 1..m}
    BY <1>1
  <2>2. D = {sessions[i].day : i \in 1..m}
    BY <1>1
  <2>3. 1 \in 1..m
    BY <1>1
  <2> HIDE DEF D, ds
  <2> QED BY <1>1, <1>3, <2>1, <2>2, <2>3
<1> HIDE DEF ds, D
<1>5. p.currentStreak = RunEndingAt(D, sessions[1].day)
  BY <1>2, <1>3, <1>4, CurrentStreakIsRun
<1>6. /\ \A q \in 1..Len(ds) : RunAt(ds, q) <= p.longestStreak
      /\ \E q \in 1..Len(ds) : RunAt(ds, q) = p.longestStreak
      /\ p.longestStreak \in Nat
  BY <1>2, <1>3, LongestStreakIsRun
<1>7. \E d \in D : p.longestStreak = RunEndingAt(D, d)
  <2>1. PICK q \in 1..Len(ds) : RunAt(ds, q) = p.longestStreak
    BY <1>6
  <2>2. ds[q] \in D
    BY <1>4 DEF DaysOf
  <2> QED BY <1>4, <2>1, <2>2 DEF RunAt
<1>8. \A d \in D : p.longestStreak >= RunEndingAt(D, d)
  <2> TAKE d \in D
  <2>1. PICK q \in 1..Len(ds) : d = ds[q]
    BY <1>4 DEF DaysOf
  <2>2. RunAt(ds, q) <= p.longestStreak
    BY <1>6
  <2>3. RunAt(ds, q) = RunEndingAt(D, d)
    BY <1>4, <2>1 DEF RunAt
  <2> QED BY <2>2, <2>3
<1>9. \A i \in 1..m : Points(sessions, i) \in Nat
  <2> TAKE i \in 1..m
  <2>1. sessions \in Seq(Completed) /\ Len(sessions) \in Nat
    BY LenProperties DEF NewestFirst
  <2>2. i \in 1..Len(sessions)
    BY <1>1, <2>1
  <2>3. sessions[i] \in Completed
    BY <2>1, <2>2, ElementOfSeq
  <2> QED BY <2>3 DEF Points, Completed
<1>10. p.totalPoints = PointsOf(sessions, m, 1..m)
  BY <1>1, <1>2, <1>9, TotalPointsIs
<1>11. Sets!MapThenSumSet(LAMBDA i : sessions[i].focusScore, window) = PointsOf(sessions, m, 1..m)
  <2>1. Sets!MapThenSumSet(LAMBDA i : sessions[i].focusScore, 1..m)
          = (CHOOSE g : FoldsUp(sessions, m, g))[1..m]
    BY Zenon DEF Sets!MapThenSumSet, Sets!MapThenFoldSet, FoldsUp
  <2>2. (CHOOSE g : FoldsUp(sessions, m, g))[1..m] = PointsOf(sessions, m, 1..m)
    BY <1>1, <1>9, FoldIs
  <2>3. window = 1..m
    BY <1>1
  <2> HIDE DEF window
  <2>4. Sets!MapThenSumSet(LAMBDA i : sessions[i].focusScore, window)
          = Sets!MapThenSumSet(LAMBDA i : sessions[i].focusScore, 1..m)
    BY <2>3, Zenon
  <2> QED BY <2>1, <2>2, <2>4, Zenon
<1> HIDE DEF window
<1>12. p.totalPoints = Sets!MapThenSumSet(LAMBDA i : sessions[i].focusScore, window)
  BY <1>10, <1>11, Zenon
<1> QED BY <1>5, <1>7, <1>8, <1>12, Zenon DEF ReadStreaks, SessionsRead, p, D, window

\* Every day of a set of days ends a run of them.
LEMMA RunExists ==
  ASSUME NEW D \in SUBSET Nat, NEW d \in D
  PROVE  \E n \in Nat \ {0} : ((d - n + 1)..d) \subseteq D /\ d - n \notin D
<1> DEFINE S == {n \in Nat : n # 0 /\ d - n \notin D}
<1>1. S \in SUBSET Nat /\ d \in Nat
  OBVIOUS
<1>2. d + 1 \in S
  <2>1. d + 1 \in Nat /\ d + 1 # 0 /\ d - (d + 1) = -1 /\ -1 \notin Nat
    BY <1>1
  <2> QED BY <2>1
<1>3. PICK n \in S : \A m \in S : n <= m
  <2> HIDE DEF S
  <2> QED BY <1>1, <1>2, Least
<1>4. n \in Nat \ {0} /\ d - n \notin D
  OBVIOUS
<1>5. ASSUME NEW x \in (d - n + 1)..d PROVE x \in D
  <2> DEFINE m == d - x
  <2>1. m \in Nat /\ m < n /\ d - m = x
    BY <1>1, <1>4
  <2>2. m \notin S
    <3> HIDE DEF m, S
    <3> QED BY <1>3, <1>4, <2>1
  <2>3. m = 0 \/ d - m \in D
    <3> HIDE DEF m
    <3> QED BY <2>1, <2>2
  <2>4. m = 0 => x = d
    BY <1>1
  <2> QED BY <2>1, <2>3, <2>4
<1> QED BY <1>4, <1>5

\* A run of the days since a given one is the run of all the days, cut off there.
LEMMA RunCut ==
  ASSUME NEW D \in SUBSET Nat, IsFiniteSet(D), NEW since \in Nat,
         NEW d \in D, d >= since
  PROVE  RunEndingAt({x \in D : x >= since}, d)
           = IF d - RunEndingAt(D, d) + 1 >= since THEN RunEndingAt(D, d) ELSE d - since + 1
<1> DEFINE W == {x \in D : x >= since}
<1>1. PICK n \in Nat \ {0} : ((d - n + 1)..d) \subseteq D /\ d - n \notin D
  BY RunExists
<1>2. d \in Int /\ D \in SUBSET Int /\ W \in SUBSET Int /\ IsFiniteSet(W)
  <2>1. d \in Nat /\ W \in SUBSET D
    OBVIOUS
  <2> HIDE DEF W
  <2>2. IsFiniteSet(W)
    BY <2>1, FS_Subset
  <2>3. D \in SUBSET Int
    OBVIOUS
  <2> QED BY <2>1, <2>2, <2>3
<1>3. RunEndingAt(D, d) = n
  BY <1>1, <1>2, RunIs
<1>4. CASE d - n + 1 >= since
  <2>1. ((d - n + 1)..d) \subseteq W /\ d - n \notin W
    BY <1>1, <1>2, <1>4
  <2> HIDE DEF W
  <2>2. RunEndingAt(W, d) = n
    BY <1>2, <2>1, RunIs
  <2> QED BY <1>3, <1>4, <2>2 DEF W
<1>5. CASE ~(d - n + 1 >= since)
  <2> DEFINE k == d - since + 1
  <2>1. k \in Nat \ {0} /\ d - k + 1 = since /\ d - k = since - 1
    BY <1>2
  <2>2. (since..d) \subseteq W
    BY <1>1, <1>2, <1>5
  <2>3. d - k \notin W
    BY <2>1
  <2> HIDE DEF W, k
  <2>4. ((d - k + 1)..d) \subseteq W
    BY <2>1, <2>2
  <2>5. RunEndingAt(W, d) = k
    BY <1>2, <2>1, <2>3, <2>4, RunIs
  <2> QED BY <1>3, <1>5, <2>5 DEF W, k
<1> QED BY <1>4, <1>5

\* The days that are read are those since the oldest session that is read.
LEMMA DaysRead ==
  ASSUME NewestFirst(sessions), sessions # <<>>,
         NEW A, A = {sessions[i].day : i \in DOMAIN sessions}
  PROVE  /\ A \in SUBSET Nat /\ IsFiniteSet(A) /\ ReadSince \in Nat
         /\ {sessions[i].day : i \in SessionsRead} = {x \in A : x >= ReadSince}
         /\ sessions[1].day \in {sessions[i].day : i \in SessionsRead}
<1> DEFINE m == Count(sessions)
           n == Len(sessions)
           Day(i) == sessions[i].day
<1>1. m \in Nat /\ m >= 1 /\ m <= n /\ SessionsRead = 1..m
  BY RecentIs DEF SessionsRead
<1>2. n \in Nat /\ DOMAIN sessions = 1..n /\ sessions \in Seq(Completed)
  BY LenProperties DEF NewestFirst
<1>3. \A i \in 1..n : Day(i) \in Nat
  <2>1. \A i \in 1..n : sessions[i] \in Completed
    BY <1>2, ElementOfSeq
  <2> QED BY <2>1 DEF Completed
<1>4. \A i, j \in 1..n : i < j => Day(i) >= Day(j)
  BY DEF NewestFirst
<1>5. ReadSince = Day(m)
  <2>1. Cardinality(1..m) = m
    BY <1>1, FS_Interval
  <2> QED BY <1>1, <2>1 DEF ReadSince
<1>6. A = {Day(i) : i \in 1..n}
  BY <1>2
<1> HIDE DEF m, n, Day
<1>7. A \in SUBSET Nat /\ Day(m) \in Nat
  <2>1. m \in 1..n
    BY <1>1, <1>2
  <2>2. Day(m) \in Nat
    BY <1>3, <2>1
  <2>3. \A x \in A : x \in Nat
    BY <1>3, <1>6
  <2> QED BY <2>2, <2>3
<1>8. IsFiniteSet(A)
  <2> DEFINE C == 1..n
             f == [i \in C |-> Day(i)]
  <2>1. f \in Surjection(C, A)
    BY <1>6 DEF Surjection
  <2>2. IsFiniteSet(C)
    BY <1>2, FS_Interval
  <2> HIDE DEF C, f
  <2> QED BY <2>1, <2>2, FS_Surjection
<1> DEFINE R == {Day(i) : i \in 1..m}
           W == {x \in A : x >= Day(m)}
<1>9. R \subseteq W
  <2> SUFFICES ASSUME NEW i \in 1..m PROVE Day(i) \in A /\ Day(i) >= Day(m)
    OBVIOUS
  <2>1. i \in 1..n /\ m \in 1..n /\ (i = m \/ i < m)
    BY <1>1, <1>2
  <2>2. Day(i) \in A
    BY <1>6, <2>1
  <2>3. i < m => Day(i) >= Day(m)
    BY <1>4, <2>1
  <2>4. i = m => Day(i) >= Day(m)
    BY <1>7
  <2> QED BY <2>1, <2>2, <2>3, <2>4
<1>10. W \subseteq R
  <2> SUFFICES ASSUME NEW j \in 1..n, Day(j) >= Day(m) PROVE Day(j) \in R
    BY <1>6
  <2>1. CASE j <= m
    BY <2>1
  <2>2. CASE ~(j <= m)
    <3>1. m \in 1..n /\ m < j /\ m \in 1..m
      BY <1>1, <1>2, <2>2
    <3>2. Day(m) >= Day(j) /\ Day(j) \in Nat
      BY <1>3, <1>4, <3>1
    <3>3. Day(j) = Day(m)
      BY <1>7, <3>2
    <3> QED BY <3>1, <3>3
  <2> QED BY <2>1, <2>2
<1>11. R = W
  BY <1>9, <1>10, Zenon
<1>12. Day(1) \in R
  BY <1>1
<1> HIDE DEF R
<1>13. {sessions[i].day : i \in SessionsRead} = R
  BY <1>1, Zenon DEF R, Day
<1> QED BY <1>5, <1>7, <1>8, <1>11, <1>12, <1>13 DEF Day

\* So the streaks of the days that are read are the streaks of the plan, cut off.
LEMMA StreaksAreCut == NewestFirst(sessions) => StreaksMissOnlyOldDays
<1> SUFFICES ASSUME NewestFirst(sessions), subject = "streak", sessions # <<>>
             PROVE  StreaksMissOnlyOldDays
  BY DEF StreaksMissOnlyOldDays
<1> DEFINE A == {sessions[i].day : i \in DOMAIN sessions}
           D == {sessions[i].day : i \in SessionsRead}
           p == GetUserProgress(sessions)
<1>1. /\ A \in SUBSET Nat /\ IsFiniteSet(A) /\ ReadSince \in Nat
      /\ D = {x \in A : x >= ReadSince} /\ sessions[1].day \in D
  <2> HIDE DEF A
  <2>1. A = {sessions[i].day : i \in DOMAIN sessions}
    BY DEF A
  <2> QED BY <2>1, DaysRead
<1>2. \A d : Streak(d) = RunEndingAt(A, d)
  BY Zenon DEF Streak
<1>3. ReadStreaks
  BY StreaksOfSessions
<1>4. /\ p.currentStreak = RunEndingAt(D, sessions[1].day)
      /\ \E d \in D : p.longestStreak = RunEndingAt(D, d)
      /\ \A d \in D : p.longestStreak >= RunEndingAt(D, d)
      /\ p.totalPoints = Sets!MapThenSumSet(LAMBDA i : sessions[i].focusScore, SessionsRead)
  BY <1>3, Zenon DEF ReadStreaks
<1> HIDE DEF A, D, p
<1>5. ASSUME NEW d \in D PROVE RunEndingAt(D, d) = StreakRead(d)
  <2>1. d \in A /\ d >= ReadSince
    BY <1>1
  <2>2. RunEndingAt(D, d)
          = IF d - RunEndingAt(A, d) + 1 >= ReadSince THEN RunEndingAt(A, d)
            ELSE d - ReadSince + 1
    BY <1>1, <2>1, RunCut
  <2> QED BY <1>2, <2>2, Zenon DEF StreakRead
<1>6. p.currentStreak = StreakRead(sessions[1].day)
  BY <1>1, <1>4, <1>5, Zenon
<1>7. \E d \in D : p.longestStreak = StreakRead(d)
  BY <1>4, <1>5, Zenon
<1>8. \A d \in D : p.longestStreak >= StreakRead(d)
  <2> TAKE d \in D
  <2>1. p.longestStreak >= RunEndingAt(D, d)
    BY <1>4
  <2>2. RunEndingAt(D, d) = StreakRead(d)
    BY <1>5
  <2> QED BY <2>1, <2>2, Zenon
<1> QED BY <1>4, <1>6, <1>7, <1>8, Zenon DEF StreaksMissOnlyOldDays, p, D

\* The next session is put in front of the others.
LEMMA NewestFirstMore ==
  ASSUME NEW rs, NewestFirst(rs), NEW x \in Completed, rs # <<>> => x.day >= rs[1].day
  PROVE  NewestFirst(<<x>> \o rs)
<1> DEFINE one == <<x>>
           t == one \o rs
<1>1. rs \in Seq(Completed) /\ Len(rs) \in Nat
  BY LenProperties DEF NewestFirst
<1>2. one \in Seq(Completed) /\ Len(one) = 1 /\ one[1] = x
  OBVIOUS
<1> HIDE DEF one
<1>3. /\ t \in Seq(Completed) /\ Len(t) = Len(one) + Len(rs)
      /\ \A i \in 1..(Len(one) + Len(rs)) : t[i] = IF i <= Len(one) THEN one[i] ELSE rs[i - Len(one)]
  BY <1>1, <1>2, ConcatProperties
<1> HIDE DEF t
<1>4. Len(t) = Len(rs) + 1
  BY <1>1, <1>2, <1>3
<1>5. t[1] = x
  <2>1. 1 \in 1..(Len(one) + Len(rs)) /\ 1 <= Len(one)
    BY <1>1, <1>2
  <2> QED BY <1>2, <1>3, <2>1
<1>6. ASSUME NEW i \in 2..Len(t) PROVE t[i] = rs[i - 1] /\ i - 1 \in 1..Len(rs)
  <2>1. i \in 1..(Len(one) + Len(rs)) /\ ~(i <= Len(one)) /\ i - 1 \in 1..Len(rs)
    BY <1>1, <1>2, <1>4
  <2> QED BY <1>2, <1>3, <2>1
<1>7. \A i \in 1..Len(rs) : rs[i].day \in Nat
  <2>1. \A i \in 1..Len(rs) : rs[i] \in Completed
    BY <1>1, ElementOfSeq
  <2> QED BY <2>1 DEF Completed
<1>8. x.day \in Nat
  BY DEF Completed
<1>9. ASSUME NEW i \in 1..Len(rs) PROVE x.day >= rs[i].day
  <2>1. rs # <<>> /\ 1 \in 1..Len(rs)
    BY <1>1, EmptySeq
  <2>2. x.day >= rs[1].day /\ rs[1].day \in Nat /\ rs[i].day \in Nat
    BY <1>7, <2>1
  <2>3. CASE i = 1
    BY <2>2, <2>3
  <2>4. CASE i # 1
    <3>1. 1 < i
      BY <2>4
    <3>2. rs[1].day >= rs[i].day
      BY <2>1, <3>1 DEF NewestFirst
    <3> QED BY <1>8, <2>2, <3>2
  <2> QED BY <2>3, <2>4
<1>10. ASSUME NEW i \in 1..Len(t), NEW j \in 1..Len(t), i < j PROVE t[i].day >= t[j].day
  <2>1. j \in 2..Len(t)
    BY <1>1, <1>4, <1>10
  <2>2. t[j] = rs[j - 1] /\ j - 1 \in 1..Len(rs)
    BY <1>6, <2>1
  <2>3. CASE i = 1
    <3>1. x.day >= rs[j - 1].day
      BY <1>9, <2>2
    <3> QED BY <1>5, <2>2, <2>3, <3>1
  <2>4. CASE i # 1
    <3>1. i \in 2..Len(t)
      BY <1>1, <1>4, <2>4
    <3>2. t[i] = rs[i - 1] /\ i - 1 \in 1..Len(rs) /\ i - 1 < j - 1
      BY <1>4, <1>6, <1>10, <3>1
    <3>3. rs[i - 1].day >= rs[j - 1].day
      BY <2>2, <3>2 DEF NewestFirst
    <3> QED BY <2>2, <3>2, <3>3
  <2> QED BY <2>3, <2>4
<1>11. NewestFirst(t)
  BY <1>3, <1>10 DEF NewestFirst
<1> QED BY <1>11 DEF t, one

\* They stay listed newest first.
LEMMA SessionsInvariant == Spec => []NewestFirst(sessions)
<1>1. Init => NewestFirst(sessions)
  <2> SUFFICES ASSUME Init PROVE NewestFirst(sessions)
    OBVIOUS
  <2>1. sessions = <<>>
    BY DEF Init
  <2>2. <<>> \in Seq(Completed) /\ Len(<<>>) = 0 /\ 1..0 = {}
    BY EmptySeq
  <2> QED BY <2>1, <2>2 DEF NewestFirst
<1>2. NewestFirst(sessions) /\ [Next]_vars => NewestFirst(sessions)'
  <2> SUFFICES ASSUME NewestFirst(sessions), [Next]_vars PROVE NewestFirst(sessions')
    BY DEF NewestFirst
  <2>1. CASE UNCHANGED sessions
    BY <2>1
  <2>2. CASE CompleteSession
    <3> DEFINE Day(gap) == IF sessions = <<>> THEN 0 ELSE sessions[1].day + gap
    <3>1. PICK gap \in 0..MaxGap, score \in Scores :
            sessions' = <<[day |-> Day(gap), focusScore |-> score]>> \o sessions
      BY <2>2 DEF CompleteSession
    <3> DEFINE x == [day |-> Day(gap), focusScore |-> score]
    <3>2. gap \in Nat /\ score \in Nat
      BY BoundsAssumption
    <3>3. sessions # <<>> => sessions[1].day \in Nat
      <4>1. sessions \in Seq(Completed) /\ (sessions # <<>> => 1 \in 1..Len(sessions))
        <5>1. sessions \in Seq(Completed)
          BY DEF NewestFirst
        <5>2. sessions # <<>> => Len(sessions) \in Nat \ {0}
          BY <5>1, EmptySeq
        <5> QED BY <5>1, <5>2
      <4>2. sessions # <<>> => sessions[1] \in Completed
        BY <4>1, ElementOfSeq
      <4> QED BY <4>2 DEF Completed
    <3>4. Day(gap) \in Nat /\ (sessions # <<>> => Day(gap) >= sessions[1].day)
      BY <3>2, <3>3
    <3> HIDE DEF Day
    <3>5. x \in Completed /\ x.day = Day(gap)
      BY <3>2, <3>4 DEF Completed
    <3> HIDE DEF x
    <3>6. NewestFirst(<<x>> \o sessions)
      BY <3>4, <3>5, NewestFirstMore
    <3> QED BY <3>1, <3>6 DEF x
  <2> QED BY <2>1, <2>2 DEF Next, Distraction, Pause, TabSwitches, LessActive, Worsen,
                            NextPage, vars
<1> QED BY <1>1, <1>2, PTL DEF Spec

\* getUserProgress: whatever the sessions of a user, the current and the longest streak
\* are the runs of consecutive days with a completed session, over all the sessions,
\* cut off at the day of the Take-th latest session, and the points are the sum of the
\* scores of the latest Take sessions.
THEOREM StreaksAreCutOff == Spec => []StreaksMissOnlyOldDays
  BY StreaksAreCut, SessionsInvariant, PTL
=============================================================================
