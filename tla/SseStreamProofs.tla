--------------------------- MODULE SseStreamProofs ---------------------------
(***************************************************************************)
(* Streamed replies of any length, cut into chunks of any size: the client *)
(* shows what the server collected, and the server misses only the tokens  *)
(* in whose line a chunk of the provider ended.                            *)
(***************************************************************************)
EXTENDS SseStream, SequenceTheorems, WellFoundedInduction, TLAPS

-----------------------------------------------------------------------------
(***************************************************************************)
(* Loops that collect.  Parsed and Without both go through the positions   *)
(* 1..n and append e[i] at the positions of a set P.                       *)
(***************************************************************************)

\* k is the function such a loop builds, up to n.
Collects(P, e, k, n) ==
  k = [i \in 0..n |-> IF i = 0 THEN <<>>
                      ELSE IF i \in P THEN Append(k[i - 1], e[i]) ELSE k[i - 1]]

\* What the loop returns.
Collected(P, e, n) == (CHOOSE k : Collects(P, e, k, n))[n]

\* Natural induction: no number is the least one outside of S.
LEMMA Induction ==
  ASSUME NEW S \in SUBSET Nat, 0 \in S, \A n \in S : n + 1 \in S
  PROVE  S = Nat
<1> SUFFICES ASSUME S # Nat PROVE FALSE
  OBVIOUS
<1> DEFINE R == OpToRel(<,Nat)
           T == Nat \ S
<1>1. IsWellFoundedOn(R, Nat)
  BY NatLessThanWellFounded, Zenon
<1>2. \A m, n \in Nat : m < n => <<m, n>> \in R
  BY Zenon DEF OpToRel
<1>3. T \subseteq Nat /\ T # {}
  OBVIOUS
<1> HIDE DEF R
<1>4. PICK n \in T : \A m \in T : ~(<<m, n>> \in R)
  BY <1>1, <1>3, WFMin
<1>5. n # 0 /\ n - 1 \in Nat /\ n - 1 < n /\ n - 1 + 1 = n
  BY <1>4
<1>6. n - 1 \in S
  BY <1>2, <1>4, <1>5
<1> QED BY <1>4, <1>5, <1>6

\* The values of such a function, one by one.
LEMMA CollectsAt ==
  ASSUME NEW P, NEW e, NEW k, NEW n \in Nat, Collects(P, e, k, n)
  PROVE  /\ k[0] = <<>>
         /\ \A i \in 1..n : k[i] = IF i \in P THEN Append(k[i - 1], e[i]) ELSE k[i - 1]
<1>1. \A i \in 0..n : k[i] = IF i = 0 THEN <<>>
                             ELSE IF i \in P THEN Append(k[i - 1], e[i]) ELSE k[i - 1]
  BY DEF Collects
<1>2. 0 \in 0..n /\ \A i \in 1..n : i \in 0..n /\ i # 0
  OBVIOUS
<1> QED BY <1>1, <1>2

\* There is one for every n.
LEMMA CollectsExists ==
  ASSUME NEW P, NEW e
  PROVE  \A n \in Nat : \E k : Collects(P, e, k, n)
<1> DEFINE S == {n \in Nat : \E k : Collects(P, e, k, n)}
<1>1. 0 \in S
  <2>1. Collects(P, e, [i \in 0..0 |-> <<>>], 0)
    BY DEF Collects
  <2> QED BY <2>1
<1>2. ASSUME NEW n \in S PROVE n + 1 \in S
  <2>1. PICK k : Collects(P, e, k, n)
    OBVIOUS
  <2> DEFINE v == IF n + 1 \in P THEN Append(k[n], e[n + 1]) ELSE k[n]
             g == [i \in 0..(n + 1) |-> IF i = n + 1 THEN v ELSE k[i]]
  <2>2. n \in Nat /\ g[n + 1] = v /\ \A i \in 0..n : g[i] = k[i]
    OBVIOUS
  <2>3. ASSUME NEW i \in 0..(n + 1)
        PROVE  g[i] = IF i = 0 THEN <<>>
                      ELSE IF i \in P THEN Append(g[i - 1], e[i]) ELSE g[i - 1]
    <3>1. CASE i = n + 1
      <4>1. i # 0 /\ i - 1 = n /\ n \in 0..n
        BY <2>2, <3>1
      <4> QED BY <2>2, <3>1, <4>1
    <3>2. CASE i = 0
      <4>1. 0 \in 0..n
        BY <2>2
      <4> QED BY <2>1, <2>2, <3>2, <4>1, CollectsAt
    <3>3. CASE i # n + 1 /\ i # 0
      <4>1. i \in 1..n /\ i \in 0..n /\ i - 1 \in 0..n
        BY <2>2, <3>3
      <4>2. g[i] = k[i] /\ g[i - 1] = k[i - 1]
        BY <2>2, <4>1
      <4> QED BY <2>1, <2>2, <3>3, <4>1, <4>2, CollectsAt
    <3> QED BY <3>1, <3>2, <3>3
  <2>4. Collects(P, e, g, n + 1)
    BY <2>3 DEF Collects
  <2> QED BY <2>2, <2>4
<1>3. S = Nat
  <2> HIDE DEF S
  <2> QED BY <1>1, <1>2, Induction DEF S
<1> QED BY <1>3

\* Two of them agree as far as both go.
LEMMA CollectsUnique ==
  ASSUME NEW P, NEW e, NEW k, NEW m \in Nat, Collects(P, e, k, m),
         NEW g, NEW n \in Nat, Collects(P, e, g, n)
  PROVE  \A i \in Nat : i <= m /\ i <= n => k[i] = g[i]
<1> DEFINE S == {i \in Nat : i <= m /\ i <= n => k[i] = g[i]}
<1>1. 0 \in S
  BY CollectsAt
<1>2. ASSUME NEW i \in S PROVE i + 1 \in S
  <2>1. ASSUME i + 1 <= m, i + 1 <= n PROVE k[i + 1] = g[i + 1]
    <3>1. i \in Nat /\ i + 1 \in 1..m /\ i + 1 \in 1..n /\ i + 1 - 1 = i
      BY <2>1
    <3>2. k[i] = g[i]
      BY <1>2, <2>1, <3>1
    <3>3. k[i + 1] = IF i + 1 \in P THEN Append(k[i], e[i + 1]) ELSE k[i]
      BY <3>1, CollectsAt
    <3>4. g[i + 1] = IF i + 1 \in P THEN Append(g[i], e[i + 1]) ELSE g[i]
      BY <3>1, CollectsAt
    <3> QED BY <3>2, <3>3, <3>4
  <2> QED BY <2>1
<1>3. S = Nat
  <2> HIDE DEF S
  <2> QED BY <1>1, <1>2, Induction DEF S
<1> QED BY <1>3

\* So every one of them ends with Collected.
LEMMA CollectsIs ==
  ASSUME NEW P, NEW e, NEW k, NEW n \in Nat, Collects(P, e, k, n)
  PROVE  \A i \in 0..n : k[i] = Collected(P, e, i)
<1> SUFFICES ASSUME NEW i \in 0..n PROVE k[i] = Collected(P, e, i)
  OBVIOUS
<1> DEFINE g == CHOOSE h : Collects(P, e, h, i)
<1>1. Collects(P, e, g, i)
  BY CollectsExists
<1>2. i \in Nat /\ i <= n /\ i <= i
  OBVIOUS
<1> HIDE DEF g
<1>3. k[i] = g[i]
  BY <1>1, <1>2, CollectsUnique
<1> QED BY <1>3 DEF Collected, g

\* The loop, step by step.
LEMMA CollectedMore ==
  ASSUME NEW P, NEW e, NEW n \in Nat
  PROVE  Collected(P, e, n + 1) =
           IF n + 1 \in P THEN Append(Collected(P, e, n), e[n + 1]) ELSE Collected(P, e, n)
<1>1. n + 1 \in Nat /\ n \in 0..(n + 1) /\ n + 1 \in 0..(n + 1) /\ n + 1 \in 1..(n + 1)
      /\ n + 1 - 1 = n
  OBVIOUS
<1>2. PICK k : Collects(P, e, k, n + 1)
  BY <1>1, CollectsExists
<1>3. k[n] = Collected(P, e, n) /\ k[n + 1] = Collected(P, e, n + 1)
  BY <1>1, <1>2, CollectsIs
<1>4. k[n + 1] = IF n + 1 \in P THEN Append(k[n], e[n + 1]) ELSE k[n]
  BY <1>1, <1>2, CollectsAt
<1> QED BY <1>3, <1>4

\* It starts with nothing.
LEMMA CollectedNone ==
  ASSUME NEW P, NEW e
  PROVE  Collected(P, e, 0) = <<>>
<1>1. PICK k : Collects(P, e, k, 0)
  BY CollectsExists
<1>2. k[0] = <<>> /\ k[0] = Collected(P, e, 0)
  BY <1>1, CollectsIs, CollectsAt
<1> QED BY <1>2

\* The loop stops mattering where positions and elements are the same.
LEMMA CollectedSame ==
  ASSUME NEW P, NEW e, NEW Q, NEW f, NEW n \in Nat,
         \A i \in 1..n : /\ i \in P <=> i \in Q
                         /\ i \in P => e[i] = f[i]
  PROVE  Collected(P, e, n) = Collected(Q, f, n)
<1> DEFINE S == {m \in Nat : m <= n => Collected(P, e, m) = Collected(Q, f, m)}
<1>1. 0 \in S
  BY CollectedNone
<1>2. ASSUME NEW m \in S PROVE m + 1 \in S
  <2>1. ASSUME m + 1 <= n PROVE Collected(P, e, m + 1) = Collected(Q, f, m + 1)
    <3>1. m \in Nat /\ m + 1 \in 1..n /\ m <= n
      BY <2>1
    <3>2. Collected(P, e, m) = Collected(Q, f, m)
      BY <1>2, <3>1
    <3>3. /\ m + 1 \in P <=> m + 1 \in Q
          /\ m + 1 \in P => e[m + 1] = f[m + 1]
      BY <3>1
    <3>4. Collected(P, e, m + 1) =
            IF m + 1 \in P THEN Append(Collected(P, e, m), e[m + 1]) ELSE Collected(P, e, m)
      BY <3>1, CollectedMore
    <3>5. Collected(Q, f, m + 1) =
            IF m + 1 \in Q THEN Append(Collected(Q, f, m), f[m + 1]) ELSE Collected(Q, f, m)
      BY <3>1, CollectedMore
    <3> QED BY <3>2, <3>3, <3>4, <3>5
  <2> QED BY <2>1
<1>3. S = Nat
  <2> HIDE DEF S
  <2> QED BY <1>1, <1>2, Induction DEF S
<1> QED BY <1>3

\* What is collected from a sequence has the type of its elements.
LEMMA CollectedType ==
  ASSUME NEW P, NEW T, NEW e \in Seq(T)
  PROVE  \A n \in Nat : n <= Len(e) => Collected(P, e, n) \in Seq(T)
<1> DEFINE S == {n \in Nat : n <= Len(e) => Collected(P, e, n) \in Seq(T)}
<1>1. 0 \in S
  <2>1. Collected(P, e, 0) \in Seq(T)
    BY CollectedNone, EmptySeq
  <2> QED BY <2>1
<1>2. ASSUME NEW n \in S PROVE n + 1 \in S
  <2>1. ASSUME n + 1 <= Len(e) PROVE Collected(P, e, n + 1) \in Seq(T)
    <3>1. n \in Nat /\ n + 1 \in 1..Len(e) /\ n <= Len(e)
      BY <2>1, LenProperties
    <3>2. Collected(P, e, n) \in Seq(T) /\ e[n + 1] \in T
      BY <1>2, <3>1, ElementOfSeq
    <3>3. Append(Collected(P, e, n), e[n + 1]) \in Seq(T)
      BY <3>2, AppendProperties
    <3>4. Collected(P, e, n + 1) =
            IF n + 1 \in P THEN Append(Collected(P, e, n), e[n + 1]) ELSE Collected(P, e, n)
      BY <3>1, CollectedMore
    <3> QED BY <3>2, <3>3, <3>4
  <2> QED BY <2>1
<1>3. S = Nat
  <2> HIDE DEF S
  <2> QED BY <1>1, <1>2, Induction DEF S
<1> QED BY <1>3

-----------------------------------------------------------------------------
(***************************************************************************)
(* Without                                                                 *)
(***************************************************************************)

\* The positions Without keeps.
Kept(ts, dropped) == {i \in 1..Len(ts) : ts[i] \notin dropped}

\* Without is such a loop, over the positions it keeps.
LEMMA WithoutIs ==
  ASSUME NEW T, NEW ts \in Seq(T), NEW D
  PROVE  Without(ts, D) = Collected(Kept(ts, D), ts, Len(ts))
<1> DEFINE Loop(k) == k = [i \in 0..Len(ts) |->
                             IF i = 0 THEN <<>>
                             ELSE IF ts[i] \in D THEN k[i - 1] ELSE Append(k[i - 1], ts[i])]
           g == CHOOSE k : Loop(k)
<1>1. Len(ts) \in Nat
  BY LenProperties
<1>2. \A k : Collects(Kept(ts, D), ts, k, Len(ts)) <=> Loop(k)
  <2> SUFFICES ASSUME NEW k PROVE Collects(Kept(ts, D), ts, k, Len(ts)) <=> Loop(k)
    OBVIOUS
  <2>1. ASSUME NEW i \in 0..Len(ts)
        PROVE  (IF i = 0 THEN <<>>
                ELSE IF i \in Kept(ts, D) THEN Append(k[i - 1], ts[i]) ELSE k[i - 1])
                 = (IF i = 0 THEN <<>>
                    ELSE IF ts[i] \in D THEN k[i - 1] ELSE Append(k[i - 1], ts[i]))
    <3>1. i # 0 => i \in 1..Len(ts)
      BY <1>1
    <3> QED BY <3>1 DEF Kept
  <2> QED BY <2>1 DEF Collects
<1>3. Loop(g)
  BY <1>1, <1>2, CollectsExists
<1>4. Without(ts, D) = g[Len(ts)]
  BY DEF Without
<1> HIDE DEF g
<1>5. Collects(Kept(ts, D), ts, g, Len(ts))
  BY <1>2, <1>3
<1>6. Len(ts) \in 0..Len(ts)
  BY <1>1
<1>7. g[Len(ts)] = Collected(Kept(ts, D), ts, Len(ts))
  BY <1>1, <1>5, <1>6, CollectsIs
<1> QED BY <1>4, <1>7

\* Without adds nothing of another type.
LEMMA WithoutType ==
  ASSUME NEW T, NEW ts \in Seq(T), NEW D
  PROVE  Without(ts, D) \in Seq(T)
<1>1. Len(ts) \in Nat /\ Len(ts) <= Len(ts)
  BY LenProperties
<1> QED BY <1>1, WithoutIs, CollectedType

\* Only the elements of the sequence matter.
LEMMA WithoutSame ==
  ASSUME NEW T, NEW ts \in Seq(T), NEW D, NEW E,
         \A i \in 1..Len(ts) : ts[i] \in D <=> ts[i] \in E
  PROVE  Without(ts, D) = Without(ts, E)
<1>1. Kept(ts, D) = Kept(ts, E)
  BY DEF Kept
<1> QED BY <1>1, WithoutIs

\* An element appended to two sequences is appended to the second.
LEMMA ConcatAppend ==
  ASSUME NEW T, NEW a \in Seq(T), NEW b \in Seq(T), NEW elt \in T
  PROVE  a \o Append(b, elt) = Append(a \o b, elt)
<1>1. <<elt>> \in Seq(T) /\ a \o b \in Seq(T)
  BY ConcatProperties
<1>2. Append(a \o b, elt) = (a \o b) \o <<elt>> /\ Append(b, elt) = b \o <<elt>>
  BY <1>1, AppendIsConcat
<1>3. (a \o b) \o <<elt>> = a \o (b \o <<elt>>)
  BY <1>1, ConcatAssociative
<1> QED BY <1>2, <1>3

\* One after the other.
LEMMA WithoutConcat ==
  ASSUME NEW T, NEW s \in Seq(T), NEW t \in Seq(T), NEW D
  PROVE  Without(s \o t, D) = Without(s, D) \o Without(t, D)
<1> DEFINE u == s \o t
           n == Len(s)
<1>1. /\ u \in Seq(T) /\ n \in Nat /\ Len(t) \in Nat /\ Len(u) = n + Len(t)
      /\ \A i \in 1..n : u[i] = s[i]
      /\ \A i \in 1..Len(t) : u[n + i] = t[i]
  <2>1. n \in Nat /\ Len(t) \in Nat
    BY LenProperties
  <2>2. /\ u \in Seq(T) /\ Len(u) = n + Len(t)
        /\ \A i \in 1..(n + Len(t)) : u[i] = IF i <= n THEN s[i] ELSE t[i - n]
    BY ConcatProperties
  <2>3. \A i \in 1..n : i \in 1..(n + Len(t)) /\ i <= n
    BY <2>1
  <2>4. \A i \in 1..Len(t) : n + i \in 1..(n + Len(t)) /\ ~(n + i <= n) /\ n + i - n = i
    BY <2>1
  <2> QED BY <2>1, <2>2, <2>3, <2>4
<1> HIDE DEF u, n
<1> DEFINE C(i) == Collected(Kept(u, D), u, n + i)
           B(i) == Collected(Kept(t, D), t, i)
           A == Without(s, D)
           S == {i \in Nat : i <= Len(t) => C(i) = A \o B(i)}
<1>2. A \in Seq(T)
  BY WithoutType
<1>3. 0 \in S
  <2>1. n + 0 = n
    BY <1>1
  <2>2. ASSUME NEW i \in 1..n
        PROVE  /\ i \in Kept(s, D) <=> i \in Kept(u, D)
               /\ i \in Kept(s, D) => s[i] = u[i]
    <3>1. i \in 1..Len(u)
      BY <1>1
    <3> QED BY <1>1, <3>1 DEF Kept, n
  <2>3. Collected(Kept(s, D), s, n) = Collected(Kept(u, D), u, n)
    BY <1>1, <2>2, CollectedSame
  <2>4. A = C(0)
    BY <2>1, <2>3, WithoutIs DEF n
  <2>5. B(0) = <<>>
    BY CollectedNone
  <2>6. A \o <<>> = A
    BY <1>2, ConcatEmptySeq
  <2> QED BY <2>4, <2>5, <2>6
<1>4. ASSUME NEW i \in S PROVE i + 1 \in S
  <2>1. ASSUME i + 1 <= Len(t) PROVE C(i + 1) = A \o B(i + 1)
    <3>1. /\ i \in Nat /\ i <= Len(t) /\ i + 1 \in 1..Len(t) /\ n + i \in Nat
          /\ n + (i + 1) = (n + i) + 1 /\ (n + i) + 1 \in 1..Len(u)
      BY <1>1, <2>1
    <3>2. C(i) = A \o B(i)
      BY <1>4, <3>1
    <3>3. u[(n + i) + 1] = t[i + 1] /\ t[i + 1] \in T
      BY <1>1, <3>1, ElementOfSeq
    <3>4. (n + i) + 1 \in Kept(u, D) <=> i + 1 \in Kept(t, D)
      BY <3>1, <3>3 DEF Kept
    <3>5. C(i + 1) = IF (n + i) + 1 \in Kept(u, D) THEN Append(C(i), u[(n + i) + 1]) ELSE C(i)
      <4> DEFINE K == Kept(u, D)
                 q == n + i
      <4>1. q \in Nat /\ n + (i + 1) = q + 1
        BY <3>1
      <4> HIDE DEF K, q
      <4>2. Collected(K, u, q + 1)
              = IF q + 1 \in K THEN Append(Collected(K, u, q), u[q + 1]) ELSE Collected(K, u, q)
        BY <4>1, CollectedMore
      <4>3. C(i + 1) = Collected(K, u, q + 1) /\ C(i) = Collected(K, u, q)
        BY <4>1 DEF K, q
      <4> HIDE DEF C
      <4> QED BY <4>2, <4>3 DEF K, q
    <3>6. B(i + 1) = IF i + 1 \in Kept(t, D) THEN Append(B(i), t[i + 1]) ELSE B(i)
      BY <3>1, CollectedMore
    <3>7. B(i) \in Seq(T)
      BY <3>1, CollectedType
    <3> HIDE DEF A, B, C
    <3>8. A \o Append(B(i), t[i + 1]) = Append(A \o B(i), t[i + 1])
      BY <1>2, <3>3, <3>7, ConcatAppend
    <3> QED BY <3>2, <3>3, <3>4, <3>5, <3>6, <3>8
  <2> QED BY <2>1
<1>5. S = Nat
  <2> HIDE DEF S
  <2> QED BY <1>3, <1>4, Induction DEF S
<1>6. C(Len(t)) = A \o B(Len(t))
  <2> HIDE DEF A, B, C
  <2>1. Len(t) \in Nat /\ Len(t) <= Len(t)
    BY <1>1
  <2>2. \A i \in Nat : i \in S
    <3> HIDE DEF S
    <3> QED BY <1>5
  <2>3. \A i \in Nat : i <= Len(t) => C(i) = A \o B(i)
    BY <2>2
  <2> QED BY <2>1, <2>3
<1>7. Without(u, D) = C(Len(t)) /\ Without(t, D) = B(Len(t))
  BY <1>1, WithoutIs
<1> QED BY <1>6, <1>7 DEF u

\* Nothing to drop.
LEMMA WithoutNone ==
  ASSUME NEW T, NEW ts \in Seq(T), NEW D, \A i \in 1..Len(ts) : ts[i] \notin D
  PROVE  Without(ts, D) = ts
<1> DEFINE C(i) == Collected(Kept(ts, D), ts, i)
           S == {i \in Nat : i <= Len(ts) => C(i) = SubSeq(ts, 1, i)}
<1>1. Len(ts) \in Nat
  BY LenProperties
<1>2. 0 \in S
  <2>1. SubSeq(ts, 1, 0) = <<>>
    BY SubSeqEmpty
  <2>2. C(0) = <<>>
    BY CollectedNone
  <2> QED BY <2>1, <2>2
<1>3. ASSUME NEW i \in S PROVE i + 1 \in S
  <2>1. ASSUME i + 1 <= Len(ts) PROVE C(i + 1) = SubSeq(ts, 1, i + 1)
    <3>1. i \in Nat /\ i <= Len(ts) /\ i + 1 \in 1..Len(ts) /\ i + 1 - 1 = i /\ 1 \in 1..Len(ts)
      BY <1>1, <2>1
    <3>2. C(i) = SubSeq(ts, 1, i)
      BY <1>3, <3>1
    <3>3. C(i + 1) = Append(C(i), ts[i + 1])
      BY <3>1, CollectedMore DEF Kept
    <3>4. SubSeq(ts, 1, i + 1) = SubSeq(ts, 1, i) \o <<ts[i + 1]>>
      BY <1>1, <3>1, SubSeqRecursiveSecond
    <3>5. C(i) \in Seq(T) /\ ts[i + 1] \in T
      BY <3>1, CollectedType, ElementOfSeq
    <3> HIDE DEF C
    <3>6. Append(C(i), ts[i + 1]) = C(i) \o <<ts[i + 1]>>
      BY <3>5, AppendIsConcat
    <3> QED BY <3>2, <3>3, <3>4, <3>6
  <2> QED BY <2>1
<1>4. S = Nat
  <2> HIDE DEF S
  <2> QED BY <1>2, <1>3, Induction DEF S
<1>5. C(Len(ts)) = SubSeq(ts, 1, Len(ts))
  BY <1>1, <1>4
<1>6. SubSeq(ts, 1, Len(ts)) = ts
  BY SubSeqFull
<1> QED BY <1>5, <1>6, WithoutIs

\* One element.
LEMMA WithoutOne ==
  ASSUME NEW x, NEW D
  PROVE  Without(<<x>>, D) = IF x \in D THEN <<>> ELSE <<x>>
<1> DEFINE ts == <<x>>
<1>1. ts \in Seq({x}) /\ Len(ts) = 1 /\ ts[1] = x
  OBVIOUS
<1> HIDE DEF ts
<1>2. 1 \in Kept(ts, D) <=> x \notin D
  BY <1>1 DEF Kept
<1>3. Collected(Kept(ts, D), ts, 0) = <<>>
  BY CollectedNone
<1>4. Collected(Kept(ts, D), ts, 0 + 1)
        = IF 0 + 1 \in Kept(ts, D) THEN Append(<<>>, ts[0 + 1]) ELSE <<>>
  <2> DEFINE K == Kept(ts, D)
  <2>1. Collected(K, ts, 0) = <<>>
    BY <1>3
  <2> HIDE DEF K
  <2>2. Collected(K, ts, 0 + 1)
          = IF 0 + 1 \in K THEN Append(Collected(K, ts, 0), ts[0 + 1]) ELSE Collected(K, ts, 0)
    BY CollectedMore
  <2>3. Collected(K, ts, 0 + 1) = IF 0 + 1 \in K THEN Append(<<>>, ts[0 + 1]) ELSE <<>>
    BY <2>1, <2>2
  <2> QED BY <2>3 DEF K
<1>5. Without(ts, D) = IF x \notin D THEN Append(<<>>, x) ELSE <<>>
  <2>1. Without(ts, D) = Collected(Kept(ts, D), ts, 1)
    BY <1>1, WithoutIs
  <2>2. Collected(Kept(ts, D), ts, 1) = IF 1 \in Kept(ts, D) THEN Append(<<>>, ts[1]) ELSE <<>>
    BY <1>4
  <2> QED BY <1>1, <1>2, <2>1, <2>2
<1>6. Append(<<>>, x) = <<x>>
  OBVIOUS
<1> QED BY <1>5, <1>6 DEF ts

-----------------------------------------------------------------------------
(***************************************************************************)
(* Events and what Parsed makes of them                                    *)
(***************************************************************************)

Pieces == [piece : {"head", "rest", "newline"}, token : Nat]

\* Every position is in the event of one token.
LEMMA Position ==
  ASSUME NEW n \in Nat, NEW p \in 1..(3 * n)
  PROVE  \E k \in 1..n : p = 3 * k - 2 \/ p = 3 * k - 1 \/ p = 3 * k
<1> DEFINE k == (p + 2) \div 3
<1>1. k \in 1..n /\ (p = 3 * k - 2 \/ p = 3 * k - 1 \/ p = 3 * k)
  OBVIOUS
<1> QED BY <1>1

\* The pieces of the event of the k-th token.
LEMMA EventsIs ==
  ASSUME NEW ts \in Seq(Nat)
  PROVE  /\ Events(ts) \in Seq(Pieces) /\ Len(Events(ts)) = 3 * Len(ts)
         /\ \A k \in 1..Len(ts) : /\ Events(ts)[3 * k - 2] = Head1(ts[k])
                                  /\ Events(ts)[3 * k - 1] = Rest(ts[k])
                                  /\ Events(ts)[3 * k] = Newline
<1> DEFINE n == Len(ts)
<1>1. n \in Nat /\ 3 * n \in Nat
  BY LenProperties
<1>2. ASSUME NEW k \in 1..n
      PROVE  /\ Events(ts)[3 * k - 2] = Head1(ts[k])
             /\ Events(ts)[3 * k - 1] = Rest(ts[k])
             /\ Events(ts)[3 * k] = Newline
  <2>1. /\ 3 * k - 2 \in 1..(3 * n) /\ 3 * k - 1 \in 1..(3 * n) /\ 3 * k \in 1..(3 * n)
        /\ ((3 * k - 2) + 2) \div 3 = k /\ ((3 * k - 2) - 1) % 3 = 0
        /\ ((3 * k - 1) + 2) \div 3 = k /\ ((3 * k - 1) - 1) % 3 = 1
        /\ (3 * k + 2) \div 3 = k /\ (3 * k - 1) % 3 = 2
    BY <1>1
  <2>2. \A i \in 1..(3 * n) :
          Events(ts)[i] = Event(ts[(i + 2) \div 3])[((i - 1) % 3) + 1]
    BY DEF Events
  <2>3. /\ Event(ts[k])[0 + 1] = Head1(ts[k])
        /\ Event(ts[k])[1 + 1] = Rest(ts[k])
        /\ Event(ts[k])[2 + 1] = Newline
    BY DEF Event
  <2>4. Events(ts)[3 * k - 2] = Head1(ts[k])
    BY <2>1, <2>2, <2>3
  <2>5. Events(ts)[3 * k - 1] = Rest(ts[k])
    BY <2>1, <2>2, <2>3
  <2>6. Events(ts)[3 * k] = Newline
    BY <2>1, <2>2, <2>3
  <2> QED BY <2>4, <2>5, <2>6
<1>3. ASSUME NEW i \in 1..(3 * n) PROVE Events(ts)[i] \in Pieces
  <2>1. PICK k \in 1..n : i = 3 * k - 2 \/ i = 3 * k - 1 \/ i = 3 * k
    BY <1>1, Position
  <2>2. ts[k] \in Nat
    BY <2>1, ElementOfSeq
  <2>3. Head1(ts[k]) \in Pieces /\ Rest(ts[k]) \in Pieces /\ Newline \in Pieces
    BY <2>2 DEF Head1, Rest, Newline, Pieces
  <2> QED BY <1>2, <2>1, <2>3
<1>4. DOMAIN Events(ts) = 1..(3 * n)
  BY DEF Events
<1>5. Events(ts) = [i \in 1..(3 * n) |-> Events(ts)[i]]
  BY DEF Events
<1>6. Events(ts) \in Seq(Pieces) /\ Len(Events(ts)) = 3 * n
  <2> DEFINE E == Events(ts)
  <2>1. \A i \in 1..(3 * n) : E[i] \in Pieces
    BY <1>3
  <2>2. E = [i \in 1..(3 * n) |-> E[i]]
    BY <1>5
  <2> HIDE DEF E
  <2>3. [i \in 1..(3 * n) |-> E[i]] \in Seq(Pieces) /\ Len([i \in 1..(3 * n) |-> E[i]]) = 3 * n
    BY <1>1, <2>1
  <2>4. E \in Seq(Pieces) /\ Len(E) = 3 * n
    BY <2>2, <2>3
  <2> QED BY <2>4 DEF E
<1> QED BY <1>2, <1>6

\* The positions where a line becomes whole.
Closing(s) == {i \in 2..Len(s) : i - 2 \in Starts(s) /\ Whole(s, i - 2)}

\* The tokens of the pieces.
TokensOf(s) == [i \in 1..Len(s) |-> s[i].token]

\* Parsed is a loop that collects, over the positions where a line becomes whole.
LEMMA ParsedIs ==
  ASSUME NEW s \in Seq(Pieces)
  PROVE  Parsed(s) = Collected(Closing(s), TokensOf(s), Len(s))
<1> DEFINE Loop(k) == k = [i \in 0..Len(s) |->
                             IF i = 0 THEN <<>>
                             ELSE IF i >= 2 /\ i - 2 \in Starts(s) /\ Whole(s, i - 2)
                                  THEN Append(k[i - 1], s[i].token)
                                  ELSE k[i - 1]]
           g == CHOOSE k : Loop(k)
<1>1. Len(s) \in Nat /\ Len(s) \in 0..Len(s)
  BY LenProperties
<1>2. \A k : Collects(Closing(s), TokensOf(s), k, Len(s)) <=> Loop(k)
  <2> SUFFICES ASSUME NEW k
               PROVE  Collects(Closing(s), TokensOf(s), k, Len(s)) <=> Loop(k)
    OBVIOUS
  <2>1. ASSUME NEW i \in 0..Len(s)
        PROVE  (IF i = 0 THEN <<>>
                ELSE IF i \in Closing(s) THEN Append(k[i - 1], TokensOf(s)[i]) ELSE k[i - 1])
                 = (IF i = 0 THEN <<>>
                    ELSE IF i >= 2 /\ i - 2 \in Starts(s) /\ Whole(s, i - 2)
                         THEN Append(k[i - 1], s[i].token)
                         ELSE k[i - 1])
    <3>1. i # 0 => i \in 1..Len(s) /\ TokensOf(s)[i] = s[i].token
      BY <1>1 DEF TokensOf
    <3>2. i \in Closing(s) <=> (i >= 2 /\ i - 2 \in Starts(s) /\ Whole(s, i - 2))
      BY <1>1 DEF Closing
    <3> QED BY <3>1, <3>2
  <2> QED BY <2>1 DEF Collects
<1>3. Loop(g)
  BY <1>1, <1>2, CollectsExists
<1>4. Parsed(s) = g[Len(s)]
  BY DEF Parsed
<1> HIDE DEF g
<1>5. Collects(Closing(s), TokensOf(s), g, Len(s))
  BY <1>2, <1>3
<1>6. g[Len(s)] = Collected(Closing(s), TokensOf(s), Len(s))
  BY <1>1, <1>5, CollectsIs
<1> QED BY <1>4, <1>6

\* s is the chunk of the events of ts that starts after the first c pieces.
Chunk(s, ts, c) ==
  /\ s \in Seq(Pieces) /\ c + Len(s) <= 3 * Len(ts)
  /\ \A i \in 1..Len(s) : s[i] = Events(ts)[c + i]

\* In a chunk a line becomes whole where it is read up to its rest, unless the chunk
\* begins there.
LEMMA ChunkCloses ==
  ASSUME NEW ts \in Seq(Nat), NEW c \in Nat, NEW s, Chunk(s, ts, c),
         NEW i \in 1..Len(s), NEW k \in 1..Len(ts)
  PROVE  /\ c + i = 3 * k - 1 => /\ i \in Closing(s) <=> i >= 2
                                 /\ TokensOf(s)[i] = ts[k]
         /\ c + i = 3 * k - 2 \/ c + i = 3 * k => i \notin Closing(s)
<1>1. Len(s) \in Nat /\ DOMAIN s = 1..Len(s) /\ Len(ts) \in Nat
  BY LenProperties DEF Chunk
<1>2. \A j \in 1..Len(s) : s[j] = Events(ts)[c + j]
  BY DEF Chunk
<1>3. i - 2 + 2 = i /\ i - 2 + 1 = i - 1
  BY <1>1
<1>4. ASSUME c + i = 3 * k - 1 PROVE (i \in Closing(s) <=> i >= 2) /\ TokensOf(s)[i] = ts[k]
  <2>1. s[i] = Rest(ts[k])
    BY <1>2, <1>4, EventsIs
  <2>2. TokensOf(s)[i] = ts[k]
    BY <2>1 DEF TokensOf, Rest
  <2>3. ASSUME i >= 2 PROVE i \in Closing(s)
    <3>1. i - 1 \in 1..Len(s) /\ c + (i - 1) = 3 * k - 2
      BY <1>1, <1>4, <2>3
    <3>2. s[i - 1] = Head1(ts[k])
      BY <1>2, <3>1, EventsIs
    <3>3. Whole(s, i - 2)
      BY <1>1, <1>3, <2>1, <3>2 DEF Whole, Head1, Rest
    <3>4. i - 2 \in Starts(s)
      <4>1. CASE i = 2
        BY <4>1 DEF Starts
      <4>2. CASE i # 2
        <5>1. i - 2 \in 1..Len(s) /\ k - 1 \in 1..Len(ts) /\ c + (i - 2) = 3 * (k - 1)
          BY <1>1, <1>4, <2>3, <4>2
        <5>2. s[i - 2] = Newline
          BY <1>2, <5>1, EventsIs
        <5> QED BY <1>1, <5>1, <5>2 DEF Starts, Newlines
      <4> QED BY <4>1, <4>2
    <3>5. i \in 2..Len(s)
      BY <1>1, <2>3
    <3> QED BY <3>3, <3>4, <3>5 DEF Closing
  <2>4. i \in Closing(s) => i >= 2
    BY DEF Closing
  <2> QED BY <2>2, <2>3, <2>4
<1>5. ASSUME c + i = 3 * k - 2 PROVE i \notin Closing(s)
  <2>1. s[i] = Head1(ts[k])
    BY <1>2, <1>5, EventsIs
  <2> QED BY <1>3, <2>1 DEF Closing, Whole, Head1
<1>6. ASSUME c + i = 3 * k PROVE i \notin Closing(s)
  <2>1. s[i] = Newline
    BY <1>2, <1>6, EventsIs
  <2> QED BY <1>3, <2>1 DEF Closing, Whole, Newline
<1> QED BY <1>4, <1>5, <1>6

\* The tokens of a chunk: those whose line begins and is read up to its rest there.
LEMMA ParsedChunk ==
  ASSUME NEW ts \in Seq(Nat), NEW c \in Nat, NEW s, Chunk(s, ts, c)
  PROVE  Parsed(s) = SubSeq(ts, (c + 2) \div 3 + 1, (c + Len(s) + 1) \div 3)
<1> DEFINE n == Len(s)
           f == (c + 2) \div 3 + 1
           C(i) == Collected(Closing(s), TokensOf(s), i)
           S == {i \in Nat : i <= n => C(i) = SubSeq(ts, f, (c + i + 1) \div 3)}
<1>1. n \in Nat /\ Len(ts) \in Nat /\ c + n <= 3 * Len(ts) /\ f \in Nat /\ f >= 1
  BY LenProperties DEF Chunk
<1>2. 0 \in S
  <2>1. (c + 0 + 1) \div 3 < f /\ (c + 0 + 1) \div 3 \in Int /\ f \in Int
    OBVIOUS
  <2>2. SubSeq(ts, f, (c + 0 + 1) \div 3) = <<>>
    BY <2>1, SubSeqEmpty
  <2>3. C(0) = <<>>
    BY CollectedNone
  <2> QED BY <2>2, <2>3
<1>3. ASSUME NEW i \in S PROVE i + 1 \in S
  <2>1. ASSUME i + 1 <= n PROVE C(i + 1) = SubSeq(ts, f, (c + (i + 1) + 1) \div 3)
    <3>1. i \in Nat /\ i <= n /\ i + 1 \in 1..n /\ c + (i + 1) \in 1..(3 * Len(ts))
      BY <1>1, <2>1
    <3>2. C(i) = SubSeq(ts, f, (c + i + 1) \div 3)
      BY <1>3, <3>1
    <3>3. PICK k \in 1..Len(ts) :
            c + (i + 1) = 3 * k - 2 \/ c + (i + 1) = 3 * k - 1 \/ c + (i + 1) = 3 * k
      BY <1>1, <3>1, Position
    <3>4. C(i + 1) = IF i + 1 \in Closing(s) THEN Append(C(i), TokensOf(s)[i + 1]) ELSE C(i)
      BY <3>1, CollectedMore
    <3>5. /\ c + (i + 1) = 3 * k - 1 => /\ i + 1 \in Closing(s) <=> i + 1 >= 2
                                        /\ TokensOf(s)[i + 1] = ts[k]
          /\ c + (i + 1) = 3 * k - 2 \/ c + (i + 1) = 3 * k => i + 1 \notin Closing(s)
      BY <3>1, ChunkCloses
    <3> HIDE DEF C
    <3>6. CASE c + (i + 1) # 3 * k - 1
      <4>1. CASE c + (i + 1) = 3 * k - 2
        <5>1. (c + (i + 1) + 1) \div 3 = k - 1 /\ (c + i + 1) \div 3 = k - 1
          BY <3>1, <4>1
        <5>2. C(i + 1) = C(i)
          BY <3>4, <3>5, <4>1
        <5> QED BY <3>2, <5>1, <5>2
      <4>2. CASE c + (i + 1) = 3 * k
        <5>1. (c + (i + 1) + 1) \div 3 = k /\ (c + i + 1) \div 3 = k
          BY <3>1, <4>2
        <5>2. C(i + 1) = C(i)
          BY <3>4, <3>5, <4>2
        <5> QED BY <3>2, <5>1, <5>2
      <4> QED BY <3>3, <3>6, <4>1, <4>2
    <3>7. CASE c + (i + 1) = 3 * k - 1 /\ i = 0
      <4>1. ~(i + 1 >= 2) /\ (c + (i + 1) + 1) \div 3 = k /\ f = k + 1
            /\ (c + i + 1) \div 3 = k - 1
        BY <3>1, <3>7
      <4>2. SubSeq(ts, k + 1, k) = <<>> /\ SubSeq(ts, k + 1, k - 1) = <<>>
        BY SubSeqEmpty
      <4>3. C(i + 1) = C(i)
        BY <3>4, <3>5, <3>7, <4>1
      <4> QED BY <3>2, <4>1, <4>2, <4>3
    <3>8. CASE c + (i + 1) = 3 * k - 1 /\ i # 0
      <4>1. i + 1 >= 2 /\ (c + (i + 1) + 1) \div 3 = k /\ f <= k /\ (c + i + 1) \div 3 = k - 1
        BY <3>1, <3>8
      <4>2. C(i + 1) = Append(SubSeq(ts, f, k - 1), ts[k])
        BY <3>2, <3>4, <3>5, <3>8, <4>1
      <4>3. f \in 1..Len(ts) /\ k \in f..Len(ts)
        BY <1>1, <4>1
      <4> HIDE DEF f
      <4>4. SubSeq(ts, f, k) = SubSeq(ts, f, k - 1) \o <<ts[k]>>
        BY <4>3, SubSeqRecursiveSecond
      <4>5. \A j \in f..(k - 1) : ts[j] \in Nat
        <5>1. \A j \in f..(k - 1) : j \in 1..Len(ts)
          BY <1>1, <4>3
        <5> QED BY <5>1, ElementOfSeq
      <4>6. SubSeq(ts, f, k - 1) \in Seq(Nat)
        <5>1. f \in Int /\ k - 1 \in Int
          BY <1>1
        <5> QED BY <4>5, <5>1, SubSeqProperties
      <4>7. ts[k] \in Nat
        BY ElementOfSeq
      <4>8. Append(SubSeq(ts, f, k - 1), ts[k]) = SubSeq(ts, f, k - 1) \o <<ts[k]>>
        BY <4>6, <4>7, AppendIsConcat
      <4> QED BY <4>1, <4>2, <4>4, <4>8
    <3> QED BY <3>6, <3>7, <3>8
  <2> QED BY <2>1
<1>4. S = Nat
  <2> HIDE DEF S
  <2> QED BY <1>2, <1>3, Induction DEF S
<1>5. C(n) = SubSeq(ts, f, (c + n + 1) \div 3)
  <2> HIDE DEF C, f, n
  <2>1. n <= n
    BY <1>1
  <2>2. \A i \in Nat : i \in S
    <3> HIDE DEF S
    <3> QED BY <1>4
  <2>3. \A i \in Nat : i <= n => C(i) = SubSeq(ts, f, (c + i + 1) \div 3)
    BY <2>2
  <2> QED BY <1>1, <2>1, <2>3
<1>6. Parsed(s) = C(n)
  BY ParsedIs DEF Chunk
<1> QED BY <1>5, <1>6


\* What the client parses of whole events is what they are the events of.
LEMMA ParsedEvents ==
  ASSUME NEW ts \in Seq(Nat)
  PROVE  Parsed(Events(ts)) = ts
<1>1. Len(ts) \in Nat /\ 0 + 3 * Len(ts) <= 3 * Len(ts)
  BY LenProperties
<1>2. Events(ts) \in Seq(Pieces) /\ Len(Events(ts)) = 3 * Len(ts)
  BY EventsIs
<1>3. Chunk(Events(ts), ts, 0)
  <2>1. \A i \in 1..Len(Events(ts)) : 0 + i = i
    BY <1>1, <1>2
  <2> QED BY <1>1, <1>2, <2>1 DEF Chunk
<1>4. Parsed(Events(ts)) = SubSeq(ts, (0 + 2) \div 3 + 1, (0 + Len(Events(ts)) + 1) \div 3)
  BY <1>3, ParsedChunk
<1>5. (0 + 2) \div 3 + 1 = 1 /\ (0 + 3 * Len(ts) + 1) \div 3 = Len(ts)
  BY <1>1
<1>6. SubSeq(ts, 1, Len(ts)) = ts
  BY SubSeqFull
<1> QED BY <1>2, <1>4, <1>5, <1>6

\* Events are sent one after the other.
LEMMA EventsConcat ==
  ASSUME NEW s \in Seq(Nat), NEW t \in Seq(Nat)
  PROVE  Events(s \o t) = Events(s) \o Events(t)
<1> DEFINE u == s \o t
           n == Len(s)
           m == Len(t)
           A == Events(s)
           B == Events(t)
           E == Events(u)
<1>1. /\ n \in Nat /\ m \in Nat /\ u \in Seq(Nat) /\ Len(u) = n + m
      /\ \A i \in 1..(n + m) : u[i] = IF i <= n THEN s[i] ELSE t[i - n]
  BY LenProperties, ConcatProperties
<1>2. /\ A \in Seq(Pieces) /\ Len(A) = 3 * n
      /\ B \in Seq(Pieces) /\ Len(B) = 3 * m
  BY EventsIs
<1>3. E \in Seq(Pieces) /\ Len(E) = 3 * (n + m)
  BY <1>1, EventsIs
<1>4. /\ A \o B \in Seq(Pieces) /\ Len(A \o B) = 3 * n + 3 * m
      /\ \A i \in 1..(3 * n + 3 * m) : (A \o B)[i] = IF i <= 3 * n THEN A[i] ELSE B[i - 3 * n]
  <2> HIDE DEF A, B, E
  <2>1. /\ A \o B \in Seq(Pieces) /\ Len(A \o B) = Len(A) + Len(B)
        /\ \A i \in 1..(Len(A) + Len(B)) :
             (A \o B)[i] = IF i <= Len(A) THEN A[i] ELSE B[i - Len(A)]
    BY <1>2, ConcatProperties
  <2> HIDE DEF n, m
  <2> QED BY <1>2, <2>1
<1>5. ASSUME NEW k \in 1..(n + m)
      PROVE  /\ E[3 * k - 2] = (A \o B)[3 * k - 2]
             /\ E[3 * k - 1] = (A \o B)[3 * k - 1]
             /\ E[3 * k] = (A \o B)[3 * k]
  <2>1. E[3 * k - 2] = Head1(u[k]) /\ E[3 * k - 1] = Rest(u[k]) /\ E[3 * k] = Newline
    BY <1>1, EventsIs
  <2>2. CASE k <= n
    <3>1. k \in 1..n /\ u[k] = s[k]
      BY <1>1, <2>2
    <3>2. A[3 * k - 2] = Head1(s[k]) /\ A[3 * k - 1] = Rest(s[k]) /\ A[3 * k] = Newline
      BY <3>1, EventsIs
    <3> HIDE DEF A, B, E, n, m, u
    <3>3. /\ 3 * k - 2 \in 1..(3 * n + 3 * m) /\ 3 * k - 2 <= 3 * n
          /\ 3 * k - 1 \in 1..(3 * n + 3 * m) /\ 3 * k - 1 <= 3 * n
          /\ 3 * k \in 1..(3 * n + 3 * m) /\ 3 * k <= 3 * n
      BY <1>1, <2>2
    <3>4. /\ (A \o B)[3 * k - 2] = A[3 * k - 2]
          /\ (A \o B)[3 * k - 1] = A[3 * k - 1]
          /\ (A \o B)[3 * k] = A[3 * k]
      BY <1>4, <3>3
    <3> QED BY <2>1, <3>1, <3>2, <3>4
  <2>3. CASE ~(k <= n)
    <3> DEFINE q == k - n
    <3>1. q \in 1..m /\ u[k] = t[q] /\ q \in Int
      BY <1>1, <2>3
    <3>2. B[3 * q - 2] = Head1(t[q]) /\ B[3 * q - 1] = Rest(t[q]) /\ B[3 * q] = Newline
      <4> HIDE DEF q
      <4> QED BY <3>1, EventsIs
    <3> HIDE DEF A, B, E, n, m, u
    <3>3. /\ 3 * k - 2 \in 1..(3 * n + 3 * m) /\ ~(3 * k - 2 <= 3 * n)
          /\ 3 * k - 1 \in 1..(3 * n + 3 * m) /\ ~(3 * k - 1 <= 3 * n)
          /\ 3 * k \in 1..(3 * n + 3 * m) /\ ~(3 * k <= 3 * n)
          /\ 3 * k - 2 - 3 * n = 3 * q - 2
          /\ 3 * k - 1 - 3 * n = 3 * q - 1
          /\ 3 * k - 3 * n = 3 * q
      BY <1>1, <2>3
    <3> HIDE DEF q
    <3>4. /\ (A \o B)[3 * k - 2] = B[3 * q - 2]
          /\ (A \o B)[3 * k - 1] = B[3 * q - 1]
          /\ (A \o B)[3 * k] = B[3 * q]
      BY <1>4, <3>3
    <3> QED BY <2>1, <3>1, <3>2, <3>4
  <2> QED BY <2>2, <2>3
<1>6. ASSUME NEW i \in 1..(3 * (n + m)) PROVE E[i] = (A \o B)[i]
  <2> HIDE DEF A, B, E
  <2>1. n + m \in Nat
    BY <1>1
  <2>2. PICK k \in 1..(n + m) : i = 3 * k - 2 \/ i = 3 * k - 1 \/ i = 3 * k
    BY <2>1, Position
  <2> HIDE DEF n, m, u
  <2> QED BY <1>5, <2>2
<1>7. 3 * n + 3 * m = 3 * (n + m)
  BY <1>1
<1> HIDE DEF A, B, E, n, m, u
<1>8. E = A \o B
  BY <1>3, <1>4, <1>6, <1>7, SeqEqual
<1> QED BY <1>8 DEF A, B, E, u

\* Without the first j events.
LEMMA EventsDrop ==
  ASSUME NEW ts \in Seq(Nat), NEW j \in 0..Len(ts)
  PROVE  Drop(Events(ts), 3 * j) = Events(Drop(ts, j))
<1> DEFINE a == SubSeq(ts, 1, j)
           b == SubSeq(ts, j + 1, Len(ts))
<1>1. Len(ts) \in Nat /\ \A i \in 1..Len(ts) : ts[i] \in Nat
  BY LenProperties, ElementOfSeq
<1>2. a \in Seq(Nat) /\ Len(a) = j
  <2>1. (\A i \in 1..j : ts[i] \in Nat) /\ (IF 1 <= j THEN j - 1 + 1 ELSE 0) = j
    BY <1>1
  <2> QED BY <2>1, SubSeqProperties
<1>3. b \in Seq(Nat) /\ Len(b) = Len(ts) - j
  <2>1. /\ \A i \in (j + 1)..Len(ts) : ts[i] \in Nat
        /\ (IF j + 1 <= Len(ts) THEN Len(ts) - (j + 1) + 1 ELSE 0) = Len(ts) - j
        /\ j + 1 \in Int /\ Len(ts) \in Int
    BY <1>1
  <2> QED BY <2>1, SubSeqProperties
<1>4. a \o b = ts
  <2>1. 1 \in 1..(Len(ts) + 1) /\ j \in (1 - 1)..Len(ts) /\ Len(ts) \in j..Len(ts)
    BY <1>1
  <2>2. a \o b = SubSeq(ts, 1, Len(ts))
    BY <2>1, ConcatAdjacentSubSeq
  <2> QED BY <2>2, SubSeqFull
<1> HIDE DEF a, b
<1>5. Events(ts) = Events(a) \o Events(b)
  BY <1>2, <1>3, <1>4, EventsConcat
<1> DEFINE A == Events(a)
           B == Events(b)
<1>6. A \in Seq(Pieces) /\ Len(A) = 3 * j /\ B \in Seq(Pieces) /\ Len(B) \in Nat
  BY <1>2, <1>3, EventsIs, LenProperties
<1> HIDE DEF A, B
<1>7. Drop(A \o B, Len(A)) = B
  <2>1. /\ Len(A) \in Nat /\ Len(A \o B) = Len(A) + Len(B)
        /\ \A i \in 1..(Len(A) + Len(B)) :
             (A \o B)[i] = IF i <= Len(A) THEN A[i] ELSE B[i - Len(A)]
    BY <1>6, LenProperties, ConcatProperties
  <2>2. \A i \in 1..Len(B) : (A \o B)[Len(A) + 1 + i - 1] = B[i]
    <3> SUFFICES ASSUME NEW i \in 1..Len(B) PROVE (A \o B)[Len(A) + 1 + i - 1] = B[i]
      OBVIOUS
    <3>1. /\ Len(A) + 1 + i - 1 = Len(A) + i /\ Len(A) + i \in 1..(Len(A) + Len(B))
          /\ ~(Len(A) + i <= Len(A)) /\ Len(A) + i - Len(A) = i
      BY <1>6, <2>1
    <3> QED BY <2>1, <3>1
  <2>3. \A i \in (Len(A) + 1)..(Len(A) + Len(B)) : (A \o B)[i] \in Pieces
    <3>1. A \o B \in Seq(Pieces)
      BY <1>6, ConcatProperties
    <3>2. \A i \in (Len(A) + 1)..(Len(A) + Len(B)) : i \in 1..Len(A \o B)
      BY <1>6, <2>1
    <3> QED BY <3>1, <3>2, ElementOfSeq
  <2>4. /\ Len(A) + 1 \in Int /\ Len(A) + Len(B) \in Int
        /\ Len(A) + Len(B) - (Len(A) + 1) + 1 = Len(B)
        /\ (IF Len(A) + 1 <= Len(A) + Len(B)
            THEN Len(A) + Len(B) - (Len(A) + 1) + 1 ELSE 0) = Len(B)
    BY <1>6, <2>1
  <2> DEFINE C == SubSeq(A \o B, Len(A) + 1, Len(A) + Len(B))
  <2>5. C \in Seq(Pieces) /\ Len(C) = Len(B)
        /\ \A i \in 1..Len(B) : C[i] = (A \o B)[Len(A) + 1 + i - 1]
    BY <2>3, <2>4, SubSeqProperties
  <2>6. Drop(A \o B, Len(A)) = C
    BY <2>1 DEF Drop
  <2> HIDE DEF C
  <2>7. C = B
    BY <1>6, <2>2, <2>5, SeqEqual
  <2> QED BY <2>6, <2>7
<1>8. Drop(ts, j) = b
  BY DEF Drop, b
<1> QED BY <1>5, <1>6, <1>7, <1>8 DEF A, B

\* The completion event is the event of token 0.
LEMMA EventsOne ==
  Events(<<0>>) = Event(0)
<1>1. <<0>> \in Seq(Nat) /\ Len(<<0>>) = 1 /\ <<0>>[1] = 0 /\ 1 \in 1..1
  OBVIOUS
<1>2. /\ Events(<<0>>) \in Seq(Pieces) /\ Len(Events(<<0>>)) = 3
      /\ Events(<<0>>)[1] = Head1(0) /\ Events(<<0>>)[2] = Rest(0)
      /\ Events(<<0>>)[3] = Newline
  <2>1. /\ Events(<<0>>)[3 * 1 - 2] = Head1(<<0>>[1]) /\ Events(<<0>>)[3 * 1 - 1] = Rest(<<0>>[1])
        /\ Events(<<0>>)[3 * 1] = Newline
    BY <1>1, EventsIs
  <2>2. Events(<<0>>) \in Seq(Pieces) /\ Len(Events(<<0>>)) = 3 * 1
    BY <1>1, EventsIs
  <2> QED BY <1>1, <2>1, <2>2
<1>3. Event(0) \in Seq(Pieces) /\ Len(Event(0)) = 3
      /\ Event(0)[1] = Head1(0) /\ Event(0)[2] = Rest(0) /\ Event(0)[3] = Newline
  <2>1. Head1(0) \in Pieces /\ Rest(0) \in Pieces /\ Newline \in Pieces
    BY DEF Head1, Rest, Newline, Pieces
  <2> QED BY <2>1 DEF Event
<1> DEFINE A == Events(<<0>>)
           B == Event(0)
<1>4. A \in Seq(Pieces) /\ B \in Seq(Pieces) /\ Len(A) = 3 /\ Len(B) = 3
      /\ A[1] = B[1] /\ A[2] = B[2] /\ A[3] = B[3]
  BY <1>2, <1>3
<1> HIDE DEF A, B
<1>5. \A i \in 1..3 : i = 1 \/ i = 2 \/ i = 3
  OBVIOUS
<1>6. A = B
  BY <1>4, <1>5, SeqEqual
<1> QED BY <1>6 DEF A, B


\* The last newline of the first m pieces of some events.
LEMMA LastNewlineIs ==
  ASSUME NEW ts \in Seq(Nat), NEW s, Chunk(s, ts, 0)
  PROVE  LastNewline(s) = 3 * (Len(s) \div 3)
<1> DEFINE m == Len(s)
           j == m \div 3
<1>1. /\ m \in Nat /\ Len(ts) \in Nat /\ m <= 3 * Len(ts) /\ DOMAIN s = 1..m
      /\ \A i \in 1..m : s[i] = Events(ts)[i]
  <2>1. s \in Seq(Pieces) /\ 0 + Len(s) <= 3 * Len(ts)
        /\ \A i \in 1..m : s[i] = Events(ts)[0 + i]
    BY DEF Chunk
  <2>2. m \in Nat /\ Len(ts) \in Nat /\ DOMAIN s = 1..m
    BY <2>1, LenProperties
  <2>3. \A i \in 1..m : 0 + i = i
    BY <2>2
  <2> QED BY <2>1, <2>2, <2>3
<1>2. j \in Nat /\ 3 * j <= m /\ m < 3 * j + 3 /\ j <= Len(ts)
  BY <1>1
<1>3. ASSUME NEW i \in Newlines(s) PROVE i \in 1..m /\ \E k \in 1..Len(ts) : i = 3 * k
  <2>1. i \in 1..m /\ s[i] = Newline
    BY <1>1 DEF Newlines
  <2>2. i \in 1..(3 * Len(ts))
    BY <1>1, <2>1
  <2>3. PICK k \in 1..Len(ts) : i = 3 * k - 2 \/ i = 3 * k - 1 \/ i = 3 * k
    BY <1>1, <2>2, Position
  <2>4. Events(ts)[3 * k - 2] = Head1(ts[k]) /\ Events(ts)[3 * k - 1] = Rest(ts[k])
    BY EventsIs
  <2>5. Head1(ts[k]) # Newline /\ Rest(ts[k]) # Newline
    BY DEF Head1, Rest, Newline
  <2> QED BY <1>1, <2>1, <2>3, <2>4, <2>5
<1>4. \A i \in Newlines(s) : i \in Nat /\ i <= 3 * j
  <2> SUFFICES ASSUME NEW i \in Newlines(s) PROVE i \in Nat /\ i <= 3 * j
    OBVIOUS
  <2>1. PICK k \in 1..Len(ts) : i = 3 * k
    BY <1>3
  <2>2. 3 * k <= m
    BY <1>1, <1>3, <2>1
  <2> QED BY <1>1, <1>2, <2>1, <2>2
<1> HIDE DEF j
<1>5. CASE j = 0
  <2>1. \A i \in Newlines(s) : i \in 1..m /\ i <= 0
    BY <1>3, <1>4, <1>5
  <2>2. Newlines(s) = {}
    BY <1>1, <2>1
  <2> QED BY <1>5, <2>2 DEF LastNewline, j
<1>6. CASE j # 0
  <2>1. j \in 1..Len(ts) /\ 3 * j \in 1..m
    BY <1>1, <1>2, <1>6
  <2>2. s[3 * j] = Newline
    BY <1>1, <2>1, EventsIs
  <2>3. 3 * j \in Newlines(s)
    BY <1>1, <2>1, <2>2 DEF Newlines
  <2> DEFINE L == CHOOSE i \in Newlines(s) : \A h \in Newlines(s) : h <= i
  <2>4. L \in Newlines(s) /\ \A h \in Newlines(s) : h <= L
    BY <1>4, <2>3
  <2>5. LastNewline(s) = L
    BY <2>3 DEF LastNewline
  <2> HIDE DEF L
  <2>6. L \in Nat /\ L <= 3 * j /\ 3 * j <= L
    BY <1>4, <2>3, <2>4
  <2>7. L = 3 * j
    BY <1>2, <2>6
  <2> QED BY <2>5, <2>7 DEF j
<1> QED BY <1>5, <1>6

\* A part of a sequence.
LEMMA PartIs ==
  ASSUME NEW T, NEW s \in Seq(T), NEW a \in Nat, NEW b \in Nat, a <= b, b <= Len(s)
  PROVE  /\ SubSeq(s, a + 1, b) \in Seq(T) /\ Len(SubSeq(s, a + 1, b)) = b - a
         /\ \A i \in 1..(b - a) : SubSeq(s, a + 1, b)[i] = s[a + i]
<1>1. Len(s) \in Nat
  BY LenProperties
<1>2. \A i \in (a + 1)..b : s[i] \in T
  <2>1. \A i \in (a + 1)..b : i \in 1..Len(s)
    BY <1>1
  <2> QED BY <2>1, ElementOfSeq
<1>3. a + 1 \in Int /\ b \in Int /\ b - (a + 1) + 1 = b - a
      /\ (IF a + 1 <= b THEN b - (a + 1) + 1 ELSE 0) = b - a
  OBVIOUS
<1>4. \A i \in 1..(b - a) : a + 1 + i - 1 = a + i
  OBVIOUS
<1> DEFINE p == SubSeq(s, a + 1, b)
<1>5. /\ p \in Seq(T) /\ Len(p) = (IF a + 1 <= b THEN b - (a + 1) + 1 ELSE 0)
      /\ \A i \in 1..(b - (a + 1) + 1) : p[i] = s[a + 1 + i - 1]
  BY <1>2, <1>3, SubSeqProperties
<1> HIDE DEF p
<1>6. p \in Seq(T) /\ Len(p) = b - a /\ \A i \in 1..(b - a) : p[i] = s[a + i]
  BY <1>3, <1>4, <1>5
<1> QED BY <1>6 DEF p

\* The first n elements.
LEMMA TakeIs ==
  ASSUME NEW T, NEW s \in Seq(T), NEW n \in Nat, n <= Len(s)
  PROVE  /\ Take(s, n) \in Seq(T) /\ Len(Take(s, n)) = n
         /\ \A i \in 1..n : Take(s, n)[i] = s[i]
<1>1. 0 + 1 = 1 /\ 0 <= n /\ n - 0 = n /\ \A i \in 1..n : 0 + i = i
  OBVIOUS
<1> DEFINE p == SubSeq(s, 0 + 1, n)
<1>2. p \in Seq(T) /\ Len(p) = n - 0 /\ \A i \in 1..(n - 0) : p[i] = s[0 + i]
  BY <1>1, PartIs
<1>3. Take(s, n) = p
  BY <1>1 DEF Take
<1> HIDE DEF p
<1> QED BY <1>1, <1>2, <1>3

\* All but the first n elements.
LEMMA DropIs ==
  ASSUME NEW T, NEW s \in Seq(T), NEW n \in Nat, n <= Len(s)
  PROVE  /\ Drop(s, n) \in Seq(T) /\ Len(Drop(s, n)) = Len(s) - n
         /\ \A i \in 1..(Len(s) - n) : Drop(s, n)[i] = s[n + i]
<1>1. Len(s) \in Nat /\ Len(s) <= Len(s)
  BY LenProperties
<1> DEFINE p == SubSeq(s, n + 1, Len(s))
<1>2. p \in Seq(T) /\ Len(p) = Len(s) - n /\ \A i \in 1..(Len(s) - n) : p[i] = s[n + i]
  BY <1>1, PartIs
<1>3. Drop(s, n) = p
  BY DEF Drop
<1> HIDE DEF p
<1> QED BY <1>2, <1>3

\* The client's buffer b becomes r with a chunk of the wire w; u is all there is.
Reads(T, b, w, n, r, u) ==
  /\ b \in Seq(T) /\ w \in Seq(T) /\ n \in Nat /\ n <= Len(w)
  /\ r = b \o Take(w, n) /\ u = b \o w

\* A chunk of n pieces moves from the wire to the buffer.
LEMMA ReadIs ==
  ASSUME NEW T, NEW b, NEW w, NEW n, NEW r, NEW u, Reads(T, b, w, n, r, u)
  PROVE  /\ r \in Seq(T) /\ Len(r) = Len(b) + n
         /\ \A i \in 1..(Len(b) + n) : r[i] = u[i]
<1> DEFINE h == Take(w, n)
<1>1. /\ b \in Seq(T) /\ w \in Seq(T) /\ n \in Nat /\ n <= Len(w)
      /\ Len(b) \in Nat /\ Len(w) \in Nat
  BY LenProperties DEF Reads
<1>2. h \in Seq(T) /\ Len(h) = n /\ \A i \in 1..n : h[i] = w[i]
  BY <1>1, TakeIs
<1>3. /\ r \in Seq(T) /\ Len(r) = Len(b) + Len(h)
      /\ \A i \in 1..(Len(b) + Len(h)) : r[i] = IF i <= Len(b) THEN b[i] ELSE h[i - Len(b)]
  <2>1. r = b \o h /\ h \in Seq(T)
    BY <1>2 DEF Reads
  <2> HIDE DEF h
  <2>2. /\ b \o h \in Seq(T) /\ Len(b \o h) = Len(b) + Len(h)
        /\ \A i \in 1..(Len(b) + Len(h)) :
             (b \o h)[i] = IF i <= Len(b) THEN b[i] ELSE h[i - Len(b)]
    BY <1>1, <2>1, ConcatProperties
  <2> QED BY <2>1, <2>2
<1>4. \A i \in 1..(Len(b) + Len(w)) : u[i] = IF i <= Len(b) THEN b[i] ELSE w[i - Len(b)]
  <2>1. \A i \in 1..(Len(b) + Len(w)) :
          (b \o w)[i] = IF i <= Len(b) THEN b[i] ELSE w[i - Len(b)]
    BY <1>1, ConcatProperties
  <2> QED BY <2>1 DEF Reads
<1> HIDE DEF h
<1>5. ASSUME NEW i \in 1..(Len(b) + n) PROVE r[i] = u[i]
  <2>1. i \in 1..(Len(b) + Len(w)) /\ i \in 1..(Len(b) + Len(h))
    BY <1>1, <1>2
  <2>2. ~(i <= Len(b)) => i - Len(b) \in 1..n
    BY <1>1
  <2> QED BY <1>2, <1>3, <1>4, <2>1, <2>2
<1> QED BY <1>2, <1>3, <1>5

\* The end of what was read and the rest of the wire are the end of both.
LEMMA KeptIs ==
  ASSUME NEW T, NEW b, NEW w, NEW n, NEW r, NEW u, Reads(T, b, w, n, r, u),
         NEW p \in Nat, p <= Len(b) + n
  PROVE  Drop(r, p) \in Seq(T) /\ Drop(w, n) \in Seq(T) /\ Drop(r, p) \o Drop(w, n) = Drop(u, p)
<1> DEFINE x == Drop(r, p)
           y == Drop(w, n)
           z == Drop(u, p)
<1>1. /\ b \in Seq(T) /\ w \in Seq(T) /\ n \in Nat /\ n <= Len(w)
      /\ Len(b) \in Nat /\ Len(w) \in Nat
  BY LenProperties DEF Reads
<1>2. u = b \o w
  BY DEF Reads
<1>3. /\ r \in Seq(T) /\ Len(r) = Len(b) + n
      /\ \A i \in 1..(Len(b) + n) : r[i] = u[i]
  BY ReadIs
<1>4. /\ u \in Seq(T) /\ Len(u) = Len(b) + Len(w)
      /\ \A i \in 1..(Len(b) + Len(w)) : u[i] = IF i <= Len(b) THEN b[i] ELSE w[i - Len(b)]
  <2>1. /\ b \o w \in Seq(T) /\ Len(b \o w) = Len(b) + Len(w)
        /\ \A i \in 1..(Len(b) + Len(w)) :
             (b \o w)[i] = IF i <= Len(b) THEN b[i] ELSE w[i - Len(b)]
    BY <1>1, ConcatProperties
  <2> QED BY <1>2, <2>1
<1>5. /\ r \in Seq(T) /\ Len(r) = Len(b) + n /\ p <= Len(r)
      /\ u \in Seq(T) /\ Len(u) = Len(b) + Len(w) /\ p <= Len(u)
  <2>1. r \in Seq(T) /\ Len(r) = Len(b) + n
    BY <1>3
  <2>2. u \in Seq(T) /\ Len(u) = Len(b) + Len(w)
    BY <1>4
  <2> QED BY <1>1, <2>1, <2>2
<1>6. x \in Seq(T) /\ Len(x) = Len(r) - p /\ \A i \in 1..(Len(r) - p) : x[i] = r[p + i]
  BY <1>5, DropIs
<1>7. y \in Seq(T) /\ Len(y) = Len(w) - n /\ \A i \in 1..(Len(w) - n) : y[i] = w[n + i]
  BY <1>1, DropIs
<1>8. z \in Seq(T) /\ Len(z) = Len(u) - p /\ \A i \in 1..(Len(u) - p) : z[i] = u[p + i]
  BY <1>5, DropIs
<1> HIDE DEF x, y, z
<1>9. /\ x \in Seq(T) /\ y \in Seq(T) /\ z \in Seq(T)
      /\ Len(x) = Len(r) - p /\ Len(y) = Len(w) - n /\ Len(z) = Len(u) - p
  BY <1>6, <1>7, <1>8
<1>10. /\ Len(r) - p = Len(b) + n - p /\ Len(u) - p = Len(b) + Len(w) - p
       /\ Len(x) = Len(b) + n - p /\ Len(y) = Len(w) - n /\ Len(z) = Len(b) + Len(w) - p
  <2>1. Len(r) = Len(b) + n /\ Len(u) = Len(b) + Len(w)
    BY <1>5, Zenon
  <2>2. Len(x) = Len(r) - p /\ Len(y) = Len(w) - n /\ Len(z) = Len(u) - p
    BY <1>9, Zenon
  <2>3. Len(b) \in Nat /\ Len(w) \in Nat /\ n \in Nat
    BY <1>1, Zenon
  <2>4. Len(r) - p = Len(b) + n - p
    BY <2>1, <2>3
  <2>5. Len(u) - p = Len(b) + Len(w) - p
    BY <2>1, <2>3
  <2> QED BY <2>2, <2>4, <2>5, Zenon
<1>11. /\ x \o y \in Seq(T) /\ Len(x \o y) = Len(x) + Len(y)
       /\ \A i \in 1..(Len(x) + Len(y)) : (x \o y)[i] = IF i <= Len(x) THEN x[i] ELSE y[i - Len(x)]
  BY <1>9, ConcatProperties
<1>12. Len(x) + Len(y) = Len(z)
  BY <1>1, <1>10
<1>13. ASSUME NEW i \in 1..Len(z) PROVE (x \o y)[i] = z[i]
  <2>1. i \in 1..(Len(x) + Len(y)) /\ i \in 1..(Len(u) - p)
    BY <1>10, <1>12
  <2>2. z[i] = u[p + i]
    BY <1>8, <2>1
  <2>3. CASE i <= Len(x)
    <3>1. i \in 1..(Len(r) - p) /\ p + i \in 1..(Len(b) + n)
      BY <1>1, <1>10, <2>1, <2>3
    <3>2. (x \o y)[i] = x[i]
      BY <1>11, <2>1, <2>3
    <3>3. x[i] = r[p + i]
      BY <1>6, <3>1
    <3>4. r[p + i] = u[p + i]
      BY <1>3, <3>1
    <3> QED BY <2>2, <3>2, <3>3, <3>4
  <2>4. CASE ~(i <= Len(x))
    <3> DEFINE q == p + i
               h == i - Len(x)
    <3>1. /\ h \in 1..(Len(w) - n) /\ n + h = q - Len(b)
          /\ q \in 1..(Len(b) + Len(w)) /\ ~(q <= Len(b))
      BY <1>1, <1>10, <2>1, <2>4
    <3>2. (x \o y)[i] = y[h]
      BY <1>11, <2>1, <2>4
    <3> HIDE DEF q, h
    <3>3. y[h] = w[n + h]
      BY <1>7, <3>1
    <3>4. u[q] = w[q - Len(b)]
      BY <1>4, <3>1
    <3>5. (x \o y)[i] = u[q]
      BY <3>1, <3>2, <3>3, <3>4
    <3> QED BY <2>2, <3>5 DEF q
  <2> QED BY <2>3, <2>4
<1>14. x \o y = z
  <2> DEFINE xy == x \o y
  <2>1. xy \in Seq(T) /\ z \in Seq(T) /\ Len(xy) = Len(z) /\ \A i \in 1..Len(xy) : xy[i] = z[i]
    BY <1>9, <1>11, <1>12, <1>13
  <2> HIDE DEF xy
  <2>2. xy = z
    BY <2>1, SeqEqual
  <2> QED BY <2>2 DEF xy
<1> QED BY <1>9, <1>14 DEF x, y, z


-----------------------------------------------------------------------------
(***************************************************************************)
(* The server                                                              *)
(***************************************************************************)

Reply == [t \in Tokens |-> t]

\* Pieces the server has received.
Consumed == 3 * TokenCount - Len(upstream)

\* The reply's k-th token is token k.
LEMMA ReplyIs ==
  /\ TokenCount \in Nat /\ Reply \in Seq(Nat) /\ Len(Reply) = TokenCount
  /\ \A i \in 1..TokenCount : Reply[i] = i
<1>1. TokenCount \in Nat
  BY StreamAssumption
<1>2. \A i \in 1..TokenCount : i \in Nat
  BY <1>1
<1>3. [t \in 1..TokenCount |-> t] \in Seq(Nat) /\ Len([t \in 1..TokenCount |-> t]) = TokenCount
  BY <1>1, <1>2
<1> QED BY <1>1, <1>3 DEF Reply, Tokens

\* The server has seen the reply up to token a and collected it without the tokens in
\* D; token b = a + 1 is among them if the last chunk ended in its line.  The next chunk
\* has the tokens more, up to e, and ends in no line but that of token e + 1.
Grows(a, b, e, D, E, more) ==
  /\ a \in Nat /\ b \in Nat /\ e \in Nat
  /\ a <= b /\ b <= a + 1 /\ b <= e /\ e <= TokenCount
  /\ D \subseteq 1..b /\ (b = a + 1 => b \in D)
  /\ D \subseteq E /\ E \subseteq D \cup {e + 1}
  /\ more = SubSeq(Reply, b + 1, e)

\* Then it has collected the reply up to token e without the tokens in E.
LEMMA ReplyGrows ==
  ASSUME NEW a, NEW b, NEW e, NEW D, NEW E, NEW more, Grows(a, b, e, D, E, more)
  PROVE  Without(Take(Reply, e), E) = Without(Take(Reply, a), D) \o more
<1> USE DEF Grows
<1> DEFINE p == SubSeq(Reply, 1, a)
           q == SubSeq(Reply, a + 1, b)
           r == SubSeq(Reply, b + 1, e)
<1>1. /\ TokenCount \in Nat /\ Reply \in Seq(Nat) /\ Len(Reply) = TokenCount
      /\ \A i \in 1..TokenCount : Reply[i] = i
  BY ReplyIs
<1>2. a <= TokenCount /\ b <= TokenCount /\ a <= e
  BY <1>1
<1>3. p \in Seq(Nat) /\ Len(p) = a /\ \A i \in 1..a : p[i] = Reply[i]
  BY <1>1, <1>2, TakeIs DEF Take
<1>4. q \in Seq(Nat) /\ Len(q) = b - a /\ \A i \in 1..(b - a) : q[i] = Reply[a + i]
  BY <1>1, <1>2, PartIs
<1>5. r \in Seq(Nat) /\ Len(r) = e - b /\ \A i \in 1..(e - b) : r[i] = Reply[b + i]
  BY <1>1, PartIs
<1>6. Take(Reply, e) = (p \o q) \o r
  <2>1. /\ 1 \in 1..(TokenCount + 1) /\ a \in (1 - 1)..TokenCount /\ b \in a..TokenCount
        /\ b \in (1 - 1)..TokenCount /\ e \in b..TokenCount
    BY <1>1, <1>2
  <2>2. p \o q = SubSeq(Reply, 1, b)
    BY <1>1, <2>1, ConcatAdjacentSubSeq
  <2>3. SubSeq(Reply, 1, b) \o r = SubSeq(Reply, 1, e)
    BY <1>1, <2>1, ConcatAdjacentSubSeq
  <2> QED BY <2>2, <2>3 DEF Take
<1> HIDE DEF p, q, r
<1>7. Without(p, E) = Without(p, D)
  <2>1. ASSUME NEW i \in 1..Len(p) PROVE p[i] \in E <=> p[i] \in D
    <3>1. i \in 1..a /\ i \in 1..TokenCount /\ i # e + 1
      BY <1>1, <1>2, <1>3
    <3>2. p[i] = i
      BY <1>1, <1>3, <3>1
    <3> QED BY <3>1, <3>2
  <2> QED BY <1>3, <2>1, WithoutSame
<1>8. Without(q, E) = <<>>
  <2>1. CASE a = b
    <3>1. Len(q) = 0
      BY <1>4, <2>1
    <3>2. q = <<>>
      BY <1>4, <3>1, EmptySeq
    <3>3. Len(<<>>) = 0 /\ <<>> \in Seq(Nat) /\ \A i \in 1..0 : <<>>[i] \notin E
      OBVIOUS
    <3>4. Without(<<>>, E) = <<>>
      <4> QED BY <3>3, WithoutNone
    <3> QED BY <3>2, <3>4
  <2>2. CASE b = a + 1
    <3>1. b - a = 1 /\ a + 1 = b /\ b \in 1..TokenCount /\ 1 \in 1..1
      BY <1>1, <1>2, <2>2
    <3>2. Len(q) = 1 /\ q[1] = b
      BY <1>1, <1>4, <3>1
    <3>3. q = <<b>>
      BY <1>4, <3>2
    <3>4. b \in E
      BY <2>2
    <3>5. Without(<<b>>, E) = <<>>
      <4> QED BY <3>4, WithoutOne
    <3> QED BY <3>3, <3>5
  <2> QED BY <2>1, <2>2
<1>9. Without(r, E) = r
  <2>1. ASSUME NEW i \in 1..Len(r) PROVE r[i] \notin E
    <3>1. i \in 1..(e - b) /\ b + i \in 1..TokenCount /\ b + i # e + 1 /\ b + i \notin 1..b
      BY <1>1, <1>5
    <3>2. r[i] = b + i
      BY <1>1, <1>5, <3>1
    <3> QED BY <3>1, <3>2
  <2> QED BY <1>5, <2>1, WithoutNone
<1>10. p \o q \in Seq(Nat)
  BY <1>3, <1>4, ConcatProperties
<1>11. Without((p \o q) \o r, E) = Without(p \o q, E) \o Without(r, E)
  <2> DEFINE pq == p \o q
  <2>1. pq \in Seq(Nat)
    BY <1>10
  <2> HIDE DEF pq
  <2>2. Without(pq \o r, E) = Without(pq, E) \o Without(r, E)
    BY <1>5, <2>1, WithoutConcat
  <2> QED BY <2>2 DEF pq
<1>12. Without(p \o q, E) = Without(p, E) \o Without(q, E)
  <2> QED BY <1>3, <1>4, WithoutConcat
<1>13. Without(p, D) \o <<>> = Without(p, D)
  <2>1. Without(p, D) \in Seq(Nat)
    BY <1>3, WithoutType
  <2> QED BY <2>1, ConcatEmptySeq
<1>14. Without(Take(Reply, e), E) = Without(p, D) \o r
  <2> QED BY <1>6, <1>7, <1>8, <1>9, <1>11, <1>12, <1>13
<1>15. more = r
  BY DEF r
<1>16. Take(Reply, a) = p
  BY DEF Take, p
<1> QED BY <1>14, <1>15, <1>16


\* What the provider has sent and the server not received is the end of the reply's
\* events.
ServerInv ==
  /\ upstream \in Seq(Pieces) /\ Len(upstream) <= 3 * TokenCount
  /\ \A i \in 1..Len(upstream) : upstream[i] = Events(Reply)[Consumed + i]
  /\ ended \in BOOLEAN /\ (ended => upstream = <<>>)

\* What the server has collected is the reply as far as it was received up to the
\* rest of a line, without the tokens that were cut.  A token is cut as soon as a chunk
\* ends in its line, before the line's end is received.
ReplyInv ==
  /\ fullReply = Without(Take(Reply, (Consumed + 1) \div 3), cut)
  /\ cut \subseteq 1..((Consumed + 2) \div 3)
  /\ Consumed % 3 = 1 => (Consumed + 2) \div 3 \in cut

\* How many pieces the server has received.
LEMMA ConsumedIs ==
  ASSUME ServerInv
  PROVE  /\ TokenCount \in Nat /\ Len(upstream) \in Nat /\ Consumed \in Nat
         /\ Consumed + Len(upstream) = 3 * TokenCount
<1>1. TokenCount \in Nat /\ Len(upstream) \in Nat
  BY ReplyIs, LenProperties DEF ServerInv
<1> QED BY <1>1 DEF ServerInv, Consumed

\* The tokens the server finds in a chunk.
LEMMA ReceivedIs ==
  ASSUME ServerInv, NEW n \in Nat, 1 <= n, n <= Len(upstream)
  PROVE  LET tokens == Parsed(Take(upstream, n))
         IN  /\ tokens = SubSeq(Reply, (Consumed + 2) \div 3 + 1, (Consumed + n + 1) \div 3)
             /\ tokens \in Seq(Nat)
             /\ \A k \in 1..Len(tokens) : tokens[k] # 0
<1> DEFINE c == Consumed
           s == Take(upstream, n)
           b == (c + 2) \div 3
           e == (c + n + 1) \div 3
           tokens == Parsed(s)
<1>1. /\ TokenCount \in Nat /\ Len(upstream) \in Nat /\ c \in Nat
      /\ c + Len(upstream) = 3 * TokenCount
  BY ConsumedIs
<1>2. s \in Seq(Pieces) /\ Len(s) = n /\ \A i \in 1..n : s[i] = upstream[i]
  BY TakeIs DEF ServerInv
<1>3. \A i \in 1..n : upstream[i] = Events(Reply)[c + i]
  BY <1>1 DEF ServerInv
<1> HIDE DEF c, s
<1>4. Chunk(s, Reply, c)
  <2>1. c + n <= 3 * TokenCount
    BY <1>1
  <2> QED BY <1>2, <1>3, <2>1, ReplyIs DEF Chunk
<1>5. tokens = SubSeq(Reply, b + 1, e)
  BY <1>1, <1>2, <1>4, ReplyIs, ParsedChunk
<1>6. b \in Nat /\ e \in Nat /\ b <= e /\ e <= TokenCount
  BY <1>1
<1> HIDE DEF b, e, tokens
<1>7. tokens \in Seq(Nat) /\ Len(tokens) = e - b /\ \A k \in 1..(e - b) : tokens[k] = Reply[b + k]
  BY <1>5, <1>6, ReplyIs, PartIs
<1>8. \A k \in 1..Len(tokens) : tokens[k] # 0
  <2> SUFFICES ASSUME NEW k \in 1..(e - b) PROVE tokens[k] # 0
    BY <1>7
  <2>1. b + k \in 1..TokenCount /\ b + k # 0
    BY <1>1, <1>6
  <2>2. Reply[b + k] = b + k
    BY <2>1, ReplyIs
  <2> QED BY <1>7, <2>1, <2>2
<1> QED BY <1>5, <1>7, <1>8 DEF c, s, b, e, tokens

\* The token that is cut when the chunk ends after the head of its line.
LEMMA CutIs ==
  ASSUME ServerInv, NEW n \in Nat, n <= Len(upstream)
  PROVE  CutAt(upstream, n) =
           IF (Consumed + n) % 3 = 1 THEN {(Consumed + n + 2) \div 3} ELSE {}
<1> DEFINE c == Consumed
<1>1. /\ TokenCount \in Nat /\ Len(upstream) \in Nat /\ c \in Nat
      /\ c + Len(upstream) = 3 * TokenCount
  BY ConsumedIs
<1>2. \A i \in 1..Len(upstream) : upstream[i] = Events(Reply)[c + i]
  BY DEF ServerInv
<1> HIDE DEF c
<1>3. CASE n = Len(upstream)
  <2>1. ~(n < Len(upstream)) /\ (c + n) % 3 # 1
    BY <1>1, <1>3
  <2> QED BY <2>1 DEF CutAt, c
<1>4. CASE n < Len(upstream)
  <2>1. n + 1 \in 1..Len(upstream) /\ c + n + 1 \in 1..(3 * TokenCount) /\ c + (n + 1) = c + n + 1
    BY <1>1, <1>4
  <2>2. upstream[n + 1] = Events(Reply)[c + n + 1]
    BY <1>2, <2>1
  <2>3. PICK k \in 1..TokenCount :
          c + n + 1 = 3 * k - 2 \/ c + n + 1 = 3 * k - 1 \/ c + n + 1 = 3 * k
    BY <1>1, <2>1, Position
  <2>4. /\ Events(Reply)[3 * k - 2] = Head1(Reply[k])
        /\ Events(Reply)[3 * k - 1] = Rest(Reply[k])
        /\ Events(Reply)[3 * k] = Newline
    BY ReplyIs, EventsIs
  <2>5. Reply[k] = k
    BY ReplyIs
  <2>6. CASE c + n + 1 = 3 * k - 1
    <3>1. (c + n) % 3 = 1 /\ (c + n + 2) \div 3 = k
      BY <1>1, <2>6
    <3>2. upstream[n + 1].piece = "rest" /\ upstream[n + 1].token = k
      BY <2>2, <2>4, <2>5, <2>6 DEF Rest
    <3> QED BY <1>4, <3>1, <3>2 DEF CutAt, c
  <2>7. CASE c + n + 1 = 3 * k - 2
    <3>1. (c + n) % 3 = 0
      BY <1>1, <2>7
    <3>2. upstream[n + 1].piece # "rest"
      BY <2>2, <2>4, <2>7 DEF Head1
    <3> QED BY <3>1, <3>2 DEF CutAt, c
  <2>8. CASE c + n + 1 = 3 * k
    <3>1. (c + n) % 3 = 2
      BY <1>1, <2>8
    <3>2. upstream[n + 1].piece # "rest"
      BY <2>2, <2>4, <2>8 DEF Newline
    <3> QED BY <3>1, <3>2 DEF CutAt, c
  <2> QED BY <2>3, <2>6, <2>7, <2>8
<1> QED BY <1>1, <1>3, <1>4

\* A chunk of the provider.
LEMMA ServerReceivesKeeps ==
  ASSUME ServerInv, ReplyInv, NEW n \in 1..MaxChunk, ServerReceives(n)
  PROVE  ServerInv' /\ ReplyInv'
<1> DEFINE c == Consumed
           a == (c + 1) \div 3
           b == (c + 2) \div 3
           e == (c + n + 1) \div 3
<1>1. n \in Nat /\ 1 <= n /\ n <= Len(upstream)
  BY StreamAssumption DEF ServerReceives
<1>2. /\ TokenCount \in Nat /\ Len(upstream) \in Nat /\ c \in Nat
      /\ c + Len(upstream) = 3 * TokenCount
  BY ConsumedIs
<1>3. /\ upstream' \in Seq(Pieces) /\ Len(upstream') = Len(upstream) - n
      /\ \A i \in 1..(Len(upstream) - n) : upstream'[i] = upstream[n + i]
  <2>1. upstream' = Drop(upstream, n) /\ upstream \in Seq(Pieces)
    BY DEF ServerReceives, ServerInv
  <2> QED BY <1>1, <2>1, DropIs
<1>4. Consumed' = c + n
  BY <1>1, <1>2, <1>3 DEF Consumed
<1>5. ServerInv'
  <2>1. ASSUME NEW i \in 1..Len(upstream') PROVE upstream'[i] = Events(Reply)[Consumed' + i]
    <3>1. n + i \in 1..Len(upstream) /\ c + (n + i) = c + n + i
      BY <1>1, <1>2, <1>3
    <3>2. upstream[n + i] = Events(Reply)[c + (n + i)]
      BY <3>1 DEF ServerInv
    <3> QED BY <1>3, <1>4, <3>1, <3>2
  <2>2. Len(upstream') <= 3 * TokenCount
    BY <1>1, <1>2, <1>3
  <2>3. ended' = ended /\ ended \in BOOLEAN
    BY DEF ServerReceives, ServerInv
  <2>4. ~ended
    <3>1. Len(<<>>) = 0
      OBVIOUS
    <3> QED BY <1>1, <3>1 DEF ServerInv
  <2> QED BY <1>3, <2>1, <2>2, <2>3, <2>4 DEF ServerInv
<1> DEFINE X == CutAt(upstream, n)
           tokens == Parsed(Take(upstream, n))
<1>6. fullReply' = fullReply \o tokens /\ cut' = cut \cup X
  BY DEF ServerReceives
<1>7. tokens = SubSeq(Reply, b + 1, e)
  BY <1>1, ReceivedIs
<1>8. X = IF (c + n) % 3 = 1 THEN {(c + n + 2) \div 3} ELSE {}
  BY <1>1, CutIs
<1>9. /\ fullReply = Without(Take(Reply, a), cut) /\ cut \subseteq 1..b
      /\ c % 3 = 1 => b \in cut
  BY DEF ReplyInv
<1> HIDE DEF c, X, tokens
<1>10. /\ a \in Nat /\ b \in Nat /\ e \in Nat /\ a <= b /\ b <= a + 1 /\ b <= e
       /\ e <= TokenCount /\ (b = a + 1 => c % 3 = 1)
  BY <1>1, <1>2
<1>11. (c + n) % 3 = 1 => (c + n + 2) \div 3 = e + 1
  BY <1>1, <1>2
<1>12. b <= (c + n + 2) \div 3 /\ (c + n + 2) \div 3 \in Nat
       /\ ((c + n) % 3 = 1 => 1 <= (c + n + 2) \div 3)
  BY <1>1, <1>2
<1> HIDE DEF a, b, e
<1>13. X \subseteq {e + 1} /\ (b = a + 1 => b \in cut)
  BY <1>8, <1>9, <1>10, <1>11
<1>14. Without(Take(Reply, e), cut') = Without(Take(Reply, a), cut) \o tokens
  <2>1. Grows(a, b, e, cut, cut', tokens)
    BY <1>6, <1>7, <1>9, <1>10, <1>13 DEF Grows
  <2> QED BY <2>1, ReplyGrows
<1>15. ReplyInv'
  <2>1. fullReply' = Without(Take(Reply, e), cut')
    BY <1>6, <1>9, <1>14
  <2>2. cut' \subseteq 1..((c + n + 2) \div 3)
    <3> DEFINE d == (c + n + 2) \div 3
    <3>1. b <= d /\ d \in Nat /\ X \subseteq {d} /\ (X # {} => 1 <= d)
      BY <1>8, <1>12
    <3> HIDE DEF d
    <3>2. cut \cup X \subseteq 1..d
      BY <1>9, <1>10, <3>1
    <3> QED BY <1>6, <3>2 DEF d
  <2>3. (c + n) % 3 = 1 => (c + n + 2) \div 3 \in cut'
    BY <1>6, <1>8
  <2>4. Take(Reply, (Consumed' + 1) \div 3) = Take(Reply, e)
    BY <1>4 DEF e
  <2> QED BY <1>4, <2>1, <2>2, <2>3, <2>4 DEF ReplyInv
<1> QED BY <1>5, <1>15


\* The other steps leave the server's side alone, 'end' says that it is over.
LEMMA ServerKeeps ==
  ASSUME ServerInv, ReplyInv, UNCHANGED <<upstream, fullReply, cut>>,
         ended' = ended \/ (ended' = TRUE /\ upstream = <<>>)
  PROVE  ServerInv' /\ ReplyInv'
<1>1. Consumed' = Consumed
  BY DEF Consumed
<1>2. ServerInv'
  <2>1. ended' \in BOOLEAN /\ (ended' => upstream = <<>>)
    <3>1. ended \in BOOLEAN /\ (ended => upstream = <<>>)
      BY DEF ServerInv
    <3>2. CASE ended' = ended
      BY <3>1, <3>2
    <3>3. CASE ended' = TRUE /\ upstream = <<>>
      BY <3>3
    <3> QED BY <3>2, <3>3
  <2> QED BY <1>1, <2>1 DEF ServerInv
<1>3. ReplyInv'
  BY <1>1 DEF ReplyInv
<1> QED BY <1>2, <1>3

-----------------------------------------------------------------------------
(***************************************************************************)
(* The client                                                              *)
(***************************************************************************)

\* The tokens the client has not shown yet.
Coming == Parsed(buffer \o wire)

\* The client's buffer and the wire hold whole events; with the client's text they make
\* up the server's; the completion event is the last one.
ClientInv ==
  /\ buffer \in Seq(Pieces) /\ wire \in Seq(Pieces)
  /\ shown \in Seq(Nat) /\ fullReply \in Seq(Nat) /\ Coming \in Seq(Nat)
  /\ buffer \o wire = Events(Coming)
  /\ shown \o Without(Coming, {0}) = fullReply
  /\ \A k \in 1..Len(Coming) : Coming[k] = 0 => k = Len(Coming) /\ ended
  /\ complete \in BOOLEAN /\ (complete => Coming = <<>> /\ ended)

\* Three sequences one after the other.
Three(T, a, b, c, ab, bc) ==
  a \in Seq(T) /\ b \in Seq(T) /\ c \in Seq(T) /\ ab = a \o b /\ bc = b \o c

Joins(ab, c, a, bc) == ab \o c = a \o bc

\* It does not matter which two are joined first.
LEMMA ThreeJoined ==
  ASSUME NEW T, NEW a, NEW b, NEW c, NEW ab, NEW bc, Three(T, a, b, c, ab, bc)
  PROVE  Joins(ab, c, a, bc)
<1>1. a \in Seq(T) /\ b \in Seq(T) /\ c \in Seq(T)
  BY DEF Three
<1>2. ab = a \o b /\ bc = b \o c
  BY DEF Three
<1>3. (a \o b) \o c = a \o (b \o c)
  BY <1>1, ConcatAssociative
<1> QED BY <1>2, <1>3 DEF Joins

\* The buffer b and the wire w hold the events of rest.
Holds(b, w, rest) ==
  /\ b \in Seq(Pieces) /\ w \in Seq(Pieces) /\ rest \in Seq(Nat)
  /\ b \o w = Events(rest) /\ Parsed(b \o w) = rest

\* More events on the wire: the client's buffer b and the wire w then hold those too.
LEMMA WireGrows ==
  ASSUME NEW b \in Seq(Pieces), NEW w \in Seq(Pieces), NEW rest \in Seq(Nat),
         NEW tokens \in Seq(Nat), b \o w = Events(rest),
         NEW wider, wider = w \o Events(tokens), NEW all, all = rest \o tokens
  PROVE  Holds(b, wider, all)
<1> DEFINE x == Events(tokens)
<1>1. x \in Seq(Pieces)
  BY EventsIs
<1>2. Events(all) = Events(rest) \o x
  BY EventsConcat
<1>3. all \in Seq(Nat)
  BY ConcatProperties
<1> HIDE DEF x
<1>4. w \o x \in Seq(Pieces)
  BY <1>1, ConcatProperties
<1>5. wider = w \o x
  BY DEF x
<1>6. Events(rest) \o x = b \o wider
  <2>1. Three(Pieces, b, w, x, Events(rest), wider)
    BY <1>1, <1>5 DEF Three
  <2>2. Joins(Events(rest), x, b, wider)
    BY <2>1, ThreeJoined, Zenon
  <2> QED BY <2>2 DEF Joins
<1>7. Parsed(Events(all)) = all
  BY <1>3, ParsedEvents
<1> QED BY <1>2, <1>3, <1>4, <1>5, <1>6, <1>7 DEF Holds

\* ... and the client has that much more to show after its text t.
Follows(t, rest, tokens, all, more) ==
  /\ t \in Seq(Nat) /\ rest \in Seq(Nat) /\ tokens \in Seq(Nat)
  /\ all = rest \o tokens /\ more = t \o Without(rest, {0})

\* The tokens a client has to show grow at the end.
LEMMA TextGrows ==
  ASSUME NEW t, NEW rest, NEW tokens, NEW all, NEW more, Follows(t, rest, tokens, all, more)
  PROVE  Joins(more, Without(tokens, {0}), t, Without(all, {0}))
<1> USE DEF Follows
<1> DEFINE x == Without(rest, {0})
           y == Without(tokens, {0})
           tx == t \o x
           xy == x \o y
<1>1. Without(all, {0}) = xy
  BY WithoutConcat
<1>2. x \in Seq(Nat) /\ y \in Seq(Nat)
  BY WithoutType
<1> HIDE DEF x, y
<1>3. Three(Nat, t, x, y, tx, xy)
  BY <1>2 DEF Three
<1> HIDE DEF tx, xy
<1>4. tx \o y = t \o xy
  <2>1. Joins(tx, y, t, xy)
    BY <1>3, ThreeJoined, Zenon
  <2> QED BY <2>1 DEF Joins
<1>5. more = tx
  BY DEF tx, x
<1> QED BY <1>1, <1>4, <1>5 DEF y, Joins

\* More events are sent to the client.
LEMMA Sends ==
  ASSUME ClientInv, NEW tokens \in Seq(Nat), wire' = wire \o Events(tokens),
         buffer' = buffer, shown' = shown
  PROVE  /\ Coming' = Coming \o tokens /\ Coming' \in Seq(Nat)
         /\ wire' \in Seq(Pieces) /\ buffer' \o wire' = Events(Coming')
         /\ shown' \o Without(Coming', {0}) = fullReply \o Without(tokens, {0})
<1> DEFINE rest == Coming
<1>1. /\ rest \in Seq(Nat) /\ buffer \in Seq(Pieces) /\ wire \in Seq(Pieces) /\ shown \in Seq(Nat)
      /\ buffer \o wire = Events(rest) /\ shown \o Without(rest, {0}) = fullReply
  BY DEF ClientInv
<1> HIDE DEF rest
<1> DEFINE all == rest \o tokens
<1>2. /\ wire' \in Seq(Pieces) /\ all \in Seq(Nat)
      /\ buffer \o wire' = Events(all) /\ Parsed(buffer \o wire') = all
  <2>1. all = rest \o tokens
    OBVIOUS
  <2> DEFINE wider == wire'
  <2>2. wider = wire \o Events(tokens)
    OBVIOUS
  <2> HIDE DEF all, wider
  <2>3. Holds(buffer, wider, all)
    BY <1>1, <2>1, <2>2, WireGrows
  <2> QED BY <2>3 DEF wider, Holds
<1>3. shown \o Without(all, {0}) = fullReply \o Without(tokens, {0})
  <2>1. Follows(shown, rest, tokens, all, fullReply)
    BY <1>1 DEF Follows
  <2> HIDE DEF all
  <2>2. Joins(fullReply, Without(tokens, {0}), shown, Without(all, {0}))
    BY <2>1, TextGrows, Zenon
  <2> QED BY <2>2 DEF Joins
<1> HIDE DEF all
<1>4. Coming' = all
  BY <1>2 DEF Coming
<1> QED BY <1>1, <1>2, <1>3, <1>4 DEF rest, all

\* The server forwards the tokens of a chunk.
LEMMA ServerReceivesForwards ==
  ASSUME ServerInv, ClientInv, NEW n \in 1..MaxChunk, ServerReceives(n)
  PROVE  ClientInv'
<1> DEFINE tokens == Parsed(Take(upstream, n))
<1>1. n \in Nat /\ 1 <= n /\ n <= Len(upstream)
  BY StreamAssumption DEF ServerReceives
<1>2. tokens \in Seq(Nat) /\ \A k \in 1..Len(tokens) : tokens[k] # 0
  BY <1>1, ReceivedIs
<1>3. /\ fullReply' = fullReply \o tokens /\ wire' = wire \o Events(tokens)
      /\ UNCHANGED <<ended, buffer, shown, complete>>
  BY DEF ServerReceives
<1> HIDE DEF tokens
<1>4. ~ended
  <2>1. Len(<<>>) = 0
    OBVIOUS
  <2> QED BY <1>1, <2>1 DEF ServerInv
<1>5. /\ Coming' = Coming \o tokens /\ Coming' \in Seq(Nat)
      /\ wire' \in Seq(Pieces) /\ buffer' \o wire' = Events(Coming')
      /\ shown' \o Without(Coming', {0}) = fullReply \o Without(tokens, {0})
  BY <1>2, <1>3, Sends
<1>6. Without(tokens, {0}) = tokens
  <2>1. \A k \in 1..Len(tokens) : tokens[k] \notin {0}
    BY <1>2
  <2> QED BY <1>2, <2>1, WithoutNone
<1>7. fullReply' \in Seq(Nat)
  BY <1>2, <1>3, ConcatProperties DEF ClientInv
<1>8. ASSUME NEW k \in 1..Len(Coming') PROVE Coming'[k] # 0
  <2> DEFINE rest == Coming
             all == Coming'
  <2>1. /\ rest \in Seq(Nat) /\ \A i \in 1..Len(rest) : rest[i] # 0
    BY <1>4 DEF ClientInv
  <2>2. all = rest \o tokens /\ k \in 1..Len(all)
    BY <1>5
  <2> HIDE DEF rest, all
  <2>3. /\ Len(rest) \in Nat /\ Len(tokens) \in Nat /\ Len(all) = Len(rest) + Len(tokens)
        /\ \A i \in 1..(Len(rest) + Len(tokens)) :
             (rest \o tokens)[i] = IF i <= Len(rest) THEN rest[i] ELSE tokens[i - Len(rest)]
    BY <1>2, <2>1, <2>2, LenProperties, ConcatProperties
  <2>4. /\ k <= Len(rest) => k \in 1..Len(rest)
        /\ ~(k <= Len(rest)) => k - Len(rest) \in 1..Len(tokens)
    BY <2>2, <2>3
  <2>5. all[k] # 0
    BY <1>2, <2>1, <2>2, <2>3, <2>4
  <2> QED BY <2>5 DEF all
<1>9. ~complete' /\ complete' \in BOOLEAN
  BY <1>3, <1>4 DEF ClientInv
<1>10. buffer' \in Seq(Pieces) /\ shown' \in Seq(Nat)
  BY <1>3 DEF ClientInv
<1> QED BY <1>3, <1>5, <1>6, <1>7, <1>8, <1>9, <1>10 DEF ClientInv

\* The server sends the completion event.
LEMMA ServerEndsForwards ==
  ASSUME ClientInv, ServerEnds
  PROVE  ClientInv'
<1> DEFINE tokens == <<0>>
<1>1. tokens \in Seq(Nat) /\ Len(tokens) = 1 /\ tokens[1] = 0
  OBVIOUS
<1>2. Without(tokens, {0}) = <<>>
  BY WithoutOne
<1>3. /\ wire' = wire \o Events(tokens) /\ ended' = TRUE /\ ~ended
      /\ UNCHANGED <<fullReply, buffer, shown, complete>>
  BY EventsOne DEF ServerEnds
<1> HIDE DEF tokens
<1>4. /\ Coming' = Coming \o tokens /\ Coming' \in Seq(Nat)
      /\ wire' \in Seq(Pieces) /\ buffer' \o wire' = Events(Coming')
      /\ shown' \o Without(Coming', {0}) = fullReply \o Without(tokens, {0})
  BY <1>1, <1>3, Sends
<1>5. fullReply \o <<>> = fullReply
  BY ConcatEmptySeq DEF ClientInv
<1>6. ASSUME NEW k \in 1..Len(Coming'), Coming'[k] = 0 PROVE k = Len(Coming')
  <2> DEFINE rest == Coming
             all == Coming'
  <2>1. /\ rest \in Seq(Nat) /\ \A i \in 1..Len(rest) : rest[i] # 0
    BY <1>3 DEF ClientInv
  <2>2. all = rest \o tokens /\ k \in 1..Len(all) /\ all[k] = 0
    BY <1>4, <1>6
  <2> HIDE DEF rest, all
  <2>3. /\ Len(rest) \in Nat /\ Len(all) = Len(rest) + 1
        /\ \A i \in 1..(Len(rest) + 1) :
             (rest \o tokens)[i] = IF i <= Len(rest) THEN rest[i] ELSE tokens[i - Len(rest)]
    <3>1. /\ Len(rest) \in Nat /\ Len(rest \o tokens) = Len(rest) + Len(tokens)
          /\ \A i \in 1..(Len(rest) + Len(tokens)) :
               (rest \o tokens)[i] = IF i <= Len(rest) THEN rest[i] ELSE tokens[i - Len(rest)]
      BY <1>1, <2>1, LenProperties, ConcatProperties
    <3> QED BY <1>1, <2>2, <3>1
  <2>4. ~(k <= Len(rest))
    <3> SUFFICES ASSUME k <= Len(rest) PROVE FALSE
      OBVIOUS
    <3>1. k \in 1..Len(rest) /\ k \in 1..(Len(rest) + 1)
      BY <2>2, <2>3
    <3> QED BY <2>1, <2>2, <2>3, <3>1
  <2>5. k = Len(all)
    BY <2>2, <2>3, <2>4
  <2> QED BY <2>5 DEF all
<1>7. ~complete' /\ complete' \in BOOLEAN
  BY <1>3 DEF ClientInv
<1>8. buffer' \in Seq(Pieces) /\ shown' \in Seq(Nat) /\ fullReply' \in Seq(Nat)
  BY <1>3 DEF ClientInv
<1> QED BY <1>2, <1>3, <1>4, <1>5, <1>6, <1>7, <1>8 DEF ClientInv


\* What the client makes of a chunk of n pieces: it shows the tokens of the events
\* that are complete with it, keeps the pieces of the next one.
LEMMA ClientReadsWhole ==
  ASSUME NEW b, NEW w, NEW rest, Holds(b, w, rest), NEW n \in Nat, n <= Len(w)
  PROVE  LET read == b \o Take(w, n)
             j    == Len(read) \div 3
         IN  /\ j \in 0..Len(rest)
             /\ Parsed(Take(read, LastNewline(read))) = Take(rest, j)
             /\ Holds(Unfinished(read), Drop(w, n), Drop(rest, j))
<1> DEFINE read == b \o Take(w, n)
           j == Len(read) \div 3
           m == 3 * j
           s == Take(read, m)
<1>1. /\ b \in Seq(Pieces) /\ w \in Seq(Pieces) /\ rest \in Seq(Nat)
      /\ b \o w = Events(rest)
  BY DEF Holds
<1>2. Len(b) \in Nat /\ Len(w) \in Nat /\ Len(rest) \in Nat
  BY <1>1, LenProperties
<1>3. /\ read \in Seq(Pieces) /\ Len(read) = Len(b) + n
      /\ \A i \in 1..(Len(b) + n) : read[i] = Events(rest)[i]
  <2>1. Reads(Pieces, b, w, n, read, Events(rest))
    BY <1>1 DEF Reads
  <2> HIDE DEF read
  <2> QED BY <2>1, ReadIs
<1>4. Len(b) + Len(w) = 3 * Len(rest)
  <2>1. Len(b \o w) = Len(b) + Len(w)
    BY <1>1, ConcatProperties
  <2>2. Len(Events(rest)) = 3 * Len(rest)
    BY <1>1, EventsIs
  <2> QED BY <1>1, <2>1, <2>2
<1> HIDE DEF read
<1>5. /\ Len(read) \in Nat /\ j \in Nat /\ m \in Nat /\ m <= Len(read)
      /\ Len(read) <= 3 * Len(rest) /\ j \in 0..Len(rest)
  BY <1>2, <1>3, <1>4
<1> HIDE DEF j
<1>6. Chunk(read, rest, 0)
  <2>1. 0 + Len(read) <= 3 * Len(rest) /\ \A i \in 1..Len(read) : 0 + i = i
    BY <1>5
  <2> QED BY <1>3, <2>1 DEF Chunk
<1>7. LastNewline(read) = m
  BY <1>1, <1>6, LastNewlineIs DEF j
<1>8. Parsed(s) = Take(rest, j)
  <2>1. s \in Seq(Pieces) /\ Len(s) = m /\ \A i \in 1..m : s[i] = read[i]
    BY <1>3, <1>5, TakeIs
  <2> HIDE DEF s
  <2>2. Chunk(s, rest, 0)
    <3>1. 0 + m <= 3 * Len(rest) /\ \A i \in 1..m : 0 + i = i /\ i \in 1..(Len(b) + n)
      BY <1>2, <1>3, <1>5
    <3> HIDE DEF m
    <3> QED BY <1>3, <2>1, <3>1 DEF Chunk
  <2>3. Parsed(s) = SubSeq(rest, (0 + 2) \div 3 + 1, (0 + m + 1) \div 3)
    <3>1. Parsed(s) = SubSeq(rest, (0 + 2) \div 3 + 1, (0 + Len(s) + 1) \div 3)
      BY <1>1, <2>2, ParsedChunk
    <3> HIDE DEF m
    <3> QED BY <2>1, <3>1
  <2>4. (0 + 2) \div 3 + 1 = 1 /\ (0 + m + 1) \div 3 = j
    BY <1>5
  <2> HIDE DEF m
  <2> QED BY <2>3, <2>4 DEF Take
<1> HIDE DEF m
<1>9. Holds(Drop(read, m), Drop(w, n), Drop(rest, j))
  <2> DEFINE x == Drop(read, m)
             y == Drop(w, n)
             z == Drop(rest, j)
  <2>1. m <= Len(b) + n
    BY <1>3, <1>5
  <2>2. x \in Seq(Pieces) /\ y \in Seq(Pieces) /\ x \o y = Drop(Events(rest), m)
    <3>1. read = b \o Take(w, n) /\ Events(rest) = b \o w
      BY <1>1 DEF read
    <3>2. b \in Seq(Pieces) /\ w \in Seq(Pieces) /\ m \in Nat
      BY <1>1, <1>5
    <3>3. Reads(Pieces, b, w, n, read, Events(rest))
      BY <3>1, <3>2 DEF Reads
    <3> HIDE DEF x, y
    <3>4. Drop(read, m) \in Seq(Pieces) /\ Drop(w, n) \in Seq(Pieces)
          /\ Drop(read, m) \o Drop(w, n) = Drop(Events(rest), m)
      BY <2>1, <3>2, <3>3, KeptIs
    <3> QED BY <3>4 DEF x, y
  <2>3. Drop(Events(rest), 3 * j) = Events(z)
    BY <1>1, <1>5, EventsDrop
  <2>4. z \in Seq(Nat)
    <3>1. j \in Nat /\ j <= Len(rest)
      BY <1>2, <1>5
    <3> QED BY <1>1, <3>1, DropIs
  <2> HIDE DEF x, y, z
  <2>5. x \o y = Events(z)
    BY <1>1, <2>2, <2>3 DEF m
  <2>6. Parsed(Events(z)) = z
    BY <2>4, ParsedEvents
  <2>7. Holds(x, y, z)
    BY <2>2, <2>4, <2>5, <2>6 DEF Holds
  <2> QED BY <2>7 DEF x, y, z
<1> QED BY <1>5, <1>7, <1>8, <1>9 DEF Unfinished, s, read, j

\* A sequence is its first j elements and the others.
LEMMA TakeDrop ==
  ASSUME NEW s \in Seq(Nat), NEW j \in 0..Len(s)
  PROVE  /\ Take(s, j) \in Seq(Nat) /\ Drop(s, j) \in Seq(Nat)
         /\ Take(s, j) \o Drop(s, j) = s
<1>1. Len(s) \in Nat /\ j \in Nat /\ j <= Len(s)
  BY LenProperties
<1>2. Take(s, j) \in Seq(Nat) /\ Drop(s, j) \in Seq(Nat)
  BY <1>1, TakeIs, DropIs
<1>3. Take(s, j) \o Drop(s, j) = s
  <2>1. 1 \in 1..(Len(s) + 1) /\ j \in (1 - 1)..Len(s) /\ Len(s) \in j..Len(s)
    BY <1>1
  <2>2. SubSeq(s, 1, j) \o SubSeq(s, j + 1, Len(s)) = SubSeq(s, 1, Len(s))
    BY <2>1, ConcatAdjacentSubSeq
  <2>3. SubSeq(s, 1, Len(s)) = s
    BY SubSeqFull
  <2> QED BY <2>2, <2>3 DEF Take, Drop
<1> QED BY <1>2, <1>3

\* The client reads a chunk.
LEMMA ClientReceivesKeeps ==
  ASSUME ClientInv, NEW n \in 1..MaxChunk, ClientReceives(n)
  PROVE  ClientInv'
<1> DEFINE rest == Coming
           read == buffer \o Take(wire, n)
           j == Len(read) \div 3
           tokens == Parsed(Take(read, LastNewline(read)))
           after == Drop(rest, j)
           text == Without(tokens, {0})
<1>1. n \in Nat /\ n <= Len(wire) /\ ~complete
  BY StreamAssumption DEF ClientReceives
<1>2. /\ buffer' = Unfinished(read) /\ wire' = Drop(wire, n) /\ shown' = shown \o text
      /\ complete' = (\E k \in DOMAIN tokens : tokens[k] = 0)
      /\ fullReply' = fullReply /\ ended' = ended
  BY DEF ClientReceives
<1>3. Holds(buffer, wire, rest)
  BY DEF ClientInv, Holds, Coming
<1>4. /\ shown \in Seq(Nat) /\ fullReply \in Seq(Nat) /\ rest \in Seq(Nat)
      /\ shown \o Without(rest, {0}) = fullReply
      /\ \A k \in 1..Len(rest) : rest[k] = 0 => k = Len(rest) /\ ended
  BY DEF ClientInv
<1> HIDE DEF rest
<1>5. /\ j \in 0..Len(rest) /\ tokens = Take(rest, j)
      /\ Holds(Unfinished(read), Drop(wire, n), after)
  BY <1>1, <1>3, ClientReadsWhole
<1> HIDE DEF read, j, tokens
<1>6. tokens \in Seq(Nat) /\ after \in Seq(Nat) /\ tokens \o after = rest
  BY <1>4, <1>5, TakeDrop
<1>7. Len(rest) \in Nat /\ j \in Nat /\ j <= Len(rest)
  BY <1>4, <1>5, LenProperties
<1>8. Len(tokens) = j /\ \A k \in 1..j : tokens[k] = rest[k]
  <2>1. rest \in Seq(Nat) /\ tokens = Take(rest, j)
    BY <1>4, <1>5
  <2>2. Len(Take(rest, j)) = j /\ \A k \in 1..j : Take(rest, j)[k] = rest[k]
    BY <1>7, <2>1, TakeIs
  <2> QED BY <2>1, <2>2
<1>9. Len(after) = Len(rest) - j /\ \A k \in 1..(Len(rest) - j) : after[k] = rest[j + k]
  BY <1>4, <1>7, DropIs
<1> HIDE DEF after
<1>10. Holds(buffer', wire', after)
  BY <1>2, <1>5
<1>11. Coming' = after
  BY <1>10 DEF Holds, Coming
<1>12. shown' \in Seq(Nat)
  <2>1. text \in Seq(Nat)
    BY <1>6, WithoutType
  <2> HIDE DEF text
  <2> QED BY <1>2, <1>4, <2>1, ConcatProperties
<1>13. shown' \o Without(after, {0}) = fullReply
  <2>1. Follows(shown, tokens, after, rest, shown')
    BY <1>2, <1>4, <1>6 DEF Follows
  <2>2. Joins(shown', Without(after, {0}), shown, Without(rest, {0}))
    BY <2>1, TextGrows, Zenon
  <2> QED BY <1>4, <2>2 DEF Joins
<1>14. ASSUME NEW k \in 1..Len(after), after[k] = 0 PROVE k = Len(after) /\ ended
  <2>1. j + k \in 1..Len(rest) /\ rest[j + k] = 0
    BY <1>7, <1>9, <1>14
  <2>2. j + k = Len(rest) /\ ended
    BY <1>4, <2>1
  <2>3. k \in Int /\ Len(after) = Len(rest) - j
    BY <1>7, <1>9
  <2>4. k = Len(rest) - j
    BY <1>7, <2>2, <2>3
  <2> QED BY <2>2, <2>3, <2>4
<1>15. ASSUME complete' PROVE after = <<>> /\ ended
  <2>1. PICK k \in DOMAIN tokens : tokens[k] = 0
    BY <1>2, <1>15
  <2>2. k \in 1..j /\ rest[k] = 0
    BY <1>6, <1>8, <2>1, LenProperties
  <2>3. k \in 1..Len(rest)
    BY <1>7, <2>2
  <2>4. k = Len(rest) /\ ended
    BY <1>4, <2>2, <2>3
  <2>5. Len(after) = 0
    BY <1>7, <1>9, <2>2, <2>4
  <2> QED BY <1>6, <2>4, <2>5, EmptySeq
<1>16. complete' \in BOOLEAN
  BY <1>2
<1>17. buffer' \in Seq(Pieces) /\ wire' \in Seq(Pieces) /\ buffer' \o wire' = Events(after)
  BY <1>10 DEF Holds
<1> QED BY <1>2, <1>4, <1>6, <1>11, <1>12, <1>13, <1>14, <1>15, <1>16, <1>17 DEF ClientInv


-----------------------------------------------------------------------------
(***************************************************************************)
(* The theorems                                                            *)
(***************************************************************************)

IInv == ServerInv /\ ReplyInv /\ ClientInv

\* Nothing is left of nothing.
LEMMA WithoutEmpty ==
  ASSUME NEW D
  PROVE  Without(<<>>, D) = <<>>
<1>1. <<>> \in Seq(Nat) /\ Len(<<>>) = 0 /\ \A i \in 1..0 : <<>>[i] \notin D
  OBVIOUS
<1> QED BY <1>1, WithoutNone

\* Nothing has been received, nothing collected, nothing shown.
LEMMA InitIInv ==
  Init => IInv
<1> SUFFICES ASSUME Init PROVE IInv
  OBVIOUS
<1>1. /\ TokenCount \in Nat /\ Reply \in Seq(Nat) /\ Len(Reply) = TokenCount
  BY ReplyIs
<1>2. upstream = Events(Reply)
  BY DEF Init, Reply
<1>3. Events(Reply) \in Seq(Pieces) /\ Len(Events(Reply)) = 3 * TokenCount
  BY <1>1, EventsIs
<1>4. Consumed = 0
  BY <1>1, <1>2, <1>3 DEF Consumed
<1>5. ServerInv
  <2>1. \A i \in 1..Len(upstream) : 0 + i = i
    BY <1>1, <1>2, <1>3
  <2>2. \A i \in 1..Len(upstream) : upstream[i] = Events(Reply)[Consumed + i]
    BY <1>2, <1>4, <2>1
  <2>3. Len(upstream) <= 3 * TokenCount /\ upstream \in Seq(Pieces)
    BY <1>1, <1>2, <1>3
  <2> QED BY <2>2, <2>3 DEF ServerInv, Init
<1>6. ReplyInv
  <2>1. (0 + 1) \div 3 = 0 /\ 0 % 3 # 1
    OBVIOUS
  <2>2. Take(Reply, 0) = <<>>
    BY SubSeqEmpty DEF Take
  <2>3. fullReply = <<>> /\ cut = {}
    BY DEF Init
  <2>4. Without(Take(Reply, (Consumed + 1) \div 3), cut) = <<>>
    BY <1>4, <2>1, <2>2, WithoutEmpty
  <2> QED BY <1>4, <2>1, <2>3, <2>4 DEF ReplyInv
<1>7. ClientInv
  <2>1. /\ buffer = <<>> /\ wire = <<>> /\ shown = <<>> /\ fullReply = <<>>
        /\ ~complete /\ complete \in BOOLEAN
    BY DEF Init
  <2>2. <<>> \in Seq(Nat) /\ <<>> \in Seq(Pieces) /\ Len(<<>>) = 0 /\ <<>> \o <<>> = <<>>
    OBVIOUS
  <2>3. Events(<<>>) = <<>>
    <3>1. Events(<<>>) \in Seq(Pieces) /\ Len(Events(<<>>)) = 3 * 0
      BY <2>2, EventsIs
    <3> QED BY <3>1, EmptySeq
  <2>4. Parsed(<<>>) = <<>>
    BY <2>2, <2>3, ParsedEvents
  <2>5. Coming = <<>>
    BY <2>1, <2>2, <2>4 DEF Coming
  <2>6. Without(<<>>, {0}) = <<>>
    BY WithoutEmpty
  <2>7. \A k \in 1..Len(Coming) : FALSE
    BY <2>2, <2>5
  <2> QED BY <2>1, <2>2, <2>3, <2>5, <2>6, <2>7 DEF ClientInv
<1> QED BY <1>5, <1>6, <1>7 DEF IInv

\* Every step of the server, the client and the sockets keeps the invariant.
LEMMA NextIInv ==
  IInv /\ [Next]_vars => IInv'
<1> SUFFICES ASSUME IInv, [Next]_vars PROVE IInv'
  OBVIOUS
<1>1. ServerInv /\ ReplyInv /\ ClientInv
  BY DEF IInv
<1>2. ASSUME NEW n \in 1..MaxChunk, ServerReceives(n) PROVE IInv'
  BY <1>1, <1>2, ServerReceivesKeeps, ServerReceivesForwards DEF IInv
<1>3. ASSUME NEW n \in 1..MaxChunk, ClientReceives(n) PROVE IInv'
  <2>1. ClientInv'
    BY <1>1, <1>3, ClientReceivesKeeps
  <2>2. UNCHANGED <<upstream, fullReply, cut>> /\ ended' = ended
    BY <1>3 DEF ClientReceives
  <2>3. ServerInv' /\ ReplyInv'
    BY <1>1, <2>2, ServerKeeps
  <2> QED BY <2>1, <2>3 DEF IInv
<1>4. CASE ServerEnds
  <2>1. ClientInv'
    BY <1>1, <1>4, ServerEndsForwards
  <2>2. UNCHANGED <<upstream, fullReply, cut>> /\ ended' = TRUE /\ upstream = <<>>
    BY <1>4 DEF ServerEnds
  <2>3. ServerInv' /\ ReplyInv'
    BY <1>1, <2>2, ServerKeeps
  <2> QED BY <2>1, <2>3 DEF IInv
<1>5. CASE UNCHANGED vars
  <2>1. UNCHANGED <<upstream, fullReply, cut>> /\ ended' = ended
    BY <1>5 DEF vars
  <2>2. ServerInv' /\ ReplyInv'
    BY <1>1, <2>1, ServerKeeps
  <2>3. ClientInv'
    BY <1>1, <1>5 DEF ClientInv, Coming, vars
  <2> QED BY <2>2, <2>3 DEF IInv
<1> QED BY <1>2, <1>3, <1>4, <1>5 DEF Next

\* The inductive invariant of a streamed reply: where the server is in the provider's
\* bytes decides what it has collected, and what the client has not shown yet is in
\* its buffer and on the wire as whole events.
THEOREM StreamInvariant ==
  Spec => []IInv
BY InitIInv, NextIInv, PTL DEF Spec

\* ApiClient.chatStream loses, repeats and reorders nothing of what chatStream sent,
\* for replies of any length and chunks of any size: its buffer of unfinished lines
\* makes the places where the chunks are cut not matter.
THEOREM ClientFollowsServerHolds ==
  Spec => []ClientFollowsServer
<1>1. IInv => ClientFollowsServer
  BY DEF IInv, ClientInv, Coming, ClientFollowsServer
<1> QED BY <1>1, StreamInvariant, PTL

\* What chatStream saves as the complete reply is the whole reply without the tokens in
\* whose line a chunk of the provider ended, whatever the chunks.
THEOREM ReplyMissesOnlyCutHolds ==
  Spec => []ReplyMissesOnlyCut
<1>1. IInv => ReplyMissesOnlyCut
  <2> SUFFICES ASSUME IInv, ended PROVE fullReply = Without(Reply, cut)
    BY DEF ReplyMissesOnlyCut, Reply
  <2>1. ServerInv /\ ReplyInv
    BY DEF IInv
  <2>2. TokenCount \in Nat /\ Reply \in Seq(Nat) /\ Len(Reply) = TokenCount
    BY ReplyIs
  <2>3. Consumed = 3 * TokenCount
    <3>1. upstream = <<>> /\ Len(<<>>) = 0
      BY <2>1 DEF ServerInv
    <3> QED BY <2>2, <3>1 DEF Consumed
  <2>4. (3 * TokenCount + 1) \div 3 = TokenCount
    BY <2>2
  <2>5. Take(Reply, TokenCount) = Reply
    BY <2>2, SubSeqFull DEF Take
  <2> QED BY <2>1, <2>3, <2>4, <2>5 DEF ReplyInv
<1> QED BY <1>1, StreamInvariant, PTL

\* The safety half of StreamCompletes: when the client stops at the completion event,
\* the server has saved the reply and the client shows exactly that text; no token is
\* on the wire behind the event.
THEOREM CompletionIsExact ==
  Spec => [](complete => ended /\ shown = fullReply /\ buffer \o wire = <<>>)
<1>1. IInv => (complete => ended /\ shown = fullReply /\ buffer \o wire = <<>>)
  <2> SUFFICES ASSUME IInv, complete PROVE ended /\ shown = fullReply /\ buffer \o wire = <<>>
    OBVIOUS
  <2>1. /\ ended /\ Coming = <<>> /\ shown \in Seq(Nat)
        /\ shown \o Without(Coming, {0}) = fullReply /\ buffer \o wire = Events(Coming)
    BY DEF IInv, ClientInv
  <2>2. Without(<<>>, {0}) = <<>>
    BY WithoutEmpty
  <2>3. shown \o <<>> = shown
    BY <2>1, ConcatEmptySeq
  <2>4. Events(<<>>) = <<>>
    <3>1. <<>> \in Seq(Nat) /\ Len(<<>>) = 0
      OBVIOUS
    <3>2. Events(<<>>) \in Seq(Pieces) /\ Len(Events(<<>>)) = 3 * 0
      BY <3>1, EventsIs
    <3> QED BY <3>2, EmptySeq
  <2> QED BY <2>1, <2>2, <2>3, <2>4
<1> QED BY <1>1, StreamInvariant, PTL
=============================================================================
