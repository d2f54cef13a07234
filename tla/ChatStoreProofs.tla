--------------------------- MODULE ChatStoreProofs ---------------------------
(***************************************************************************)
(* Proofs about ChatStore.  Every action changes the store and then runs   *)
(* the effects of useChatLogic, so most lemmas are about stores p that     *)
(* are not in any state of a behaviour: what localStorage holds after      *)
(* saveSession and deleteSession, and what Effects makes of p.             *)
(***************************************************************************)
EXTENDS ChatStore, SequenceTheorems, WellFoundedInduction, TLAPS

-----------------------------------------------------------------------------
(***************************************************************************)
(* The inductive invariant                                                 *)
(***************************************************************************)

Distinct(s) == \A i, j \in DOMAIN s : s[i].fileId = s[j].fileId => i = j

\* localStorage: bounded, one session per file, none empty.
Tidy(s) ==
  /\ s \in Seq(Sessions)
  /\ Len(s) <= MaxSessions
  /\ Distinct(s)
  /\ \A i \in DOMAIN s : s[i].messages # <<>>

StoreOK(p) == p \in Stores /\ Tidy(p.stored)

\* Messages m were asked and answered in conversation c, or in one without an id yet.
Belong(m, c) == \A k \in DOMAIN m : m[k].conv \in {0, c}

Sound(m, c) == InPlace(m) /\ Belong(m, c)

StoredSound(s) == \A i \in DOMAIN s : Sound(s[i].messages, s[i].conversationId)

\* The screen and every stored session have their replies in place and name the
\* conversation they belong to.
StoreSound(p) == Sound(p.messages, p.conversationId) /\ StoredSound(p.stored)

\* Request r of store p was sent for the question that ends the list, in the
\* conversation on screen, and no other request runs.
Waits(p, r) ==
  /\ p.messages # <<>>
  /\ p.messages[Len(p.messages)] = Question(r.send, r.conversationId)
  /\ r.conversationId = p.conversationId
  /\ p.flights = {r}
  /\ p.isLoading = TRUE

Tied(p) == \A r \in p.flights : Waits(p, r)

\* A request and an upload exclude each other, because both set isLoading.
UploadAlone(p, u) == u # "idle" => p.flights = {} /\ p.isLoading = TRUE

\* The session of f in s is list m, and is stored with its conversation id c, if any.
Restores(s, f, m, c) ==
  /\ HasSession(s, f)
  /\ SessionOf(s, f).messages = m
  /\ c \in {0, SessionOf(s, f).conversationId}

\* The session of the URL is the list on screen.
ScreenStored(p) == Restores(p.stored, p.url, p.messages, p.conversationId)

Restorable(p) == p.messages # <<>> /\ p.forgotten = FALSE => ScreenStored(p)

Untouched == ~strayed => StoreSound(store) /\ Tied(store) /\ UploadAlone(store, upload)

StoreInv == TypeOK /\ Restorable(store) /\ Untouched

-----------------------------------------------------------------------------
(***************************************************************************)
(* deleteSession                                                           *)
(***************************************************************************)

\* Natural induction, from the least element of a set of numbers.
LEMMA Induction ==
  ASSUME NEW S \in SUBSET Nat, 0 \in S, \A n \in S : n + 1 \in S
  PROVE  S = Nat
<1> SUFFICES ASSUME S # Nat PROVE FALSE
  OBVIOUS
<1> DEFINE R == OpToRel(<,Nat)
           T == Nat \ S
<1>1. IsWellFoundedOn(R, Nat)
  BY NatLessThanWellFounded, Zenon
<1>2. \A m, n \in Nat : m < n => <<m, n>> \in R
  BY Zenon DEF OpToRel
<1>3. T \subseteq Nat /\ T # {}
  OBVIOUS
<1> HIDE DEF R
<1>4. PICK n \in T : \A m \in T : ~(<<m, n>> \in R)
  BY <1>1, <1>3, WFMin
<1>5. n # 0 /\ n - 1 \in Nat /\ n - 1 < n /\ n - 1 + 1 = n
  BY <1>4
<1>6. n - 1 \in S
  BY <1>2, <1>4, <1>5
<1> QED BY <1>4, <1>5, <1>6

\* k is the function that DeleteSession builds, up to n.
Filters(s, f, k, n) ==
  k = [i \in 0..n |-> IF i = 0 THEN <<>>
                      ELSE IF s[i].fileId = f THEN k[i - 1] ELSE Append(k[i - 1], s[i])]

\* There is one for every n: DeleteSession is well defined.
LEMMA FiltersExists ==
  ASSUME NEW s, NEW f
  PROVE  \A n \in Nat : \E k : Filters(s, f, k, n)
<1> DEFINE S == {n \in Nat : \E k : Filters(s, f, k, n)}
<1>1. 0 \in S
  <2>1. Filters(s, f, [i \in 0..0 |-> <<>>], 0)
    BY DEF Filters
  <2> QED BY <2>1
<1>2. ASSUME NEW n \in S PROVE n + 1 \in S
  <2>1. PICK k : Filters(s, f, k, n)
    OBVIOUS
  <2> DEFINE e == IF s[n + 1].fileId = f THEN k[n] ELSE Append(k[n], s[n + 1])
             g == [i \in 0..(n + 1) |-> IF i = n + 1 THEN e ELSE k[i]]
  <2>2. n \in Nat /\ g[n + 1] = e /\ \A i \in 0..n : g[i] = k[i]
    OBVIOUS
  <2>3. ASSUME NEW i \in 0..(n + 1)
        PROVE  g[i] = IF i = 0 THEN <<>>
                      ELSE IF s[i].fileId = f THEN g[i - 1] ELSE Append(g[i - 1], s[i])
    <3>0. \A j \in 0..n : k[j] = IF j = 0 THEN <<>>
                      ELSE IF s[j].fileId = f THEN k[j - 1] ELSE Append(k[j - 1], s[j])
      BY <2>1 DEF Filters
    <3>1. CASE i = n + 1
      <4>1. i # 0 /\ i - 1 = n /\ n \in 0..n
        BY <2>2, <3>1
      <4> QED BY <2>2, <3>1, <4>1
    <3>2. CASE i = 0
      BY <2>2, <3>0, <3>2
    <3>3. CASE i # n + 1 /\ i # 0
      <4>1. i \in 0..n /\ i - 1 \in 0..n
        BY <2>2, <3>3
      <4>2. g[i] = k[i] /\ g[i - 1] = k[i - 1]
        BY <2>2, <4>1
      <4> QED BY <3>0, <3>3, <4>1, <4>2
    <3> QED BY <3>1, <3>2, <3>3
  <2>4. Filters(s, f, g, n + 1)
    BY <2>3 DEF Filters
  <2> QED BY <2>2, <2>4
<1>3. S = Nat
  <2> HIDE DEF S
  <2> QED BY <1>1, <1>2, Induction DEF S
<1> QED BY <1>3

\* DeleteSession is the last value of its recursive function, which satisfies Filters.
LEMMA DeleteIsFiltered ==
  ASSUME NEW s, NEW f, Len(s) \in Nat
  PROVE  \E k : Filters(s, f, k, Len(s)) /\ DeleteSession(s, f) = k[Len(s)]
<1> DEFINE k == CHOOSE g : Filters(s, f, g, Len(s))
<1>1. Filters(s, f, k, Len(s))
  BY FiltersExists
<1>2. DeleteSession(s, f) = k[Len(s)]
  BY DEF DeleteSession, Filters
<1> QED BY <1>1, <1>2

\* v holds the first n sessions of s without the one of f.
Filtered(s, f, n, v) ==
  /\ v \in Seq(Sessions) /\ Len(v) <= n
  /\ \A j \in 1..Len(v) : v[j].fileId # f /\ \E m \in 1..n : v[j] = s[m]
  /\ \A m \in 1..n : s[m].fileId # f => \E j \in 1..Len(v) : v[j] = s[m]
  /\ Distinct(v)

\* One more entry: it is passed over or becomes the last one kept.
LEMMA FilteredMore ==
  ASSUME NEW s \in Seq(Sessions), NEW f, Distinct(s), NEW n \in Nat, n < Len(s),
         NEW v, Filtered(s, f, n, v)
  PROVE  Filtered(s, f, n + 1,
                  IF s[n + 1].fileId = f THEN v ELSE Append(v, s[n + 1]))
<1>1. v \in Seq(Sessions) /\ Len(v) \in Nat /\ Len(v) <= n /\ DOMAIN v = 1..Len(v)
  BY DEF Filtered
<1>2. \A j \in 1..Len(v) : v[j].fileId # f /\ \E m \in 1..n : v[j] = s[m]
  BY DEF Filtered
<1>3. n + 1 \in 1..Len(s) /\ DOMAIN s = 1..Len(s) /\ s[n + 1] \in Sessions
  OBVIOUS
<1>4. \A m \in 1..n : m \in 1..(n + 1) /\ m \in 1..Len(s) /\ m # n + 1
  BY <1>3
<1>5. \A m \in 1..(n + 1) : m \in 1..n \/ m = n + 1
  OBVIOUS
<1>6. \A m \in 1..n : s[m].fileId # f => \E j \in 1..Len(v) : v[j] = s[m]
  BY DEF Filtered
<1>7. CASE s[n + 1].fileId = f
  <2>1. Len(v) <= n + 1
    BY <1>1
  <2>2. \A m \in 1..(n + 1) : s[m].fileId # f => \E j \in 1..Len(v) : v[j] = s[m]
    BY <1>5, <1>6, <1>7
  <2>3. Filtered(s, f, n + 1, v)
    BY <1>1, <1>2, <1>4, <2>1, <2>2 DEF Filtered
  <2> QED BY <1>7, <2>3
<1>8. CASE s[n + 1].fileId # f
  <2> DEFINE w == Append(v, s[n + 1])
  <2>1. /\ w \in Seq(Sessions) /\ Len(w) = Len(v) + 1 /\ DOMAIN w = 1..Len(w)
        /\ w[Len(v) + 1] = s[n + 1]
        /\ \A j \in 1..Len(v) : w[j] = v[j]
    BY <1>1, <1>3
  <2>2. Len(w) <= n + 1
    BY <1>1, <2>1
  <2>3. \A j \in 1..Len(w) : j = Len(v) + 1 \/ j \in 1..Len(v)
    BY <1>1, <2>1
  <2>4. Len(v) + 1 \in 1..Len(w) /\ \A j \in 1..Len(v) : j \in 1..Len(w)
    BY <1>1, <2>1
  <2> HIDE DEF w
  <2>5. ASSUME NEW j \in 1..Len(w)
        PROVE  w[j].fileId # f /\ \E m \in 1..(n + 1) : w[j] = s[m]
    <3>1. CASE j = Len(v) + 1
      <4>1. n + 1 \in 1..(n + 1)
        OBVIOUS
      <4> QED BY <1>8, <2>1, <3>1, <4>1
    <3>2. CASE j \in 1..Len(v)
      BY <1>2, <1>4, <2>1, <3>2
    <3> QED BY <2>3, <3>1, <3>2
  <2>6. \A m \in 1..(n + 1) : s[m].fileId # f => \E j \in 1..Len(w) : w[j] = s[m]
    BY <1>5, <1>6, <2>1, <2>4
  <2>7. \A j \in 1..Len(v) : v[j].fileId # s[n + 1].fileId
    BY <1>2, <1>3, <1>4 DEF Distinct
  <2>8. Distinct(w)
    <3> SUFFICES ASSUME NEW i \in DOMAIN w, NEW j \in DOMAIN w, w[i].fileId = w[j].fileId
                 PROVE  i = j
      BY DEF Distinct
    <3>1. CASE i \in 1..Len(v) /\ j \in 1..Len(v)
      BY <1>1, <2>1, <3>1 DEF Filtered, Distinct
    <3>2. CASE i = Len(v) + 1 /\ j \in 1..Len(v)
      BY <2>1, <2>7, <3>2
    <3>3. CASE i \in 1..Len(v) /\ j = Len(v) + 1
      BY <2>1, <2>7, <3>3
    <3> QED BY <2>1, <2>3, <3>1, <3>2, <3>3
  <2>9. Filtered(s, f, n + 1, w)
    BY <2>1, <2>2, <2>5, <2>6, <2>8 DEF Filtered
  <2> QED BY <1>8, <2>9 DEF w
<1> QED BY <1>7, <1>8

\* DeleteSession keeps the sessions of the other files, and nothing else.
LEMMA DeleteFilters ==
  ASSUME NEW s \in Seq(Sessions), NEW f, Distinct(s)
  PROVE  Filtered(s, f, Len(s), DeleteSession(s, f))
<1>1. Len(s) \in Nat
  OBVIOUS
<1>2. PICK k : Filters(s, f, k, Len(s)) /\ DeleteSession(s, f) = k[Len(s)]
  BY <1>1, DeleteIsFiltered
<1>3. \A i \in 0..Len(s) :
        k[i] = IF i = 0 THEN <<>>
               ELSE IF s[i].fileId = f THEN k[i - 1] ELSE Append(k[i - 1], s[i])
  BY <1>2 DEF Filters
<1> DEFINE S == {n \in Nat : n <= Len(s) => Filtered(s, f, n, k[n])}
<1>4. 0 \in S
  <2>1. k[0] = <<>>
    BY <1>1, <1>3
  <2>2. Filtered(s, f, 0, <<>>)
    <3>1. <<>> \in Seq(Sessions) /\ Len(<<>>) = 0 /\ DOMAIN <<>> = {}
      OBVIOUS
    <3> QED BY <3>1 DEF Filtered, Distinct
  <2> QED BY <2>1, <2>2
<1>5. ASSUME NEW n \in S PROVE n + 1 \in S
  <2>1. n \in Nat /\ n + 1 \in Nat
    BY <1>5
  <2>2. ASSUME n + 1 <= Len(s) PROVE Filtered(s, f, n + 1, k[n + 1])
    <3>1. n < Len(s) /\ n + 1 \in 0..Len(s) /\ n + 1 # 0 /\ n + 1 - 1 = n
      BY <1>1, <2>1, <2>2
    <3>2. Filtered(s, f, n, k[n])
      BY <1>1, <1>5, <2>1, <3>1
    <3>3. k[n + 1] = IF s[n + 1].fileId = f THEN k[n] ELSE Append(k[n], s[n + 1])
      BY <1>3, <3>1
    <3> QED BY <2>1, <3>1, <3>2, <3>3, FilteredMore
  <2> QED BY <2>1, <2>2
<1>6. S = Nat
  <2> HIDE DEF S
  <2> QED BY <1>4, <1>5, Induction DEF S
<1> QED BY <1>1, <1>2, <1>6

\* deleteSession keeps localStorage tidy and the sessions of the other files.
LEMMA DeleteKeeps ==
  ASSUME NEW s, Tidy(s), NEW f
  PROVE  /\ Tidy(DeleteSession(s, f))
         /\ \A j \in DOMAIN DeleteSession(s, f) :
              \E i \in DOMAIN s : DeleteSession(s, f)[j] = s[i]
         /\ \A i \in DOMAIN s : s[i].fileId # f =>
              \E j \in DOMAIN DeleteSession(s, f) : DeleteSession(s, f)[j] = s[i]
<1> DEFINE v == DeleteSession(s, f)
<1>1. s \in Seq(Sessions) /\ Len(s) \in Nat /\ DOMAIN s = 1..Len(s)
      /\ Len(s) <= MaxSessions /\ Distinct(s) /\ MaxSessions \in Nat
      /\ \A i \in 1..Len(s) : s[i].messages # <<>>
  BY ChatStoreAssumption DEF Tidy
<1>2. Filtered(s, f, Len(s), v)
  BY <1>1, DeleteFilters
<1> HIDE DEF v
<1>3. v \in Seq(Sessions) /\ Len(v) \in Nat /\ DOMAIN v = 1..Len(v) /\ Distinct(v)
      /\ Len(v) <= MaxSessions
  BY <1>1, <1>2 DEF Filtered
<1>4. /\ \A j \in DOMAIN v : \E i \in DOMAIN s : v[j] = s[i]
      /\ \A i \in DOMAIN s : s[i].fileId # f => \E j \in DOMAIN v : v[j] = s[i]
  BY <1>1, <1>2, <1>3 DEF Filtered
<1>5. \A j \in DOMAIN v : v[j].messages # <<>>
  BY <1>1, <1>4
<1>6. Tidy(v)
  BY <1>3, <1>5 DEF Tidy
<1> QED BY <1>4, <1>6 DEF v

-----------------------------------------------------------------------------
(***************************************************************************)
(* saveSession                                                             *)
(***************************************************************************)

\* x is the session of f that saveSession writes.
Written(x, f, m, c) ==
  /\ x \in Sessions
  /\ x.fileId = f /\ x.messages = m
  /\ x.conversationId = c \/ c = 0

\* v is localStorage s with the session of f written.
WrittenTo(s, v, f, m, c) ==
  /\ Tidy(v)
  /\ HasSession(v, f)
  /\ \A j \in DOMAIN v :
       \/ Written(v[j], f, m, c)
       \/ \E i \in DOMAIN s : v[j] = s[i] /\ s[i].fileId # f

\* The session of the file is there already.
LEMMA SaveUpdates ==
  ASSUME NEW s, Tidy(s), NEW f \in Files, NEW m \in Seq(Messages), m # <<>>,
         NEW c \in 0..MaxSends, HasSession(s, f)
  PROVE  WrittenTo(s, SaveSession(s, f, m, c), f, m, c)
<1> DEFINE W(x) == [x EXCEPT !.messages = m, !.conversationId = IF c # 0 THEN c ELSE @]
           v == [i \in DOMAIN s |-> IF s[i].fileId = f THEN W(s[i]) ELSE s[i]]
<1>1. s \in Seq(Sessions) /\ Len(s) \in Nat /\ DOMAIN s = 1..Len(s)
      /\ Len(s) <= MaxSessions /\ Distinct(s)
      /\ \A i \in 1..Len(s) : s[i].messages # <<>>
  BY DEF Tidy
<1>2. SaveSession(s, f, m, c) = v
  BY DEF SaveSession
<1>3. \A i \in 1..Len(s) : s[i] \in Sessions
  BY <1>1
<1>4. ASSUME NEW x \in Sessions, x.fileId = f PROVE Written(W(x), f, m, c)
  BY <1>4 DEF Written, Sessions
<1>5. DOMAIN v = 1..Len(s)
      /\ \A i \in 1..Len(s) : v[i] = IF s[i].fileId = f THEN W(s[i]) ELSE s[i]
  BY <1>1
<1> HIDE DEF W, v
<1>6. \A i \in 1..Len(s) :
        /\ v[i] \in Sessions /\ v[i].fileId = s[i].fileId /\ v[i].messages # <<>>
        /\ s[i].fileId = f => Written(v[i], f, m, c)
        /\ s[i].fileId # f => v[i] = s[i]
  BY <1>1, <1>3, <1>4, <1>5 DEF Written
<1>7. v \in Seq(Sessions) /\ Len(v) = Len(s)
  <2>1. v \in [1..Len(s) -> Sessions]
    <3>1. v = [i \in 1..Len(s) |-> v[i]]
      BY <1>1 DEF v
    <3> QED BY <1>6, <3>1
  <2> QED BY <1>1, <2>1
<1>8. Tidy(v)
  BY <1>1, <1>5, <1>6, <1>7 DEF Tidy, Distinct
<1>9. HasSession(v, f)
  BY <1>1, <1>5, <1>6 DEF HasSession
<1>10. \A j \in DOMAIN v : \/ Written(v[j], f, m, c)
                           \/ \E i \in DOMAIN s : v[j] = s[i] /\ s[i].fileId # f
  BY <1>1, <1>5, <1>6
<1> QED BY <1>2, <1>8, <1>9, <1>10 DEF WrittenTo

\* The session of a new file goes in front of the others.
LEMMA SaveAdds ==
  ASSUME NEW s, Tidy(s), NEW f \in Files, NEW m \in Seq(Messages), m # <<>>,
         NEW c \in 0..MaxSends, ~HasSession(s, f)
  PROVE  WrittenTo(s, SaveSession(s, f, m, c), f, m, c)
<1> DEFINE x == [fileId |-> f, messages |-> m, conversationId |-> c]
           w == <<x>> \o s
           v == FirstN(w, MaxSessions)
<1>1. s \in Seq(Sessions) /\ Len(s) \in Nat /\ DOMAIN s = 1..Len(s)
      /\ Len(s) <= MaxSessions /\ Distinct(s) /\ MaxSessions \in Nat \ {0}
      /\ \A i \in 1..Len(s) : s[i].messages # <<>>
  BY ChatStoreAssumption DEF Tidy
<1>2. SaveSession(s, f, m, c) = v
  BY DEF SaveSession
<1>3. Written(x, f, m, c)
  BY DEF Written, Sessions
<1>4. \A i \in 1..Len(s) : s[i].fileId # f /\ s[i] \in Sessions
  BY <1>1 DEF HasSession
<1> HIDE DEF x
<1>5. <<x>> \in Seq(Sessions) /\ Len(<<x>>) = 1 /\ <<x>>[1] = x
  BY <1>3 DEF Written
<1>6. w \in Seq(Sessions) /\ Len(w) = Len(s) + 1 /\ DOMAIN w = 1..(Len(s) + 1)
      /\ \A i \in 1..(Len(s) + 1) : w[i] = IF i = 1 THEN x ELSE s[i - 1]
  BY <1>1, <1>5, ConcatProperties
<1> HIDE DEF w
<1>7. \A i \in 1..(Len(s) + 1) : i = 1 \/ i - 1 \in 1..Len(s)
  BY <1>1
<1>8. \E n \in Nat : /\ n \in 1..(Len(s) + 1) /\ n <= MaxSessions
                     /\ v \in Seq(Sessions) /\ Len(v) = n /\ DOMAIN v = 1..n
                     /\ \A i \in 1..n : v[i] = w[i]
  <2>1. CASE Len(w) <= MaxSessions
    <3>1. v = w
      BY <2>1 DEF FirstN
    <3> QED BY <1>1, <1>6, <2>1, <3>1
  <2>2. CASE ~(Len(w) <= MaxSessions)
    <3>1. v = SubSeq(w, 1, MaxSessions)
      BY <2>2 DEF FirstN
    <3>2. \A i \in 1..MaxSessions : i \in 1..Len(w) /\ w[i] \in Sessions
      BY <1>1, <1>6, <2>2
    <3>3. v \in Seq(Sessions) /\ Len(v) = MaxSessions
          /\ \A i \in 1..MaxSessions : v[i] = w[i]
      BY <1>1, <1>6, <3>1, <3>2, SubSeqProperties
    <3> HIDE DEF v
    <3>4. MaxSessions \in 1..(Len(s) + 1) /\ DOMAIN v = 1..MaxSessions
      BY <1>1, <1>6, <2>2, <3>3
    <3> QED BY <1>1, <3>3, <3>4
  <2> QED BY <2>1, <2>2
<1> HIDE DEF v
<1>9. PICK n \in Nat : /\ n \in 1..(Len(s) + 1) /\ n <= MaxSessions
                       /\ v \in Seq(Sessions) /\ Len(v) = n /\ DOMAIN v = 1..n
                       /\ \A i \in 1..n : v[i] = w[i]
  BY <1>8
<1>10. \A i \in 1..n : i \in 1..(Len(s) + 1) /\ v[i] = (IF i = 1 THEN x ELSE s[i - 1])
  BY <1>1, <1>6, <1>9
<1>11. 1 \in 1..n
  BY <1>1, <1>9
<1>12. \A i \in 1..n : IF i = 1 THEN v[i] = x ELSE i - 1 \in 1..Len(s) /\ v[i] = s[i - 1]
  BY <1>7, <1>10
<1>13. Distinct(v)
  <2> SUFFICES ASSUME NEW i \in 1..n, NEW j \in 1..n, v[i].fileId = v[j].fileId
               PROVE  i = j
    BY <1>9 DEF Distinct
  <2>1. x.fileId = f
    BY <1>3 DEF Written
  <2>2. CASE i # 1 /\ j # 1
    <3>1. i - 1 \in DOMAIN s /\ j - 1 \in DOMAIN s /\ s[i - 1].fileId = s[j - 1].fileId
      BY <1>1, <1>12, <2>2
    <3>2. i - 1 = j - 1
      BY <1>1, <3>1 DEF Distinct
    <3> QED BY <1>9, <3>2
  <2> QED BY <1>4, <1>12, <2>1, <2>2
<1>14. \A i \in 1..n : v[i].messages # <<>>
  BY <1>1, <1>3, <1>12 DEF Written
<1>15. Tidy(v)
  BY <1>9, <1>13, <1>14 DEF Tidy
<1>16. HasSession(v, f)
  BY <1>3, <1>9, <1>11, <1>12 DEF HasSession, Written
<1>17. \A j \in DOMAIN v : \/ Written(v[j], f, m, c)
                           \/ \E i \in DOMAIN s : v[j] = s[i] /\ s[i].fileId # f
  BY <1>1, <1>3, <1>4, <1>9, <1>12
<1> QED BY <1>2, <1>15, <1>16, <1>17 DEF WrittenTo

\* saveSession leaves a tidy list with the session of f as given; the others were there before.
LEMMA SaveWrites ==
  ASSUME NEW s, Tidy(s), NEW f \in Files, NEW m \in Seq(Messages), m # <<>>,
         NEW c \in 0..MaxSends
  PROVE  WrittenTo(s, SaveSession(s, f, m, c), f, m, c)
  BY SaveUpdates, SaveAdds

\* getSession.
LEMMA SessionOfIs ==
  ASSUME NEW s, NEW f, HasSession(s, f)
  PROVE  \E i \in DOMAIN s : s[i].fileId = f /\ SessionOf(s, f) = s[i]
  BY DEF HasSession, SessionOf

-----------------------------------------------------------------------------
(***************************************************************************)
(* Lists of messages                                                       *)
(***************************************************************************)

\* A message that is no reply, or answers the last message, is appended.
LEMMA AppendSound ==
  ASSUME NEW m \in Seq(Messages), NEW x \in Messages, NEW c, Sound(m, c),
         x.conv \in {0, c},
         x.kind = "reply" =>
           m # <<>> /\ \E d \in {0, x.conv} : m[Len(m)] = Question(x.send, d)
  PROVE  Sound(Append(m, x), c)
<1> DEFINE w == Append(m, x)
<1>1. Len(m) \in Nat /\ DOMAIN m = 1..Len(m)
  OBVIOUS
<1>2. DOMAIN w = 1..(Len(m) + 1) /\ w[Len(m) + 1] = x /\ \A i \in 1..Len(m) : w[i] = m[i]
  BY <1>1
<1>3. \A i \in 1..(Len(m) + 1) : i \in 1..Len(m) \/ i = Len(m) + 1
  BY <1>1
<1> HIDE DEF w
<1>4. InPlace(w)
  <2> SUFFICES ASSUME NEW i \in 1..(Len(m) + 1), w[i].kind = "reply"
               PROVE  i > 1 /\ \E d \in {0, w[i].conv} : w[i - 1] = Question(w[i].send, d)
    BY <1>2 DEF InPlace
  <2>1. CASE i \in 1..Len(m)
    <3>1. i > 1 /\ \E d \in {0, m[i].conv} : m[i - 1] = Question(m[i].send, d)
      BY <1>1, <1>2, <2>1 DEF Sound, InPlace
    <3>2. i - 1 \in 1..Len(m)
      BY <1>1, <2>1, <3>1
    <3> QED BY <1>2, <2>1, <3>1, <3>2
  <2>2. CASE i = Len(m) + 1
    <3>1. m # <<>> /\ \E d \in {0, x.conv} : m[Len(m)] = Question(x.send, d)
      BY <1>2, <2>2
    <3>2. Len(m) # 0
      BY <3>1
    <3>3. Len(m) \in 1..Len(m) /\ i > 1 /\ i - 1 = Len(m)
      BY <1>1, <2>2, <3>2
    <3> QED BY <1>2, <2>2, <3>1, <3>3
  <2> QED BY <1>3, <2>1, <2>2
<1>5. Belong(w, c)
  BY <1>1, <1>2, <1>3 DEF Belong, Sound
<1> QED BY <1>4, <1>5 DEF Sound, w

\* The last message is taken off.
LEMMA DropSound ==
  ASSUME NEW m \in Seq(Messages), NEW c
  PROVE  LET w == FirstN(m, IF m = <<>> THEN 0 ELSE Len(m) - 1)
         IN  w \in Seq(Messages) /\ (Sound(m, c) => Sound(w, c))
<1>1. Len(m) \in Nat /\ DOMAIN m = 1..Len(m)
  OBVIOUS
<1>2. CASE m = <<>>
  BY <1>2 DEF FirstN
<1>3. CASE m # <<>>
  <2> DEFINE n == Len(m) - 1
             w == SubSeq(m, 1, n)
  <2>1. Len(m) # 0
    BY <1>3
  <2>2. n \in Nat /\ ~(Len(m) <= n) /\ \A i \in 1..n : i \in 1..Len(m) /\ m[i] \in Messages
    BY <1>1, <2>1
  <2> HIDE DEF n
  <2>3. w \in Seq(Messages) /\ Len(w) = n /\ \A i \in 1..n : w[i] = m[i]
    BY <2>2, SubSeqProperties
  <2>4. FirstN(m, IF m = <<>> THEN 0 ELSE Len(m) - 1) = w
    BY <1>3, <2>2 DEF FirstN, n
  <2> HIDE DEF w
  <2>5. DOMAIN w = 1..n
    BY <2>3
  <2>6. \A i \in 1..n : i > 1 => i - 1 \in 1..n
    BY <2>2
  <2>7. ASSUME Sound(m, c) PROVE Sound(w, c)
    <3>1. InPlace(w)
      BY <1>1, <2>2, <2>3, <2>5, <2>6, <2>7 DEF Sound, InPlace
    <3>2. Belong(w, c)
      BY <1>1, <2>2, <2>3, <2>5, <2>7 DEF Sound, Belong
    <3> QED BY <3>1, <3>2 DEF Sound
  <2> QED BY <2>3, <2>4, <2>7
<1> QED BY <1>2, <1>3

\* The empty list, and one without replies.
LEMMA EmptySound ==
  ASSUME NEW c
  PROVE  <<>> \in Seq(Messages) /\ Sound(<<>>, c)
  BY DEF Sound, InPlace, Belong

\* A list that belongs to no conversation belongs to any.
LEMMA Adopted ==
  ASSUME NEW m, NEW c, NEW d, Sound(m, c), c = 0 \/ d = c
  PROVE  Sound(m, d)
  BY DEF Sound, Belong

\* The messages of the model.
LEMMA MessagesAre ==
  /\ \A n \in Sends, c \in 0..MaxSends :
       /\ Question(n, c) \in Messages /\ Question(n, c).kind = "question"
       /\ Question(n, c).conv = c
  /\ \A n \in Sends, c \in 0..MaxSends :
       /\ Reply(n, c) \in Messages /\ Reply(n, c).kind = "reply"
       /\ Reply(n, c).send = n /\ Reply(n, c).conv = c
  /\ Uploaded \in Messages /\ Uploaded.kind = "uploaded" /\ Uploaded.conv = 0
  /\ Recognized \in Messages /\ Recognized.kind = "recognized" /\ Recognized.conv = 0
  BY ChatStoreAssumption DEF Messages, Question, Reply, Uploaded, Recognized, Sends

-----------------------------------------------------------------------------
(***************************************************************************)
(* The effects                                                             *)
(***************************************************************************)

\* The fields of a store.
LEMMA StoreFields ==
  ASSUME NEW p, StoreOK(p)
  PROVE  /\ p \in Stores /\ Tidy(p.stored)
         /\ p.messages \in Seq(Messages) /\ p.conversationId \in 0..MaxSends
         /\ p.url \in Files /\ p.initial \in {"none", "pending", "sent"}
         /\ p.isLoading \in BOOLEAN /\ p.flights \in SUBSET Requests
         /\ p.sent \in 0..MaxSends /\ p.known \in SUBSET Docs
         /\ p.stored \in Seq(Sessions) /\ p.forgotten \in BOOLEAN
  BY DEF StoreOK, Stores, Tidy

\* Stores that differ in localStorage only.
SameScreen(q, p) ==
  /\ q.messages = p.messages /\ q.conversationId = p.conversationId
  /\ q.url = p.url /\ q.initial = p.initial /\ q.isLoading = p.isLoading
  /\ q.flights = p.flights /\ q.sent = p.sent /\ q.known = p.known

\* A running request looks only at what is on screen.
LEMMA SameScreenTied ==
  ASSUME NEW p, NEW q, SameScreen(q, p), Tied(p)
  PROVE  Tied(q)
  BY DEF SameScreen, Tied, Waits

\* persistSession.
LEMMA PersistIs ==
  ASSUME NEW p, StoreOK(p), NEW f \in Files
  PROVE  /\ StoreOK(Persist(p, f))
         /\ SameScreen(Persist(p, f), p)
         /\ StoreSound(p) => StoreSound(Persist(p, f))
         /\ p.messages # <<>> =>
              Restores(Persist(p, f).stored, f, p.messages, p.conversationId)
<1>1. CASE p.messages = <<>>
  BY <1>1 DEF Persist, SameScreen
<1>2. CASE p.messages # <<>>
  <2> DEFINE v == SaveSession(p.stored, f, p.messages, p.conversationId)
             q == Persist(p, f)
  <2>1. WrittenTo(p.stored, v, f, p.messages, p.conversationId)
    BY <1>2, StoreFields, SaveWrites
  <2>2. q = [p EXCEPT !.stored = v, !.forgotten = FALSE]
    BY <1>2 DEF Persist
  <2> HIDE DEF v, q
  <2>3. Tidy(v) /\ HasSession(v, f) /\ v \in Seq(Sessions)
    BY <2>1 DEF WrittenTo, Tidy
  <2>4. q \in Stores /\ q.stored = v /\ SameScreen(q, p)
    <3>1. p \in Stores
      BY DEF StoreOK
    <3>2. q \in Stores
      BY <2>2, <2>3, <3>1 DEF Stores
    <3>3. q.stored = v /\ q.messages = p.messages /\ q.conversationId = p.conversationId
          /\ q.url = p.url /\ q.initial = p.initial
      BY <2>2, <3>1 DEF Stores
    <3>4. q.isLoading = p.isLoading
      BY <2>2, <3>1 DEF Stores
    <3>5. q.flights = p.flights /\ q.sent = p.sent /\ q.known = p.known
      BY <2>2, <3>1 DEF Stores
    <3> QED BY <3>2, <3>3, <3>4, <3>5 DEF SameScreen
  <2>5. StoreOK(q)
    BY <2>3, <2>4 DEF StoreOK
  <2>6. Restores(v, f, p.messages, p.conversationId)
    <3>1. PICK i \in DOMAIN v : v[i].fileId = f /\ SessionOf(v, f) = v[i]
      BY <2>3, SessionOfIs
    <3>2. Written(v[i], f, p.messages, p.conversationId)
      BY <2>1, <3>1 DEF WrittenTo
    <3> QED BY <2>3, <3>1, <3>2 DEF Written, Restores
  <2>7. ASSUME StoreSound(p) PROVE StoreSound(q)
    <3>1. Sound(p.messages, p.conversationId) /\ StoredSound(p.stored)
      BY <2>7 DEF StoreSound
    <3>2. ASSUME NEW x, Written(x, f, p.messages, p.conversationId)
          PROVE  Sound(x.messages, x.conversationId)
      BY <3>1, <3>2, Adopted DEF Written
    <3>3. StoredSound(v)
      BY <2>1, <3>1, <3>2 DEF WrittenTo, StoredSound
    <3> QED BY <2>4, <3>1, <3>3 DEF StoreSound, SameScreen
  <2> QED BY <2>3, <2>4, <2>5, <2>6, <2>7 DEF q
<1> QED BY <1>1, <1>2

\* sendMessage.
LEMMA SendIs ==
  ASSUME NEW p, StoreOK(p), p.sent < MaxSends, NEW streaming \in BOOLEAN
  PROVE  LET q == Send(p, streaming)
         IN  /\ StoreOK(q) /\ q.messages # <<>>
             /\ q.url = p.url /\ q.known = p.known /\ q.sent = p.sent + 1
             /\ q.conversationId = p.conversationId
             /\ StoreSound(p) => StoreSound(q)
             /\ p.flights = {} => Tied(q)
<1> DEFINE n == p.sent + 1
           x == Question(n, p.conversationId)
           r == [send |-> n, conversationId |-> p.conversationId,
                 streaming |-> streaming, attempts |-> 1]
           m == Append(p.messages, x)
           F == p.flights \cup {r}
           q == Send(p, streaming)
<1>1. n \in Sends /\ n \in 0..MaxSends /\ 1 \in 1..(MaxRetries + 1)
  BY StoreFields, ChatStoreAssumption DEF Sends
<1>2. x \in Messages /\ x.kind = "question" /\ x.conv = p.conversationId
  BY <1>1, StoreFields, MessagesAre
<1>3. r \in Requests /\ r.send = n /\ r.conversationId = p.conversationId
  BY <1>1, StoreFields DEF Requests
<1>4. q = [p EXCEPT !.messages = m, !.isLoading = TRUE, !.flights = F, !.sent = n]
  BY DEF Send
<1>5. p.messages \in Seq(Messages)
  BY StoreFields
<1>6. m \in Seq(Messages) /\ m # <<>> /\ m[Len(m)] = Question(r.send, r.conversationId)
  <2> HIDE DEF x
  <2>1. m \in Seq(Messages) /\ Len(m) = Len(p.messages) + 1 /\ m[Len(m)] = x
        /\ Len(p.messages) \in Nat
    BY <1>2, <1>5
  <2>2. m # <<>>
    BY <2>1
  <2> QED BY <1>3, <2>1, <2>2 DEF x
<1>7. F \in SUBSET Requests /\ (p.flights = {} => F = {r})
  BY <1>3, StoreFields
<1>8. ASSUME Sound(p.messages, p.conversationId) PROVE Sound(m, p.conversationId)
  <2> HIDE DEF x
  <2> QED BY <1>2, <1>5, <1>8, AppendSound
<1> HIDE DEF x, r, m, F, q, n
<1>9. q \in Stores /\ q.messages = m /\ q.isLoading = TRUE /\ q.flights = F /\ q.sent = n
      /\ q.stored = p.stored /\ q.url = p.url /\ q.known = p.known
      /\ q.conversationId = p.conversationId
  <2>1. p \in Stores
    BY DEF StoreOK
  <2>2. q \in Stores
    BY <1>1, <1>4, <1>6, <1>7, <2>1 DEF Stores
  <2>3. q.isLoading = TRUE
    BY <1>4, <2>1 DEF Stores
  <2>4. q.messages = m /\ q.flights = F /\ q.sent = n
        /\ q.stored = p.stored /\ q.url = p.url /\ q.known = p.known
        /\ q.conversationId = p.conversationId
    BY <1>4, <2>1 DEF Stores
  <2> QED BY <2>2, <2>3, <2>4
<1>10. StoreOK(q)
  BY <1>9, StoreFields DEF StoreOK
<1>11. StoreSound(p) => StoreSound(q)
  BY <1>8, <1>9 DEF StoreSound
<1>12. p.flights = {} => Tied(q)
  BY <1>3, <1>6, <1>7, <1>9 DEF Tied, Waits
<1> QED BY <1>6, <1>9, <1>10, <1>11, <1>12 DEF n, q

\* What the effects make of store p: q.  The screen is stored, sound lists stay sound,
\* and a request keeps its question at the end of the list.
Follows(q, p) ==
  /\ StoreOK(q)
  /\ q.url = p.url /\ q.known = p.known /\ q.conversationId = p.conversationId
  /\ q.messages # <<>> => ScreenStored(q)
  /\ StoreSound(p) => StoreSound(q)
  /\ Tied(p) => Tied(q)
  /\ \/ SameScreen(q, p)
     \/ p.messages = <<>> /\ q.sent = p.sent + 1

\* The document and the initial message of the URL.
Located(q, p, f, i) == q = [p EXCEPT !.url = f, !.initial = i]

\* Changing the URL touches neither the list nor the requests.
LEMMA UrlIs ==
  ASSUME NEW p, StoreOK(p), NEW f \in Files, NEW i \in {"none", "pending", "sent"},
         NEW q, Located(q, p, f, i)
  PROVE  /\ StoreOK(q) /\ q.url = f /\ q.messages = p.messages
         /\ q.conversationId = p.conversationId /\ q.sent = p.sent
         /\ q.flights = p.flights /\ q.isLoading = p.isLoading
         /\ StoreSound(p) => StoreSound(q)
         /\ Tied(p) => Tied(q)
<1>1. p \in Stores /\ Tidy(p.stored)
  BY DEF StoreOK
<1>2. q \in Stores
  BY <1>1 DEF Located, Stores
<1>3. q.url = f /\ q.messages = p.messages /\ q.conversationId = p.conversationId
      /\ q.sent = p.sent /\ q.flights = p.flights /\ q.stored = p.stored
  BY <1>1 DEF Located, Stores
<1>4. q.isLoading = p.isLoading
  BY <1>1 DEF Located, Stores
<1>5. StoreOK(q)
  BY <1>1, <1>2, <1>3 DEF StoreOK
<1>6. StoreSound(p) => StoreSound(q)
  BY <1>3 DEF StoreSound
<1>7. Tied(p) => Tied(q)
  BY <1>3, <1>4 DEF Tied, Waits
<1> QED BY <1>3, <1>4, <1>5, <1>6, <1>7

\* Marking the initial message as sent changes nothing else.
LEMMA InitialIs ==
  ASSUME NEW p, StoreOK(p)
  PROVE  LET q == [p EXCEPT !.initial = "sent"]
         IN  /\ StoreOK(q) /\ q.url = p.url /\ q.known = p.known
             /\ q.conversationId = p.conversationId /\ q.sent = p.sent
             /\ q.flights = p.flights
             /\ StoreSound(p) => StoreSound(q)
<1> DEFINE q == [p EXCEPT !.initial = "sent"]
<1>1. p \in Stores /\ Tidy(p.stored)
  BY DEF StoreOK
<1>2. q \in Stores
  BY <1>1 DEF Stores
<1>3. q.url = p.url /\ q.messages = p.messages /\ q.conversationId = p.conversationId
      /\ q.sent = p.sent /\ q.flights = p.flights /\ q.stored = p.stored
      /\ q.known = p.known
  BY <1>1 DEF Stores
<1> HIDE DEF q
<1>4. StoreOK(q)
  BY <1>1, <1>2, <1>3 DEF StoreOK
<1>5. StoreSound(p) => StoreSound(q)
  BY <1>3 DEF StoreSound
<1> QED BY <1>3, <1>4, <1>5 DEF q

\* The effect that sends the initial message, if the list is empty, is a send like any other.
LEMMA InitialPromptFollows ==
  ASSUME NEW p, StoreOK(p), p.messages # <<>> => ScreenStored(p)
  PROVE  Follows(InitialPrompt(p), p)
<1> DEFINE asks == p.initial = "pending" /\ p.messages = <<>> /\ p.sent < MaxSends
<1>1. CASE ~asks
  <2>1. InitialPrompt(p) = p
    BY <1>1 DEF InitialPrompt
  <2>2. SameScreen(p, p)
    BY DEF SameScreen
  <2>3. Follows(p, p)
    BY <2>2 DEF Follows
  <2> QED BY <2>1, <2>3
<1>2. CASE asks
  <2> DEFINE a == [p EXCEPT !.initial = "sent"]
             b == Send(a, TRUE)
             q == Persist(b, p.url)
  <2>1. InitialPrompt(p) = q
    BY <1>2 DEF InitialPrompt
  <2>2. /\ StoreOK(a) /\ a.url = p.url /\ a.known = p.known
        /\ a.conversationId = p.conversationId /\ a.sent = p.sent /\ a.flights = p.flights
        /\ StoreSound(p) => StoreSound(a)
    BY InitialIs
  <2> HIDE DEF a
  <2>3. /\ StoreOK(b) /\ b.messages # <<>> /\ b.url = a.url /\ b.known = a.known
        /\ b.sent = a.sent + 1 /\ b.conversationId = a.conversationId
        /\ StoreSound(a) => StoreSound(b)
        /\ a.flights = {} => Tied(b)
    <3>1. a.sent < MaxSends /\ TRUE \in BOOLEAN
      BY <1>2, <2>2
    <3> QED BY <2>2, <3>1, SendIs
  <2> HIDE DEF b
  <2>4. p.url \in Files
    BY StoreFields
  <2>5. /\ StoreOK(q) /\ SameScreen(q, b)
        /\ StoreSound(b) => StoreSound(q)
        /\ Restores(q.stored, p.url, b.messages, b.conversationId)
    BY <2>3, <2>4, PersistIs
  <2> HIDE DEF q
  <2>6. q.url = p.url /\ q.known = p.known /\ q.conversationId = p.conversationId
        /\ q.messages = b.messages /\ q.sent = p.sent + 1
        /\ q.conversationId = b.conversationId
    BY <2>2, <2>3, <2>5 DEF SameScreen
  <2>7. ScreenStored(q)
    BY <2>5, <2>6 DEF ScreenStored
  <2>8. Tied(p) => Tied(q)
    <3>1. Tied(p) => p.flights = {}
      BY <1>2 DEF Tied, Waits
    <3> QED BY <2>2, <2>3, <2>5, <3>1, SameScreenTied
  <2>9. StoreSound(p) => StoreSound(q)
    BY <2>2, <2>3, <2>5
  <2>10. Follows(q, p)
    BY <1>2, <2>5, <2>6, <2>7, <2>8, <2>9 DEF Follows
  <2> QED BY <2>1, <2>10
<1> QED BY <1>1, <1>2

\* The effects of useChatLogic.
LEMMA EffectsFollow ==
  ASSUME NEW p, StoreOK(p)
  PROVE  Follows(Effects(p), p)
<1> DEFINE a == Persist(p, p.url)
           q == InitialPrompt(a)
<1>1. p.url \in Files
  BY StoreFields
<1>2. /\ StoreOK(a) /\ SameScreen(a, p)
      /\ StoreSound(p) => StoreSound(a)
      /\ p.messages # <<>> => Restores(a.stored, p.url, p.messages, p.conversationId)
  BY <1>1, PersistIs
<1>3. Effects(p) = q
  BY DEF Effects
<1> HIDE DEF a
<1>4. a.url = p.url /\ a.messages = p.messages /\ a.known = p.known
      /\ a.conversationId = p.conversationId /\ a.sent = p.sent
  BY <1>2 DEF SameScreen
<1>5. a.messages # <<>> => ScreenStored(a)
  BY <1>2, <1>4 DEF ScreenStored
<1>6. Follows(q, a)
  BY <1>2, <1>5, InitialPromptFollows
<1> HIDE DEF q
<1>7. Tied(p) => Tied(q)
  BY <1>2, <1>6, SameScreenTied DEF Follows
<1>8. SameScreen(q, p) \/ (p.messages = <<>> /\ q.sent = p.sent + 1)
  BY <1>2, <1>4, <1>6 DEF Follows, SameScreen
<1>9. StoreOK(q) /\ (q.messages # <<>> => ScreenStored(q)) /\ (StoreSound(p) => StoreSound(q))
      /\ q.url = p.url /\ q.known = p.known /\ q.conversationId = p.conversationId
  BY <1>2, <1>4, <1>6 DEF Follows
<1>10. Follows(q, p)
  BY <1>7, <1>8, <1>9 DEF Follows
<1> QED BY <1>3, <1>10

-----------------------------------------------------------------------------
(***************************************************************************)
(* Steps                                                                   *)
(***************************************************************************)

\* An action that ends with the effects keeps the invariant, when the store they start
\* from is one and, unless a request strayed, is sound.
LEMMA EffectsKeep ==
  ASSUME NEW p, StoreOK(p), store' = Effects(p),
         upload' \in {"idle", "sending"} \cup Docs, strayed' \in BOOLEAN,
         ~strayed' => StoreSound(p) /\ Tied(p) /\ UploadAlone(p, upload'),
         ~strayed' /\ upload' # "idle" => store'.sent = p.sent
  PROVE  StoreInv'
<1> DEFINE q == Effects(p)
<1>1. Follows(q, p) /\ store' = q
  BY EffectsFollow
<1> HIDE DEF q
<1>2. StoreOK(q) /\ (q.messages # <<>> => ScreenStored(q))
      /\ (StoreSound(p) => StoreSound(q)) /\ (Tied(p) => Tied(q))
      /\ (SameScreen(q, p) \/ (p.messages = <<>> /\ q.sent = p.sent + 1))
  BY <1>1 DEF Follows
<1>3. TypeOK'
  BY <1>1, <1>2 DEF TypeOK, StoreOK, Tidy, Distinct
<1>4. Restorable(store)'
  BY <1>1, <1>2 DEF Restorable, ScreenStored
<1>5. ASSUME ~strayed'
      PROVE  StoreSound(q) /\ Tied(q) /\ UploadAlone(q, upload')
  <2>1. StoreSound(q) /\ Tied(q)
    BY <1>2, <1>5
  <2>2. ASSUME upload' # "idle" PROVE q.flights = {} /\ q.isLoading = TRUE
    <3>1. q.sent = p.sent /\ p.flights = {} /\ p.isLoading = TRUE
      BY <1>1, <1>5, <2>2 DEF UploadAlone
    <3>2. p.sent \in Nat
      BY StoreFields
    <3>3. SameScreen(q, p)
      BY <1>2, <3>1, <3>2
    <3> QED BY <3>1, <3>3 DEF SameScreen
  <2> QED BY <2>1, <2>2 DEF UploadAlone
<1>6. Untouched'
  BY <1>1, <1>5 DEF Untouched
<1> QED BY <1>3, <1>4, <1>6 DEF StoreInv

\* Store p as far as the invariant is about it.
Shape(p, m, c, fl, lo, se, st) ==
  /\ p \in Stores
  /\ p.messages = m /\ p.conversationId = c
  /\ p.flights = fl /\ p.isLoading = lo /\ p.sent = se /\ p.stored = st

\* What a store given by all its fields satisfies.
LEMMA ShapeIs ==
  ASSUME NEW p, NEW m, NEW c, NEW fl, NEW lo, NEW se, NEW st,
         Shape(p, m, c, fl, lo, se, st), Tidy(st)
  PROVE  /\ StoreOK(p)
         /\ Sound(m, c) /\ StoredSound(st) => StoreSound(p)
         /\ fl = {} => Tied(p)
         /\ \A u : (u # "idle" => fl = {} /\ lo = TRUE) => UploadAlone(p, u)
  BY DEF Shape, StoreOK, StoreSound, Tied, UploadAlone

\* What the invariant says of the current store.
LEMMA Here ==
  ASSUME StoreInv
  PROVE  /\ StoreOK(store) /\ store \in Stores /\ Tidy(store.stored)
         /\ store.messages \in Seq(Messages) /\ store.conversationId \in 0..MaxSends
         /\ store.url \in Files /\ store.flights \in SUBSET Requests
         /\ store.sent \in 0..MaxSends /\ store.known \in SUBSET Docs
         /\ upload \in {"idle", "sending"} \cup Docs /\ strayed \in BOOLEAN
         /\ store.isLoading \in BOOLEAN
         /\ ~strayed => /\ Sound(store.messages, store.conversationId)
                        /\ StoredSound(store.stored)
                        /\ Tied(store) /\ UploadAlone(store, upload)
<1>1. StoreOK(store) /\ upload \in {"idle", "sending"} \cup Docs /\ strayed \in BOOLEAN
  BY DEF StoreInv, TypeOK, StoreOK, Tidy, Distinct, Stores
<1>2. ~strayed => /\ Sound(store.messages, store.conversationId)
                  /\ StoredSound(store.stored)
                  /\ Tied(store) /\ UploadAlone(store, upload)
  BY DEF StoreInv, Untouched, StoreSound
<1> QED BY <1>1, <1>2, StoreFields

\* Nothing runs while the input is enabled, unless a request strayed.
LEMMA IdleWhenEnabled ==
  ASSUME StoreInv, ~strayed, ~store.isLoading
  PROVE  store.flights = {} /\ upload = "idle"
  BY Here DEF Tied, Waits, UploadAlone

\* A step without effects: only flights, isLoading and upload change.
LEMMA QuietKeeps ==
  ASSUME StoreInv, store' \in Stores,
         store'.messages = store.messages, store'.conversationId = store.conversationId,
         store'.url = store.url, store'.stored = store.stored,
         store'.forgotten = store.forgotten,
         upload' \in {"idle", "sending"} \cup Docs, strayed' = strayed,
         ~strayed => Tied(store') /\ UploadAlone(store', upload')
  PROVE  StoreInv'
<1>1. TypeOK'
  BY DEF StoreInv, TypeOK
<1>2. Restorable(store)'
  BY DEF StoreInv, Restorable, ScreenStored
<1>3. Untouched'
  BY DEF StoreInv, Untouched, StoreSound
<1> QED BY <1>1, <1>2, <1>3 DEF StoreInv

-----------------------------------------------------------------------------
(***************************************************************************)
(* Asking                                                                  *)
(***************************************************************************)

\* The question ends the list, and the request that will answer it is the only one.
LEMMA SendMessageKeeps ==
  ASSUME StoreInv, NEW streaming \in BOOLEAN, SendMessage(streaming)
  PROVE  StoreInv'
<1> DEFINE p == Send(store, streaming)
<1>1. ~store.isLoading /\ store.sent < MaxSends /\ store' = Effects(p)
      /\ upload' = upload /\ strayed' = strayed
  BY DEF SendMessage
<1>2. StoreOK(p) /\ (StoreSound(store) => StoreSound(p))
      /\ (store.flights = {} => Tied(p))
  BY <1>1, Here, SendIs
<1> HIDE DEF p
<1>3. ~strayed => StoreSound(p) /\ Tied(p) /\ upload = "idle"
  BY <1>1, <1>2, IdleWhenEnabled DEF StoreInv, Untouched
<1>4. UploadAlone(p, "idle")
  BY DEF UploadAlone
<1> QED BY <1>1, <1>2, <1>3, <1>4, Here, EffectsKeep

\* A request ends: unless one strayed, its question is the last message and nothing
\* else runs.
LEMMA RequestReturns ==
  ASSUME StoreInv, NEW r \in store.flights, NEW p, NEW m, NEW c,
         Shape(p, m, c, store.flights \ {r}, FALSE, store.sent, store.stored),
         store' = Effects(p), upload' = upload, strayed' = strayed,
         ~strayed => Sound(m, c)
  PROVE  StoreInv'
<1>1. StoreOK(p) /\ (Sound(m, c) /\ StoredSound(store.stored) => StoreSound(p))
      /\ (store.flights \ {r} = {} => Tied(p))
  BY Here, ShapeIs
<1>2. ~strayed => store.flights = {r} /\ upload = "idle"
  BY Here DEF Tied, Waits, UploadAlone
<1>3. UploadAlone(p, "idle")
  BY DEF UploadAlone
<1>4. ~strayed => StoreSound(p) /\ Tied(p)
  BY <1>1, <1>2, Here
<1> QED BY <1>1, <1>2, <1>3, <1>4, Here, EffectsKeep

\* The fields of a request.
LEMMA RequestFields ==
  ASSUME StoreInv, NEW r \in store.flights
  PROVE  /\ r \in Requests /\ r.send \in Sends /\ r.conversationId \in 0..MaxSends
         /\ r.attempts \in 1..(MaxRetries + 1)
         /\ Conversation(r) \in 0..MaxSends
         /\ r.send \in 0..MaxSends
         /\ ~strayed => Waits(store, r)
<1>1. r \in Requests
  BY Here
<1>2. r.send \in Sends /\ r.conversationId \in 0..MaxSends
      /\ r.attempts \in 1..(MaxRetries + 1)
  BY <1>1 DEF Requests
<1>3. r.send \in 0..MaxSends
  BY <1>2, ChatStoreAssumption DEF Sends
<1>4. Conversation(r) \in 0..MaxSends
  BY <1>2, <1>3 DEF Conversation
<1>5. ~strayed => Waits(store, r)
  BY Here DEF Tied
<1> QED BY <1>1, <1>2, <1>3, <1>4, <1>5

\* The reply of request r joins the list.
LEMMA ReplySound ==
  ASSUME StoreInv, NEW r \in store.flights, NEW last \in 0..MaxSends, NEW c,
         store.conversationId = 0 \/ c = store.conversationId, last \in {0, c},
         r.conversationId \in {0, last}
  PROVE  /\ Append(store.messages, Reply(r.send, last)) \in Seq(Messages)
         /\ ~strayed => Sound(Append(store.messages, Reply(r.send, last)), c)
<1> DEFINE x == Reply(r.send, last)
<1>1. x \in Messages /\ x.kind = "reply" /\ x.send = r.send /\ x.conv = last
  BY RequestFields, MessagesAre
<1> HIDE DEF x
<1>2. store.messages \in Seq(Messages)
  BY Here
<1>3. ASSUME ~strayed PROVE Sound(Append(store.messages, x), c)
  <2>1. Sound(store.messages, c)
    BY <1>3, Here, Adopted
  <2>2. store.messages # <<>>
        /\ store.messages[Len(store.messages)] = Question(r.send, r.conversationId)
    BY <1>3, RequestFields DEF Waits
  <2> QED BY <1>1, <1>2, <2>1, <2>2, AppendSound
<1> QED BY <1>1, <1>2, <1>3 DEF x

\* The store that a request leaves: Returned with another list and conversation id.
LEMMA ReturnedShape ==
  ASSUME StoreInv, NEW r \in store.flights, NEW m \in Seq(Messages),
         NEW c \in 0..MaxSends
  PROVE  Shape([Returned(store, r) EXCEPT !.messages = m, !.conversationId = c],
               m, c, store.flights \ {r}, FALSE, store.sent, store.stored)
<1> DEFINE a == Returned(store, r)
           p == [a EXCEPT !.messages = m, !.conversationId = c]
<1>1. store \in Stores
  BY Here
<1>2. a \in Stores
  BY <1>1 DEF Returned, Stores
<1>3. a.flights = store.flights \ {r} /\ a.sent = store.sent /\ a.stored = store.stored
  BY <1>1 DEF Returned, Stores
<1>4. a.isLoading = FALSE
  BY <1>1 DEF Returned, Stores
<1> HIDE DEF a
<1>5. p \in Stores
  BY <1>2 DEF Stores
<1>6. p.messages = m /\ p.conversationId = c /\ p.flights = a.flights /\ p.sent = a.sent
      /\ p.stored = a.stored
  BY <1>2 DEF Stores
<1>7. p.isLoading = a.isLoading
  BY <1>2 DEF Stores
<1> HIDE DEF p
<1>8. Shape(p, m, c, store.flights \ {r}, FALSE, store.sent, store.stored)
  BY <1>3, <1>4, <1>5, <1>6, <1>7 DEF Shape
<1> QED BY <1>8 DEF p, a

\* Ending a request changes neither the list nor the conversation id.
LEMMA ReturnedFields ==
  ASSUME StoreInv, NEW r
  PROVE  /\ Returned(store, r).messages = store.messages
         /\ Returned(store, r).conversationId = store.conversationId
         /\ Returned(store, r) \in Stores
<1>1. store \in Stores
  BY Here
<1>2. Returned(store, r) \in Stores
  BY <1>1 DEF Returned, Stores
<1> QED BY <1>1, <1>2 DEF Returned, Stores

\* The reply is appended after its question, which still ends the list.
LEMMA StreamEndsKeeps ==
  ASSUME StoreInv, NEW r \in store.flights, NEW c \in {0, Conversation(r)}, StreamEnds(r, c)
  PROVE  StoreInv'
<1> DEFINE last == IF c = 0 THEN r.conversationId ELSE c
           cid  == IF store.conversationId = 0 THEN last ELSE store.conversationId
           m    == Append(store.messages, Reply(r.send, last))
           a    == Returned(store, r)
           p    == [a EXCEPT !.messages = m, !.conversationId = cid]
<1>1. a.messages = store.messages /\ a.conversationId = store.conversationId /\ a \in Stores
  BY ReturnedFields
<1>2. store' = Effects([a EXCEPT !.messages = Append(@, Reply(r.send, last)),
                                 !.conversationId = IF @ = 0 THEN last ELSE @])
      /\ upload' = upload /\ strayed' = strayed
  BY DEF StreamEnds
<1>3. store' = Effects(p)
  <2> HIDE DEF a, last
  <2>1. [a EXCEPT !.messages = Append(@, Reply(r.send, last)),
                  !.conversationId = IF @ = 0 THEN last ELSE @] = p
    BY <1>1 DEF Stores
  <2> QED BY <1>2, <2>1
<1>4. last \in 0..MaxSends /\ cid \in 0..MaxSends /\ r.conversationId \in {0, last}
  BY Here, RequestFields DEF Conversation
<1>5. store.conversationId = 0 \/ cid = store.conversationId
  OBVIOUS
<1>6. ~strayed => last \in {0, cid}
  BY RequestFields DEF Waits, Conversation
<1> HIDE DEF last, cid
<1>7. m \in Seq(Messages) /\ (~strayed => Sound(m, cid))
  <2>1. m \in Seq(Messages)
    <3>1. Reply(r.send, last) \in Messages
      BY <1>4, RequestFields, MessagesAre
    <3> QED BY <3>1, Here
  <2> QED BY <1>4, <1>5, <1>6, <2>1, ReplySound
<1> HIDE DEF m
<1>8. Shape(p, m, cid, store.flights \ {r}, FALSE, store.sent, store.stored)
  BY <1>4, <1>7, ReturnedShape
<1> HIDE DEF p
<1> QED BY <1>2, <1>3, <1>7, <1>8, RequestReturns

\* The same for an answer in one piece, which also brings the conversation id.
LEMMA ChatAnsweredKeeps ==
  ASSUME StoreInv, NEW r \in store.flights, ChatAnswered(r)
  PROVE  StoreInv'
<1> DEFINE last == Conversation(r)
           cid  == IF r.conversationId = 0 THEN r.send ELSE store.conversationId
           m    == Append(store.messages, Reply(r.send, last))
           a    == Returned(store, r)
           p    == [a EXCEPT !.messages = m, !.conversationId = cid]
<1>1. a.messages = store.messages /\ a.conversationId = store.conversationId /\ a \in Stores
  BY ReturnedFields
<1>2. store' = Effects([a EXCEPT !.messages = Append(@, Reply(r.send, last)),
                          !.conversationId = IF r.conversationId = 0 THEN r.send ELSE @])
      /\ upload' = upload /\ strayed' = strayed
  BY DEF ChatAnswered
<1>3. store' = Effects(p)
  <2> HIDE DEF a, last
  <2>1. [a EXCEPT !.messages = Append(@, Reply(r.send, last)),
                  !.conversationId = IF r.conversationId = 0 THEN r.send ELSE @] = p
    BY <1>1 DEF Stores
  <2> QED BY <1>2, <2>1
<1>4. last \in 0..MaxSends /\ cid \in 0..MaxSends /\ r.conversationId \in {0, last}
  BY Here, RequestFields DEF Conversation
<1>5. ~strayed => last \in {0, cid} /\ (store.conversationId = 0 \/ cid = store.conversationId)
  BY RequestFields DEF Waits, Conversation
<1> HIDE DEF last, cid
<1>6. m \in Seq(Messages) /\ (~strayed => Sound(m, cid))
  <2>1. m \in Seq(Messages)
    <3>1. Reply(r.send, last) \in Messages
      BY <1>4, RequestFields, MessagesAre
    <3> QED BY <3>1, Here
  <2> QED BY <1>4, <1>5, <2>1, ReplySound
<1> HIDE DEF m
<1>7. Shape(p, m, cid, store.flights \ {r}, FALSE, store.sent, store.stored)
  BY <1>4, <1>6, ReturnedShape
<1> HIDE DEF p
<1> QED BY <1>2, <1>3, <1>6, <1>7, RequestReturns

\* The rollback takes the question of the failed request, the last message.
LEMMA RequestFailsKeeps ==
  ASSUME StoreInv, NEW r \in store.flights, RequestFails(r)
  PROVE  StoreInv'
<1> DEFINE cut(l) == FirstN(l, IF l = <<>> THEN 0 ELSE Len(l) - 1)
           m == cut(store.messages)
           a == Returned(store, r)
           p == [a EXCEPT !.messages = m, !.conversationId = store.conversationId]
<1>1. a.messages = store.messages /\ a.conversationId = store.conversationId /\ a \in Stores
  BY ReturnedFields
<1>2. store' = Effects([a EXCEPT !.messages = cut(@)])
      /\ upload' = upload /\ strayed' = strayed
  BY DEF RequestFails
<1>3. m \in Seq(Messages) /\ (~strayed => Sound(m, store.conversationId))
  BY Here, DropSound
<1> HIDE DEF a, cut
<1>4. [a EXCEPT !.messages = cut(@)] = p
  BY <1>1 DEF Stores
<1> HIDE DEF m
<1>5. Shape(p, m, store.conversationId, store.flights \ {r}, FALSE, store.sent, store.stored)
  BY <1>3, Here, ReturnedShape DEF a
<1> HIDE DEF p
<1>6. store' = Effects(p)
  BY <1>2, <1>4
<1> QED BY <1>2, <1>3, <1>5, <1>6, RequestReturns

\* A retry leaves list and question where they are.
LEMMA ChatRetriedKeeps ==
  ASSUME StoreInv, NEW r \in store.flights, ChatRetried(r)
  PROVE  StoreInv'
<1> DEFINE q == [r EXCEPT !.attempts = @ + 1]
           F == (store.flights \ {r}) \cup {q}
<1>1. r.attempts <= MaxRetries /\ store' = [store EXCEPT !.flights = F]
      /\ upload' = upload /\ strayed' = strayed
  BY DEF ChatRetried
<1>2. r \in Requests /\ r.attempts + 1 \in 1..(MaxRetries + 1)
  BY <1>1, RequestFields, ChatStoreAssumption
<1>3. q \in Requests /\ q.send = r.send /\ q.conversationId = r.conversationId
  BY <1>2 DEF Requests
<1> HIDE DEF q
<1>4. F \in SUBSET Requests
  BY <1>3, Here
<1>5. store \in Stores
  BY Here
<1>6. store' \in Stores
  BY <1>1, <1>4, <1>5 DEF Stores
<1>7. store'.messages = store.messages /\ store'.conversationId = store.conversationId
      /\ store'.url = store.url /\ store'.stored = store.stored /\ store'.flights = F
  BY <1>1, <1>5 DEF Stores
<1>8. store'.forgotten = store.forgotten
  BY <1>1, <1>5 DEF Stores
<1>9. store'.isLoading = store.isLoading
  BY <1>1, <1>5 DEF Stores
<1>10. ASSUME ~strayed PROVE Tied(store') /\ UploadAlone(store', upload')
  <2>1. Waits(store, r) /\ upload = "idle"
    BY <1>10, Here, RequestFields DEF UploadAlone
  <2>2. F = {q}
    BY <2>1 DEF Waits
  <2>3. Tied(store')
    BY <1>3, <1>7, <1>9, <2>1, <2>2 DEF Tied, Waits
  <2> QED BY <1>1, <2>1, <2>3 DEF UploadAlone
<1> QED BY <1>1, <1>6, <1>7, <1>8, <1>10, Here, QuietKeeps

-----------------------------------------------------------------------------
(***************************************************************************)
(* Uploading                                                               *)
(***************************************************************************)

\* Only isLoading changes.
LEMMA LoadingIs ==
  ASSUME StoreInv, NEW b \in BOOLEAN, store' = [store EXCEPT !.isLoading = b]
  PROVE  /\ store' \in Stores
         /\ store'.messages = store.messages /\ store'.conversationId = store.conversationId
         /\ store'.url = store.url /\ store'.stored = store.stored
         /\ store'.forgotten = store.forgotten
         /\ store'.flights = store.flights /\ store'.isLoading = b
<1>1. store \in Stores
  BY Here
<1>2. store' \in Stores
  BY <1>1 DEF Stores
<1>3. store'.messages = store.messages /\ store'.conversationId = store.conversationId
      /\ store'.url = store.url /\ store'.stored = store.stored
      /\ store'.flights = store.flights
  BY <1>1 DEF Stores
<1>4. store'.forgotten = store.forgotten
  BY <1>1 DEF Stores
<1>5. store'.isLoading = b
  BY <1>1 DEF Stores
<1> QED BY <1>2, <1>3, <1>4, <1>5

\* The loading flag alone.
LEMMA LoadingKeeps ==
  ASSUME StoreInv, NEW b \in BOOLEAN, store' = [store EXCEPT !.isLoading = b],
         upload' \in {"idle", "sending"}, strayed' = strayed,
         ~strayed => store.flights = {}, upload' = "sending" => b = TRUE
  PROVE  StoreInv'
<1>1. /\ store' \in Stores
      /\ store'.messages = store.messages /\ store'.conversationId = store.conversationId
      /\ store'.url = store.url /\ store'.stored = store.stored
      /\ store'.forgotten = store.forgotten
      /\ store'.flights = store.flights /\ store'.isLoading = b
  BY LoadingIs
<1>2. ~strayed => Tied(store') /\ UploadAlone(store', upload')
  BY <1>1 DEF Tied, UploadAlone
<1> QED BY <1>1, <1>2, QuietKeeps

\* An upload starts only when nothing is under way.
LEMMA UploadStartsKeeps ==
  ASSUME StoreInv, UploadStarts
  PROVE  StoreInv'
<1>1. ~store.isLoading /\ store' = [store EXCEPT !.isLoading = TRUE]
      /\ upload' = "sending" /\ strayed' = strayed
  BY DEF UploadStarts
<1>2. ~strayed => store.flights = {}
  BY <1>1, IdleWhenEnabled
<1> QED BY <1>1, <1>2, LoadingKeeps

\* The upload is over without a text.
LEMMA UploadStops ==
  ASSUME StoreInv, upload # "idle", store' = [store EXCEPT !.isLoading = FALSE],
         upload' = "idle", strayed' = strayed
  PROVE  StoreInv'
<1>1. ~strayed => store.flights = {}
  BY Here DEF UploadAlone
<1> QED BY <1>1, LoadingKeeps

\* The upload ends with or without a message of its own; no request ran beside it.
LEMMA UploadEndsKeeps ==
  ASSUME StoreInv, NEW recognized \in BOOLEAN, UploadEnds(recognized)
  PROVE  StoreInv'
<1>1. upload # "idle" /\ upload' = "idle" /\ strayed' = strayed
  BY ChatStoreAssumption DEF UploadEnds
<1>2. CASE ~recognized
  BY <1>1, <1>2, UploadStops DEF UploadEnds
<1>3. CASE recognized
  <2> DEFINE m == Append(store.messages, Recognized)
             p == [store EXCEPT !.messages = m, !.isLoading = FALSE]
  <2>1. store \in Stores /\ store.messages \in Seq(Messages)
    BY Here
  <2>2. store' = Effects(p)
    BY <1>3, <2>1 DEF UploadEnds, Stores
  <2>3. m \in Seq(Messages)
    BY <2>1, MessagesAre
  <2>4. ~strayed => Sound(m, store.conversationId)
    BY <2>1, Here, MessagesAre, AppendSound
  <2> HIDE DEF m
  <2>5. p \in Stores
    BY <2>1, <2>3 DEF Stores
  <2>6. p.messages = m /\ p.conversationId = store.conversationId
        /\ p.flights = store.flights /\ p.sent = store.sent /\ p.stored = store.stored
    BY <2>1 DEF Stores
  <2>7. p.isLoading = FALSE
    BY <2>1 DEF Stores
  <2> HIDE DEF p
  <2>8. Shape(p, m, store.conversationId, store.flights, FALSE, store.sent, store.stored)
    BY <2>5, <2>6, <2>7 DEF Shape
  <2>9. StoreOK(p)
        /\ (Sound(m, store.conversationId) /\ StoredSound(store.stored) => StoreSound(p))
        /\ (store.flights = {} => Tied(p))
    BY <2>8, Here, ShapeIs
  <2>10. ~strayed => StoreSound(p) /\ Tied(p)
    BY <1>1, <2>4, <2>9, Here DEF UploadAlone
  <2>11. UploadAlone(p, "idle")
    BY DEF UploadAlone
  <2> QED BY <1>1, <2>2, <2>9, <2>10, <2>11, Here, EffectsKeep
<1> QED BY <1>2, <1>3

\* The document of the store, without the initial message.
LEMMA DocumentIs ==
  ASSUME NEW p, StoreOK(p), NEW d \in Files
  PROVE  LET q == [p EXCEPT !.url = d]
         IN  /\ StoreOK(q) /\ q.messages = p.messages /\ q.sent = p.sent
             /\ q.flights = p.flights /\ q.isLoading = p.isLoading
             /\ StoreSound(p) => StoreSound(q)
             /\ Tied(p) => Tied(q)
<1> DEFINE q == [p EXCEPT !.url = d]
<1>1. p \in Stores /\ Tidy(p.stored)
  BY DEF StoreOK
<1>2. q \in Stores
  BY <1>1 DEF Stores
<1>3. q.messages = p.messages /\ q.conversationId = p.conversationId
      /\ q.sent = p.sent /\ q.flights = p.flights /\ q.stored = p.stored
  BY <1>1 DEF Stores
<1>4. q.isLoading = p.isLoading
  BY <1>1 DEF Stores
<1> HIDE DEF q
<1>5. StoreOK(q)
  BY <1>1, <1>2, <1>3 DEF StoreOK
<1>6. StoreSound(p) => StoreSound(q)
  BY <1>3 DEF StoreSound
<1>7. Tied(p) => Tied(q)
  BY <1>3, <1>4 DEF Tied, Waits
<1> QED BY <1>3, <1>4, <1>5, <1>6, <1>7 DEF q

\* The effects leave a list that is not empty.
LEMMA EffectsOfList ==
  ASSUME NEW p, StoreOK(p), p.messages # <<>>
  PROVE  SameScreen(Effects(p), p) /\ StoreOK(Effects(p))
         /\ (StoreSound(p) => StoreSound(Effects(p))) /\ (Tied(p) => Tied(Effects(p)))
  BY EffectsFollow DEF Follows

\* The effects of a store p whose list is not empty, with the document d.
LEMMA DocumentKeeps ==
  ASSUME NEW p, StoreOK(p), p.messages # <<>>, NEW d \in Files,
         store' = Effects([p EXCEPT !.url = d]),
         upload' \in {"idle", "sending"} \cup Docs, strayed' \in BOOLEAN,
         ~strayed' => StoreSound(p) /\ Tied(p) /\ UploadAlone(p, upload')
  PROVE  StoreInv'
<1> DEFINE q == [p EXCEPT !.url = d]
<1>1. /\ StoreOK(q) /\ q.messages = p.messages /\ q.sent = p.sent
      /\ q.flights = p.flights /\ q.isLoading = p.isLoading
      /\ StoreSound(p) => StoreSound(q)
      /\ Tied(p) => Tied(q)
  BY DocumentIs
<1> HIDE DEF q
<1>2. store' = Effects(q)
  BY DEF q
<1>3. store'.sent = q.sent
  BY <1>1, <1>2, EffectsOfList DEF SameScreen
<1>4. ~strayed' => UploadAlone(q, upload')
  BY <1>1 DEF UploadAlone
<1> QED BY <1>1, <1>2, <1>3, <1>4, EffectsKeep

\* A new list about the new document is stored as its session, whichever URL renders first.
LEMMA UploadArrivesKeeps ==
  ASSUME StoreInv, NEW d \in Docs, UploadArrives(d)
  PROVE  StoreInv'
<1> DEFINE m == <<Uploaded>>
           fresh == [store EXCEPT !.messages = m, !.conversationId = 0,
                                  !.known = @ \cup {d}]
           a == Persist(fresh, d)
           b == Effects(a)
<1>1. upload = "sending" /\ upload' = d /\ strayed' = (strayed \/ store.flights # {})
      /\ \/ store' = Effects([fresh EXCEPT !.url = d])
         \/ store' = Effects([b EXCEPT !.url = d])
  BY DEF UploadArrives
<1>2. m \in Seq(Messages) /\ m # <<>> /\ Sound(m, 0)
  <2>1. Uploaded \in Messages /\ Uploaded.kind = "uploaded" /\ Uploaded.conv = 0
    BY MessagesAre
  <2>2. Append(<<>>, Uploaded) = m
    OBVIOUS
  <2>3. Sound(Append(<<>>, Uploaded), 0)
    BY <2>1, EmptySound, AppendSound
  <2> QED BY <2>1, <2>2, <2>3
<1> HIDE DEF m
<1>3. store \in Stores /\ d \in Files /\ 0 \in 0..MaxSends
  BY Here, ChatStoreAssumption DEF Files
<1>4. fresh \in Stores
  BY <1>2, <1>3 DEF Stores
<1>5. fresh.messages = m /\ fresh.conversationId = 0
      /\ fresh.flights = store.flights /\ fresh.sent = store.sent
      /\ fresh.stored = store.stored
  BY <1>3 DEF Stores
<1>6. fresh.isLoading = store.isLoading
  BY <1>3 DEF Stores
<1> HIDE DEF fresh
<1>7. Shape(fresh, m, 0, store.flights, store.isLoading, store.sent, store.stored)
  BY <1>4, <1>5, <1>6 DEF Shape
<1>8. StoreOK(fresh) /\ (Sound(m, 0) /\ StoredSound(store.stored) => StoreSound(fresh))
      /\ (store.flights = {} => Tied(fresh))
  BY <1>7, Here, ShapeIs
<1>9. ~strayed' => StoreSound(fresh) /\ Tied(fresh) /\ UploadAlone(fresh, upload')
  BY <1>1, <1>2, <1>5, <1>6, <1>8, Here DEF UploadAlone
<1>10. upload' \in {"idle", "sending"} \cup Docs /\ strayed' \in BOOLEAN
  BY <1>1, Here
<1>11. CASE store' = Effects([fresh EXCEPT !.url = d])
  BY <1>2, <1>3, <1>5, <1>8, <1>9, <1>10, <1>11, DocumentKeeps
<1>12. CASE store' = Effects([b EXCEPT !.url = d])
  <2>1. StoreOK(a) /\ SameScreen(a, fresh) /\ (StoreSound(fresh) => StoreSound(a))
    BY <1>3, <1>8, PersistIs
  <2> HIDE DEF a
  <2>2. a.messages # <<>>
    BY <1>2, <1>5, <2>1 DEF SameScreen
  <2>3. Tied(fresh) => Tied(a)
    BY <2>1, SameScreenTied
  <2>4. StoreOK(b) /\ SameScreen(b, a) /\ (StoreSound(a) => StoreSound(b))
        /\ (Tied(a) => Tied(b))
    BY <2>1, <2>2, EffectsOfList
  <2> HIDE DEF b
  <2>5. b.messages # <<>> /\ b.flights = fresh.flights /\ b.isLoading = fresh.isLoading
    BY <2>1, <2>2, <2>4 DEF SameScreen
  <2>6. ~strayed' => StoreSound(b) /\ Tied(b) /\ UploadAlone(b, upload')
    BY <1>9, <2>1, <2>3, <2>4, <2>5 DEF UploadAlone
  <2> QED BY <1>3, <1>10, <1>12, <2>4, <2>5, <2>6, DocumentKeeps
<1> QED BY <1>1, <1>11, <1>12

-----------------------------------------------------------------------------
(***************************************************************************)
(* Moving between conversations                                            *)
(***************************************************************************)

\* Strays: a step that strays no request finds none running and starts none beside an
\* upload.
LEMMA StraysIs ==
  ASSUME StoreInv, Strays
  PROVE  /\ strayed' \in BOOLEAN
         /\ ~strayed' => /\ ~strayed /\ store.flights = {}
                         /\ upload # "idle" => store'.sent = store.sent
  BY Here DEF Strays, Joins

\* The list on screen is replaced by m of conversation c, and localStorage by st.
Replaced(p, m, c, st) ==
  p = [store EXCEPT !.messages = m, !.conversationId = c, !.stored = st]

\* What holds of a store whose list was replaced, in particular while no request ran.
LEMMA ReplacedIs ==
  ASSUME StoreInv, NEW m \in Seq(Messages), NEW c \in 0..MaxSends, NEW st, Tidy(st),
         NEW p, Replaced(p, m, c, st)
  PROVE  /\ StoreOK(p) /\ p.messages = m /\ p.sent = store.sent
         /\ p.flights = store.flights /\ p.isLoading = store.isLoading
         /\ Sound(m, c) /\ StoredSound(st) => StoreSound(p)
         /\ store.flights = {} => Tied(p)
<1>1. store \in Stores /\ st \in Seq(Sessions)
  BY Here DEF Tidy
<1>2. p \in Stores
  BY <1>1 DEF Replaced, Stores
<1>3. p.messages = m /\ p.conversationId = c /\ p.flights = store.flights
      /\ p.sent = store.sent /\ p.stored = st
  BY <1>1 DEF Replaced, Stores
<1>4. p.isLoading = store.isLoading
  BY <1>1 DEF Replaced, Stores
<1>5. Shape(p, m, c, store.flights, store.isLoading, store.sent, st)
  BY <1>2, <1>3, <1>4 DEF Shape
<1>6. StoreOK(p) /\ (Sound(m, c) /\ StoredSound(st) => StoreSound(p))
      /\ (store.flights = {} => Tied(p))
  BY <1>5, ShapeIs
<1> QED BY <1>3, <1>4, <1>6

\* The list is replaced and the effects run.
LEMMA ReplacedKeeps ==
  ASSUME StoreInv, Strays, upload' = upload, NEW p, StoreOK(p),
         p.sent = store.sent, p.flights = store.flights, p.isLoading = store.isLoading,
         store' = Effects(p),
         ~strayed => StoreSound(p), store.flights = {} => Tied(p)
  PROVE  StoreInv'
<1>1. ~strayed' => UploadAlone(p, upload')
  BY StraysIs, Here DEF UploadAlone
<1>2. ~strayed' => StoreSound(p) /\ Tied(p)
  BY StraysIs
<1>3. ~strayed' /\ upload' # "idle" => store'.sent = p.sent
  BY StraysIs
<1>4. upload' \in {"idle", "sending"} \cup Docs /\ strayed' \in BOOLEAN
  BY StraysIs, Here
<1> QED BY <1>1, <1>2, <1>3, <1>4, EffectsKeep

\* ... and the URL is replaced too, before or after the effects have run.
LEMMA WithUrlKeeps ==
  ASSUME StoreInv, Strays, upload' = upload, NEW p, StoreOK(p),
         p.sent = store.sent, p.flights = store.flights, p.isLoading = store.isLoading,
         store' \in WithUrl(p, NoDoc, "none"),
         ~strayed => StoreSound(p), store.flights = {} => Tied(p)
  PROVE  StoreInv'
<1> DEFINE b == Effects(p)
           w(x) == [x EXCEPT !.url = NoDoc, !.initial = "none"]
<1>1. NoDoc \in Files /\ "none" \in {"none", "pending", "sent"}
  BY DEF Files
<1>2. ASSUME NEW x, StoreOK(x)
      PROVE  /\ StoreOK(w(x)) /\ w(x).messages = x.messages /\ w(x).sent = x.sent
             /\ w(x).flights = x.flights /\ w(x).isLoading = x.isLoading
             /\ StoreSound(x) => StoreSound(w(x))
             /\ Tied(x) => Tied(w(x))
  <2>1. Located(w(x), x, NoDoc, "none")
    BY DEF Located
  <2> HIDE DEF w
  <2> QED BY <1>1, <1>2, <2>1, UrlIs
<1>3. store' = Effects(w(p)) \/ store' = Effects(w(b))
  BY DEF WithUrl
<1>4. Follows(b, p)
  BY EffectsFollow
<1> HIDE DEF b, w
<1>5. upload' \in {"idle", "sending"} \cup Docs /\ strayed' \in BOOLEAN
  BY StraysIs, Here
<1>6. CASE store' = Effects(w(p))
  <2>1. /\ StoreOK(w(p)) /\ w(p).sent = p.sent
        /\ w(p).flights = p.flights /\ w(p).isLoading = p.isLoading
        /\ StoreSound(p) => StoreSound(w(p))
        /\ Tied(p) => Tied(w(p))
    BY <1>2
  <2> QED BY <1>6, <2>1, ReplacedKeeps
<1>7. CASE store' = Effects(w(b))
  <2>1. StoreOK(b) /\ (StoreSound(p) => StoreSound(b)) /\ (Tied(p) => Tied(b))
        /\ (SameScreen(b, p) \/ (p.messages = <<>> /\ b.sent = p.sent + 1))
    BY <1>4 DEF Follows
  <2> DEFINE q == w(b)
  <2>2. /\ StoreOK(q) /\ q.sent = b.sent
        /\ q.flights = b.flights /\ q.isLoading = b.isLoading
        /\ StoreSound(b) => StoreSound(q)
        /\ Tied(b) => Tied(q)
    BY <1>2, <2>1
  <2> HIDE DEF q
  <2>3. Follows(store', q)
    BY <1>7, <2>2, EffectsFollow DEF q
  <2>4. store'.sent = q.sent \/ store'.sent = q.sent + 1
    BY <2>3 DEF Follows, SameScreen
  <2>5. ~strayed' => StoreSound(q) /\ Tied(q)
    BY <2>1, <2>2, StraysIs
  <2>6. ASSUME ~strayed', upload' # "idle"
        PROVE  store'.sent = q.sent /\ q.flights = {} /\ q.isLoading = TRUE
    <3>1. store'.sent = p.sent /\ ~strayed /\ store.isLoading = TRUE /\ store.flights = {}
      BY <2>6, StraysIs, Here DEF UploadAlone
    <3>2. p.sent \in Nat /\ b.sent \in Nat
      BY <2>1, StoreFields
    <3>3. b.sent = p.sent
      BY <2>1, <2>2, <2>4, <3>1, <3>2 DEF SameScreen
    <3>4. SameScreen(b, p)
      BY <2>1, <3>2, <3>3
    <3> QED BY <2>2, <3>1, <3>3, <3>4 DEF SameScreen
  <2>7. ~strayed' => UploadAlone(q, upload')
    BY <2>6 DEF UploadAlone
  <2>8. store' = Effects(q)
    BY <1>7 DEF q
  <2> QED BY <1>5, <2>2, <2>5, <2>6, <2>7, <2>8, EffectsKeep
<1> QED BY <1>3, <1>6, <1>7

\* The list is emptied; what was on screen stays stored as it was.
LEMMA StartNewConversationKeeps ==
  ASSUME StoreInv, StartNewConversation
  PROVE  StoreInv'
<1> DEFINE m == <<>>
           p == [store EXCEPT !.messages = m, !.conversationId = 0, !.stored = store.stored]
<1>1. store \in Stores /\ 0 \in 0..MaxSends /\ Tidy(store.stored)
  BY Here, ChatStoreAssumption
<1>2. [store EXCEPT !.messages = m, !.conversationId = 0] = p
  BY <1>1 DEF Stores
<1>3. store' = Effects(p) /\ Strays /\ upload' = upload
  BY <1>2 DEF StartNewConversation
<1>4. m \in Seq(Messages) /\ Sound(m, 0)
  BY EmptySound
<1>5. Replaced(p, m, 0, store.stored)
  BY DEF Replaced
<1> HIDE DEF m, p
<1>6. /\ StoreOK(p) /\ p.sent = store.sent
      /\ p.flights = store.flights /\ p.isLoading = store.isLoading
      /\ Sound(m, 0) /\ StoredSound(store.stored) => StoreSound(p)
      /\ store.flights = {} => Tied(p)
  BY <1>1, <1>4, <1>5, ReplacedIs
<1> QED BY <1>3, <1>4, <1>6, Here, ReplacedKeeps

\* The list is emptied, and localStorage loses sessions or none.
LEMMA ClearedKeeps ==
  ASSUME StoreInv, Strays, upload' = upload, NEW st, Tidy(st),
         StoredSound(store.stored) => StoredSound(st),
         store' \in WithUrl([store EXCEPT !.messages = <<>>, !.conversationId = 0,
                                          !.stored = st], NoDoc, "none")
  PROVE  StoreInv'
<1> DEFINE m == <<>>
           p == [store EXCEPT !.messages = m, !.conversationId = 0, !.stored = st]
<1>1. m \in Seq(Messages) /\ Sound(m, 0) /\ 0 \in 0..MaxSends
  BY EmptySound, ChatStoreAssumption
<1>2. Replaced(p, m, 0, st) /\ store' \in WithUrl(p, NoDoc, "none")
  BY DEF Replaced
<1> HIDE DEF m, p
<1>3. /\ StoreOK(p) /\ p.sent = store.sent
      /\ p.flights = store.flights /\ p.isLoading = store.isLoading
      /\ Sound(m, 0) /\ StoredSound(st) => StoreSound(p)
      /\ store.flights = {} => Tied(p)
  BY <1>1, <1>2, ReplacedIs
<1> QED BY <1>1, <1>2, <1>3, Here, WithUrlKeeps

\* What deleteSession leaves is sound.
LEMMA DeleteSound ==
  ASSUME NEW s, Tidy(s), NEW f
  PROVE  /\ Tidy(DeleteSession(s, f))
         /\ StoredSound(s) => StoredSound(DeleteSession(s, f))
  BY DeleteKeeps DEF StoredSound

\* The list goes, and the stored session of its document.
LEMMA ClearConversationKeeps ==
  ASSUME StoreInv, ClearConversation
  PROVE  StoreInv'
<1> DEFINE st == IF store.url = NoDoc THEN store.stored
                 ELSE DeleteSession(store.stored, store.url)
<1>1. Tidy(st) /\ (StoredSound(store.stored) => StoredSound(st))
  BY Here, DeleteSound
<1>2. store \in Stores
  BY Here
<1>3. Strays /\ upload' = upload
      /\ store' \in WithUrl([store EXCEPT !.messages = <<>>, !.conversationId = 0,
                                          !.stored = st], NoDoc, "none")
  BY <1>2 DEF ClearConversation, Stores
<1> HIDE DEF st
<1> QED BY <1>1, <1>3, ClearedKeeps

\* The list goes, and all stored sessions with it or none.
LEMMA ClearAllConversationsKeeps ==
  ASSUME StoreInv, NEW erase \in BOOLEAN, ClearAllConversations(erase)
  PROVE  StoreInv'
<1> DEFINE st == IF erase THEN <<>> ELSE store.stored
<1>1. Tidy(<<>>) /\ StoredSound(<<>>)
  BY ChatStoreAssumption DEF Tidy, Distinct, StoredSound
<1>2. Tidy(st) /\ (StoredSound(store.stored) => StoredSound(st))
  BY <1>1, Here
<1>3. store \in Stores
  BY Here
<1>4. Strays /\ upload' = upload
      /\ store' \in WithUrl([store EXCEPT !.messages = <<>>, !.conversationId = 0,
                                          !.stored = st], NoDoc, "none")
  BY <1>3 DEF ClearAllConversations, Stores
<1> HIDE DEF st
<1> QED BY <1>2, <1>4, ClearedKeeps

\* A stored session.
LEMMA StoredIs ==
  ASSUME StoreInv, NEW f, HasSession(store.stored, f)
  PROVE  LET s == SessionOf(store.stored, f)
         IN  /\ s.messages \in Seq(Messages) /\ s.messages # <<>>
             /\ s.conversationId \in 0..MaxSends
             /\ ~strayed => Sound(s.messages, s.conversationId)
<1>1. PICK i \in DOMAIN store.stored : SessionOf(store.stored, f) = store.stored[i]
  BY SessionOfIs
<1>2. store.stored[i] \in Sessions /\ store.stored[i].messages # <<>>
  BY Here DEF Tidy
<1>3. ~strayed => Sound(store.stored[i].messages, store.stored[i].conversationId)
  BY Here DEF StoredSound
<1> QED BY <1>1, <1>2, <1>3 DEF Sessions

\* The list becomes one that was stored, and is sound because that was.
LEMMA SelectConversationKeeps ==
  ASSUME StoreInv, NEW f \in Files, SelectConversation(f)
  PROVE  StoreInv'
<1> DEFINE s == SessionOf(store.stored, f)
           p == [store EXCEPT !.messages = s.messages, !.conversationId = s.conversationId,
                              !.stored = store.stored]
           a == Persist(p, f)
<1>1. HasSession(store.stored, f) /\ Strays /\ upload' = upload
      /\ store' = Effects(Persist([store EXCEPT !.messages = s.messages,
                                                !.conversationId = s.conversationId], f))
  BY DEF SelectConversation
<1>2. /\ s.messages \in Seq(Messages) /\ s.conversationId \in 0..MaxSends
      /\ ~strayed => Sound(s.messages, s.conversationId)
  BY <1>1, StoredIs
<1> HIDE DEF s
<1>3. store \in Stores /\ Tidy(store.stored)
  BY Here
<1>4. store' = Effects(a)
  <2>1. [store EXCEPT !.messages = s.messages, !.conversationId = s.conversationId] = p
    BY <1>3 DEF Stores
  <2> QED BY <1>1, <2>1
<1>5. /\ StoreOK(p) /\ p.sent = store.sent
      /\ p.flights = store.flights /\ p.isLoading = store.isLoading
      /\ Sound(s.messages, s.conversationId) /\ StoredSound(store.stored) => StoreSound(p)
      /\ store.flights = {} => Tied(p)
  <2>1. Replaced(p, s.messages, s.conversationId, store.stored)
    BY DEF Replaced
  <2> HIDE DEF p
  <2> QED BY <1>2, <1>3, <2>1, ReplacedIs
<1> HIDE DEF p
<1>6. StoreOK(a) /\ SameScreen(a, p) /\ (StoreSound(p) => StoreSound(a))
  BY <1>5, PersistIs
<1> HIDE DEF a
<1>7. a.sent = store.sent /\ a.flights = store.flights /\ a.isLoading = store.isLoading
  BY <1>5, <1>6 DEF SameScreen
<1>8. ~strayed => StoreSound(a)
  BY <1>2, <1>5, <1>6, Here
<1>9. store.flights = {} => Tied(a)
  BY <1>5, <1>6, SameScreenTied
<1> QED BY <1>1, <1>4, <1>6, <1>7, <1>8, <1>9, ReplacedKeeps

\* A session is deleted from storage; the screen keeps its list, and forgotten says so.
LEMMA ForgetSessionKeeps ==
  ASSUME StoreInv, NEW f \in Files, ForgetSession(f)
  PROVE  StoreInv'
<1> DEFINE v == DeleteSession(store.stored, f)
           g == store.forgotten \/ f = store.url
<1>1. store' = [store EXCEPT !.stored = v, !.forgotten = g]
      /\ upload' = upload /\ strayed' = strayed
  <2>1. store \in Stores
    BY Here
  <2> QED BY <2>1 DEF ForgetSession, Stores
<1>2. store \in Stores /\ Tidy(store.stored) /\ store.forgotten \in BOOLEAN
  BY Here, StoreFields
<1>3. /\ Tidy(v)
      /\ StoredSound(store.stored) => StoredSound(v)
      /\ \A j \in DOMAIN v : \E i \in DOMAIN store.stored : v[j] = store.stored[i]
      /\ \A i \in DOMAIN store.stored : store.stored[i].fileId # f =>
           \E j \in DOMAIN v : v[j] = store.stored[i]
  <2>1. /\ Tidy(v)
        /\ \A j \in DOMAIN v : \E i \in DOMAIN store.stored : v[j] = store.stored[i]
        /\ \A i \in DOMAIN store.stored : store.stored[i].fileId # f =>
             \E j \in DOMAIN v : v[j] = store.stored[i]
    BY <1>2, DeleteKeeps
  <2>2. StoredSound(store.stored) => StoredSound(v)
    BY <1>2, DeleteSound
  <2> QED BY <2>1, <2>2
<1>4. v \in Seq(Sessions) /\ g \in BOOLEAN
  BY <1>3 DEF Tidy
<1> HIDE DEF v, g
<1>5. store' \in Stores
  BY <1>1, <1>2, <1>4 DEF Stores
<1>6. store'.messages = store.messages /\ store'.conversationId = store.conversationId
      /\ store'.url = store.url /\ store'.stored = v /\ store'.flights = store.flights
  BY <1>1, <1>2 DEF Stores
<1>7. store'.isLoading = store.isLoading
  BY <1>1, <1>2 DEF Stores
<1>8. store'.forgotten = g
  BY <1>1, <1>2 DEF Stores
<1>9. TypeOK'
  BY <1>1, <1>3, <1>5, <1>6, Here DEF TypeOK, Tidy, Distinct
<1>10. Restorable(store)'
  <2> SUFFICES ASSUME store.messages # <<>>, g = FALSE PROVE ScreenStored(store')
    BY <1>6, <1>8 DEF Restorable
  <2>1. f # store.url /\ store.forgotten = FALSE
    BY <1>2 DEF g
  <2>2. HasSession(store.stored, store.url)
        /\ SessionOf(store.stored, store.url).messages = store.messages
        /\ store.conversationId \in {0, SessionOf(store.stored, store.url).conversationId}
    BY <2>1 DEF StoreInv, Restorable, ScreenStored, Restores
  <2>3. PICK i \in DOMAIN store.stored :
          /\ store.stored[i].fileId = store.url /\ store.stored[i].messages = store.messages
          /\ store.conversationId \in {0, store.stored[i].conversationId}
    BY <2>2, SessionOfIs
  <2>4. HasSession(v, store.url)
    BY <1>3, <2>1, <2>3 DEF HasSession
  <2>5. PICK j \in DOMAIN v : v[j].fileId = store.url /\ SessionOf(v, store.url) = v[j]
    BY <2>4, SessionOfIs
  <2>6. PICK k \in DOMAIN store.stored : v[j] = store.stored[k]
    BY <1>3
  <2>7. k = i
    BY <1>2, <2>3, <2>5, <2>6 DEF Tidy, Distinct
  <2> QED BY <1>6, <2>3, <2>4, <2>5, <2>6, <2>7 DEF ScreenStored, Restores
<1>11. Untouched'
  <2> SUFFICES ASSUME ~strayed
               PROVE  StoreSound(store') /\ Tied(store') /\ UploadAlone(store', upload')
    BY <1>1 DEF Untouched
  <2>1. StoreSound(store')
    BY <1>3, <1>6, Here DEF StoreSound
  <2>2. Tied(store')
    BY <1>6, <1>7, Here DEF Tied, Waits
  <2>3. UploadAlone(store', upload')
    BY <1>1, <1>6, <1>7, Here DEF UploadAlone
  <2> QED BY <2>1, <2>2, <2>3
<1> QED BY <1>9, <1>10, <1>11 DEF StoreInv

\* The store survives navigation: only the URL changes, and the effects save the list there.
LEMMA OpenChatKeeps ==
  ASSUME StoreInv, NEW f \in Files, NEW initial \in {"none", "pending"},
         OpenChat(f, initial)
  PROVE  StoreInv'
<1> DEFINE a == Persist(store, store.url)
           p == [a EXCEPT !.url = f, !.initial = initial]
<1>1. store' = Effects(p) /\ strayed' = (strayed \/ Joins) /\ upload' = upload
  BY DEF OpenChat
<1>2. StoreOK(store) /\ store.url \in Files
  BY Here
<1>3. StoreOK(a) /\ SameScreen(a, store) /\ (StoreSound(store) => StoreSound(a))
  BY <1>2, PersistIs
<1> HIDE DEF a
<1>4. /\ StoreOK(p) /\ p.sent = a.sent
      /\ p.flights = a.flights /\ p.isLoading = a.isLoading
      /\ StoreSound(a) => StoreSound(p)
      /\ Tied(a) => Tied(p)
  <2>1. initial \in {"none", "pending", "sent"}
    OBVIOUS
  <2>2. Located(p, a, f, initial)
    BY DEF Located
  <2> HIDE DEF p
  <2> QED BY <1>3, <2>1, <2>2, UrlIs
<1> HIDE DEF p
<1>5. p.sent = store.sent /\ p.flights = store.flights /\ p.isLoading = store.isLoading
  BY <1>3, <1>4 DEF SameScreen
<1>6. strayed' \in BOOLEAN /\ (~strayed' => ~strayed)
  BY <1>1, Here DEF Joins
<1>7. ~strayed => StoreSound(p) /\ Tied(p)
  BY <1>3, <1>4, SameScreenTied DEF StoreInv, Untouched
<1>8. ~strayed => UploadAlone(p, upload')
  BY <1>1, <1>5, Here DEF UploadAlone
<1>9. ~strayed' /\ upload' # "idle" => store'.sent = p.sent
  BY <1>1, <1>5 DEF Joins
<1> QED BY <1>1, <1>4, <1>6, <1>7, <1>8, <1>9, Here, EffectsKeep

\* The store is built anew from localStorage, and no request survives.
LEMMA ReloadKeeps ==
  ASSUME StoreInv, Reload
  PROVE  StoreInv'
<1> DEFINE blank == [store EXCEPT !.messages = <<>>, !.conversationId = 0,
                             !.isLoading = FALSE, !.flights = {},
                             !.initial = IF @ = "none" THEN "none" ELSE "pending"]
           s == SessionOf(store.stored, store.url)
<1>1. upload' = "idle" /\ strayed' = strayed
      /\ store' = IF HasSession(store.stored, store.url)
                  THEN Effects([blank EXCEPT !.messages = s.messages,
                                             !.conversationId = s.conversationId])
                  ELSE Effects([blank EXCEPT !.forgotten = FALSE])
  BY DEF Reload
<1>2. store \in Stores /\ 0 \in 0..MaxSends /\ <<>> \in Seq(Messages)
      /\ Sound(<<>>, 0) /\ Tidy(store.stored)
  BY Here, EmptySound, ChatStoreAssumption
<1>3. blank \in Stores
  BY <1>2 DEF Stores
<1>4. blank.messages = <<>> /\ blank.conversationId = 0 /\ blank.flights = {}
      /\ blank.sent = store.sent /\ blank.stored = store.stored
  BY <1>2 DEF Stores
<1>5. blank.isLoading = FALSE
  BY <1>2 DEF Stores
<1> HIDE DEF blank
<1>6. ASSUME NEW p, NEW m, NEW c, Shape(p, m, c, {}, FALSE, store.sent, store.stored),
             ~strayed => Sound(m, c), store' = Effects(p)
      PROVE  StoreInv'
  <2>1. StoreOK(p) /\ (Sound(m, c) /\ StoredSound(store.stored) => StoreSound(p)) /\ Tied(p)
    BY <1>2, <1>6, ShapeIs
  <2>2. UploadAlone(p, "idle")
    BY DEF UploadAlone
  <2>3. ~strayed => StoreSound(p)
    BY <1>6, <2>1, Here
  <2> QED BY <1>1, <1>6, <2>1, <2>2, <2>3, Here, EffectsKeep
<1>7. CASE HasSession(store.stored, store.url)
  <2> DEFINE m == s.messages
             c == s.conversationId
             p == [blank EXCEPT !.messages = m, !.conversationId = c]
  <2>1. m \in Seq(Messages) /\ c \in 0..MaxSends /\ (~strayed => Sound(m, c))
    BY <1>7, StoredIs
  <2>2. store' = Effects(p)
    BY <1>1, <1>7
  <2> HIDE DEF m, c
  <2>3. p \in Stores
    BY <1>3, <2>1 DEF Stores
  <2>4. p.messages = m /\ p.conversationId = c /\ p.flights = blank.flights
        /\ p.sent = blank.sent /\ p.stored = blank.stored
    BY <1>3 DEF Stores
  <2>5. p.isLoading = blank.isLoading
    BY <1>3 DEF Stores
  <2> HIDE DEF p
  <2>6. Shape(p, m, c, {}, FALSE, store.sent, store.stored)
    BY <1>4, <1>5, <2>3, <2>4, <2>5 DEF Shape
  <2> QED BY <1>6, <2>1, <2>2, <2>6
<1>8. CASE ~HasSession(store.stored, store.url)
  <2> DEFINE p == [blank EXCEPT !.forgotten = FALSE]
  <2>1. store' = Effects(p)
    BY <1>1, <1>8
  <2>2. p \in Stores
    BY <1>3 DEF Stores
  <2>3. p.messages = blank.messages /\ p.conversationId = blank.conversationId
        /\ p.flights = blank.flights /\ p.sent = blank.sent /\ p.stored = blank.stored
    BY <1>3 DEF Stores
  <2>4. p.isLoading = blank.isLoading
    BY <1>3 DEF Stores
  <2> HIDE DEF p
  <2>5. Shape(p, <<>>, 0, {}, FALSE, store.sent, store.stored)
    BY <1>4, <1>5, <2>2, <2>3, <2>4 DEF Shape
  <2> QED BY <1>2, <1>6, <2>1, <2>5
<1> QED BY <1>7, <1>8

-----------------------------------------------------------------------------
(***************************************************************************)
(* The theorems                                                            *)
(***************************************************************************)

\* An empty page and an empty localStorage.
LEMMA StoreInvInit == Init => StoreInv
<1> SUFFICES ASSUME Init PROVE StoreInv
  OBVIOUS
<1>1. store.messages = <<>> /\ store.conversationId = 0 /\ store.flights = {}
      /\ store.stored = <<>> /\ upload = "idle" /\ strayed = FALSE
  BY DEF Init
<1>2. store \in Stores
  BY ChatStoreAssumption DEF Init, Stores, Files
<1>3. TypeOK
  <2>1. Len(store.stored) = 0 /\ DOMAIN store.stored = {} /\ 0 <= MaxSessions
    BY <1>1, ChatStoreAssumption
  <2> QED BY <1>1, <1>2, <2>1 DEF TypeOK
<1>4. Restorable(store)
  BY <1>1 DEF Restorable
<1>5. Untouched
  BY <1>1, EmptySound DEF Untouched, StoreSound, StoredSound, Tied, UploadAlone
<1> QED BY <1>3, <1>4, <1>5 DEF StoreInv

\* Every action keeps StoreInv.
LEMMA StoreInvNext == StoreInv /\ [Next]_vars => StoreInv'
<1> SUFFICES ASSUME StoreInv, [Next]_vars PROVE StoreInv'
  OBVIOUS
<1>1. ASSUME NEW streaming \in BOOLEAN, SendMessage(streaming) PROVE StoreInv'
  BY <1>1, SendMessageKeeps
<1>2. ASSUME NEW r \in store.flights,
             \/ \E c \in {0, Conversation(r)} : StreamEnds(r, c)
             \/ ChatAnswered(r) \/ ChatRetried(r) \/ RequestFails(r)
      PROVE  StoreInv'
  BY <1>2, StreamEndsKeeps, ChatAnsweredKeeps, ChatRetriedKeeps, RequestFailsKeeps
<1>3. CASE UploadStarts
  BY <1>3, UploadStartsKeeps
<1>4. CASE UploadFails
  BY <1>4, UploadStops DEF UploadFails
<1>5. ASSUME NEW d \in Docs, UploadArrives(d) PROVE StoreInv'
  BY <1>5, UploadArrivesKeeps
<1>6. ASSUME NEW recognized \in BOOLEAN, UploadEnds(recognized) PROVE StoreInv'
  BY <1>6, UploadEndsKeeps
<1>7. CASE StartNewConversation \/ ClearConversation
  BY <1>7, StartNewConversationKeeps, ClearConversationKeeps
<1>8. ASSUME NEW erase \in BOOLEAN, ClearAllConversations(erase) PROVE StoreInv'
  BY <1>8, ClearAllConversationsKeeps
<1>9. ASSUME NEW f \in Files, SelectConversation(f) \/ ForgetSession(f) PROVE StoreInv'
  BY <1>9, SelectConversationKeeps, ForgetSessionKeeps
<1>10. ASSUME NEW f \in Files, NEW initial \in {"none", "pending"}, OpenChat(f, initial)
       PROVE  StoreInv'
  BY <1>10, OpenChatKeeps
<1>11. CASE Reload
  BY <1>11, ReloadKeeps
<1>12. CASE UNCHANGED vars
  BY <1>12 DEF vars, StoreInv, TypeOK, Restorable, ScreenStored, Untouched
<1> QED BY <1>1, <1>2, <1>3, <1>4, <1>5, <1>6, <1>7, <1>8, <1>9, <1>10, <1>11, <1>12
        DEF Next

\* StoreInv holds throughout.
LEMMA StoreInvariant == Spec => []StoreInv
  BY StoreInvInit, StoreInvNext, PTL DEF Spec

-----------------------------------------------------------------------------

\* localStorage never holds more than maxChatSessions sessions, two of one file or an
\* empty one, and no action leaves the store without a field or with a wrong one.
THEOREM TypeCorrect == Spec => []TypeOK
<1>1. StoreInv => TypeOK
  BY DEF StoreInv
<1> QED BY <1>1, StoreInvariant, PTL

\* As long as the user stays with a conversation while its request runs, every reply
\* follows its question, on screen and in localStorage.
THEOREM RepliesFollowQuestions == Spec => []RepliesAreInPlace
<1>1. StoreInv => RepliesAreInPlace
  BY DEF StoreInv, Untouched, StoreSound, StoredSound, Sound, RepliesAreInPlace
<1> QED BY <1>1, StoreInvariant, PTL

\* Under the same condition the conversation whose id is kept with a list, on screen or
\* in localStorage, is the one every question of it was asked in and every reply came
\* from, as far as they name one.  StoreInv says it of the question a request waits with
\* too: the request carries the id that was on screen when the question was shown.
THEOREM SessionsNameTheirConversation == Spec => []StoredSessionsAgree
<1>1. ASSUME NEW m, NEW c, Sound(m, c) PROVE Named(m) \subseteq {c}
  BY <1>1 DEF Sound, Belong, Named
<1>2. StoreInv => StoredSessionsAgree
  BY <1>1 DEF StoreInv, Untouched, StoreSound, StoredSound, StoredSessionsAgree
<1> QED BY <1>2, StoreInvariant, PTL

\* A reload brings back the list on screen, and its conversation id if it has one,
\* however many other conversations were opened and cut off, unless its own session
\* was deleted.
THEOREM ReloadBringsBackScreen == Spec => []ReloadRestoresScreen
<1>1. StoreInv => ReloadRestoresScreen
  <2> SUFFICES ASSUME StoreInv, store.messages # <<>>, ~store.forgotten
               PROVE  ScreenStored(store)
    BY DEF ReloadRestoresScreen, ScreenStored, Restores
  <2>1. store.forgotten \in BOOLEAN
    BY Here, StoreFields
  <2> QED BY <2>1 DEF StoreInv, Restorable
<1> QED BY <1>1, StoreInvariant, PTL

=============================================================================
