---------------------------- MODULE OcrPageProofs ----------------------------
(***************************************************************************)
(* What the OCR page and the response cache in front of it guarantee for   *)
(* any number of documents, texts, calls and readers, any time to live and *)
(* any MAX_HISTORY: the list is well formed, polling is never delayed by   *)
(* the cache, the list holds only what was written for its documents and   *)
(* loses nothing unless calls cross.                                       *)
(***************************************************************************)
EXTENDS OcrPage, SequenceTheorems, WellFoundedInduction, TLAPS

-----------------------------------------------------------------------------
(***************************************************************************)
(* The inductive invariants                                                *)
(***************************************************************************)

\* A list the page may hold.
GoodList(h) ==
  /\ h \in Seq(Entries) /\ Len(h) <= MaxHistory
  /\ \A i, j \in DOMAIN h : h[i].doc = h[j].doc => i = j

PollRecords ==
  [state : {"unused", "running", "ended"}, doc : Docs \cup {NoDoc},
   left : 0..MaxAttempts, snap : Seq(Entries), upload : BOOLEAN]

\* The text of a row is one it has held.
RowsAreWritten == \A d \in Docs : text[d] # 0 => text[d] \in written[d]

\* So is what the cache holds for the OCR endpoint, and what is on its way there.
CacheIsWritten ==
  /\ \A d \in Docs : cache[<<"ocr", d>>].left > 0
                       => cache[<<"ocr", d>>].value \in written[d]
  /\ \A f \in fills : f.key[1] = "ocr" => f.value \in written[f.key[2]]

\* A request under way: what it carries, and that a late one still finds its text.
RequestsAreServed ==
  \A c \in Clients :
    /\ get[c].step # "idle" => get[c].key \in Keys
    /\ get[c].step = "handle"
         => /\ get[c].value = NotReady /\ ~get[c].failed
            /\ get[c].late => get[c].key[1] = "ocr" /\ text[get[c].key[2]] # 0
    /\ get[c].step = "answered"
         => /\ get[c].key[1] = "ocr"
            /\ get[c].value # NotReady => get[c].value \in written[get[c].key[2]]
            /\ get[c].late /\ ~get[c].failed => get[c].value # NotReady

HttpInv == HttpTypeOK /\ RowsAreWritten /\ CacheIsWritten /\ RequestsAreServed

\* A running call works on a document and from a well-formed copy of the list, and
\* only a running call has a request, for its document.
PollsAreGood ==
  /\ poll \in [Polls -> PollRecords]
  /\ \A p \in Polls : poll[p].state = "running"
                        => poll[p].doc \in Docs /\ GoodList(poll[p].snap)
  /\ \A p \in Polls : get[p].step # "idle"
                        => /\ poll[p].state = "running"
                           /\ get[p].key = <<"ocr", poll[p].doc>>

\* The flags, what is shown and the three lists.
PageIsGood ==
  /\ uploading \in BOOLEAN /\ processing \in BOOLEAN /\ crossed \in BOOLEAN
  /\ image \in Docs \cup {NoDoc} /\ result \in Docs \cup {NoDoc}
  /\ GoodList(history) /\ GoodList(clicked) /\ GoodList(ideal)

PageInv == HttpInv /\ PageIsGood /\ PollsAreGood

\* Every entry of the list is a text its document's row has held.
Published(h, wr) == \A i \in DOMAIN h : h[i].text \in wr[h[i].doc]

\* HistoryIsPublished, for the copies too.
CopiesArePublished ==
  /\ Published(history, written) /\ Published(clicked, written)
  /\ \A p \in Polls : poll[p].state = "running" => Published(poll[p].snap, written)

\* While nothing crosses, at most one call runs and its copy is up to date.
CopiesAreCurrent ==
  ~crossed =>
    /\ history = ideal
    /\ \A p, q \in Polls : poll[p].state = "running" /\ poll[q].state = "running" => p = q
    /\ \A p \in Polls : poll[p].state = "running"
         => poll[p].snap = history /\ poll[p].upload = uploading
    /\ Sending => clicked = history

-----------------------------------------------------------------------------
(***************************************************************************)
(* The operations on the list.  Without is a recursive function, so what   *)
(* it computes is shown by induction, which is derived first from the      *)
(* well-foundedness of < .                                                 *)
(***************************************************************************)

\* Induction over the natural numbers, for a set of them: there is no least number
\* outside.
LEMMA Induction ==
  ASSUME NEW S \in SUBSET Nat, 0 \in S, \A n \in S : n + 1 \in S
  PROVE  S = Nat
<1> SUFFICES ASSUME S # Nat PROVE FALSE
  OBVIOUS
<1> DEFINE R == OpToRel(<,Nat)
           T == Nat \ S
<1>1. IsWellFoundedOn(R, Nat)
  BY NatLessThanWellFounded, Zenon
<1>2. \A m, n \in Nat : m < n => <<m, n>> \in R
  BY Zenon DEF OpToRel
<1>3. T \subseteq Nat /\ T # {}
  OBVIOUS
<1> HIDE DEF R
<1>4. PICK n \in T : \A m \in T : ~(<<m, n>> \in R)
  BY <1>1, <1>3, WFMin
<1>5. n # 0 /\ n - 1 \in Nat /\ n - 1 < n /\ n - 1 + 1 = n
  BY <1>4
<1>6. n - 1 \in S
  BY <1>2, <1>4, <1>5
<1> QED BY <1>4, <1>5, <1>6

\* f is the function that Without builds, up to n.
Kept(h, d, f, n) ==
  f = [i \in 0..n |-> IF i = 0 THEN <<>>
                      ELSE IF h[i].doc = d THEN f[i - 1] ELSE Append(f[i - 1], h[i])]

\* There is one for every n: Without is well defined.
LEMMA KeptExists ==
  ASSUME NEW h, NEW d
  PROVE  \A n \in Nat : \E f : Kept(h, d, f, n)
<1> DEFINE S == {n \in Nat : \E f : Kept(h, d, f, n)}
<1>1. 0 \in S
  <2>1. Kept(h, d, [i \in 0..0 |-> <<>>], 0)
    BY DEF Kept
  <2> QED BY <2>1
<1>2. ASSUME NEW n \in S PROVE n + 1 \in S
  <2>1. PICK f : Kept(h, d, f, n)
    OBVIOUS
  <2> DEFINE e == IF h[n + 1].doc = d THEN f[n] ELSE Append(f[n], h[n + 1])
             g == [i \in 0..(n + 1) |-> IF i = n + 1 THEN e ELSE f[i]]
  <2>2. n \in Nat /\ g[n + 1] = e /\ \A i \in 0..n : g[i] = f[i]
    OBVIOUS
  <2>3. \A i \in 0..(n + 1) : g[i] = IF i = 0 THEN <<>>
                      ELSE IF h[i].doc = d THEN g[i - 1] ELSE Append(g[i - 1], h[i])
    <3> SUFFICES ASSUME NEW i \in 0..(n + 1)
                 PROVE  g[i] = IF i = 0 THEN <<>>
                      ELSE IF h[i].doc = d THEN g[i - 1] ELSE Append(g[i - 1], h[i])
      OBVIOUS
    <3>0. \A j \in 0..n : f[j] = IF j = 0 THEN <<>>
                      ELSE IF h[j].doc = d THEN f[j - 1] ELSE Append(f[j - 1], h[j])
      BY <2>1 DEF Kept
    <3>1. CASE i = n + 1
      <4>1. i # 0 /\ i - 1 = n /\ n \in 0..n
        BY <2>2, <3>1
      <4> QED BY <2>2, <3>1, <4>1
    <3>2. CASE i = 0
      BY <2>2, <3>0, <3>2
    <3>3. CASE i # n + 1 /\ i # 0
      <4>1. i \in 0..n /\ i - 1 \in 0..n
        BY <2>2, <3>3
      <4>2. g[i] = f[i] /\ g[i - 1] = f[i - 1]
        BY <2>2, <4>1
      <4> QED BY <3>0, <3>3, <4>1, <4>2
    <3> QED BY <3>1, <3>2, <3>3
  <2>4. Kept(h, d, g, n + 1)
    BY <2>3 DEF Kept
  <2> QED BY <2>2, <2>4
<1>3. S = Nat
  <2> HIDE DEF S
  <2> QED BY <1>1, <1>2, Induction DEF S
<1> QED BY <1>3

\* Without is its value for the whole list.
LEMMA WithoutIsKept ==
  ASSUME NEW h, NEW d, Len(h) \in Nat
  PROVE  \E f : Kept(h, d, f, Len(h)) /\ Without(h, d) = f[Len(h)]
<1> DEFINE k == CHOOSE f : Kept(h, d, f, Len(h))
<1>1. Kept(h, d, k, Len(h))
  BY KeptExists
<1>2. Without(h, d) = k[Len(h)]
  BY DEF Without, Kept
<1> QED BY <1>1, <1>2

Distinct(h) == \A i, j \in DOMAIN h : h[i].doc = h[j].doc => i = j

\* v is made of entries of the first n of h, none for d.
Picked(h, d, n, v) ==
  /\ v \in Seq(Entries) /\ Len(v) <= n
  /\ \A j \in 1..Len(v) : v[j].doc # d /\ \E m \in 1..n : v[j] = h[m]
  /\ Distinct(v)

\* One more entry: it is passed over or becomes the last one kept.
LEMMA PickedMore ==
  ASSUME NEW h \in Seq(Entries), NEW d, Distinct(h), NEW n \in Nat, n < Len(h),
         NEW v, Picked(h, d, n, v)
  PROVE  Picked(h, d, n + 1,
                IF h[n + 1].doc = d THEN v ELSE Append(v, h[n + 1]))
<1>1. v \in Seq(Entries) /\ Len(v) \in Nat /\ Len(v) <= n /\ DOMAIN v = 1..Len(v)
  BY DEF Picked
<1>2. \A j \in 1..Len(v) : v[j].doc # d /\ \E m \in 1..n : v[j] = h[m]
  BY DEF Picked
<1>3. n + 1 \in 1..Len(h) /\ DOMAIN h = 1..Len(h) /\ h[n + 1] \in Entries
  OBVIOUS
<1>4. \A m \in 1..n : m \in 1..(n + 1) /\ m \in 1..Len(h) /\ m # n + 1
  BY <1>3
<1>5. CASE h[n + 1].doc = d
  <2>1. Picked(h, d, n + 1, v)
    <3>1. Len(v) <= n + 1
      BY <1>1
    <3> QED BY <1>1, <1>2, <1>4, <3>1 DEF Picked
  <2> QED BY <1>5, <2>1
<1>6. CASE h[n + 1].doc # d
  <2> DEFINE w == Append(v, h[n + 1])
  <2>1. /\ w \in Seq(Entries) /\ Len(w) = Len(v) + 1 /\ DOMAIN w = 1..Len(w)
        /\ w[Len(v) + 1] = h[n + 1]
        /\ \A j \in 1..Len(v) : w[j] = v[j]
    BY <1>1, <1>3
  <2>2. Len(w) <= n + 1
    BY <1>1, <2>1
  <2>3. \A j \in 1..Len(w) : j = Len(v) + 1 \/ j \in 1..Len(v)
    BY <1>1, <2>1
  <2> HIDE DEF w
  <2>4. \A j \in 1..Len(w) : w[j].doc # d /\ \E m \in 1..(n + 1) : w[j] = h[m]
    <3> SUFFICES ASSUME NEW j \in 1..Len(w)
                 PROVE  w[j].doc # d /\ \E m \in 1..(n + 1) : w[j] = h[m]
      OBVIOUS
    <3>1. CASE j = Len(v) + 1
      <4>1. n + 1 \in 1..(n + 1)
        OBVIOUS
      <4> QED BY <1>6, <2>1, <3>1, <4>1
    <3>2. CASE j \in 1..Len(v)
      BY <1>2, <1>4, <2>1, <3>2
    <3> QED BY <2>3, <3>1, <3>2
  <2>5. \A j \in 1..Len(v) : v[j].doc # h[n + 1].doc
    BY <1>2, <1>3, <1>4 DEF Distinct
  <2>6. Distinct(w)
    <3> SUFFICES ASSUME NEW i \in DOMAIN w, NEW j \in DOMAIN w, w[i].doc = w[j].doc
                 PROVE  i = j
      BY DEF Distinct
    <3>1. CASE i \in 1..Len(v) /\ j \in 1..Len(v)
      BY <1>1, <2>1, <3>1 DEF Picked, Distinct
    <3>2. CASE i = Len(v) + 1 /\ j \in 1..Len(v)
      BY <2>1, <2>5, <3>2
    <3>3. CASE i \in 1..Len(v) /\ j = Len(v) + 1
      BY <2>1, <2>5, <3>3
    <3> QED BY <2>1, <2>3, <3>1, <3>2, <3>3
  <2>7. Picked(h, d, n + 1, w)
    BY <2>1, <2>2, <2>4, <2>6 DEF Picked
  <2> QED BY <1>6, <2>7 DEF w
<1> QED BY <1>5, <1>6

\* Without keeps entries of the list, none for the document and none twice.
LEMMA WithoutProperties ==
  ASSUME NEW h \in Seq(Entries), NEW d, Distinct(h)
  PROVE  Picked(h, d, Len(h), Without(h, d))
<1>1. Len(h) \in Nat
  OBVIOUS
<1>2. PICK f : Kept(h, d, f, Len(h)) /\ Without(h, d) = f[Len(h)]
  BY <1>1, WithoutIsKept
<1>3. \A i \in 0..Len(h) : f[i] = IF i = 0 THEN <<>>
                      ELSE IF h[i].doc = d THEN f[i - 1] ELSE Append(f[i - 1], h[i])
  BY <1>2 DEF Kept
<1> DEFINE S == {n \in Nat : n <= Len(h) => Picked(h, d, n, f[n])}
<1>4. 0 \in S
  <2>1. f[0] = <<>>
    BY <1>1, <1>3
  <2>2. Picked(h, d, 0, <<>>)
    <3>1. <<>> \in Seq(Entries) /\ Len(<<>>) = 0 /\ DOMAIN <<>> = {}
      OBVIOUS
    <3> QED BY <3>1 DEF Picked, Distinct
  <2> QED BY <2>1, <2>2
<1>5. ASSUME NEW n \in S PROVE n + 1 \in S
  <2> SUFFICES ASSUME n + 1 <= Len(h) PROVE Picked(h, d, n + 1, f[n + 1])
    OBVIOUS
  <2>1. n \in Nat /\ n < Len(h) /\ n <= Len(h) /\ n + 1 \in 0..Len(h)
        /\ n + 1 # 0 /\ n + 1 - 1 = n
    BY <1>1
  <2>2. Picked(h, d, n, f[n])
    BY <2>1
  <2>3. f[n + 1] = IF h[n + 1].doc = d THEN f[n] ELSE Append(f[n], h[n + 1])
    BY <1>3, <2>1
  <2> QED BY <2>1, <2>2, <2>3, PickedMore
<1>6. S = Nat
  <2> HIDE DEF S
  <2> QED BY <1>4, <1>5, Induction DEF S
<1>7. Len(h) \in S
  BY <1>1, <1>6
<1> QED BY <1>2, <1>7

\* Cutting the list to MAX_HISTORY.
LEMMA ShortenedProperties ==
  ASSUME NEW v \in Seq(Entries), Distinct(v)
  PROVE  /\ GoodList(Shortened(v))
         /\ \A i \in DOMAIN Shortened(v) : i \in DOMAIN v /\ Shortened(v)[i] = v[i]
<1>1. MaxHistory \in Nat \ {0} /\ Len(v) \in Nat /\ DOMAIN v = 1..Len(v)
  BY OcrPageAssumption
<1>2. CASE Len(v) <= MaxHistory
  BY <1>1, <1>2 DEF Shortened, GoodList, Distinct
<1>3. CASE ~(Len(v) <= MaxHistory)
  <2> DEFINE w == SubSeq(v, 1, MaxHistory)
  <2>1. \A i \in 1..MaxHistory : i \in 1..Len(v) /\ v[i] \in Entries
    BY <1>1, <1>3
  <2>2. w \in Seq(Entries) /\ Len(w) = MaxHistory
        /\ \A i \in 1..MaxHistory : w[i] = v[i]
    BY <1>1, <2>1, SubSeqProperties
  <2>3. DOMAIN w = 1..MaxHistory
    BY <2>2
  <2> HIDE DEF w
  <2>4. GoodList(w)
    BY <1>1, <2>1, <2>2, <2>3 DEF GoodList, Distinct
  <2>5. Shortened(v) = w
    BY <1>3 DEF Shortened, w
  <2> QED BY <1>1, <2>1, <2>2, <2>3, <2>4, <2>5
<1> QED BY <1>2, <1>3

\* Deleting from a good list leaves a good list of its entries.
LEMMA WithoutKeeps ==
  ASSUME NEW h, GoodList(h), NEW d, NEW wr
  PROVE  /\ GoodList(Without(h, d))
         /\ Published(h, wr) => Published(Without(h, d), wr)
<1>1. h \in Seq(Entries) /\ Distinct(h) /\ Len(h) \in Nat /\ Len(h) <= MaxHistory
      /\ MaxHistory \in Nat /\ DOMAIN h = 1..Len(h)
  BY OcrPageAssumption DEF GoodList, Distinct
<1> DEFINE w == Without(h, d)
<1>2. Picked(h, d, Len(h), w)
  BY <1>1, WithoutProperties
<1> HIDE DEF w
<1>3. w \in Seq(Entries) /\ Len(w) \in Nat /\ Len(w) <= MaxHistory
      /\ DOMAIN w = 1..Len(w)
  BY <1>1, <1>2 DEF Picked
<1>4. GoodList(w)
  BY <1>2, <1>3 DEF Picked, GoodList, Distinct
<1>5. Published(h, wr) => Published(w, wr)
  BY <1>1, <1>2, <1>3 DEF Picked, Published
<1> QED BY <1>4, <1>5 DEF w

\* saveToHistory makes a good list of a good one.
LEMMA SavedKeeps ==
  ASSUME NEW h, GoodList(h), NEW d \in Docs, NEW t \in Texts, NEW wr
  PROVE  /\ GoodList(Saved(h, d, t))
         /\ Published(h, wr) /\ t \in wr[d] => Published(Saved(h, d, t), wr)
<1>1. h \in Seq(Entries) /\ Distinct(h) /\ Len(h) \in Nat /\ DOMAIN h = 1..Len(h)
  BY DEF GoodList, Distinct
<1> DEFINE e == [doc |-> d, text |-> t]
           w == Without(h, d)
           v == <<e>> \o w
<1>2. Picked(h, d, Len(h), w)
  BY <1>1, WithoutProperties
<1>3. e \in Entries /\ e.doc = d /\ e.text = t
  BY DEF Entries
<1> HIDE DEF w, e
<1>4. w \in Seq(Entries) /\ Len(w) \in Nat /\ DOMAIN w = 1..Len(w)
  BY <1>2 DEF Picked
<1>5. /\ v \in Seq(Entries) /\ Len(v) = Len(w) + 1 /\ DOMAIN v = 1..Len(v)
      /\ v[1] = e /\ \A i \in 2..(Len(w) + 1) : v[i] = w[i - 1]
  <2>1. <<e>> \in Seq(Entries) /\ Len(<<e>>) = 1 /\ <<e>>[1] = e
    BY <1>3
  <2>2. v \in Seq(Entries) /\ Len(v) = Len(w) + 1
        /\ \A i \in 1..(1 + Len(w)) : v[i] = IF i <= 1 THEN <<e>>[i] ELSE w[i - 1]
    BY <1>4, <2>1, ConcatProperties
  <2> HIDE DEF v
  <2>3. DOMAIN v = 1..Len(v)
    BY <2>2
  <2>4. v[1] = e
    BY <1>4, <2>1, <2>2
  <2>5. \A i \in 2..(Len(w) + 1) : v[i] = w[i - 1]
    BY <1>4, <2>2
  <2> QED BY <2>2, <2>3, <2>4, <2>5
<1> HIDE DEF v
<1>6. \A i \in DOMAIN v : i = 1 \/ (i \in 2..(Len(w) + 1) /\ i - 1 \in 1..Len(w))
  BY <1>4, <1>5
<1>7. \A j \in 1..Len(w) : w[j].doc # d /\ \E m \in 1..Len(h) : w[j] = h[m]
  BY <1>2 DEF Picked
<1>8. Distinct(v)
  <2> SUFFICES ASSUME NEW i \in DOMAIN v, NEW j \in DOMAIN v, v[i].doc = v[j].doc
               PROVE  i = j
    BY DEF Distinct
  <2>1. CASE i = 1 \/ j = 1
    BY <1>3, <1>5, <1>6, <1>7, <2>1
  <2>2. CASE i # 1 /\ j # 1
    <3>1. i \in Nat /\ j \in Nat /\ i - 1 \in 1..Len(w) /\ j - 1 \in 1..Len(w)
          /\ v[i] = w[i - 1] /\ v[j] = w[j - 1]
      BY <1>4, <1>5, <1>6, <2>2
    <3>2. i - 1 = j - 1
      BY <1>2, <1>4, <3>1 DEF Picked, Distinct
    <3> QED BY <3>1, <3>2
  <2> QED BY <2>1, <2>2
<1>9. Saved(h, d, t) = Shortened(v)
  BY DEF Saved, v, w, e
<1>10. ASSUME Published(h, wr), t \in wr[d] PROVE Published(v, wr)
  <2> SUFFICES ASSUME NEW i \in DOMAIN v PROVE v[i].text \in wr[v[i].doc]
    BY DEF Published
  <2>1. CASE i = 1
    BY <1>3, <1>5, <1>10, <2>1
  <2>2. CASE i # 1
    <3>1. i - 1 \in 1..Len(w) /\ v[i] = w[i - 1]
      BY <1>5, <1>6, <2>2
    <3>2. PICK m \in 1..Len(h) : w[i - 1] = h[m]
      BY <1>7, <3>1
    <3> QED BY <1>1, <1>10, <3>1, <3>2 DEF Published
  <2> QED BY <2>1, <2>2
<1>11. GoodList(Shortened(v))
       /\ \A i \in DOMAIN Shortened(v) : i \in DOMAIN v /\ Shortened(v)[i] = v[i]
  BY <1>5, <1>8, ShortenedProperties
<1>12. Published(v, wr) => Published(Shortened(v), wr)
  BY <1>11 DEF Published
<1> QED BY <1>9, <1>10, <1>11, <1>12

\* The empty list is good.
LEMMA EmptyIsGood == GoodList(<<>>) /\ \A wr : Published(<<>>, wr)
<1>1. <<>> \in Seq(Entries) /\ Len(<<>>) = 0 /\ DOMAIN <<>> = {}
  OBVIOUS
<1> QED BY <1>1, OcrPageAssumption DEF GoodList, Published

-----------------------------------------------------------------------------
(***************************************************************************)
(* The cache: every step keeps HttpInv                                     *)
(***************************************************************************)

GetRecords ==
  [key : Keys \cup {<<>>}, value : Nat, late : BOOLEAN,
   step : {"idle", "handle", "answered"}, failed : BOOLEAN]

\* What RequestsAreServed says of one request, with the rows as given.
Served(g, te, wr) ==
  /\ g.step # "idle" => g.key \in Keys
  /\ g.step = "handle"
       => /\ g.value = NotReady /\ ~g.failed
          /\ g.late => g.key[1] = "ocr" /\ te[g.key[2]] # 0
  /\ g.step = "answered"
       => /\ g.key[1] = "ocr"
          /\ g.value # NotReady => g.value \in wr[g.key[2]]
          /\ g.late /\ ~g.failed => g.value # NotReady

\* RequestsAreServed, request by request.
LEMMA ServedIsInvariant ==
  RequestsAreServed <=> \A c \in Clients : Served(get[c], text, written)
  BY DEF RequestsAreServed, Served

\* A cache key is an endpoint and a document.
LEMMA KeyFacts ==
  ASSUME NEW k \in Keys
  PROVE  /\ k[1] \in {"ocr", "info"} /\ k[2] \in Docs /\ k = <<k[1], k[2]>>
  BY DEF Keys, Endpoints

\* No request promises nothing.
LEMMA NoGetIsServed ==
  NoGet \in GetRecords /\ \A te, wr : Served(NoGet, te, wr)
  BY DEF NoGet, GetRecords, Served, NotReady

\* An answer with a text written for the document is a good one.
LEMMA DeliveredIsServed ==
  ASSUME NEW g \in GetRecords, g.key \in Keys, g.step = "handle", ~g.failed,
         NEW v \in Nat, NEW te, NEW wr,
         g.key[1] = "ocr" => (v # NotReady => v \in wr[g.key[2]]),
         g.late => v # NotReady
  PROVE  /\ Delivered(g, v) \in GetRecords
         /\ Served(Delivered(g, v), te, wr)
<1>1. CASE g.key[1] = "info"
  BY <1>1, NoGetIsServed DEF Delivered
<1>2. CASE g.key[1] # "info"
  <2>1. g.key[1] = "ocr"
    BY <1>2, KeyFacts
  <2> DEFINE a == [g EXCEPT !.step = "answered", !.value = v]
  <2>2. Delivered(g, v) = a
    BY <1>2 DEF Delivered
  <2>3. a \in GetRecords /\ a.step = "answered" /\ a.value = v /\ a.key = g.key
        /\ a.late = g.late /\ a.failed = g.failed
    BY DEF GetRecords
  <2> HIDE DEF a
  <2> QED BY <2>1, <2>2, <2>3 DEF Served
<1> QED BY <1>1, <1>2

\* A request that only one client's record changes for.
LEMMA OneRequestChanges ==
  ASSUME HttpInv, NEW c \in Clients, NEW g \in GetRecords, Served(g, text, written),
         get' = [get EXCEPT ![c] = g], UNCHANGED rows
  PROVE  /\ get' \in [Clients -> GetRecords]
         /\ RequestsAreServed'
<1>1. get \in [Clients -> GetRecords]
  BY DEF HttpInv, HttpTypeOK, GetRecords
<1>2. \A b \in Clients : Served(get[b], text, written)
  BY ServedIsInvariant DEF HttpInv
<1>3. \A b \in Clients : Served(get'[b], text, written)
  BY <1>1, <1>2
<1>4. text' = text /\ written' = written
  BY DEF rows
<1>5. RequestsAreServed'
  BY <1>3, <1>4 DEF RequestsAreServed, Served
<1> QED BY <1>1, <1>5

\* A hit answers with what the cache holds, which was written; a miss goes to the handler.
LEMMA AskKeeps ==
  ASSUME HttpInv, NEW c \in Clients, NEW k \in Keys, Ask(c, k)
  PROVE  HttpInv'
<1> DEFINE e == cache[k]
           g == [key |-> k, step |-> "handle", value |-> NotReady, failed |-> FALSE,
                 late |-> k[1] = "ocr" /\ text[k[2]] # 0]
           r == IF e.left > 0 THEN Delivered(g, e.value) ELSE g
<1>1. get' = [get EXCEPT ![c] = r] /\ cache' = cache /\ fills' = fills
      /\ exists' = exists /\ text' = text /\ written' = written
  BY DEF Ask, CacheKey, Touched, rows
<1>2. k[1] \in {"ocr", "info"} /\ k[2] \in Docs /\ k = <<k[1], k[2]>>
  BY KeyFacts
<1>3. g \in GetRecords /\ g.key = k /\ g.step = "handle" /\ g.failed = FALSE
      /\ g.value = NotReady /\ g.late = (k[1] = "ocr" /\ text[k[2]] # 0)
  BY DEF GetRecords, NotReady
<1>4. e \in [value : Nat, left : 0..Ttl]
  BY DEF HttpInv, HttpTypeOK
<1>5. k[1] = "ocr" /\ e.left > 0 => e.value \in written[k[2]] /\ e.value # NotReady
  <2>1. k[1] = "ocr" /\ e.left > 0 => e.value \in written[k[2]]
    BY <1>2 DEF HttpInv, CacheIsWritten
  <2>2. written[k[2]] \subseteq Nat \ {0}
    BY <1>2, CacheAssumption DEF HttpInv, HttpTypeOK
  <2> QED BY <2>1, <2>2 DEF NotReady
<1> HIDE DEF g, e
<1>6. r \in GetRecords /\ Served(r, text, written)
  <2>1. CASE e.left > 0
    <3>1. e.value \in Nat
      BY <1>4
    <3>2. Delivered(g, e.value) \in GetRecords
          /\ Served(Delivered(g, e.value), text, written)
      BY <1>2, <1>3, <1>5, <2>1, <3>1, DeliveredIsServed
    <3> QED BY <2>1, <3>2
  <2>2. CASE ~(e.left > 0)
    <3>1. Served(g, text, written)
      BY <1>3 DEF Served
    <3> QED BY <1>3, <2>2, <3>1
  <2> QED BY <2>1, <2>2
<1> HIDE DEF r
<1>7. get' \in [Clients -> GetRecords] /\ RequestsAreServed'
  BY <1>1, <1>6, OneRequestChanges DEF rows
<1> QED BY <1>1, <1>7 DEF HttpInv, HttpTypeOK, RowsAreWritten, CacheIsWritten, GetRecords

\* The handler answers with the row, and leaves a write to the cache under way.
LEMMA HandleKeeps ==
  ASSUME HttpInv, NEW c \in Clients, Handle(c)
  PROVE  HttpInv'
<1> DEFINE g == get[c]
           k == get[c].key
<1>1. g.step = "handle" /\ k \in Keys /\ g \in GetRecords /\ Served(g, text, written)
      /\ g.key = k
  BY ServedIsInvariant DEF HttpInv, HttpTypeOK, GetRecords, Handle, RequestsAreServed
<1>2. g.value = NotReady /\ ~g.failed
      /\ (g.late => k[1] = "ocr" /\ text[k[2]] # 0)
  BY <1>1 DEF Served
<1>3. k[1] \in {"ocr", "info"} /\ k[2] \in Docs /\ k = <<k[1], k[2]>>
  BY <1>1, KeyFacts
<1>4. exists' = exists /\ text' = text /\ written' = written /\ cache' = cache
      /\ UNCHANGED rows
  BY DEF Handle, rows
<1>5. get \in [Clients -> GetRecords]
  BY DEF HttpInv, HttpTypeOK, GetRecords
<1>6. CASE /\ get' = [get EXCEPT ![c] = Delivered(@, Found(k))]
           /\ fills' = IF Cacheable(Found(k))
                       THEN fills \cup {[key |-> CacheKey(k), value |-> Found(k)]}
                       ELSE fills
  <2> DEFINE v == Found(k)
  <2>1. v \in Nat /\ (k[1] = "ocr" => v = text[k[2]])
    BY <1>3, CacheAssumption DEF Found, HttpInv, HttpTypeOK, Completed, Pending
  <2>2. k[1] = "ocr" => (v # NotReady => v \in written[k[2]])
    BY <1>3, <2>1 DEF HttpInv, RowsAreWritten, NotReady
  <2>3. g.late => v # NotReady
    BY <1>2, <2>1 DEF NotReady
  <2> HIDE DEF v
  <2>4. Delivered(g, v) \in GetRecords /\ Served(Delivered(g, v), text, written)
    <3> HIDE DEF g
    <3> QED BY <1>1, <1>2, <2>1, <2>2, <2>3, DeliveredIsServed
  <2>5. get' = [get EXCEPT ![c] = Delivered(g, v)]
    BY <1>5, <1>6 DEF v
  <2>6. get' \in [Clients -> GetRecords] /\ RequestsAreServed'
    <3> HIDE DEF g
    <3> QED BY <1>4, <2>4, <2>5, OneRequestChanges
  <2>7. \A f \in fills' : f \in fills \/ (f = [key |-> k, value |-> v] /\ v # NotReady)
    BY <1>6 DEF v, Cacheable, CacheKey
  <2>8. fills' \subseteq [key : Keys, value : Nat]
    BY <1>1, <2>1, <2>7 DEF HttpInv, HttpTypeOK
  <2>9. \A f \in fills' : f.key[1] = "ocr" => f.value \in written[f.key[2]]
    BY <2>2, <2>7 DEF HttpInv, CacheIsWritten
  <2> QED BY <1>4, <2>6, <2>8, <2>9
          DEF HttpInv, HttpTypeOK, RowsAreWritten, CacheIsWritten, GetRecords
<1>7. CASE /\ DbFaults /\ k[1] = "ocr"
           /\ get' = [get EXCEPT ![c].step = "answered", ![c].failed = TRUE]
           /\ UNCHANGED fills
  <2> DEFINE a == [g EXCEPT !.step = "answered", !.failed = TRUE]
  <2>1. get' = [get EXCEPT ![c] = a]
    BY <1>5, <1>7
  <2>2. a \in GetRecords /\ a.step = "answered" /\ a.value = NotReady /\ a.key = k
        /\ a.failed = TRUE
    BY <1>1, <1>2 DEF GetRecords
  <2> HIDE DEF a
  <2>3. Served(a, text, written)
    BY <1>1, <1>7, <2>2 DEF Served
  <2>4. get' \in [Clients -> GetRecords] /\ RequestsAreServed'
    BY <1>4, <2>1, <2>2, <2>3, OneRequestChanges
  <2> QED BY <1>4, <1>7, <2>4
          DEF HttpInv, HttpTypeOK, RowsAreWritten, CacheIsWritten, GetRecords
<1> QED BY <1>6, <1>7 DEF Handle

\* A late write brings an older text, but one that was written, and never the 404.
LEMMA FillKeeps ==
  ASSUME HttpInv, NEW f \in fills, Fill(f)
  PROVE  HttpInv'
<1>1. UNCHANGED <<exists, text, written, get>> /\ fills' = fills \ {f}
      /\ cache' = [cache EXCEPT ![f.key] = [value |-> f.value, left |-> Ttl]]
  BY DEF Fill, rows
<1>2. f.key \in Keys /\ f.value \in Nat /\ Ttl \in 0..Ttl
      /\ cache \in [Keys -> [value : Nat, left : 0..Ttl]]
  BY CacheAssumption DEF HttpInv, HttpTypeOK
<1>3. cache' \in [Keys -> [value : Nat, left : 0..Ttl]]
  BY <1>1, <1>2
<1>4. \A d \in Docs : <<"ocr", d>> \in Keys /\ <<"ocr", d>>[1] = "ocr" /\ <<"ocr", d>>[2] = d
  BY DEF Keys, Endpoints
<1>5. \A d \in Docs : cache'[<<"ocr", d>>].left > 0
                        => cache'[<<"ocr", d>>].value \in written[d]
  <2> SUFFICES ASSUME NEW d \in Docs, cache'[<<"ocr", d>>].left > 0
               PROVE  cache'[<<"ocr", d>>].value \in written[d]
    OBVIOUS
  <2>1. CASE f.key = <<"ocr", d>>
    <3>1. cache'[<<"ocr", d>>].value = f.value
      BY <1>1, <1>2, <1>4, <2>1
    <3>2. f.value \in written[f.key[2]]
      BY <1>4, <2>1 DEF HttpInv, CacheIsWritten
    <3> QED BY <1>4, <2>1, <3>1, <3>2
  <2>2. CASE f.key # <<"ocr", d>>
    <3>1. cache'[<<"ocr", d>>] = cache[<<"ocr", d>>]
      BY <1>1, <1>2, <1>4, <2>2
    <3> QED BY <3>1 DEF HttpInv, CacheIsWritten
  <2> QED BY <2>1, <2>2
<1>6. fills' \subseteq fills
  BY <1>1
<1>7. CacheIsWritten'
  BY <1>1, <1>5, <1>6 DEF CacheIsWritten, HttpInv
<1>8. RequestsAreServed' /\ RowsAreWritten'
  BY <1>1 DEF RequestsAreServed, RowsAreWritten, HttpInv
<1>9. HttpTypeOK'
  BY <1>1, <1>3, <1>6 DEF HttpTypeOK, HttpInv
<1> QED BY <1>7, <1>8, <1>9 DEF HttpInv

\* Expiry only removes entries.
LEMMA TickKeeps ==
  ASSUME HttpInv, Tick
  PROVE  HttpInv'
<1>1. UNCHANGED <<exists, text, written, get, fills>>
      /\ cache' = [k \in Keys |-> IF cache[k].left <= 1 THEN NoEntry
                                  ELSE [cache[k] EXCEPT !.left = @ - 1]]
  BY DEF Tick, rows
<1>2. \A k \in Keys : cache[k] \in [value : Nat, left : 0..Ttl]
  BY DEF HttpInv, HttpTypeOK
<1>3. \A k \in Keys : /\ cache'[k] \in [value : Nat, left : 0..Ttl]
                      /\ cache'[k].left > 0 => cache[k].left > 0
                                               /\ cache'[k].value = cache[k].value
  <2> SUFFICES ASSUME NEW k \in Keys
               PROVE  /\ cache'[k] \in [value : Nat, left : 0..Ttl]
                      /\ cache'[k].left > 0 => cache[k].left > 0
                                               /\ cache'[k].value = cache[k].value
    OBVIOUS
  <2>1. Ttl \in Nat /\ cache[k] \in [value : Nat, left : 0..Ttl]
    BY <1>2, CacheAssumption
  <2>2. CASE cache[k].left <= 1
    <3>1. cache'[k] = NoEntry
      BY <1>1, <2>2
    <3> QED BY <2>1, <3>1 DEF NoEntry, NotReady
  <2>3. CASE ~(cache[k].left <= 1)
    <3>1. cache'[k] = [cache[k] EXCEPT !.left = cache[k].left - 1]
      BY <1>1, <2>3
    <3>2. cache[k].left - 1 \in 0..Ttl /\ cache[k].left > 0
      BY <2>1, <2>3
    <3> QED BY <2>1, <3>1, <3>2
  <2> QED BY <2>2, <2>3
<1>4. cache' \in [Keys -> [value : Nat, left : 0..Ttl]]
  BY <1>1, <1>3
<1>5. \A d \in Docs : <<"ocr", d>> \in Keys
  BY DEF Keys, Endpoints
<1>6. CacheIsWritten'
  BY <1>1, <1>3, <1>5 DEF CacheIsWritten, HttpInv
<1>7. RequestsAreServed' /\ RowsAreWritten'
  BY <1>1 DEF RequestsAreServed, RowsAreWritten, HttpInv
<1>8. HttpTypeOK'
  BY <1>1, <1>4 DEF HttpTypeOK, HttpInv
<1> QED BY <1>6, <1>7, <1>8 DEF HttpInv

\* Writing a text only adds to what may be served.
LEMMA SaveOcrResultKeeps ==
  ASSUME HttpInv, NEW d \in Docs, SaveOcrResult(d)
  PROVE  HttpInv' /\ \A b \in Docs : written[b] \subseteq written'[b]
<1>1. UNCHANGED <<exists, cache, get, fills>>
  BY DEF SaveOcrResult
<1>2. PICK t \in Texts : /\ text' = [text EXCEPT ![d] = t]
                         /\ written' = [written EXCEPT ![d] = @ \cup {t}]
  BY DEF SaveOcrResult, Fresh
<1>3. t # 0 /\ text \in [Docs -> Texts \cup {0}] /\ written \in [Docs -> SUBSET Texts]
  BY CacheAssumption DEF HttpInv, HttpTypeOK
<1>4. text' \in [Docs -> Texts \cup {0}] /\ written' \in [Docs -> SUBSET Texts]
  BY <1>2, <1>3
<1>5. \A b \in Docs : /\ written[b] \subseteq written'[b]
                      /\ text[b] # 0 => text'[b] # 0
                      /\ text'[b] # 0 => text'[b] = text[b] \/ text'[b] \in written'[b]
  BY <1>2, <1>3
<1>6. RowsAreWritten'
  BY <1>5 DEF RowsAreWritten, HttpInv
<1>7. CacheIsWritten'
  <2>1. \A f \in fills : f.key[2] \in Docs
    BY KeyFacts DEF HttpInv, HttpTypeOK
  <2> QED BY <1>1, <1>5, <2>1 DEF CacheIsWritten, HttpInv
<1>8. RequestsAreServed'
  <2> SUFFICES ASSUME NEW c \in Clients PROVE Served(get[c], text', written')
    BY <1>1 DEF RequestsAreServed, Served
  <2>1. Served(get[c], text, written)
    BY ServedIsInvariant DEF HttpInv
  <2>2. get[c].step # "idle" => get[c].key[2] \in Docs
    BY <2>1, KeyFacts DEF Served
  <2>3. get[c].step = "handle" \/ get[c].step = "answered" \/ get[c].step = "idle"
    BY DEF HttpInv, HttpTypeOK
  <2> QED BY <1>5, <2>1, <2>2, <2>3 DEF Served
<1>9. HttpTypeOK'
  BY <1>1, <1>4 DEF HttpTypeOK, HttpInv
<1> QED BY <1>5, <1>6, <1>7, <1>8, <1>9 DEF HttpInv

\* A finished request leaves its client with none.
LEMMA AnsweredKeeps ==
  ASSUME HttpInv, NEW c \in Clients, Answered(c)
  PROVE  HttpInv'
<1>1. get' = [get EXCEPT ![c] = NoGet] /\ UNCHANGED <<exists, text, written, cache, fills>>
  BY DEF Answered, rows
<1>2. NoGet \in GetRecords /\ Served(NoGet, text, written)
  BY NoGetIsServed
<1>3. get' \in [Clients -> GetRecords] /\ RequestsAreServed'
  BY <1>1, <1>2, OneRequestChanges DEF rows
<1> QED BY <1>1, <1>3 DEF HttpInv, HttpTypeOK, RowsAreWritten, CacheIsWritten, GetRecords

\* A new row, and nothing else.
LEMMA CreateDocumentKeeps ==
  ASSUME HttpInv, NEW d \in Docs, CreateDocument(d), UNCHANGED <<cache, get, fills>>
  PROVE  HttpInv'
  BY DEF CreateDocument, HttpInv, HttpTypeOK, RowsAreWritten, CacheIsWritten,
         RequestsAreServed

\* Nothing happens to rows, cache and requests.
LEMMA StutterKeeps ==
  ASSUME HttpInv, UNCHANGED httpVars
  PROVE  HttpInv'
  BY DEF httpVars, rows, HttpInv, HttpTypeOK, RowsAreWritten, CacheIsWritten,
         RequestsAreServed

-----------------------------------------------------------------------------
(***************************************************************************)
(* The page: every step keeps PageInv                                      *)
(***************************************************************************)

\* The calls of the page are clients of the API.
LEMMA PollsAreClients == \A p \in Polls : p \in Clients
  BY OcrPageAssumption

\* One step of a call: p now has record r, and whoever has a request kept it or is p.
LEMMA OnePollChanges ==
  ASSUME PollsAreGood, NEW p \in Polls, NEW r \in PollRecords,
         r.state = "running" => r.doc \in Docs /\ GoodList(r.snap),
         poll' = [poll EXCEPT ![p] = r],
         \A q \in Polls : q # p => get'[q] = get[q],
         get'[p].step # "idle" => r.state = "running" /\ get'[p].key = <<"ocr", r.doc>>
  PROVE  PollsAreGood'
<1>1. poll \in [Polls -> PollRecords]
  BY DEF PollsAreGood
<1>2. poll' \in [Polls -> PollRecords] /\ poll'[p] = r
      /\ \A q \in Polls : q # p => poll'[q] = poll[q]
  BY <1>1
<1> QED BY <1>2 DEF PollsAreGood, GoodList

\* No call changes, and no request but its end.
LEMMA NoPollChanges ==
  ASSUME PollsAreGood, poll' = poll,
         \A q \in Polls : get'[q].step # "idle"
                            => get[q].step # "idle" /\ get'[q].key = get[q].key
  PROVE  PollsAreGood'
  BY DEF PollsAreGood, GoodList

NewPoll(d, snap, upload) ==
  [state |-> "running", doc |-> d, left |-> MaxAttempts, snap |-> snap,
   upload |-> upload]

EndedPoll == [NoPoll EXCEPT !.state = "ended"]

\* A call not yet made.
LEMMA NoPollIsGood == NoPoll \in PollRecords
<1>1. <<>> \in Seq(Entries) /\ MaxAttempts \in Nat
  BY OcrPageAssumption
<1> QED BY <1>1 DEF NoPoll, PollRecords

\* A call that has ended.
LEMMA EndedPollIsGood == EndedPoll \in PollRecords /\ EndedPoll.state = "ended"
  BY NoPollIsGood DEF EndedPoll, PollRecords

\* A new call starts with a list the page has held.
LEMMA BeginsKeeps ==
  ASSUME PageInv, NEW p \in Polls, NEW d \in Docs, NEW snap, GoodList(snap),
         NEW upload \in BOOLEAN, Begins(p, d, snap, upload), get' = get
  PROVE  PollsAreGood' /\ processing' \in BOOLEAN
<1> DEFINE r == NewPoll(d, snap, upload)
<1>1. r \in PollRecords /\ r.state = "running" /\ r.doc = d /\ r.snap = snap
  BY OcrPageAssumption DEF NewPoll, PollRecords, GoodList
<1>2. poll' = [poll EXCEPT ![p] = r] /\ processing' = TRUE /\ poll[p].state = "unused"
  BY DEF Begins, NewPoll
<1> HIDE DEF r
<1>3. get[p].step = "idle"
  BY <1>2 DEF PageInv, PollsAreGood
<1>4. PollsAreGood'
  BY <1>1, <1>2, <1>3, OnePollChanges DEF PageInv
<1> QED BY <1>2, <1>4

\* A call that ends clears the flags it owns.
LEMMA EndsKeeps ==
  ASSUME PageInv, NEW p \in Polls, Answered(p), Ends(p)
  PROVE  PollsAreGood' /\ processing' \in BOOLEAN /\ uploading' \in BOOLEAN
<1>1. poll' = [poll EXCEPT ![p] = EndedPoll] /\ processing' \in BOOLEAN
  BY DEF Ends, EndedPoll
<1>2. get' = [get EXCEPT ![p] = NoGet] /\ p \in Clients
  BY PollsAreClients DEF Answered
<1>3. DOMAIN get = Clients
  BY DEF PageInv, HttpInv, HttpTypeOK
<1>4. get'[p].step = "idle" /\ \A q \in Polls : q # p => get'[q] = get[q]
  BY <1>2, <1>3, PollsAreClients DEF NoGet
<1>5. PollsAreGood'
  BY <1>1, <1>4, EndedPollIsGood, OnePollChanges DEF PageInv
<1>6. uploading' \in BOOLEAN
  BY DEF Ends
<1> QED BY <1>1, <1>5, <1>6

\* The answer a poll acts on: a text of its document.
LEMMA AnswerIsText ==
  ASSUME PageInv, NEW p \in Polls, Answered(p), get[p].value # NotReady
  PROVE  /\ poll[p].state = "running" /\ poll[p].doc \in Docs /\ GoodList(poll[p].snap)
         /\ get[p].value \in written[poll[p].doc] /\ get[p].value \in Texts
<1>1. get[p].step = "answered" /\ p \in Clients
  BY PollsAreClients DEF Answered
<1>2. poll[p].state = "running" /\ get[p].key = <<"ocr", poll[p].doc>>
  BY <1>1 DEF PageInv, PollsAreGood
<1>3. poll[p].doc \in Docs /\ GoodList(poll[p].snap)
  BY <1>2 DEF PageInv, PollsAreGood
<1>4. get[p].value \in written[get[p].key[2]]
  BY <1>1 DEF PageInv, HttpInv, RequestsAreServed
<1>5. get[p].value \in written[poll[p].doc]
  BY <1>2, <1>4
<1>6. written[poll[p].doc] \subseteq Texts
  BY <1>3 DEF PageInv, HttpInv, HttpTypeOK
<1> QED BY <1>2, <1>3, <1>5, <1>6

\* The list without stale copies is a list the page may hold.
LEMMA IdealIsGood ==
  ASSUME NEW h, GoodList(h), Ideally(h)
  PROVE  GoodList(ideal')
<1>1. CASE crossed'
  BY <1>1, EmptyIsGood DEF Ideally
<1>2. CASE ~crossed'
  BY <1>2 DEF Ideally
<1> QED BY <1>1, <1>2

\* An upload captures the list of its render.
LEMMA HandleUploadKeeps ==
  ASSUME PageInv, HandleUpload
  PROVE  PageInv'
<1>1. UNCHANGED <<httpVars, get, poll, processing, image, history>>
      /\ uploading' = TRUE /\ result' = NoDoc /\ clicked' = history
      /\ crossed' \in BOOLEAN /\ Ideally(ideal)
  BY DEF HandleUpload, Snapshot, httpVars, PageInv, PageIsGood
<1>2. HttpInv'
  BY <1>1, StutterKeeps DEF PageInv
<1>3. PollsAreGood'
  BY <1>1, NoPollChanges DEF PageInv
<1>4. GoodList(ideal')
  BY <1>1, IdealIsGood DEF PageInv, PageIsGood
<1>5. PageIsGood'
  BY <1>1, <1>4 DEF PageInv, PageIsGood, GoodList
<1> QED BY <1>2, <1>3, <1>5 DEF PageInv

\* The answer of an upload begins a polling call with the captured list.
LEMMA UploadAnsweredKeeps ==
  ASSUME PageInv, NEW p \in Polls, NEW d \in Docs, UploadAnswered(p, d)
  PROVE  PageInv'
<1>1. UNCHANGED <<cache, get, fills, uploading, result, history, ideal, crossed>>
      /\ image' = d /\ clicked' = <<>> /\ Begins(p, d, clicked, TRUE)
      /\ CreateDocument(d)
  BY DEF UploadAnswered
<1>2. HttpInv'
  BY <1>1, CreateDocumentKeeps DEF PageInv
<1>3. PollsAreGood' /\ processing' \in BOOLEAN
  BY <1>1, BeginsKeeps DEF PageInv, PageIsGood
<1>4. PageIsGood'
  BY <1>1, <1>3, EmptyIsGood DEF PageInv, PageIsGood, GoodList
<1> QED BY <1>2, <1>3, <1>4 DEF PageInv

\* A failed upload begins none.
LEMMA UploadFailedKeeps ==
  ASSUME PageInv, UploadFailed
  PROVE  PageInv'
<1>1. UNCHANGED <<httpVars, get, poll, processing, image, result, history, ideal, crossed>>
      /\ uploading' = FALSE /\ clicked' = <<>>
  BY DEF UploadFailed, httpVars
<1>2. HttpInv'
  BY <1>1, StutterKeeps DEF PageInv
<1>3. PollsAreGood'
  BY <1>1, NoPollChanges DEF PageInv
<1>4. PageIsGood'
  BY <1>1, EmptyIsGood DEF PageInv, PageIsGood, GoodList
<1> QED BY <1>2, <1>3, <1>4 DEF PageInv

\* A retry begins a call with the list on screen.
LEMMA HandleRetryOcrKeeps ==
  ASSUME PageInv, NEW p \in Polls, HandleRetryOcr(p)
  PROVE  PageInv'
<1>1. UNCHANGED <<httpVars, get, uploading, image, result, history, clicked>>
      /\ Begins(p, image, history, FALSE) /\ image \in Docs /\ Ideally(ideal)
      /\ crossed' \in BOOLEAN
  BY DEF HandleRetryOcr, Snapshot, httpVars, PageInv, PageIsGood
<1>2. HttpInv'
  BY <1>1, StutterKeeps DEF PageInv
<1>3. PollsAreGood' /\ processing' \in BOOLEAN
  BY <1>1, BeginsKeeps DEF PageInv, PageIsGood
<1>4. GoodList(ideal')
  BY <1>1, IdealIsGood DEF PageInv, PageIsGood
<1>5. PageIsGood'
  BY <1>1, <1>3, <1>4 DEF PageInv, PageIsGood, GoodList
<1> QED BY <1>2, <1>3, <1>5 DEF PageInv

\* What a request for key k does to the record of its client.
LEMMA AskChanges ==
  ASSUME HttpInv, NEW c \in Clients, NEW k \in Keys, Ask(c, k)
  PROVE  /\ \A b \in Clients : b # c => get'[b] = get[b]
         /\ get'[c].step # "idle" => get'[c].key = k
<1> DEFINE g == [key |-> k, step |-> "handle", value |-> NotReady, failed |-> FALSE,
                 late |-> k[1] = "ocr" /\ text[k[2]] # 0]
<1>1. DOMAIN get = Clients
  BY DEF HttpInv, HttpTypeOK
<1>2. PICK v : get' = [get EXCEPT ![c] = v]
               /\ (v = g \/ \E w : v = Delivered(g, w))
  BY DEF Ask
<1>3. g.key = k
  OBVIOUS
<1> HIDE DEF g
<1>4. v.step # "idle" => v.key = k
  <2> SUFFICES ASSUME NEW w, v = Delivered(g, w), v # NoGet PROVE v.key = k
    BY <1>2, <1>3 DEF NoGet
  <2>1. v = [g EXCEPT !.step = "answered", !.value = w]
    BY DEF Delivered
  <2> QED BY <1>3, <2>1 DEF g
<1> QED BY <1>1, <1>2, <1>4

\* A poll sends its request.
LEMMA PollAsksKeeps ==
  ASSUME PageInv, NEW p \in Polls, PollAsks(p)
  PROVE  PageInv'
<1> DEFINE k == <<"ocr", poll[p].doc>>
<1>1. poll[p].state = "running" /\ Ask(p, k) /\ UNCHANGED pageVars
  BY DEF PollAsks
<1>2. poll[p].doc \in Docs /\ GoodList(poll[p].snap) /\ poll[p] \in PollRecords
      /\ DOMAIN poll = Polls /\ poll' = poll
  BY <1>1 DEF PageInv, PollsAreGood, pageVars
<1>3. k \in Keys /\ p \in Clients
  BY <1>2, PollsAreClients DEF Keys, Endpoints
<1>4. HttpInv'
  BY <1>1, <1>3, AskKeeps DEF PageInv
<1>5. /\ \A b \in Clients : b # p => get'[b] = get[b]
      /\ get'[p].step # "idle" => get'[p].key = k
  BY <1>1, <1>3, AskChanges DEF PageInv
<1>6. poll' = [poll EXCEPT ![p] = poll[p]]
  BY <1>2 DEF PageInv, PollsAreGood
<1>7. PollsAreGood'
  BY <1>1, <1>2, <1>5, <1>6, PollsAreClients, OnePollChanges DEF PageInv
<1>8. PageIsGood'
  BY <1>1 DEF PageInv, PageIsGood, pageVars, GoodList
<1> QED BY <1>4, <1>7, <1>8 DEF PageInv

\* The text is put in front of the call's copy of the list, which then is the list.
LEMMA PollSucceedsKeeps ==
  ASSUME PageInv, NEW p \in Polls, PollSucceeds(p)
  PROVE  PageInv'
<1>1. Answered(p) /\ Ends(p) /\ get[p].value # NotReady /\ result' = poll[p].doc
      /\ history' = Saved(poll[p].snap, poll[p].doc, get[p].value)
      /\ Ideally(Saved(ideal, poll[p].doc, get[p].value))
      /\ UNCHANGED <<crossed, image, clicked>>
  BY DEF PollSucceeds
<1>2. HttpInv'
  BY <1>1, PollsAreClients, AnsweredKeeps DEF PageInv
<1>3. PollsAreGood' /\ processing' \in BOOLEAN /\ uploading' \in BOOLEAN
  BY <1>1, EndsKeeps
<1>4. poll[p].doc \in Docs /\ GoodList(poll[p].snap) /\ get[p].value \in Texts
  BY <1>1, AnswerIsText
<1>5. GoodList(history') /\ GoodList(ideal')
  <2>1. GoodList(Saved(poll[p].snap, poll[p].doc, get[p].value))
    BY <1>4, SavedKeeps
  <2>2. GoodList(Saved(ideal, poll[p].doc, get[p].value))
    BY <1>4, SavedKeeps DEF PageInv, PageIsGood
  <2> QED BY <1>1, <2>1, <2>2, IdealIsGood
<1>6. PageIsGood'
  BY <1>1, <1>3, <1>4, <1>5 DEF PageInv, PageIsGood, GoodList
<1> QED BY <1>2, <1>3, <1>6 DEF PageInv

\* The page keeps its lists: flags and calls may change.
LEMMA ListsStay ==
  ASSUME PageInv, UNCHANGED <<image, result, history, clicked, ideal, crossed>>,
         processing' \in BOOLEAN, uploading' \in BOOLEAN
  PROVE  PageIsGood'
  BY DEF PageInv, PageIsGood, GoodList

\* A text not ready yet is asked for again, as long as attempts are left.
LEMMA PollWaitsKeeps ==
  ASSUME PageInv, NEW p \in Polls, PollWaits(p)
  PROVE  PageInv'
<1>1. Answered(p) /\ UNCHANGED <<image, result, history, clicked, ideal, crossed>>
  BY DEF PollWaits
<1>2. HttpInv'
  BY <1>1, PollsAreClients, AnsweredKeeps DEF PageInv
<1>3. CASE /\ poll[p].left > 1
           /\ poll' = [poll EXCEPT ![p].left = @ - 1]
           /\ UNCHANGED <<processing, uploading>>
  <2> DEFINE r == [poll[p] EXCEPT !.left = poll[p].left - 1]
  <2>1. poll[p] \in PollRecords /\ poll \in [Polls -> PollRecords]
        /\ (poll[p].state = "running" => poll[p].doc \in Docs /\ GoodList(poll[p].snap))
    BY DEF PageInv, PollsAreGood
  <2>2. poll' = [poll EXCEPT ![p] = r]
    BY <1>3, <2>1
  <2>3. poll[p].left - 1 \in 0..MaxAttempts
    BY <1>3, <2>1, OcrPageAssumption DEF PollRecords
  <2>4. r \in PollRecords /\ r.state = poll[p].state /\ r.doc = poll[p].doc
        /\ r.snap = poll[p].snap
    BY <2>1, <2>3 DEF PollRecords
  <2> HIDE DEF r
  <2>5. DOMAIN get = Clients /\ get' = [get EXCEPT ![p] = NoGet]
    BY <1>1 DEF Answered, PageInv, HttpInv, HttpTypeOK
  <2>6. get'[p].step = "idle" /\ \A q \in Polls : q # p => get'[q] = get[q]
    BY <2>5, PollsAreClients DEF NoGet
  <2>7. PollsAreGood'
    BY <2>1, <2>2, <2>4, <2>6, OnePollChanges DEF PageInv
  <2>8. PageIsGood'
    BY <1>1, <1>3, ListsStay DEF PageInv, PageIsGood
  <2> QED BY <1>2, <2>7, <2>8 DEF PageInv
<1>4. CASE Ends(p)
  <2>1. PollsAreGood' /\ processing' \in BOOLEAN /\ uploading' \in BOOLEAN
    BY <1>1, <1>4, EndsKeeps
  <2>2. PageIsGood'
    BY <1>1, <2>1, ListsStay
  <2> QED BY <1>2, <2>1, <2>2 DEF PageInv
<1> QED BY <1>3, <1>4 DEF PollWaits

\* After an error or the last attempt the call ends without an entry.
LEMMA PollFailsKeeps ==
  ASSUME PageInv, NEW p \in Polls, PollFails(p)
  PROVE  PageInv'
<1>1. Answered(p) /\ Ends(p) /\ UNCHANGED <<image, result, history, clicked, ideal, crossed>>
  BY DEF PollFails
<1>2. HttpInv'
  BY <1>1, PollsAreClients, AnsweredKeeps DEF PageInv
<1>3. PollsAreGood' /\ processing' \in BOOLEAN /\ uploading' \in BOOLEAN
  BY <1>1, EndsKeeps
<1>4. PageIsGood'
  BY <1>1, <1>3, ListsStay
<1> QED BY <1>2, <1>3, <1>4 DEF PageInv

\* Clearing the result leaves the list alone.
LEMMA HandleClearResultKeeps ==
  ASSUME PageInv, HandleClearResult
  PROVE  PageInv'
<1>1. UNCHANGED <<httpVars, get, poll, uploading, history, clicked, ideal, crossed>>
      /\ image' = NoDoc /\ result' = NoDoc /\ processing' = FALSE
  BY DEF HandleClearResult, httpVars
<1>2. HttpInv'
  BY <1>1, StutterKeeps DEF PageInv
<1>3. PollsAreGood'
  BY <1>1, NoPollChanges DEF PageInv
<1>4. PageIsGood'
  BY <1>1 DEF PageInv, PageIsGood, GoodList
<1> QED BY <1>2, <1>3, <1>4 DEF PageInv

\* Deleting an entry leaves a list.
LEMMA HandleDeleteHistoryKeeps ==
  ASSUME PageInv, NEW d \in Docs, HandleDeleteHistory(d)
  PROVE  PageInv'
<1>1. UNCHANGED <<httpVars, get, poll, uploading, processing, image, result, clicked>>
      /\ history' = Without(history, d) /\ crossed' \in BOOLEAN
      /\ Ideally(Without(ideal, d))
  BY DEF HandleDeleteHistory, httpVars, PageInv, PageIsGood
<1>2. HttpInv'
  BY <1>1, StutterKeeps DEF PageInv
<1>3. PollsAreGood'
  BY <1>1, NoPollChanges DEF PageInv
<1>4. GoodList(history') /\ GoodList(ideal')
  BY <1>1, WithoutKeeps, IdealIsGood DEF PageInv, PageIsGood
<1>5. PageIsGood'
  BY <1>1, <1>4 DEF PageInv, PageIsGood, GoodList
<1> QED BY <1>2, <1>3, <1>5 DEF PageInv

\* So does deleting all.
LEMMA HandleClearAllHistoryKeeps ==
  ASSUME PageInv, HandleClearAllHistory
  PROVE  PageInv'
<1>1. UNCHANGED <<httpVars, get, poll, uploading, processing, image, result, clicked>>
      /\ history' = <<>> /\ crossed' \in BOOLEAN /\ ideal' = <<>>
  BY DEF HandleClearAllHistory, httpVars, PageInv, PageIsGood
<1>2. HttpInv'
  BY <1>1, StutterKeeps DEF PageInv
<1>3. PollsAreGood'
  BY <1>1, NoPollChanges DEF PageInv
<1>4. PageIsGood'
  BY <1>1, EmptyIsGood DEF PageInv, PageIsGood, GoodList
<1> QED BY <1>2, <1>3, <1>4 DEF PageInv

\* Nothing happens on the page.
LEMMA PageStays ==
  ASSUME PageInv, UNCHANGED pageVars
  PROVE  PageIsGood' /\ poll' = poll
  BY DEF PageInv, PageIsGood, pageVars, GoodList

\* A reader of the document info is another client.
LEMMA ReaderAsksKeeps ==
  ASSUME PageInv, NEW d \in InfoDocs, ReaderAsks(d)
  PROVE  PageInv'
<1>1. Ask(Reader, <<"info", d>>) /\ UNCHANGED pageVars
  BY DEF ReaderAsks
<1>2. <<"info", d>> \in Keys /\ Reader \in Clients /\ Reader \notin Polls
  BY CacheAssumption, OcrPageAssumption DEF Keys, Endpoints
<1>3. HttpInv'
  BY <1>1, <1>2, AskKeeps DEF PageInv
<1>4. \A q \in Polls : get'[q] = get[q]
  BY <1>1, <1>2, AskChanges, PollsAreClients DEF PageInv
<1>5. PollsAreGood'
  BY <1>1, <1>4, PageStays, NoPollChanges DEF PageInv
<1> QED BY <1>1, <1>3, <1>5, PageStays DEF PageInv

\* Steps of the API do not touch the page.
LEMMA HttpStepKeeps ==
  ASSUME PageInv, HttpStep, UNCHANGED pageVars
  PROVE  PageInv'
<1>1. PageIsGood' /\ poll' = poll
  BY PageStays
<1>2. ASSUME NEW c \in Clients, Handle(c) PROVE PageInv'
  <2>1. HttpInv'
    BY <1>2, HandleKeeps DEF PageInv
  <2>2. get \in [Clients -> GetRecords]
    BY DEF PageInv, HttpInv, HttpTypeOK, GetRecords
  <2>3. PICK v : get' = [get EXCEPT ![c] = v]
                 /\ (v.step # "idle" => v.key = get[c].key) /\ get[c].step # "idle"
    <3>1. \A w : Delivered(get[c], w).step # "idle"
                   => Delivered(get[c], w).key = get[c].key
      BY <2>2 DEF Delivered, NoGet, GetRecords
    <3>2. CASE get' = [get EXCEPT ![c] = Delivered(@, Found(get[c].key))]
      BY <1>2, <2>2, <3>1, <3>2 DEF Handle
    <3>3. CASE get' = [get EXCEPT ![c].step = "answered", ![c].failed = TRUE]
      <4> DEFINE a == [get[c] EXCEPT !.step = "answered", !.failed = TRUE]
      <4>1. get' = [get EXCEPT ![c] = a] /\ a.key = get[c].key
        BY <2>2, <3>3 DEF GetRecords
      <4> QED BY <1>2, <4>1 DEF Handle
    <3> QED BY <1>2, <3>2, <3>3 DEF Handle
  <2>4. \A q \in Polls : get'[q].step # "idle"
                            => get[q].step # "idle" /\ get'[q].key = get[q].key
    BY <2>2, <2>3, PollsAreClients
  <2> QED BY <1>1, <2>1, <2>4, NoPollChanges DEF PageInv
<1>3. ASSUME HttpInv', get' = get PROVE PageInv'
  BY <1>1, <1>3, NoPollChanges DEF PageInv
<1>4. ASSUME NEW f \in fills, Fill(f) PROVE PageInv'
  BY <1>3, <1>4, FillKeeps DEF PageInv, Fill
<1>5. ASSUME Tick PROVE PageInv'
  BY <1>3, <1>5, TickKeeps DEF PageInv, Tick
<1>6. ASSUME NEW d \in Docs, SaveOcrResult(d) PROVE PageInv'
  BY <1>3, <1>6, SaveOcrResultKeeps DEF PageInv, SaveOcrResult
<1> QED BY <1>2, <1>4, <1>5, <1>6 DEF HttpStep

\* An empty page, an empty cache and no row.
LEMMA PageInvInit == Init => PageInv
<1> SUFFICES ASSUME Init PROVE PageInv
  OBVIOUS
<1>1. HttpTypeOK
  <2>1. NoEntry \in [value : Nat, left : 0..Ttl]
    BY CacheAssumption DEF NoEntry, NotReady
  <2>2. NoGet \in GetRecords
    BY NoGetIsServed
  <2> QED BY <2>1, <2>2 DEF Init, HttpInit, HttpTypeOK, GetRecords
<1>2. RowsAreWritten
  BY DEF Init, HttpInit, RowsAreWritten
<1>3. CacheIsWritten
  BY DEF Init, HttpInit, CacheIsWritten, NoEntry, Keys, Endpoints
<1>4. RequestsAreServed
  BY DEF Init, HttpInit, RequestsAreServed, NoGet
<1>5. PageIsGood
  BY EmptyIsGood DEF Init, PageIsGood
<1>6. PollsAreGood
  BY NoPollIsGood, PollsAreClients DEF Init, HttpInit, PollsAreGood, NoPoll, NoGet
<1> QED BY <1>1, <1>2, <1>3, <1>4, <1>5, <1>6 DEF PageInv, HttpInv

\* Every action keeps PageInv.
LEMMA PageInvNext == PageInv /\ [Next]_vars => PageInv'
<1> SUFFICES ASSUME PageInv, [Next]_vars PROVE PageInv'
  OBVIOUS
<1>1. ASSUME NEW p \in Polls, NEW d \in Docs, UploadAnswered(p, d) PROVE PageInv'
  BY <1>1, UploadAnsweredKeeps
<1>2. ASSUME NEW p \in Polls, HandleRetryOcr(p) PROVE PageInv'
  BY <1>2, HandleRetryOcrKeeps
<1>3. ASSUME NEW p \in Polls, PollStep(p) PROVE PageInv'
  BY <1>3, PollAsksKeeps, PollSucceedsKeeps, PollWaitsKeeps, PollFailsKeeps DEF PollStep
<1>4. ASSUME NEW d \in Docs, HandleDeleteHistory(d) PROVE PageInv'
  BY <1>4, HandleDeleteHistoryKeeps
<1>5. ASSUME NEW d \in InfoDocs, ReaderAsks(d) PROVE PageInv'
  BY <1>5, ReaderAsksKeeps
<1>6. CASE HttpStep /\ UNCHANGED pageVars
  BY <1>6, HttpStepKeeps
<1>7. CASE UNCHANGED vars
  <2>1. UNCHANGED httpVars /\ UNCHANGED pageVars /\ get' = get
    BY <1>7 DEF vars, httpVars
  <2> QED BY <2>1, StutterKeeps, PageStays, NoPollChanges DEF PageInv
<1> QED BY <1>1, <1>2, <1>3, <1>4, <1>5, <1>6, <1>7, HandleUploadKeeps, UploadFailedKeeps,
           HandleClearResultKeeps, HandleClearAllHistoryKeeps DEF Next

\* PageInv holds throughout.
LEMMA PageInvariant == Spec => []PageInv
  BY PageInvInit, PageInvNext, PTL DEF Spec

\* Type correctness: the list never holds a document twice or more than MAX_HISTORY
\* entries, in React state, in the copy of an upload and without stale copies.
THEOREM TypeCorrect == Spec => []TypeOK
<1>1. PageInv => TypeOK
  BY DEF PageInv, HttpInv, PageIsGood, PollsAreGood, PollRecords, TypeOK, GoodList
<1> QED BY <1>1, PageInvariant, PTL

\* A poll sent after the text was saved is answered with a text of that document,
\* whatever the cache holds.
THEOREM PollingSeesTheText == Spec => []PublishedIsServed
<1>1. PageInv => PublishedIsServed
  BY DEF PageInv, HttpInv, RequestsAreServed, PublishedIsServed
<1> QED BY <1>1, PageInvariant, PTL

-----------------------------------------------------------------------------
(***************************************************************************)
(* The contents of the list                                                *)
(***************************************************************************)

\* Nothing that a list may hold is ever taken back.
LEMMA WrittenGrows ==
  ASSUME PageInv, [Next]_vars
  PROVE  \A b \in Docs : written[b] \subseteq written'[b]
<1>1. ASSUME NEW d \in Docs, SaveOcrResult(d)
      PROVE  \A b \in Docs : written[b] \subseteq written'[b]
  BY <1>1, SaveOcrResultKeeps DEF PageInv
<1>2. ASSUME written' = written
      PROVE  \A b \in Docs : written[b] \subseteq written'[b]
  BY <1>2
<1>3. ASSUME NEW p \in Polls, NEW d \in Docs, UploadAnswered(p, d) PROVE written' = written
  BY <1>3 DEF UploadAnswered, CreateDocument
<1>4. ASSUME NEW p \in Polls, HandleRetryOcr(p) PROVE written' = written
  BY <1>4 DEF HandleRetryOcr, httpVars, rows
<1>5. ASSUME NEW p \in Polls, PollStep(p) PROVE written' = written
  BY <1>5 DEF PollStep, PollAsks, PollSucceeds, PollWaits, PollFails, Ask, Answered, rows
<1>6. ASSUME NEW d \in Docs, HandleDeleteHistory(d) PROVE written' = written
  BY <1>6 DEF HandleDeleteHistory, httpVars, rows
<1>7. ASSUME NEW d \in InfoDocs, ReaderAsks(d) PROVE written' = written
  BY <1>7 DEF ReaderAsks, Ask, rows
<1>8. ASSUME HttpStep, ~\E d \in Docs : SaveOcrResult(d) PROVE written' = written
  BY <1>8 DEF HttpStep, Handle, Fill, Tick, rows
<1>9. ASSUME UNCHANGED vars PROVE written' = written
  BY <1>9 DEF vars, httpVars, rows
<1>10. ASSUME HandleUpload \/ UploadFailed \/ HandleClearResult \/ HandleClearAllHistory
       PROVE  written' = written
  BY <1>10 DEF HandleUpload, UploadFailed, HandleClearResult, HandleClearAllHistory,
               httpVars, rows
<1> QED BY <1>1, <1>2, <1>3, <1>4, <1>5, <1>6, <1>7, <1>8, <1>9, <1>10 DEF Next

\* Texts written for a document are never taken back.
LEMMA PublishedStays ==
  ASSUME NEW h, GoodList(h), NEW wr, NEW wr2, \A b \in Docs : wr[b] \subseteq wr2[b],
         Published(h, wr)
  PROVE  Published(h, wr2)
<1>1. \A i \in DOMAIN h : h[i].doc \in Docs
  <2>1. \A i \in DOMAIN h : h[i] \in Entries
    BY DEF GoodList
  <2> QED BY <2>1 DEF Entries
<1> QED BY <1>1 DEF Published

\* Every list is one that was there, empty, or one a call made of its copy.
LEMMA CopiesNext ==
  ASSUME PageInv, CopiesArePublished, [Next]_vars
  PROVE  CopiesArePublished'
<1> DEFINE Ok(h) == Published(h, written')
           Runs(p) == poll[p].state = "running"
<1>1. \A b \in Docs : written[b] \subseteq written'[b]
  BY WrittenGrows
<1>2. Ok(history) /\ Ok(clicked)
  BY <1>1, PublishedStays DEF CopiesArePublished, PageInv, PageIsGood
<1>3. \A p \in Polls : Runs(p) => Ok(poll[p].snap)
  BY <1>1, PublishedStays DEF CopiesArePublished, PageInv, PollsAreGood
<1>4. Ok(<<>>)
  BY EmptyIsGood
<1>5. SUFFICES /\ Ok(history') /\ Ok(clicked')
               /\ \A p \in Polls : poll'[p].state = "running" => Ok(poll'[p].snap)
  BY DEF CopiesArePublished
<1>6. DOMAIN poll = Polls
  BY DEF PageInv, PollsAreGood
<1> HIDE DEF Ok
<1> DEFINE Goal == /\ Ok(history') /\ Ok(clicked')
                   /\ \A p \in Polls : poll'[p].state = "running" => Ok(poll'[p].snap)
<1>7. ASSUME NEW p \in Polls, NEW r, r.state = "running" => Ok(r.snap),
             poll' = [poll EXCEPT ![p] = r], Ok(history'), Ok(clicked')
      PROVE  Goal
  BY <1>3, <1>6, <1>7
<1>8. ASSUME poll' = poll, Ok(history'), Ok(clicked') PROVE Goal
  BY <1>3, <1>8
<1>9. ASSUME NEW p \in Polls, NEW d \in Docs, UploadAnswered(p, d) PROVE Goal
  <2>1. poll' = [poll EXCEPT ![p] = NewPoll(d, clicked, TRUE)]
        /\ history' = history /\ clicked' = <<>>
    BY <1>9 DEF UploadAnswered, Begins, NewPoll
  <2>2. NewPoll(d, clicked, TRUE).snap = clicked
    BY DEF NewPoll
  <2> QED BY <1>2, <1>4, <1>7, <2>1, <2>2
<1>10. ASSUME NEW p \in Polls, HandleRetryOcr(p) PROVE Goal
  <2>1. poll' = [poll EXCEPT ![p] = NewPoll(image, history, FALSE)]
        /\ history' = history /\ clicked' = clicked
    BY <1>10 DEF HandleRetryOcr, Begins, NewPoll, Snapshot
  <2>2. NewPoll(image, history, FALSE).snap = history
    BY DEF NewPoll
  <2> QED BY <1>2, <1>7, <2>1, <2>2
<1>11. ASSUME NEW p \in Polls, Ends(p), Ok(history'), Ok(clicked') PROVE Goal
  <2>1. poll' = [poll EXCEPT ![p] = EndedPoll]
    BY <1>11 DEF Ends, EndedPoll
  <2> QED BY <1>7, <1>11, <2>1, EndedPollIsGood
<1>12. ASSUME NEW p \in Polls, PollAsks(p) PROVE Goal
  BY <1>2, <1>8, <1>12 DEF PollAsks, pageVars
<1>13. ASSUME NEW p \in Polls, PollSucceeds(p) PROVE Goal
  <2>1. Answered(p) /\ get[p].value # NotReady /\ Ends(p) /\ clicked' = clicked
        /\ history' = Saved(poll[p].snap, poll[p].doc, get[p].value)
    BY <1>13 DEF PollSucceeds
  <2>2. /\ Runs(p) /\ poll[p].doc \in Docs /\ GoodList(poll[p].snap)
        /\ get[p].value \in written[poll[p].doc] /\ get[p].value \in Texts
    BY <2>1, AnswerIsText
  <2>3. get[p].value \in written'[poll[p].doc] /\ Published(poll[p].snap, written')
    BY <1>1, <1>3, <2>2 DEF Ok
  <2>4. Published(Saved(poll[p].snap, poll[p].doc, get[p].value), written')
    BY <2>2, <2>3, SavedKeeps
  <2>5. Ok(history')
    BY <2>1, <2>4 DEF Ok
  <2> QED BY <1>2, <1>11, <2>1, <2>5
<1>14. ASSUME NEW p \in Polls, PollWaits(p) PROVE Goal
  <2>1. history' = history /\ clicked' = clicked
    BY <1>14 DEF PollWaits
  <2>2. CASE Ends(p)
    BY <1>2, <1>11, <2>1, <2>2
  <2>3. CASE poll' = [poll EXCEPT ![p].left = @ - 1]
    <3> DEFINE r == [poll[p] EXCEPT !.left = poll[p].left - 1]
    <3>1. poll[p] \in PollRecords
      BY DEF PageInv, PollsAreGood
    <3>2. poll' = [poll EXCEPT ![p] = r] /\ r.state = poll[p].state
          /\ r.snap = poll[p].snap
      BY <2>3, <3>1 DEF PollRecords
    <3> HIDE DEF r
    <3> QED BY <1>2, <1>3, <1>7, <2>1, <3>2
  <2> QED BY <1>14, <2>2, <2>3 DEF PollWaits
<1>15. ASSUME NEW p \in Polls, PollFails(p) PROVE Goal
  BY <1>2, <1>11, <1>15 DEF PollFails
<1>16. ASSUME NEW d \in Docs, HandleDeleteHistory(d) PROVE Goal
  <2>1. history' = Without(history, d) /\ poll' = poll /\ clicked' = clicked
    BY <1>16 DEF HandleDeleteHistory
  <2>2. Ok(Without(history, d))
    BY <1>2, WithoutKeeps DEF PageInv, PageIsGood, Ok
  <2> QED BY <1>2, <1>8, <2>1, <2>2
<1>17. ASSUME UNCHANGED pageVars PROVE Goal
  BY <1>2, <1>8, <1>17 DEF pageVars
<1>18. ASSUME HandleUpload \/ UploadFailed \/ HandleClearResult \/ HandleClearAllHistory
       PROVE  Goal
  <2>1. poll' = poll /\ (history' = history \/ history' = <<>>)
        /\ (clicked' = clicked \/ clicked' = history \/ clicked' = <<>>)
    BY <1>18 DEF HandleUpload, UploadFailed, HandleClearResult, HandleClearAllHistory,
                 Snapshot
  <2> QED BY <1>2, <1>4, <1>8, <2>1
<1>19. ASSUME NEW d \in InfoDocs, ReaderAsks(d) PROVE UNCHANGED pageVars
  BY <1>19 DEF ReaderAsks
<1>20. ASSUME UNCHANGED vars PROVE UNCHANGED pageVars
  BY <1>20 DEF vars
<1> HIDE DEF Goal
<1>21. Goal
  <2>1. ASSUME NEW p \in Polls, PollStep(p) PROVE Goal
    BY <1>12, <1>13, <1>14, <1>15, <2>1 DEF PollStep
  <2> QED BY <1>9, <1>10, <1>16, <1>17, <1>18, <1>19, <1>20, <2>1 DEF Next
<1> QED BY <1>21 DEF Goal

\* What the page saved for a document is a text the pipeline wrote for it.
THEOREM SavedIsPublished == Spec => []HistoryIsPublished
<1>1. Init => CopiesArePublished
  <2>1. \A wr : Published(<<>>, wr)
    BY EmptyIsGood
  <2> QED BY <2>1 DEF Init, CopiesArePublished, NoPoll
<1>2. PageInv /\ CopiesArePublished /\ [Next]_vars => CopiesArePublished'
  BY CopiesNext
<1>3. CopiesArePublished => HistoryIsPublished
  BY DEF CopiesArePublished, Published, HistoryIsPublished
<1> QED BY <1>1, <1>2, <1>3, PageInvariant, PTL DEF Spec

\* A call that ends was the only one, as long as nothing crossed.
LEMMA CurrentAfterEnd ==
  ASSUME PageInv, CopiesAreCurrent, ~crossed, NEW p \in Polls,
         poll[p].state = "running", Ends(p)
  PROVE  /\ \A q \in Polls : poll'[q].state # "running"
         /\ uploading' = FALSE
<1>1. DOMAIN poll = Polls /\ uploading \in BOOLEAN
  BY DEF PageInv, PollsAreGood, PageIsGood
<1>2. poll' = [poll EXCEPT ![p] = EndedPoll] /\ uploading' = (uploading /\ ~poll[p].upload)
  BY DEF Ends, EndedPoll
<1>3. EndedPoll.state = "ended"
  BY EndedPollIsGood
<1>4. \A q \in Polls : poll[q].state = "running" => q = p
  BY DEF CopiesAreCurrent
<1>5. poll[p].upload = uploading
  BY DEF CopiesAreCurrent
<1>6. \A q \in Polls : poll'[q].state # "running"
  BY <1>1, <1>2, <1>3, <1>4
<1> QED BY <1>2, <1>5, <1>6

\* As long as calls do not cross, each copy of the list is the list.
LEMMA CurrentNext ==
  ASSUME PageInv, CopiesAreCurrent, [Next]_vars
  PROVE  CopiesAreCurrent'
<1> SUFFICES ASSUME ~crossed' PROVE CopiesAreCurrent'
  BY DEF CopiesAreCurrent
<1>1. DOMAIN poll = Polls /\ uploading \in BOOLEAN
  BY DEF PageInv, PollsAreGood, PageIsGood
\* Nothing runs and nothing is sent.
<1>2. ASSUME history' = ideal', \A q \in Polls : poll'[q].state # "running",
             uploading' = FALSE
      PROVE  CopiesAreCurrent'
  BY <1>2 DEF CopiesAreCurrent, Sending
<1>3. ASSUME NEW p \in Polls, NEW d \in Docs, UploadAnswered(p, d) PROVE CopiesAreCurrent'
  <2>1. poll' = [poll EXCEPT ![p] = NewPoll(d, clicked, TRUE)] /\ Sending /\ uploading
        /\ UNCHANGED <<history, ideal, uploading, crossed>>
    BY <1>3 DEF UploadAnswered, Begins, NewPoll, Sending
  <2>2. history = ideal /\ clicked = history
        /\ \A q \in Polls : poll[q].state = "running" => poll[q].upload = uploading
    BY <2>1 DEF CopiesAreCurrent
  <2>3. \A q \in Polls : poll[q].state # "running"
    BY <2>1, <2>2 DEF Sending
  <2> DEFINE r == NewPoll(d, clicked, TRUE)
  <2>4. r.state = "running" /\ r.snap = clicked /\ r.upload = TRUE
    BY DEF NewPoll
  <2> HIDE DEF r
  <2>5. poll'[p] = r /\ \A q \in Polls : poll'[q].state = "running" => q = p
    BY <1>1, <2>1, <2>3 DEF r
  <2>6. ~Sending'
    BY <2>4, <2>5 DEF Sending
  <2>7. uploading = TRUE
    BY <1>1, <2>1
  <2> QED BY <2>1, <2>2, <2>4, <2>5, <2>6, <2>7 DEF CopiesAreCurrent
<1>4. ASSUME NEW p \in Polls, HandleRetryOcr(p) PROVE CopiesAreCurrent'
  <2>1. poll' = [poll EXCEPT ![p] = NewPoll(image, history, FALSE)]
        /\ UNCHANGED <<history, uploading>> /\ ideal' = ideal
        /\ ~crossed /\ ~uploading /\ ~Running
    BY <1>4 DEF HandleRetryOcr, Begins, NewPoll, Ideally, Snapshot
  <2>2. history = ideal /\ \A q \in Polls : poll[q].state # "running"
    BY <2>1 DEF CopiesAreCurrent, Running
  <2> DEFINE r == NewPoll(image, history, FALSE)
  <2>3. r.state = "running" /\ r.snap = history /\ r.upload = FALSE
    BY DEF NewPoll
  <2> HIDE DEF r
  <2>4. poll'[p] = r /\ \A q \in Polls : poll'[q].state = "running" => q = p
    BY <1>1, <2>1, <2>2 DEF r
  <2>5. ~Sending' /\ uploading = FALSE
    BY <1>1, <2>1 DEF Sending
  <2> QED BY <2>1, <2>2, <2>3, <2>4, <2>5 DEF CopiesAreCurrent
<1>5. ASSUME UNCHANGED <<uploading, history, clicked, ideal, crossed, poll>>
      PROVE  CopiesAreCurrent'
  BY <1>5 DEF CopiesAreCurrent, Sending
<1>6. ASSUME NEW p \in Polls, Answered(p) PROVE poll[p].state = "running"
  BY <1>6 DEF Answered, PageInv, PollsAreGood
<1>7. ASSUME NEW p \in Polls, PollSucceeds(p) PROVE CopiesAreCurrent'
  <2>1. Answered(p) /\ Ends(p) /\ ~crossed
        /\ history' = Saved(poll[p].snap, poll[p].doc, get[p].value)
        /\ ideal' = Saved(ideal, poll[p].doc, get[p].value)
    BY <1>7 DEF PollSucceeds, Ideally
  <2>2. poll[p].state = "running"
    BY <1>6, <2>1
  <2>3. poll[p].snap = history /\ history = ideal
    BY <2>1, <2>2 DEF CopiesAreCurrent
  <2>4. (\A q \in Polls : poll'[q].state # "running") /\ uploading' = FALSE
    BY <2>1, <2>2, CurrentAfterEnd
  <2> QED BY <1>2, <2>1, <2>3, <2>4
<1>8. ASSUME NEW p \in Polls, Answered(p), Ends(p), UNCHANGED <<history, ideal, crossed>>
      PROVE  CopiesAreCurrent'
  <2>1. poll[p].state = "running" /\ ~crossed
    BY <1>6, <1>8
  <2>2. history = ideal
    BY <2>1 DEF CopiesAreCurrent
  <2>3. (\A q \in Polls : poll'[q].state # "running") /\ uploading' = FALSE
    BY <1>8, <2>1, CurrentAfterEnd
  <2> QED BY <1>2, <1>8, <2>2, <2>3
<1>9. ASSUME NEW p \in Polls, PollWaits(p) PROVE CopiesAreCurrent'
  <2>1. CASE Ends(p)
    BY <1>8, <1>9, <2>1 DEF PollWaits
  <2>2. CASE poll' = [poll EXCEPT ![p].left = @ - 1] /\ UNCHANGED uploading
    <3>1. poll \in [Polls -> PollRecords]
      BY DEF PageInv, PollsAreGood
    <3>2. \A q \in Polls : /\ poll'[q].state = poll[q].state
                           /\ poll'[q].snap = poll[q].snap
                           /\ poll'[q].upload = poll[q].upload
      BY <2>2, <3>1 DEF PollRecords
    <3>3. UNCHANGED <<history, clicked, ideal, crossed>>
      BY <1>9 DEF PollWaits
    <3> QED BY <2>2, <3>2, <3>3 DEF CopiesAreCurrent, Sending
  <2> QED BY <1>9, <2>1, <2>2 DEF PollWaits
<1>10. ASSUME NEW p \in Polls, PollStep(p) PROVE CopiesAreCurrent'
  <2>1. CASE PollAsks(p)
    BY <1>5, <2>1 DEF PollAsks, pageVars
  <2>2. CASE PollFails(p)
    BY <1>8, <2>2 DEF PollFails
  <2> QED BY <1>7, <1>9, <1>10, <2>1, <2>2 DEF PollStep
<1>11. ASSUME HandleUpload PROVE CopiesAreCurrent'
  <2>1. clicked' = history /\ history' = history /\ ideal' = ideal /\ poll' = poll
        /\ ~crossed /\ ~Running
    BY <1>11 DEF HandleUpload, Snapshot, Ideally
  <2>2. history = ideal /\ \A q \in Polls : poll[q].state # "running"
    BY <2>1 DEF CopiesAreCurrent, Running
  <2> QED BY <2>1, <2>2 DEF CopiesAreCurrent
<1>12. ASSUME UploadFailed PROVE CopiesAreCurrent'
  <2>1. Sending /\ uploading' = FALSE /\ UNCHANGED <<history, ideal, poll, crossed>>
    BY <1>12 DEF UploadFailed
  <2>2. \A q \in Polls : poll[q].state # "running"
    BY <2>1 DEF CopiesAreCurrent, Sending
  <2>3. history = ideal
    BY <2>1 DEF CopiesAreCurrent
  <2> QED BY <1>2, <2>1, <2>2, <2>3
<1>13. ASSUME NEW d \in Docs, HandleDeleteHistory(d) PROVE CopiesAreCurrent'
  <2>1. history' = Without(history, d) /\ ideal' = Without(ideal, d) /\ poll' = poll
        /\ ~crossed /\ ~uploading /\ ~Running /\ uploading' = uploading
    BY <1>13 DEF HandleDeleteHistory, Ideally
  <2>2. history = ideal /\ (\A q \in Polls : poll[q].state # "running")
        /\ uploading = FALSE
    BY <1>1, <2>1 DEF CopiesAreCurrent, Running
  <2> QED BY <1>2, <2>1, <2>2
<1>14. ASSUME HandleClearAllHistory PROVE CopiesAreCurrent'
  <2>1. history' = ideal' /\ poll' = poll /\ ~uploading /\ ~Running
        /\ uploading' = uploading
    BY <1>14 DEF HandleClearAllHistory
  <2>2. (\A q \in Polls : poll[q].state # "running") /\ uploading = FALSE
    BY <1>1, <2>1 DEF Running
  <2> QED BY <1>2, <2>1, <2>2
<1>15. ASSUME HandleClearResult PROVE CopiesAreCurrent'
  BY <1>5, <1>15 DEF HandleClearResult
<1>16. ASSUME UNCHANGED pageVars PROVE CopiesAreCurrent'
  BY <1>5, <1>16 DEF pageVars
<1>17. ASSUME NEW d \in InfoDocs, ReaderAsks(d) PROVE CopiesAreCurrent'
  BY <1>16, <1>17 DEF ReaderAsks
<1>18. ASSUME UNCHANGED vars PROVE CopiesAreCurrent'
  BY <1>16, <1>18 DEF vars
<1> QED BY <1>3, <1>4, <1>10, <1>11, <1>12, <1>13, <1>14, <1>15, <1>16, <1>17, <1>18
        DEF Next

\* Unless calls cross, no result is lost and no deleted entry comes back.
THEOREM NothingIsLost == Spec => []HistoryIsComplete
<1>1. Init => CopiesAreCurrent
  BY DEF Init, CopiesAreCurrent, NoPoll, Sending
<1>2. PageInv /\ CopiesAreCurrent /\ [Next]_vars => CopiesAreCurrent'
  BY CurrentNext
<1>3. CopiesAreCurrent => HistoryIsComplete
  BY DEF CopiesAreCurrent, HistoryIsComplete
<1> QED BY <1>1, <1>2, <1>3, PageInvariant, PTL DEF Spec

=============================================================================
