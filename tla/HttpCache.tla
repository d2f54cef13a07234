------------------------------ MODULE HttpCache ------------------------------
(***************************************************************************)
(* The GET side of the document endpoints: HttpCacheInterceptor in front   *)
(* of UploadController.getOcrResult and getDocumentInfo.  Both look at the *)
(* OcrResult row, which SaveOcrResult of OcrPipeline creates and which a   *)
(* later run may write again.  Nothing that writes it tells the cache.     *)
(*                                                                         *)
(* A request looks its key up, on a miss the handler reads the database,   *)
(* and an answer that is an object is sent and, at the same time, stored   *)
(* for the time to live.  A 404 is an exception and is not stored.         *)
(***************************************************************************)
EXTENDS Naturals, FiniteSets

CONSTANTS
  Docs,     \* documents
  Texts,    \* OCR texts; bound: each is written once, so they are also the runs
  InfoDocs, \* bound: the documents whose info is read
  Clients,  \* who sends GETs, one at a time each
  Ttl,      \* cache.ttl, in ticks
  DbFaults  \* whether the database read of getOcrResult may fail

ASSUME CacheAssumption ==
  /\ Texts \subseteq Nat \ {0}
  /\ InfoDocs \subseteq Docs
  /\ Ttl \in Nat \ {0}
  /\ DbFaults \in BOOLEAN

VARIABLES
  exists,       \* documents that have a row
  text,         \* OcrResult.fullText, 0 while there is no such row
  written,      \* history: the texts its row has ever held
  cache,        \* key -> [value, left], left = 0 when there is no entry
  get,          \* client -> its request
  fills         \* cache.set calls that have not been executed

rows     == <<exists, text, written>>
httpVars == <<rows, cache, get, fills>>

Endpoints == {"ocr", "info"}
Keys      == Endpoints \X Docs

NotReady == 0  \* the 404 OCR_NOT_READY; also "no value"

\* What getDocumentInfo answers: ocrStatus, as a number so that entries compare.
Pending   == 1
Completed == 2

NoEntry == [value |-> NotReady, left |-> 0]
NoGet   == [key |-> <<>>, step |-> "idle", value |-> NotReady,
            late |-> FALSE, failed |-> FALSE]

HttpInit ==
  /\ exists = {}
  /\ text = [d \in Docs |-> 0]
  /\ written = [d \in Docs |-> {}]
  /\ cache = [k \in Keys |-> NoEntry]
  /\ get = [c \in Clients |-> NoGet]
  /\ fills = {}

\* Mutant: the key is the route, without the document.
CacheKey_Route(k) == <<k[1], CHOOSE d \in Docs : TRUE>>

\* generateCacheKey: the URL, which names endpoint and document.
CacheKey(k) == k

\* Mutant: a hit starts the time to live again.
Touched_Slides(k) == [cache EXCEPT ![CacheKey(k)].left = IF @ = 0 THEN 0 ELSE Ttl]

\* A hit leaves the entry as it is.
Touched(k) == cache

\* An answer reaches its client.  Info is only shown; the OCR poll takes its answer
\* in a step of its own.
Delivered(g, v) ==
  IF g.key[1] = "info" THEN NoGet ELSE [g EXCEPT !.step = "answered", !.value = v]

\* A request comes in and is looked up.  History in it: whether there was a text by
\* then, and whether its database read failed.
Ask(c, k) ==
  LET e == cache[CacheKey(k)]
      g == [key |-> k, step |-> "handle", value |-> NotReady, failed |-> FALSE,
            late |-> k[1] = "ocr" /\ text[k[2]] # 0]
  IN  /\ get[c].step = "idle"
      /\ k[2] \in exists
      /\ get' = [get EXCEPT ![c] = IF e.left > 0 THEN Delivered(g, e.value) ELSE g]
      /\ cache' = Touched(k)
      /\ UNCHANGED <<rows, fills>>

\* What the handler finds in the database.
Found(k) ==
  IF k[1] = "ocr" THEN text[k[2]]
  ELSE IF text[k[2]] # 0 THEN Completed ELSE Pending

\* Mutant: the not-ready answer is stored like the others.
Cacheable_All(v) == TRUE

\* response && typeof response === 'object'
Cacheable(v) == v # NotReady

\* getOcrResult answers not-ready also when the read fails.
Handle(c) ==
  LET k == get[c].key IN
  /\ get[c].step = "handle"
  /\ \/ /\ get' = [get EXCEPT ![c] = Delivered(@, Found(k))]
        /\ fills' = IF Cacheable(Found(k))
                    THEN fills \cup {[key |-> CacheKey(k), value |-> Found(k)]}
                    ELSE fills
     \/ /\ DbFaults /\ k[1] = "ocr"
        /\ get' = [get EXCEPT ![c].step = "answered", ![c].failed = TRUE]
        /\ UNCHANGED fills
  /\ UNCHANGED <<rows, cache>>

\* cacheManager.set arrives, however late.
Fill(f) ==
  /\ cache' = [cache EXCEPT ![f.key] = [value |-> f.value, left |-> Ttl]]
  /\ fills' = fills \ {f}
  /\ UNCHANGED <<rows, get>>

\* Time passes for every entry.
Tick ==
  /\ cache' = [k \in Keys |-> IF cache[k].left <= 1 THEN NoEntry
                              ELSE [cache[k] EXCEPT !.left = @ - 1]]
  /\ cache' # cache
  /\ UNCHANGED <<rows, get, fills>>

\* An upload has created the document.
CreateDocument(d) ==
  /\ d \notin exists
  /\ exists' = exists \cup {d}
  /\ UNCHANGED <<text, written>>

Fresh == Texts \ UNION {written[d] : d \in Docs}

\* A run of the pipeline upserts the OcrResult: the first one, or one that repeats
\* after a failure further on.
SaveOcrResult(d) ==
  /\ d \in exists
  /\ \E t \in Fresh :
       /\ \A u \in Fresh : t <= u
       /\ text' = [text EXCEPT ![d] = t]
       /\ written' = [written EXCEPT ![d] = @ \cup {t}]
  /\ UNCHANGED <<exists, cache, get, fills>>

HttpStep ==
  \/ \E c \in Clients : Handle(c)
  \/ \E f \in fills : Fill(f)
  \/ Tick
  \/ \E d \in Docs : SaveOcrResult(d)

\* Sets arrive, entries expire.
HttpFairness ==
  /\ WF_httpVars(\E f \in fills : Fill(f))
  /\ WF_httpVars(Tick)

-----------------------------------------------------------------------------
(***************************************************************************)
(* Properties                                                              *)
(***************************************************************************)

\* The types of the variables of this module.
HttpTypeOK ==
  /\ exists \subseteq Docs
  /\ written \in [Docs -> SUBSET Texts]
  /\ text \in [Docs -> Texts \cup {0}]
  /\ cache \in [Keys -> [value : Nat, left : 0..Ttl]]
  /\ get \in [Clients -> [key : Keys \cup {<<>>}, value : Nat, late : BOOLEAN,
                          step : {"idle", "handle", "answered"},
                          failed : BOOLEAN]]
  /\ fills \subseteq [key : Keys, value : Nat]

\* Polling sees the text as soon as it is saved: a request for the OCR result that
\* was sent after that is never answered "not ready" (unless its database read
\* failed), whatever the cache holds and whoever filled it.
PublishedIsServed ==
  \A c \in Clients :
    get[c].step = "answered" /\ get[c].key[1] = "ocr" /\ get[c].late /\ ~get[c].failed
      => get[c].value \in written[get[c].key[2]]

\* The document's info may be served from a stale entry, and a slow fill may even
\* put "pending" back over "completed", but not for ever: once there is a text
\* there is a time after which no entry says "pending".
InfoCatchesUp ==
  \A d \in InfoDocs :
    text[d] # 0 ~> [](cache[<<"info", d>>].value # Pending)
=============================================================================
