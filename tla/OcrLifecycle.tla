---------------------------- MODULE OcrLifecycle ----------------------------
(***************************************************************************)
(* What the upload-and-OCR pipeline promises the rest of the system (chat  *)
(* context, document endpoints, the web client's polling) about a          *)
(* document: it is created once, and its text is published at most once,   *)
(* in one step, and then stays.                                            *)
(***************************************************************************)
CONSTANTS Docs, Texts

VARIABLES
  phase,  \* "absent", "open" (row exists, OCR not done) or "published"
  text    \* the published text and pages, 0 before

Init ==
  /\ phase = [d \in Docs |-> "absent"]
  /\ text = [d \in Docs |-> 0]

Create(d) ==
  /\ phase[d] = "absent"
  /\ phase' = [phase EXCEPT ![d] = "open"]
  /\ UNCHANGED text

Publish(d) ==
  /\ phase[d] = "open"
  /\ phase' = [phase EXCEPT ![d] = "published"]
  /\ text'[d] \in Texts
  /\ text' = [text EXCEPT ![d] = text'[d]]

Next == \E d \in Docs : Create(d) \/ Publish(d)

Spec == Init /\ [][Next]_<<phase, text>>
=============================================================================
