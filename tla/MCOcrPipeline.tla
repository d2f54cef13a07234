--------------------------- MODULE MCOcrPipeline ---------------------------
(***************************************************************************)
(* OcrPipeline for TLC.  Documents are interchangeable, and so are the API *)
(* processes; the symmetry is used only by runs without liveness.          *)
(***************************************************************************)
EXTENDS OcrPipeline, TLC

Symmetry == Permutations(Docs) \cup Permutations(Procs)
=============================================================================
