--------------------------- MODULE MCFocusSession ---------------------------
(***************************************************************************)
(* FocusSession for TLC.  Requests are interchangeable.                    *)
(***************************************************************************)
EXTENDS FocusSession, TLC

Symmetry == Permutations(Reqs)
=============================================================================
