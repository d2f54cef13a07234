---------------------------- MODULE MCChatServer ----------------------------
(***************************************************************************)
(* ChatServer for TLC.  Requests are interchangeable, and so are           *)
(* conversations.                                                          *)
(***************************************************************************)
EXTENDS ChatServer, TLC

Symmetry == Permutations(Reqs) \cup Permutations(Convs)
=============================================================================
