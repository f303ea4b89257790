--------------------------- MODULE MCSidecarTurns ---------------------------
(***************************************************************************)
(* Small instances of SidecarTurns for TLC.                                *)
(***************************************************************************)
EXTENDS SidecarTurns, TLC

\* Chats are interchangeable.
Symmetry == Permutations(Chats)
=============================================================================
