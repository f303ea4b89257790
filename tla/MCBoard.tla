------------------------------ MODULE MCBoard ------------------------------
(***************************************************************************)
(* Small instances of Board for TLC.                                       *)
(***************************************************************************)
EXTENDS Board, TLC

\* Session ids are interchangeable.
Symmetry == Permutations(Uuids)
=============================================================================
