----------------------------- MODULE MCSessions -----------------------------
(***************************************************************************)
(* Small instances of Sessions for TLC.                                    *)
(***************************************************************************)
EXTENDS Sessions, TLC

\* Projects, tasks and session ids are interchangeable.
Symmetry == Permutations(Projects) \cup Permutations(Tasks) \cup Permutations(Uuids)
=============================================================================
