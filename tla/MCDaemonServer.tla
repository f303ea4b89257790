--------------------------- MODULE MCDaemonServer ---------------------------
(***************************************************************************)
(* Small instances of DaemonServer for TLC.                                *)
(***************************************************************************)
EXTENDS DaemonServer, TLC

\* Connections and domain values are interchangeable: used by the runs that
\* check no liveness.
Symmetry == Permutations(Conns) \cup Permutations(Doms)
=============================================================================
