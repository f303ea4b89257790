----------------------------- MODULE MCWorktrees -----------------------------
(* Values for the constants of Worktrees. *)
EXTENDS Worktrees, TLC

CONSTANTS t1, t2

\* t1 has two repositories, t2 one; the first of t1 may be renamed, and that of t2.
MCStart   == (t1 :> <<"a1", "b1">>) @@ (t2 :> <<"a2">>)
MCRenamed == (t1 :> <<"a3", "b3">>) @@ (t2 :> <<"a4">>)

=============================================================================
