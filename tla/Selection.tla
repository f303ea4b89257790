----------------------------- MODULE Selection -----------------------------
(***************************************************************************)
(* The elements of a sequence that are in a set: SelectSeq with a set for  *)
(* its test.  It is written as a recursive function because the provers    *)
(* know nothing of SelectSeq; module SelectionProofs has the facts.        *)
(***************************************************************************)
EXTENDS Naturals, Sequences

\* Those elements of s that are in A, in the order they have in s.
Only(s, A) ==
  LET f[i \in 0 .. Len(s)] ==
        IF i = 0 THEN << >>
        ELSE IF s[i] \in A THEN Append(f[i - 1], s[i]) ELSE f[i - 1]
  IN  f[Len(s)]
=============================================================================
