------------------------------- MODULE Filter -------------------------------
(***************************************************************************)
(* Array.filter: the elements of a sequence at some indices, in order.  It *)
(* is SelectSeq, written as a recursive function because SelectSeq cannot  *)
(* be expanded in a proof.                                                 *)
(***************************************************************************)
EXTENDS Integers, Sequences

Kept(s, indices) ==
    LET f[n \in 0 .. Len(s)] ==
            IF n = 0 THEN <<>>
            ELSE IF n \in indices THEN Append(f[n - 1], s[n]) ELSE f[n - 1]
    IN  f[Len(s)]
=============================================================================
