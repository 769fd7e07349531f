------------------------------ MODULE Selection ------------------------------
(***************************************************************************)
(* What a filtering loop or a list comprehension makes of a list.  The     *)
(* SelectSeq of Sequences says the same by a test of the elements; that    *)
(* this one is given the positions lets the proofs speak of them.          *)
(***************************************************************************)
EXTENDS Naturals, Sequences

\* The elements of s at the positions is, in their order.
Kept(s, is) ==
    LET kept[n \in 0..Len(s)] ==
            IF n = 0 THEN <<>>
            ELSE IF n \in is THEN Append(kept[n - 1], s[n]) ELSE kept[n - 1]
    IN  kept[Len(s)]
=============================================================================
