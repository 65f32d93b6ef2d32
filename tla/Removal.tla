------------------------------- MODULE Removal -------------------------------
(***************************************************************************)
(* What is left of a sequence without the elements of a set, in the order  *)
(* they had: retain() and filter() of the code.  SelectSeq, as a recursive *)
(* function over a set, which a proof can follow.                          *)
(***************************************************************************)
EXTENDS Naturals, Sequences

Remaining(s, gone) ==
    LET left[i \in 0..Len(s)] ==
          IF i = 0 THEN <<>>
          ELSE IF s[i] \in gone THEN left[i - 1] ELSE Append(left[i - 1], s[i])
    IN  left[Len(s)]
=============================================================================
