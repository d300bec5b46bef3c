---------------------------- MODULE Subsequences ----------------------------
(***************************************************************************)
(* What a filter, a fold or a loop over a list comes to, in a form that    *)
(* can be reasoned about: SelectSeq takes an operator.                     *)
(***************************************************************************)
EXTENDS Naturals, Sequences

\* The elements of s at the positions in I, in their order.
Picked(s, I) ==
  LET picked[n \in 0..Len(s)] ==
        IF n = 0 THEN << >>
        ELSE IF n \in I THEN Append(picked[n - 1], s[n])
        ELSE picked[n - 1]
  IN  picked[Len(s)]
=============================================================================
