-------------------------------- MODULE Lists --------------------------------
(***************************************************************************)
(* The loops of the parsers that walk an array and append what they keep,  *)
(* and the ones that stop at the first hit.  They choose places, as sets   *)
(* of indices: the operators of the standard modules that filter a         *)
(* sequence take an operator, which no theorem can speak of.               *)
(***************************************************************************)
EXTENDS Integers, Sequences, FiniteSetsExt

(* The elements of s at the places, in order.                              *)
Picked(s, places) ==
  LET picked[n \in 0..Len(s)] ==
        IF n = 0 THEN <<>>
        ELSE IF n \in places THEN Append(picked[n - 1], s[n]) ELSE picked[n - 1]
  IN  picked[Len(s)]

(* The first of the places of s, or none.                                  *)
FirstOf(s, places, none) == IF places = {} THEN none ELSE s[Min(places)]
=============================================================================
