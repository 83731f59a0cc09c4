------------------------------ MODULE TlvWalk ------------------------------
(***************************************************************************)
(* What every "walk a list of tag-length-value elements" loop of the       *)
(* library promises: starting at Lo, it hands out consecutive elements     *)
(* that lie entirely below `end', and it stops.  The loops of              *)
(* _di_edid_cta_parse and _di_displayid_parse are shown to implement it.   *)
(***************************************************************************)
EXTENDS Naturals

CONSTANTS Lo,         \* offset of the first element
          HeaderLen   \* bytes an element takes before its payload

VARIABLES elem,   \* the element handed out last: bytes [elem.at, elem.next)
          end,    \* exclusive upper bound of the region that holds elements
          done    \* the loop has been left

vars == <<elem, end, done>>

Init == /\ elem = [at |-> Lo, next |-> Lo]
        /\ end \in Nat
        /\ done = FALSE

(* Hand out the next element: a header and a payload of any length.        *)
Take == /\ ~done
        /\ elem' \in [at : Nat, next : Nat]
        /\ elem'.at = elem.next
        /\ elem'.next >= elem.next + HeaderLen
        /\ elem'.next <= end
        /\ done' \in BOOLEAN
        /\ UNCHANGED end

Leave == /\ ~done
         /\ done' = TRUE
         /\ UNCHANGED <<elem, end>>

Next == Take \/ Leave

Spec == Init /\ [][Next]_vars

=============================================================================
