--------------------------- MODULE CtaTermination ---------------------------
(***************************************************************************)
(* That the loops of _di_edid_cta_parse come to an end.  An iteration that *)
(* changes nothing looks like no step at all: a parser that looks at the   *)
(* same data block for ever would seem to stand still, and fairness would  *)
(* be held to make it go on.  So a clock ticks in every step.              *)
(***************************************************************************)
EXTENDS CtaBlock

VARIABLE odd    \* ghost: the parity of the number of steps taken

ticking == <<vars, odd>>

Start == Init /\ odd = FALSE

Tick == Next /\ odd' = ~odd

(* The parser is one function running on one thread: it keeps taking steps. *)
FairSpec == Start /\ [][Tick]_ticking /\ WF_ticking(Tick)

(* Whatever the lengths in the block are, the loops over data blocks,      *)
(* timings and padding all end: the parser returns.                        *)
Terminates == <>(pc \in {"done", "failed"})
=============================================================================
