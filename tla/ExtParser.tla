----------------------------- MODULE ExtParser -----------------------------
(***************************************************************************)
(* The contract between parse_ext (edid.c) and the parsers it calls for    *)
(* one extension block, _di_edid_cta_parse and _di_displayid_parse: what   *)
(* the caller may rely on about the verdict, about errno and about memory. *)
(*                                                                         *)
(* The contract is weaker than one would like, because the code is: a      *)
(* parser may return false without setting errno (errno' = errno below),   *)
(* and it may leave allocations behind that nothing points to              *)
(* (live > owned).  What it does promise: once a calloc has failed, errno  *)
(* says so until the parser returns.                                       *)
(***************************************************************************)
EXTENDS Naturals

CONSTANTS ENOMEM,      \* what a failed calloc leaves in errno
          Rejections   \* the errno values the parser assigns itself

VARIABLES status,   \* "parsing", "ok" (returned true) or "failed" (false)
          errno,
          oom,      \* a calloc of this parser has failed
          owned,    \* allocations reachable from the parser's structure
          live      \* allocations made by the parser and not freed yet

vars == <<status, errno, oom, owned, live>>

Init == /\ status = "parsing"
        /\ oom = FALSE
        /\ owned = 0
        /\ live = 0

(* errno and oom over a stretch of parsing that may assign R to errno.     *)
Errors(R) == /\ oom' \in BOOLEAN /\ (oom => oom')
             /\ errno' \in {errno, ENOMEM} \cup R
             /\ oom' => errno' = ENOMEM

(* A failed calloc that the parser swallows shows in errno only.           *)
Work == /\ status' \in {"parsing", "ok"}
        /\ Errors({})
        /\ owned' \in Nat /\ owned' >= owned
        /\ live' \in Nat /\ live' - live >= owned' - owned

(* Returning false: the caller frees the structure at once, so nothing is  *)
(* owned any more, whatever is still live.                                 *)
Reject == /\ status' = "failed"
          /\ Errors(Rejections)
          /\ owned' = 0
          /\ live' \in Nat

Next == status = "parsing" /\ (Work \/ Reject)

Spec == Init /\ [][Next]_vars
=============================================================================
