------------------------------ MODULE EdidExts ------------------------------
(***************************************************************************)
(* _di_edid_parse (edid.c): the checks on the whole EDID, the base section *)
(* as one step, and the loop over the extension blocks; parse_ext; and     *)
(* _di_edid_destroy.                                                       *)
(*                                                                         *)
(* The parsers parse_ext calls are represented by their contract, module   *)
(* ExtParser: a parser keeps some allocations, or returns false with an    *)
(* errno the contract allows, and may leave allocations behind.  The       *)
(* failure report is left to the modules of the parsers.                   *)
(*                                                                         *)
(* A definition named X_Something is X with a plausible mistake in it; it  *)
(* takes part in no specification.                                         *)
(***************************************************************************)
EXTENDS Naturals, Sequences

CONSTANTS
  BlockSize,     \* EDID_BLOCK_SIZE, 128
  MaxBlocks,     \* EDID_MAX_BLOCK_COUNT, 256: also the size of edid->exts[]
  Sizes,         \* input sizes in bytes
  Counts,        \* values of byte 0x7E, a byte: at most MaxBlocks - 1
  ExtTags,       \* tags the extension blocks may have
  BaseAllocs,    \* allocations the base section may keep
  NestedAllocs,  \* allocations the structure of one extension may keep
  Leaks,         \* allocations a parser may leave behind
  StaleErrnos    \* values errno may have when the library is called

ASSUME ExtsGeometry == /\ BlockSize \in Nat \ {0} /\ MaxBlocks \in Nat \ {0}
                       /\ Sizes \subseteq Nat
                       /\ Counts \subseteq 0..(MaxBlocks - 1)
ASSUME ExtsHeap == BaseAllocs \subseteq Nat /\ NestedAllocs \subseteq Nat /\ Leaks \subseteq Nat
ASSUME ExtsTags == ExtTags \subseteq {"cta", "displayid", "opaque", "unknown"}

Errnos == {"0", "EINVAL", "ENOTSUP", "ENOMEM"}
ASSUME ExtsErrnos == StaleErrnos \subseteq Errnos

Heads == {"ok", "bad header", "bad version", "bad checksum"}

VARIABLES
  blob,      \* the input: its size, byte 0x7E, and what is wrong with block 0
  pc,        \* "start", "exts", "done", "null" (returned NULL), "destroyed"
  exts_len,  \* extension blocks to parse
  i,         \* extension blocks parsed or skipped so far
  exts,      \* edid->exts: for each entry the block it came from and its tag
  skipped,   \* ghost: blocks parse_ext dropped; oom: because a calloc failed
  owned,     \* allocations _di_edid_destroy would free
  lost,      \* ghost: allocations a parser left behind
  live,      \* allocations that have not been freed
  errno

vars == <<blob, pc, exts_len, i, exts, skipped, owned, lost, live, errno>>

TypeOK ==
  /\ blob \in [size : Sizes, count : Counts, head : Heads]
  /\ pc \in {"start", "exts", "done", "null", "destroyed"}
  /\ exts_len \in Nat /\ i \in 0..exts_len
  /\ exts \in Seq([block : Nat, tag : ExtTags \ {"unknown"}])
  /\ skipped \in Seq([block : Nat, oom : BOOLEAN])
  /\ owned \in Nat /\ lost \in Nat /\ live \in Nat
  /\ errno \in Errnos

Init ==
  /\ blob \in [size : Sizes, count : Counts, head : Heads]
  /\ pc = "start"
  /\ exts_len = 0 /\ i = 0
  /\ exts = <<>> /\ skipped = <<>>
  /\ owned = 0 /\ lost = 0 /\ live = 0
  /\ errno \in StaleErrnos

-----------------------------------------------------------------------------
(* Block 0.                                                                *)
HeadError ==
  IF blob.size < BlockSize THEN "EINVAL"
  ELSE CASE blob.head \in {"bad header", "bad checksum"} -> "EINVAL"
         [] blob.head = "bad version"                    -> "ENOTSUP"
         [] OTHER                                        -> "0"

RejectHead ==
  /\ pc = "start" /\ HeadError # "0"
  /\ errno' = HeadError
  /\ pc' = "null"
  /\ UNCHANGED <<blob, exts_len, i, exts, skipped, owned, lost, live>>

(* The structure, or something in the base section, cannot be allocated.   *)
(* What was kept is destroyed; a descriptor loses what hung off it.        *)
BaseAllocFails == \E l \in Leaks :
  /\ pc = "start" /\ HeadError = "0"
  /\ errno' = "ENOMEM"
  /\ lost' = lost + l /\ live' = live + l
  /\ pc' = "null"
  /\ UNCHANGED <<blob, exts_len, i, exts, skipped, owned>>

(* The smaller of what the size and what byte 0x7E says.                   *)
BlocksInSize == blob.size \div BlockSize - 1
ExtsLen_Encoded == blob.count
ExtsLen == IF blob.count < BlocksInSize THEN blob.count ELSE BlocksInSize

ParseBase == \E n \in BaseAllocs :
  /\ pc = "start" /\ HeadError = "0"
  /\ exts_len' = ExtsLen
  /\ owned' = 1 + n /\ live' = live + 1 + n
  /\ pc' = "exts"
  /\ UNCHANGED <<blob, i, exts, skipped, lost, errno>>

-----------------------------------------------------------------------------
(* parse_ext on the block at offset NextBlock * BlockSize.                 *)
NextBlock_AfterKept == Len(exts) + 1
NextBlock == i + 1
InLoop == pc = "exts" /\ i < exts_len

Keep(tag, n, l) ==
  /\ exts' = Append(exts, [block |-> NextBlock, tag |-> tag])
  /\ owned' = owned + 1 + n
  /\ lost' = lost + l /\ live' = live + 1 + n + l
  /\ i' = i + 1
  /\ UNCHANGED <<blob, pc, exts_len, skipped>>

Skip_NotFreed(oom, l) ==
  /\ skipped' = Append(skipped, [block |-> NextBlock, oom |-> oom])
  /\ lost' = lost + l /\ live' = live + l + 1
  /\ i' = i + 1
  /\ UNCHANGED <<blob, pc, exts_len, exts, owned>>

(* The extension structure is freed and parse_ext returns true.            *)
Skip(oom, l) ==
  /\ skipped' = Append(skipped, [block |-> NextBlock, oom |-> oom])
  /\ lost' = lost + l /\ live' = live + l
  /\ i' = i + 1
  /\ UNCHANGED <<blob, pc, exts_len, exts, owned>>

(* parse_ext returns false: _di_edid_destroy, and NULL to the caller.      *)
GiveUp(l) ==
  /\ lost' = lost + l /\ live' = (live + l) - owned
  /\ owned' = 0
  /\ exts' = <<>>
  /\ pc' = "null"
  /\ UNCHANGED <<blob, exts_len, i, skipped>>

ExtBadChecksum == InLoop /\ errno' = "EINVAL" /\ GiveUp(0)
ExtAllocFails == InLoop /\ errno' = "ENOMEM" /\ GiveUp(0)

ExtOpaque ==
  /\ InLoop /\ "opaque" \in ExtTags
  /\ Keep("opaque", 0, 0)
  /\ UNCHANGED errno

ExtUnknown_Kept ==
  /\ InLoop /\ "unknown" \in ExtTags
  /\ Keep("unknown", 0, 0)
  /\ UNCHANGED errno

ExtUnknown ==
  /\ InLoop /\ "unknown" \in ExtTags
  /\ Skip(FALSE, 0)
  /\ UNCHANGED errno

(* errno values each nested parser assigns, and those for which parse_ext  *)
(* takes the failure for a malformed block and carries on.                 *)
Rejections == [cta |-> {"EINVAL"}, displayid |-> {"EINVAL", "ENOTSUP"}]
Tolerated_Any == [cta |-> Errnos, displayid |-> Errnos]
Tolerated == [cta |-> {"EINVAL"}, displayid |-> {"ENOTSUP", "EINVAL"}]

(* The parser returned true; a calloc it did without shows in errno.       *)
ExtParsed == \E tag \in ExtTags \cap DOMAIN Tolerated, n \in NestedAllocs, l \in Leaks :
  /\ InLoop
  /\ errno' \in {errno, "ENOMEM"}
  /\ Keep(tag, n, l)

(* The parser returned false.  Unless a calloc failed, errno may be what   *)
(* an earlier block left there.                                            *)
ExtRejected == \E tag \in ExtTags \cap DOMAIN Tolerated, oom \in BOOLEAN, l \in Leaks :
  /\ InLoop
  /\ errno' \in IF oom THEN {"ENOMEM"} ELSE {errno} \cup Rejections[tag]
  /\ IF errno' \in Tolerated[tag] THEN Skip(oom, l) ELSE GiveUp(l)

ExtsParsed ==
  /\ pc = "exts" /\ i = exts_len
  /\ pc' = "done"
  /\ UNCHANGED <<blob, exts_len, i, exts, skipped, owned, lost, live, errno>>

(* The client destroys the result: the walk over exts[] ends at the NULL   *)
(* after the last entry.                                                   *)
Destroy ==
  /\ pc = "done"
  /\ live' = live - owned /\ owned' = 0
  /\ exts' = <<>>
  /\ pc' = "destroyed"
  /\ UNCHANGED <<blob, exts_len, i, skipped, lost, errno>>

Next == \/ RejectHead \/ BaseAllocFails \/ ParseBase
        \/ ExtBadChecksum \/ ExtAllocFails \/ ExtOpaque \/ ExtUnknown
        \/ ExtParsed \/ ExtRejected \/ ExtsParsed \/ Destroy

Spec == Init /\ [][Next]_vars

-----------------------------------------------------------------------------
(* Every extension block is looked at exactly once, in the order of the    *)
(* input: exts[] and the skipped blocks are two increasing sequences that  *)
(* split 1..i between them.                                                *)
Increasing(s) == \A a, b \in 1..Len(s) : a < b => s[a].block < s[b].block
Blocks(s) == {s[a].block : a \in 1..Len(s)}
BlocksInOrder ==
  pc \in {"exts", "done"} =>
    /\ Increasing(exts) /\ Increasing(skipped)
    /\ Blocks(exts) \cap Blocks(skipped) = {}
    /\ Blocks(exts) \cup Blocks(skipped) = 1..i

(* However the size and byte 0x7E disagree, the block parse_ext is about   *)
(* to read lies inside the input, and exts[] has room for the NULL that    *)
(* ends the walk of _di_edid_destroy and of every client, even for an      *)
(* oversized input.                                                        *)
ExtsInBounds ==
  /\ InLoop => (NextBlock + 1) * BlockSize <= blob.size
  /\ Len(exts) <= exts_len /\ exts_len < MaxBlocks

(* parse_ext and _di_edid_parse themselves neither leak nor free twice:    *)
(* what is live is what the EDID owns and what the parsers left behind.    *)
HeapExact == live = owned + lost

(* A failed allocation in a nested parser is never mistaken for a          *)
(* malformed block: no block is dropped from the result because of one.    *)
OomIsFinal == \A a \in 1..Len(skipped) : ~skipped[a].oom

-----------------------------------------------------------------------------
(* di-edid-decode/main.c and test/di-edid-print.c explain a NULL result    *)
(* with perror: errno says what went wrong.  A CTA or DisplayID parser     *)
(* that returns false without setting errno makes them print "Success".    *)
NullSetsErrno == pc = "null" => errno # "0"
=============================================================================
