--------------------------- MODULE DisplayIdSection ---------------------------
(***************************************************************************)
(* Parsing one DisplayID section: _di_displayid_parse (displayid.c), the   *)
(* data block parsers it calls, and _di_displayid_finish.                  *)
(*                                                                         *)
(* A step is the header, one iteration of the data block loop, or the      *)
(* filler check.  As in CtaBlock the bytes are chosen by \E, step by step, *)
(* and a data block is reduced to the number of timings it allocates.      *)
(* Only where the nonzero bytes end is known from the start: both the end  *)
(* of the loop and the filler check look for it.                           *)
(*                                                                         *)
(* A definition named X_Something is X with a plausible mistake in it; it  *)
(* takes part in no specification.                                         *)
(***************************************************************************)
EXTENDS Naturals

CONSTANTS
  Size,           \* bytes the caller passes (EDID_BLOCK_SIZE - 2, 126)
  MinSize,        \* DISPLAYID_MIN_SIZE, 5: four bytes and the checksum
  MaxSize,        \* DISPLAYID_MAX_SIZE, 256
  HeaderSize,     \* DISPLAYID_DATA_BLOCK_HEADER_SIZE, 3
  MaxDataBlocks,  \* DISPLAYID_MAX_DATA_BLOCKS, 83
  TimingSize,     \* DISPLAYID_TYPE_*_TIMING_SIZE, by tag
  MaxTimings,     \* DISPLAYID_MAX_TYPE_*_TIMINGS, by tag
  ParamsSize,     \* payload of a display parameters block, 12
  TopoSize,       \* payload of a tiled display topology block, 22
  Payloads,       \* values of byte 2 of a data block, 0..255
  SectionSizes,   \* values of byte 1 of the section
  StaleErrnos     \* values errno may have when the parser is called

TimingTags == {"type_i", "type_ii", "type_iii"}

ASSUME SectionGeometry ==
  /\ Size \in Nat /\ MaxSize \in Nat /\ MinSize \in Nat \ {0} /\ HeaderSize \in Nat \ {0}
  /\ MaxDataBlocks \in Nat /\ MaxSize < MinSize + (MaxDataBlocks + 1) * HeaderSize
  /\ TimingSize \in [TimingTags -> Nat \ {0}] /\ MaxTimings \in [TimingTags -> Nat]
  /\ \A tag \in TimingTags :
       MaxSize < MinSize + HeaderSize + (MaxTimings[tag] + 1) * TimingSize[tag]

ASSUME SectionBytes == Payloads \subseteq Nat /\ SectionSizes \subseteq Nat

Errnos == {"0", "EINVAL", "ENOTSUP", "ENOMEM"}

ASSUME SectionErrnos == StaleErrnos \subseteq Errnos

VARIABLES
  hdr,               \* version, byte 1, checksum and product type of the section
  zeros,             \* of the bytes [MinSize - 1, End), those from here on are 0,
                     \* and the one before, if any, is not
  pc,                \* "header", "blocks", "done" (true), "failed" (false)
  i,                 \* the cursor of the loop
  max_data_block_size,
  elem,              \* the data block parsed last: bytes [at, next)
  data_blocks_len,
  last,              \* tag and number of timings of the block kept last
  timings,           \* timings that destroying the kept data blocks would free
  live,              \* allocations of this parser that have not been freed
  errno,
  oom,               \* ghost: a calloc has failed
  reported           \* failures added: about the contents of data "blocks", about an
                     \* "overlong" one, and about the "filler"

heap   == <<live, errno, oom>>
kept   == <<data_blocks_len, last, timings>>
input  == <<hdr, zeros>>
vars   == <<hdr, zeros, pc, i, max_data_block_size, elem, data_blocks_len, last, timings,
            live, errno, oom, reported>>

(* What _di_displayid_finish frees.  A section that was rejected is freed  *)
(* by its caller without being finished: nothing points to its blocks.     *)
Owned == IF pc = "failed" THEN 0 ELSE data_blocks_len + timings

section_size == hdr.bytes + MinSize
End == section_size - 1     \* the checksum is at this offset

TypeOK ==
  /\ hdr \in [version : 0..2, bytes : SectionSizes, sum_ok : BOOLEAN, type_ok : BOOLEAN]
  /\ pc \in {"header", "blocks", "done", "failed"}
  /\ zeros \in Nat /\ i \in Nat /\ max_data_block_size \in Nat
  /\ elem \in [at : Nat, next : Nat]
  /\ data_blocks_len \in Nat /\ timings \in Nat
  /\ last \in [tag : TimingTags \cup {"other"}, n : Nat]
  /\ live \in Nat
  /\ errno \in Errnos
  /\ oom \in BOOLEAN
  /\ reported \subseteq {"blocks", "overlong", "filler"}

Init ==
  /\ hdr \in [version : 0..2, bytes : SectionSizes, sum_ok : BOOLEAN, type_ok : BOOLEAN]
  /\ zeros \in (MinSize - 1)..End
  /\ pc = "header"
  /\ i = MinSize - 1 /\ max_data_block_size = 0
  /\ elem = [at |-> MinSize - 1, next |-> MinSize - 1]
  /\ data_blocks_len = 0 /\ timings = 0
  /\ last = [tag |-> "other", n |-> 0]
  /\ live = 0
  /\ errno \in StaleErrnos
  /\ oom = FALSE
  /\ reported = {}

-----------------------------------------------------------------------------
(* The header of the section: the first check that fails sets errno.       *)
HeaderError ==
  IF Size >= MinSize /\ hdr.version # 1 THEN "ENOTSUP"
  ELSE IF \/ Size < MinSize \/ section_size > MaxSize \/ section_size > Size
          \/ ~hdr.sum_ok \/ ~hdr.type_ok
       THEN "EINVAL" ELSE "0"

RejectHeader ==
  /\ pc = "header" /\ HeaderError # "0"
  /\ errno' = HeaderError
  /\ pc' = "failed"
  /\ UNCHANGED <<input, i, max_data_block_size, elem, kept, live, oom, reported>>

AcceptHeader ==
  /\ pc = "header" /\ HeaderError = "0"
  /\ pc' = "blocks"
  /\ UNCHANGED <<input, i, max_data_block_size, elem, kept, heap, reported>>

-----------------------------------------------------------------------------
(* ~is_all_zeroes(&data[at], size), as far as zeros decides it: behind the *)
(* end anything may be found, the checksum to begin with.                  *)
NonZero(at, size) ==
  IF at < zeros /\ zeros <= at + size THEN {TRUE}
  ELSE IF size = 0 \/ (zeros <= at /\ at + size <= End) THEN {FALSE}
  ELSE BOOLEAN

(* One iteration of the loop that reaches parse_data_block.                *)
Log(must, may) ==
  reported' \in {reported \cup (IF must THEN {"blocks"} ELSE {})}
                  \cup {reported \cup (IF must \/ may THEN {"blocks"} ELSE {})}

Calloc(fails) == /\ oom' = (oom \/ fails)
                 /\ errno' = IF fails THEN "ENOMEM" ELSE errno

Remaining_WithChecksum == section_size - i
Remaining == End - i

(* len is the last byte of a header that is not all zeroes.                *)
Iteration(len) == /\ pc = "blocks" /\ i < End /\ Remaining >= HeaderSize
                  /\ TRUE \in NonZero(i, HeaderSize)
                  /\ (len # 0) \in NonZero(i + HeaderSize - 1, 1)
                  /\ max_data_block_size' = Remaining
                  /\ UNCHANGED input

(* A stated length that exceeds what is left: reported and skipped, which  *)
(* takes the cursor past the checksum and so ends the loop.                *)
OverlongBlock == \E len \in Payloads :
  /\ Iteration(len)
  /\ len + HeaderSize > Remaining
  /\ reported' = reported \cup {"overlong"}
  /\ i' = i + len + HeaderSize
  /\ UNCHANGED <<pc, elem, kept, heap>>

Element_OffByOne(len) ==
  /\ Iteration(len)
  /\ len + HeaderSize <= Remaining + 1
  /\ elem' = [at |-> i, next |-> i + len + HeaderSize]

Element(len) ==
  /\ Iteration(len)
  /\ len + HeaderSize <= Remaining
  /\ elem' = [at |-> i, next |-> i + len + HeaderSize]

Keep(tag, n) ==
  /\ data_blocks_len' = data_blocks_len + 1
  /\ last' = [tag |-> tag, n |-> n]
  /\ timings' = timings + n
  /\ live' = live + 1 + n
  /\ i' = elem'.next
  /\ UNCHANGED pc

Skip_NotFreed ==
  /\ live' = live + 1
  /\ i' = elem'.next
  /\ UNCHANGED <<pc, kept>>

Skip ==                     \* the data block is freed
  /\ i' = elem'.next
  /\ UNCHANGED <<pc, kept, live>>

(* The data block is freed, its n timings are not; _di_displayid_parse     *)
(* returns false without _di_displayid_finish.                             *)
Fail(n) ==
  /\ live' = live + n
  /\ pc' = "failed"
  /\ UNCHANGED <<i, kept>>

BlockAllocFails_Einval == \E len \in Payloads :
  /\ Element(len)
  /\ oom' = TRUE /\ errno' = "EINVAL" /\ UNCHANGED reported
  /\ Fail(0)

BlockAllocFails == \E len \in Payloads :
  /\ Element(len)
  /\ Calloc(TRUE) /\ UNCHANGED reported
  /\ Fail(0)

DisplayParamsBlock == \E len \in Payloads :
  /\ Element(len) /\ Calloc(FALSE)
  /\ \/ len = ParamsSize /\ Log(FALSE, TRUE) /\ Keep("other", 0)
     \/ len # ParamsSize /\ Log(TRUE, FALSE) /\ Fail(0)     \* errno is left alone

TiledTopoBlock == \E len \in Payloads :
  /\ Element(len) /\ Calloc(FALSE)
  /\ \/ len = TopoSize /\ Log(FALSE, TRUE) /\ Keep("other", 0)
     \/ len # TopoSize /\ Log(TRUE, FALSE) /\ Skip

(* The first n timings that fit are kept.  One of type III may be reserved,*)
(* and is then freed and reported.                                         *)
TimingBlock(tag, may_drop) == \E len \in Payloads :
 \E n \in 0..(len \div TimingSize[tag]) : LET fits(k) == k * TimingSize[tag] <= len IN
  /\ Element(len)
  /\ fits(n)
  /\ \/ /\ fits(n + 1) => may_drop
        /\ Log(fits(n + 1) \/ len % TimingSize[tag] # 0, TRUE)
        /\ Calloc(FALSE) /\ Keep(tag, n)
     \/ /\ fits(n + 1)
        /\ Log(len % TimingSize[tag] # 0, TRUE)
        /\ Calloc(TRUE) /\ Fail(n)

TypeITimingBlock == TimingBlock("type_i", FALSE)
TypeIITimingBlock == TimingBlock("type_ii", FALSE)
TypeIIITimingBlock == TimingBlock("type_iii", TRUE)

OpaqueBlock == \E len \in Payloads :
  /\ Element(len) /\ Calloc(FALSE) /\ Log(FALSE, FALSE)
  /\ Keep("other", 0)

(* Vendor specific, or unknown and reported.                               *)
IgnoredBlock == \E len \in Payloads :
  /\ Element(len) /\ Calloc(FALSE) /\ Log(FALSE, TRUE)
  /\ Skip

DataBlock == \/ OverlongBlock \/ BlockAllocFails \/ DisplayParamsBlock \/ TiledTopoBlock
             \/ TypeITimingBlock \/ TypeIITimingBlock \/ TypeIIITimingBlock
             \/ OpaqueBlock \/ IgnoredBlock

-----------------------------------------------------------------------------
(* The check behind the loop: size bytes from the cursor on.               *)
CheckFiller(size) ==
  /\ \E found \in NonZero(i, size) :
       reported' = IF found THEN reported \cup {"filler"} ELSE reported
  /\ pc' = "done"
  /\ UNCHANGED <<input, i, elem, kept, heap>>

Filler_StaleSize ==         \* the size is computed behind the test for the end
  /\ pc = "blocks" /\ i < End
  /\ Remaining >= HeaderSize => FALSE \in NonZero(i, HeaderSize)
  /\ CheckFiller(max_data_block_size)
  /\ UNCHANGED max_data_block_size

Filler_NoBound ==
  /\ pc = "blocks"
  /\ Remaining >= HeaderSize => FALSE \in NonZero(i, HeaderSize)
  /\ max_data_block_size' = Remaining
  /\ CheckFiller(max_data_block_size')

(* The loop ends before a header that does not fit or is all zeroes; what  *)
(* is left is the filler.                                                  *)
Filler ==
  /\ pc = "blocks" /\ i < End
  /\ Remaining >= HeaderSize => FALSE \in NonZero(i, HeaderSize)
  /\ max_data_block_size' = Remaining
  /\ CheckFiller(max_data_block_size')

(* Or it ends because the blocks reach the checksum, or run past it.  The  *)
(* check then looks at as many bytes as the last iteration had left, from  *)
(* where the cursor is now: the checksum and what follows, nonzero or not. *)
NoFiller ==
  /\ pc = "blocks" /\ i >= End
  /\ CheckFiller(max_data_block_size)
  /\ UNCHANGED max_data_block_size

Next == RejectHeader \/ AcceptHeader \/ DataBlock \/ Filler \/ NoFiller

Spec == Init /\ [][Next]_vars

-----------------------------------------------------------------------------
(* data_blocks[] and the three arrays of timings never overflow, although  *)
(* a length byte could state more than they hold: the section bounds it.   *)
CapacityHolds ==
  /\ data_blocks_len <= MaxDataBlocks
  /\ last.tag \in TimingTags => last.n <= MaxTimings[last.tag]

(* Until the section is rejected, what is allocated is what                *)
(* _di_displayid_finish frees: no block is lost, dropped blocks are freed. *)
HeapClean == pc # "failed" => live = Owned

(* When data blocks do not reach the checksum, what is behind the last one *)
(* is reported if and only if a byte of it is not zero: as filler, or as a *)
(* data block that is too long, whichever way the loop came to its end.    *)
TailReportedIff ==
  pc = "done" /\ elem.next < End =>
    (reported \cap {"overlong", "filler"} # {} <=> zeros > elem.next)

(* The loop is a walk over the bytes before the checksum.                  *)
Walk == INSTANCE TlvWalk WITH
  Lo <- MinSize - 1, HeaderLen <- HeaderSize, end <- End, done <- pc \notin {"header", "blocks"}
IsTlvWalk == Walk!Spec

(* What parse_ext may rely on.                                             *)
Status == CASE pc = "done" -> "ok" [] pc = "failed" -> "failed" [] OTHER -> "parsing"
Contract == INSTANCE ExtParser WITH
  ENOMEM <- "ENOMEM", Rejections <- {"EINVAL", "ENOTSUP"}, status <- Status, owned <- Owned
KeepsContract == Contract!Spec

-----------------------------------------------------------------------------
(* What the repository says of this code and the code does not do.         *)

(* info.h, di_info_get_failure_msg: NULL for a blob that conforms.  The    *)
(* bytes up to the checksum are filler and must be zero; a section without *)
(* any is reported for its checksum.                                       *)
FillerReportIsTrue ==
  "filler" \in reported => zeros > elem.next \/ reported # {"filler"}
=============================================================================
