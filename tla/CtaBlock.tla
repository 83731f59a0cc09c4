------------------------------ MODULE CtaBlock ------------------------------
(***************************************************************************)
(* Parsing one CTA-861 extension block: _di_edid_cta_parse (cta.c), the    *)
(* data block parsers it calls, and _di_edid_cta_finish.                   *)
(*                                                                         *)
(* A step is one iteration of one of the two loops.  The bytes of the      *)
(* block are chosen step by step (\E over payload lengths and contents);   *)
(* what a data block decodes to is abstracted to the number of entries it  *)
(* allocates, because memory, errno, the cursor and the failure report are *)
(* what the control flow of this file can get wrong.                       *)
(*                                                                         *)
(* A definition named X_Something is X with a plausible mistake in it; it  *)
(* takes part in no specification.  Each serves to check that a property   *)
(* would notice the mistake.                                               *)
(***************************************************************************)
EXTENDS Naturals, FiniteSets

CONSTANTS
  BlockSize,      \* size of the block (EDID_BLOCK_SIZE, 128)
  HeaderSize,     \* CTA_HEADER_SIZE, 4
  DtdEnd,         \* CTA_DTD_END, 127: the checksum follows
  DtdSize,        \* EDID_BYTE_DESCRIPTOR_SIZE, 18
  MaxDataBlocks,  \* EDID_CTA_MAX_DATA_BLOCKS, 123
  MaxDtds,        \* EDID_CTA_MAX_DETAILED_TIMING_DEFS, 6
  Payloads,       \* payload lengths a data block header may state, 0..31
  Revisions,      \* values of byte 1
  DtdStarts,      \* values of byte 2
  StaleErrnos     \* values errno may have when the parser is called

ASSUME CtaGeometry ==
  /\ BlockSize \in Nat /\ HeaderSize \in Nat \ {0} /\ DtdSize \in Nat \ {0}
  /\ DtdEnd \in Nat /\ DtdEnd + 1 = BlockSize /\ HeaderSize <= DtdEnd
  /\ MaxDataBlocks \in Nat /\ DtdEnd <= HeaderSize + MaxDataBlocks
  /\ MaxDtds \in Nat /\ DtdEnd < HeaderSize + (MaxDtds + 1) * DtdSize

ASSUME CtaBytes == Payloads \subseteq Nat /\ Revisions \subseteq Nat /\ DtdStarts \subseteq Nat

Errnos == {"0", "EINVAL", "ENOTSUP", "ENOMEM"}

ASSUME CtaErrnos == StaleErrnos \subseteq Errnos

(* The data block tags whose parser allocates entries and for which        *)
(* destroy_data_block has a case of its own.  The tag of a block that is   *)
(* still being parsed is 0, here "untagged".                               *)
Destroyed == {"audio", "video", "ycbcr420", "infoframe", "speaker_location",
              "video_format_pref", "hdmi_audio"}

VARIABLES
  hdr,              \* header bytes: revision, dtd_start, byte 3 nonzero
  pc,               \* "header", "blocks", "dtds", "done" (true), "failed" (false)
  i,                \* the cursor of the two loops
  elem,             \* the data block parsed last: bytes [at, next)
  data_blocks_len,
  children,         \* entries that destroying the kept data blocks would free
  dtds_len,         \* detailed_timing_defs_len
  timings,          \* ghost: DTD slots seen whose first two bytes are not both 0
  live,             \* allocations of this parser that have not been freed
  errno,
  oom,              \* ghost: a calloc has failed
  torn,             \* ghost: a malformed list of entries was given up half-way
  reported          \* a failure was added to the logger

input    == <<hdr>>
cursor   == <<pc, i, elem>>
kept     == <<data_blocks_len, children, dtds_len, timings>>
heap     == <<live, errno, oom, torn>>
vars     == <<hdr, pc, i, elem, data_blocks_len, children, dtds_len, timings,
              live, errno, oom, torn, reported>>

(* Everything _di_edid_cta_finish frees when the block is kept; a block    *)
(* whose parser returned false has been finished and is freed by its caller. *)
Owned == IF pc = "failed" THEN 0 ELSE data_blocks_len + children + dtds_len

TypeOK ==
  /\ hdr \in [revision : Revisions, dtd_start : DtdStarts, byte3 : BOOLEAN]
  /\ pc \in {"header", "blocks", "dtds", "done", "failed"}
  /\ i \in 0..DtdEnd
  /\ elem \in [at : 0..DtdEnd, next : 0..DtdEnd]
  /\ data_blocks_len \in Nat /\ children \in Nat /\ dtds_len \in Nat /\ timings \in Nat
  /\ live \in Nat
  /\ errno \in Errnos
  /\ oom \in BOOLEAN /\ torn \in BOOLEAN /\ reported \in BOOLEAN

(* The caller calloc()s the structure; errno holds whatever an earlier     *)
(* extension block, or the program, left there.                            *)
Init ==
  /\ hdr \in [revision : Revisions, dtd_start : DtdStarts, byte3 : BOOLEAN]
  /\ pc = "header"
  /\ i = HeaderSize
  /\ elem = [at |-> HeaderSize, next |-> HeaderSize]
  /\ data_blocks_len = 0 /\ children = 0 /\ dtds_len = 0 /\ timings = 0
  /\ live = 0
  /\ errno \in StaleErrnos
  /\ oom = FALSE /\ torn = FALSE /\ reported = FALSE

-----------------------------------------------------------------------------
(* A failure that is added if `must', and that the bytes decide if `may'.  *)
Log(must, may) == reported' \in {reported \/ must, reported \/ must \/ may}

(* add_failure_until(cta, 3, ...) is dropped for later revisions.          *)
UntilRevision3 == hdr.revision <= 3

Calloc(fails) == /\ oom' = (oom \/ fails)
                 /\ errno' = IF fails THEN "ENOMEM" ELSE errno

-----------------------------------------------------------------------------
(* The header: bytes 1 to 3.                                               *)
HeaderLog == Log(hdr.revision < 2 /\ hdr.byte3, FALSE)

HeaderNoBlocks ==   \* byte 2 is 0: no data blocks, no timings, no padding check
  /\ pc = "header" /\ hdr.dtd_start = 0
  /\ HeaderLog
  /\ pc' = "done"
  /\ UNCHANGED <<input, i, elem, kept, heap>>

HeaderBadOffset_NoErrno ==
  /\ pc = "header" /\ hdr.dtd_start # 0
  /\ hdr.dtd_start < HeaderSize \/ hdr.dtd_start >= BlockSize
  /\ HeaderLog
  /\ pc' = "failed"
  /\ UNCHANGED <<input, i, elem, kept, heap>>

HeaderBadOffset ==  \* EINVAL, and no failure is added
  /\ pc = "header" /\ hdr.dtd_start # 0
  /\ hdr.dtd_start < HeaderSize \/ hdr.dtd_start >= BlockSize
  /\ HeaderLog
  /\ pc' = "failed"
  /\ errno' = "EINVAL"
  /\ UNCHANGED <<input, i, elem, kept, live, oom, torn>>

HeaderOk_NoUpperBound ==
  /\ pc = "header" /\ hdr.dtd_start >= HeaderSize
  /\ HeaderLog
  /\ pc' = "blocks"
  /\ UNCHANGED <<input, i, elem, kept, heap>>

HeaderOk_ResetsErrno ==
  /\ pc = "header"
  /\ hdr.dtd_start >= HeaderSize /\ hdr.dtd_start < BlockSize
  /\ HeaderLog
  /\ pc' = "blocks"
  /\ errno' = "0"
  /\ UNCHANGED <<input, i, elem, kept, live, oom, torn>>

HeaderOk ==
  /\ pc = "header"
  /\ hdr.dtd_start >= HeaderSize /\ hdr.dtd_start < BlockSize
  /\ HeaderLog
  /\ pc' = "blocks"
  /\ UNCHANGED <<input, i, elem, kept, heap>>

-----------------------------------------------------------------------------
(* The data block loop.  Element(len) is the part every iteration that     *)
(* calls parse_data_block shares; the three ways parse_data_block ends are *)
(* Kept, Skipped (label skip) and Rejected (label error, after which the   *)
(* caller finishes the block and returns false).                           *)
Element_OffByOne(len) ==
  /\ pc = "blocks" /\ i < hdr.dtd_start
  /\ i + len <= hdr.dtd_start
  /\ elem' = [at |-> i, next |-> i + 1 + len]
  /\ UNCHANGED <<input, dtds_len, timings>>

Element_PayloadOnly(len) ==      \* i += data_block_size
  /\ pc = "blocks" /\ i < hdr.dtd_start
  /\ i + 1 + len <= hdr.dtd_start
  /\ elem' = [at |-> i, next |-> i + len]
  /\ UNCHANGED <<input, dtds_len, timings>>

Element(len) ==
  /\ pc = "blocks" /\ i < hdr.dtd_start
  /\ i + 1 + len <= hdr.dtd_start
  /\ elem' = [at |-> i, next |-> i + 1 + len]
  /\ UNCHANGED <<input, dtds_len, timings>>

Freed_NoInfoframe(tag, n) == IF tag \in Destroyed \ {"infoframe"} THEN 1 + n ELSE 1

(* Allocations destroy_data_block frees for a block holding n entries.     *)
Freed(tag, n) == IF tag \in Destroyed THEN 1 + n ELSE 1

Kept_FallsThrough(tag, n) ==     \* ... into the skip label
  /\ data_blocks_len' = data_blocks_len + 1
  /\ children' = children + Freed(tag, n) - 1
  /\ live' = live + n
  /\ i' = elem'.next
  /\ UNCHANGED <<pc, torn>>

Kept(tag, n) ==
  /\ data_blocks_len' = data_blocks_len + 1
  /\ children' = children + Freed(tag, n) - 1
  /\ live' = live + 1 + n
  /\ i' = elem'.next
  /\ UNCHANGED <<pc, torn>>

Skipped(n) ==       \* free(data_block) only
  /\ live' = live + n
  /\ i' = elem'.next
  /\ UNCHANGED <<pc, data_blocks_len, children>>

Rejected(n) ==      \* destroy_data_block while the tag is unset, then finish
  /\ live' = (live + 1 + n) - (Freed("untagged", n) + Owned)
  /\ pc' = "failed"
  /\ UNCHANGED <<i, data_blocks_len, children, torn>>

(* The data block calloc itself fails.                                     *)
BlockAllocFails == \E len \in Payloads :
  /\ Element(len)
  /\ Calloc(TRUE)
  /\ live' = live - Owned
  /\ pc' = "failed"
  /\ UNCHANGED <<i, data_blocks_len, children, torn, reported>>

(* A list of short video descriptors, n of which are kept.  Some may be    *)
(* reserved (bad) and some may not be allocated (lost): both are dropped,  *)
(* and only the former are reported.                                       *)
Svds(tag, size) == \E n \in 0..size, bad, lost \in BOOLEAN :
  /\ n < size <=> bad \/ lost
  /\ bad /\ lost => n + 2 <= size
  /\ Calloc(lost)
  /\ Log(size = 0 \/ (bad /\ UntilRevision3), FALSE)
  /\ Kept(tag, n)

VideoBlock == \E len \in Payloads : Element(len) /\ Svds("video", len)

Ycbcr420Block == \E len \in Payloads \ {0} :
  Element(len) /\ Svds("ycbcr420", len - 1)

(* One short audio descriptor per three bytes; n are kept, the others have *)
(* an unknown format.  The first calloc to fail rejects the whole block.   *)
AudioBlock == \E len \in Payloads : Element(len) /\ \E n \in 0..(len \div 3) :
  /\ Log(len % 3 # 0 \/ (n < len \div 3 /\ UntilRevision3), n > 0)
  /\ Calloc(FALSE)
  /\ Kept("audio", n)

AudioAllocFails == \E len \in Payloads : Element(len) /\ \E n \in 0..(len \div 3) :
  /\ n < len \div 3
  /\ Log(len % 3 # 0, n > 0 \/ (len \div 3 > 1 /\ UntilRevision3))
  /\ Calloc(TRUE)
  /\ Rejected(n)

(* Tags 4 and 5: a wrong length returns false and leaves errno alone.      *)
SizedBlock(tag, accepted) == \E len \in Payloads :
  /\ Element(len)
  /\ Calloc(FALSE)
  /\ \/ len \in accepted /\ Log(FALSE, tag = "speaker_alloc") /\ Kept(tag, 0)
     \/ len \notin accepted /\ Log(TRUE, FALSE) /\ Rejected(0)

SpeakerAllocBlock == SizedBlock("speaker_alloc", {len \in Payloads : len >= 3})
VesaTransferBlock == SizedBlock("vesa_transfer", {7, 15, 31})

(* Tag 3, tag 0, and an extended tag that is missing, vendor specific or   *)
(* unknown: the block is dropped.                                          *)
IgnoredBlock == \E len \in Payloads :
  /\ Element(len)
  /\ Calloc(FALSE)
  /\ \/ Log(FALSE, FALSE)               \* vendor specific
     \/ Log(UntilRevision3, FALSE)      \* reserved
     \/ len = 0 /\ Log(TRUE, FALSE)     \* extended tag without payload
  /\ Skipped(0) /\ UNCHANGED torn

-----------------------------------------------------------------------------
(* The extended tags; size is what is left after the extended tag byte.    *)
Extended(len) == len > 0 /\ Element(len)

(* Tags 6, 8, 35, 42, 120, 121 are kept undecoded, 15 is a bitmap.         *)
OpaqueBlock == \E len \in Payloads :
  /\ Element(len)
  /\ Calloc(FALSE) /\ Log(FALSE, FALSE)
  /\ Kept("opaque", 0)

(* Blocks decoded in place.  One whose length is not accepted is dropped   *)
(* with a failure; any other may be dropped for its contents if strict.    *)
DecodedBlock(tag, accepted, strict) == \E len \in Payloads :
  /\ Extended(len)
  /\ Calloc(FALSE)
  /\ \/ len \in accepted /\ Log(FALSE, TRUE) /\ Kept(tag, 0)
     \/ /\ len \in accepted => strict
        /\ Log(TRUE, FALSE)
        /\ Skipped(0) /\ UNCHANGED torn

VideoCapBlock == DecodedBlock("video_cap", {len \in Payloads : len - 1 >= 1}, FALSE)
VesaDddbBlock == DecodedBlock("vesa_dddb", {len \in Payloads : len - 1 = 30}, TRUE)
ColorimetryBlock == DecodedBlock("colorimetry", {len \in Payloads : len - 1 >= 2}, FALSE)
HdrStaticBlock == DecodedBlock("hdr_static", {len \in Payloads : len - 1 >= 2}, FALSE)
HdrDynamicBlock == DecodedBlock("hdr_dynamic", {len \in Payloads : len - 1 >= 3}, TRUE)
RoomConfigBlock == DecodedBlock("room_config", {len \in Payloads : len - 1 >= 4}, FALSE)
DidViiBlock == DecodedBlock("did_vii_timing", {len \in Payloads : len - 1 = 21}, TRUE)

(* One short video reference per byte, reserved ones are dropped.  When a  *)
(* calloc fails the block goes and the n references before it stay behind. *)
VideoFormatPrefBlock == \E len \in Payloads : Extended(len) /\
 \E n \in 0..(len - 1), bad \in BOOLEAN :
  /\ Log(bad, FALSE)
  /\ \/ /\ n < len - 1 <=> bad
        /\ Calloc(FALSE) /\ Kept("video_format_pref", n)
     \/ /\ n < len - 1 /\ (bad => n + 1 < len - 1)
        /\ Calloc(TRUE) /\ Skipped(n) /\ UNCHANGED torn

(* Byte 0: stream count, byte 1: d 3D audio descriptors of four bytes,     *)
(* followed by a speaker allocation of the same size.                      *)
HdmiAudioBlock == \E len \in Payloads : Extended(len) /\ \E d \in 0..7 : \E n \in 0..d :
  LET size == len - 1
      fits == size >= 2 /\ d > 0 /\ (d + 1) * 4 <= size - 2
  IN  \/ size = 0 /\ Log(TRUE, FALSE) /\ Calloc(FALSE) /\ Skipped(0) /\ UNCHANGED torn
      \/ /\ size >= 1 /\ ~fits /\ n = 0
         /\ Log(size >= 2 /\ d > 0, TRUE) /\ Calloc(FALSE) /\ Kept("hdmi_audio", 0)
      \/ fits /\ Log(FALSE, TRUE) /\ Calloc(FALSE) /\ Kept("hdmi_audio", n)
      \/ /\ fits /\ n < d /\ Log(FALSE, TRUE) /\ Calloc(TRUE)
         /\ Skipped(n) /\ UNCHANGED torn

(* a descriptors of two bytes and b with coordinates, of five, leave rest  *)
(* bytes.  COORD with fewer than five bytes left gives the block up.       *)
SpeakerLocationBlock == \E len \in Payloads : Extended(len) /\
 \E a \in 0..(len \div 2), b \in 0..(len \div 5) :
  LET size == len - 1
      rest == size - (2 * a + 5 * b)
  IN  /\ 2 * a + 5 * b <= size
      /\ \/ size < 2 /\ Log(TRUE, FALSE) /\ Calloc(FALSE) /\ Skipped(0) /\ UNCHANGED torn
         \/ /\ size >= 2 /\ rest < 2
            /\ Log(FALSE, TRUE) /\ Calloc(FALSE) /\ Kept("speaker_location", a + b)
         \/ /\ rest \in 2..4
            /\ Log(TRUE, FALSE) /\ Calloc(FALSE) /\ Skipped(a + b) /\ torn' = TRUE
         \/ /\ rest >= 2
            /\ Log(FALSE, TRUE) /\ Calloc(TRUE) /\ Skipped(a + b) /\ UNCHANGED torn

(* A header of 2 + p bytes leaves rest bytes for descriptors of one to     *)
(* eight bytes.  n are kept; others are dropped if they are vendor         *)
(* specific, of a reserved type, or not allocated (parse_infoframe returns *)
(* NULL for all three).  A descriptor of type 0, or one that runs over the *)
(* end, gives the block up.                                                *)
InfoFrameBlock == \E len \in Payloads : Extended(len) /\
  \/ /\ \E p \in 0..7 : len - 1 < 2 + p       \* no header, or it runs over the end
     /\ Log(TRUE, FALSE) /\ Calloc(FALSE) /\ Skipped(0) /\ UNCHANGED torn
  \/ \E p \in 0..7, n \in 0..len, dropped \in BOOLEAN, lost \in BOOLEAN :
      LET rest == (len - 1) - (2 + p)
          few == IF dropped THEN n + 1 ELSE n
      IN  /\ lost => dropped
          /\ Calloc(lost)
          /\ \/ few <= rest /\ (~dropped => rest <= 8 * n)
                /\ Log(FALSE, TRUE) /\ Kept("infoframe", n)
             \/ few < rest
                /\ Log(TRUE, FALSE) /\ Skipped(n) /\ torn' = TRUE

DataBlock ==
  \/ BlockAllocFails \/ VideoBlock \/ Ycbcr420Block \/ AudioBlock \/ AudioAllocFails
  \/ SpeakerAllocBlock \/ VesaTransferBlock \/ IgnoredBlock \/ OpaqueBlock
  \/ VideoCapBlock \/ VesaDddbBlock \/ ColorimetryBlock \/ HdrStaticBlock
  \/ HdrDynamicBlock \/ RoomConfigBlock \/ DidViiBlock
  \/ VideoFormatPrefBlock \/ HdmiAudioBlock \/ SpeakerLocationBlock \/ InfoFrameBlock

Overlap_Silent ==
  /\ pc = "blocks" /\ i < hdr.dtd_start
  /\ \E len \in Payloads : i + 1 + len > hdr.dtd_start
  /\ pc' = "dtds" /\ i' = hdr.dtd_start
  /\ UNCHANGED <<input, elem, kept, heap, reported>>

Overlap_KeepsCursor ==
  /\ pc = "blocks" /\ i < hdr.dtd_start
  /\ \E len \in Payloads : i + 1 + len > hdr.dtd_start
  /\ Log(TRUE, FALSE)
  /\ pc' = "dtds"
  /\ UNCHANGED <<input, i, elem, kept, heap>>

(* A header whose payload would run into the timings ends the loop.        *)
Overlap ==
  /\ pc = "blocks" /\ i < hdr.dtd_start
  /\ \E len \in Payloads : i + 1 + len > hdr.dtd_start
  /\ Log(TRUE, FALSE)
  /\ pc' = "dtds" /\ i' = hdr.dtd_start
  /\ UNCHANGED <<input, elem, kept, heap>>

EndBlocks ==
  /\ pc = "blocks" /\ i >= hdr.dtd_start
  /\ Log(i # hdr.dtd_start, FALSE)
  /\ pc' = "dtds" /\ i' = hdr.dtd_start
  /\ UNCHANGED <<input, elem, kept, heap>>

-----------------------------------------------------------------------------
(* The detailed timings, then the padding up to the checksum.              *)
DtdFits_StartOnly == i < DtdEnd

DtdFits == i + DtdSize <= DtdEnd

DtdKept ==          \* data[i] is not zero
  /\ pc = "dtds" /\ DtdFits
  /\ dtds_len' = dtds_len + 1
  /\ timings' = timings + 1
  /\ live' = live + 1
  /\ i' = i + DtdSize
  /\ UNCHANGED <<input, pc, elem, data_blocks_len, children, errno, oom, torn, reported>>

DtdAllocFails ==
  /\ pc = "dtds" /\ DtdFits
  /\ Calloc(TRUE)
  /\ timings' = timings + 1
  /\ live' = live - Owned
  /\ pc' = "failed"
  /\ UNCHANGED <<input, i, elem, data_blocks_len, children, dtds_len, torn, reported>>

(* first is the first nonzero padding byte, DtdEnd if there is none.  A    *)
(* slot whose byte 0 is zero ends the loop whatever its byte 1 is: byte 1  *)
(* is then padding.                                                        *)
Padding == \E first \in i..DtdEnd :
  /\ pc = "dtds"
  /\ DtdFits => first # i
  /\ timings' = IF DtdFits /\ first = i + 1 THEN timings + 1 ELSE timings
  /\ Log(first < DtdEnd, FALSE)
  /\ i' = first
  /\ pc' = "done"
  /\ UNCHANGED <<input, elem, data_blocks_len, children, dtds_len, heap>>

Header == HeaderNoBlocks \/ HeaderBadOffset \/ HeaderOk
Dtds == DtdKept \/ DtdAllocFails \/ Padding
Next == Header \/ DataBlock \/ Overlap \/ EndBlocks \/ Dtds

Spec == Init /\ [][Next]_vars

-----------------------------------------------------------------------------
(* No block can overflow data_blocks[] or detailed_timing_defs[]: the      *)
(* assertions before the two appends never fire, whatever the bytes are.   *)
CapacityHolds == data_blocks_len <= MaxDataBlocks /\ dtds_len <= MaxDtds

(* Entry k of detailed_timing_defs[] is the k-th 18-byte slot after        *)
(* dtd_start: a short video reference names a timing by that index.        *)
DtdIndexIsSlot == pc = "dtds" => i = hdr.dtd_start + dtds_len * DtdSize

(* Whatever a kept block reaches is allocated: _di_edid_cta_finish never   *)
(* frees what an error path has already freed.                             *)
OwnedIsLive == live >= Owned

(* Nothing else is left allocated, as long as no calloc failed and no list *)
(* was given up half-way, whether the block is kept or rejected.           *)
HeapClean == ~oom /\ ~torn => live = Owned

(* When the data block loop stops before the timings, a failure says so.   *)
NoSilentGap ==
  pc \in {"dtds", "done"} /\ hdr.dtd_start # 0 /\ elem.next # hdr.dtd_start => reported

(* A rejected block leaves a trace: an out-of-memory errno, EINVAL, or a   *)
(* failure in the report.                                                  *)
RejectionExplained ==
  pc = "failed" => errno = "EINVAL" \/ (oom /\ errno = "ENOMEM") \/ reported

(* parse_ext skips a block that was rejected with EINVAL and gives up      *)
(* otherwise: it can never take a failed allocation for a malformed block. *)
OomIsNotEinval == oom => errno = "ENOMEM"

(* The data block loop is a walk over [HeaderSize, dtd_start).             *)
Walk == INSTANCE TlvWalk WITH
  Lo <- HeaderSize, HeaderLen <- 1, end <- hdr.dtd_start,
  done <- pc \notin {"header", "blocks"}
IsTlvWalk == Walk!Spec

(* What parse_ext may rely on.                                             *)
Status == CASE pc = "done" -> "ok" [] pc = "failed" -> "failed" [] OTHER -> "parsing"
Contract == INSTANCE ExtParser WITH
  ENOMEM <- "ENOMEM", Rejections <- {"EINVAL"}, status <- Status, owned <- Owned
KeepsContract == Contract!Spec

-----------------------------------------------------------------------------
(* What the repository says of this code and the code does not do.         *)

(* cta.h, di_edid_cta_get_detailed_timing_defs: the timings of the block,  *)
(* where parse_byte_descriptor takes any slot whose first two bytes are    *)
(* not both zero for one.                                                  *)
EveryTimingKept == pc = "done" => dtds_len = timings
=============================================================================
