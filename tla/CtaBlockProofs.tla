--------------------------- MODULE CtaBlockProofs ---------------------------
(***************************************************************************)
(* Proofs about CtaBlock, for every geometry that satisfies its            *)
(* assumptions and every set of payload lengths.                           *)
(***************************************************************************)
EXTENDS CtaBlock, TLAPS

(* How the cursor, the phase and the array lengths hang together.  Each    *)
(* data block takes at least its header byte, which bounds their number;   *)
(* each timing takes DtdSize bytes, which bounds theirs.                   *)
CursorInv ==
  /\ elem.at <= elem.next
  /\ pc = "header" => /\ i = HeaderSize /\ elem.next = HeaderSize
                      /\ data_blocks_len = 0 /\ children = 0 /\ dtds_len = 0
                      /\ live = 0 /\ ~oom
  /\ pc \in {"blocks", "dtds"} => HeaderSize <= hdr.dtd_start /\ hdr.dtd_start <= DtdEnd
  /\ pc = "blocks" => /\ elem.next = i /\ i <= hdr.dtd_start
                      /\ data_blocks_len + HeaderSize <= i
                      /\ dtds_len = 0
  /\ pc = "dtds" => i = hdr.dtd_start + dtds_len * DtdSize

IInv == /\ TypeOK /\ CursorInv /\ CapacityHolds
        /\ OwnedIsLive /\ HeapClean
        /\ NoSilentGap /\ RejectionExplained /\ OomIsNotEinval

-----------------------------------------------------------------------------
(* The data block parsers differ in what they keep and report, but each of *)
(* their steps is one of four kinds.                                       *)
Decoded == {"video_cap", "vesa_dddb", "colorimetry", "hdr_static", "hdr_dynamic",
            "room_config", "did_vii_timing"}
Tags == Destroyed \cup Decoded \cup {"speaker_alloc", "vesa_transfer", "opaque"}

Reports == reported' \in BOOLEAN /\ (reported => reported')

KeptStep == \E len \in Payloads, n \in Nat, tag \in Tags, fails \in BOOLEAN :
  /\ Element(len) /\ Calloc(fails) /\ Reports
  /\ tag \in Destroyed \/ n = 0
  /\ Kept(tag, n)

SkippedStep == \E len \in Payloads, n \in Nat, fails \in BOOLEAN :
  /\ Element(len) /\ Calloc(fails) /\ Reports
  /\ Skipped(n)
  /\ torn' \in BOOLEAN /\ (torn => torn')
  /\ n = 0 \/ fails \/ torn'

RejectedStep == \E len \in Payloads, n \in Nat, fails \in BOOLEAN :
  /\ Element(len) /\ Calloc(fails) /\ Reports
  /\ fails \/ (n = 0 /\ reported')
  /\ Rejected(n)

BlockStep == KeptStep \/ SkippedStep \/ RejectedStep \/ BlockAllocFails

(* Adding failures only ever turns `reported' on.                          *)
LEMMA LogReports ==
  ASSUME TypeOK, NEW must, NEW may, Log(must, may)
  PROVE  Reports /\ (must => reported')
BY DEF TypeOK, Log, Reports

(* Every data block parser ends in one of the four ways listed above.      *)
LEMMA BlockSteps == ASSUME TypeOK, DataBlock PROVE BlockStep
<1> USE CtaBytes
<1>1. CASE BlockAllocFails
  BY <1>1 DEF BlockStep
<1>2. ASSUME NEW len \in Payloads, NEW tag \in Destroyed, NEW size \in Nat,
             Element(len), Svds(tag, size)
      PROVE  KeptStep
  <2>1. PICK n \in 0..size, bad \in BOOLEAN, lost \in BOOLEAN :
          /\ Calloc(lost)
          /\ Log(size = 0 \/ (bad /\ UntilRevision3), FALSE)
          /\ Kept(tag, n)
    BY <1>2 DEF Svds
  <2>2. Reports
    BY <2>1, LogReports DEF UntilRevision3
  <2>3. n \in Nat /\ tag \in Tags
    BY DEF Tags
  <2> QED BY <1>2, <2>1, <2>2, <2>3 DEF KeptStep
<1>3. CASE VideoBlock
  BY <1>2, <1>3 DEF VideoBlock, BlockStep, Destroyed
<1>4. CASE Ycbcr420Block
  <2>1. PICK len \in Payloads \ {0} : Element(len) /\ Svds("ycbcr420", len - 1)
    BY <1>4 DEF Ycbcr420Block
  <2>2. len - 1 \in Nat
    OBVIOUS
  <2> QED BY <1>2, <2>1, <2>2 DEF BlockStep, Destroyed
<1>5. CASE AudioBlock
  <2> PICK len \in Payloads : Element(len) /\ \E n \in 0..(len \div 3) :
        /\ Log(len % 3 # 0 \/ (n < len \div 3 /\ UntilRevision3), n > 0)
        /\ Calloc(FALSE)
        /\ Kept("audio", n)
    BY <1>5 DEF AudioBlock
  <2>1. PICK n \in 0..(len \div 3) :
          /\ Log(len % 3 # 0 \/ (n < len \div 3 /\ UntilRevision3), n > 0)
          /\ Calloc(FALSE) /\ Kept("audio", n)
    OBVIOUS
  <2>2. Reports
    BY <2>1, LogReports DEF UntilRevision3
  <2>3. n \in Nat /\ "audio" \in Tags /\ "audio" \in Destroyed
    BY DEF Tags, Destroyed
  <2> QED BY <2>1, <2>2, <2>3 DEF BlockStep, KeptStep
<1>6. CASE AudioAllocFails
  <2> PICK len \in Payloads : Element(len) /\ \E n \in 0..(len \div 3) :
        /\ n < len \div 3
        /\ Log(len % 3 # 0, n > 0 \/ (len \div 3 > 1 /\ UntilRevision3))
        /\ Calloc(TRUE)
        /\ Rejected(n)
    BY <1>6 DEF AudioAllocFails
  <2>1. PICK n \in 0..(len \div 3) :
          /\ Log(len % 3 # 0, n > 0 \/ (len \div 3 > 1 /\ UntilRevision3))
          /\ Calloc(TRUE) /\ Rejected(n)
    OBVIOUS
  <2>2. Reports
    BY <2>1, LogReports DEF UntilRevision3
  <2>3. n \in Nat
    OBVIOUS
  <2> QED BY <2>1, <2>2, <2>3 DEF BlockStep, RejectedStep
<1>7. CASE SpeakerAllocBlock
  <2>1. PICK len \in Payloads :
          /\ Element(len) /\ Calloc(FALSE)
          /\ \/ Log(FALSE, "speaker_alloc" = "speaker_alloc") /\ Kept("speaker_alloc", 0)
             \/ Log(TRUE, FALSE) /\ Rejected(0)
    BY <1>7 DEF SpeakerAllocBlock, SizedBlock
  <2>2. CASE Log(FALSE, "speaker_alloc" = "speaker_alloc") /\ Kept("speaker_alloc", 0)
    BY <2>1, <2>2, LogReports DEF BlockStep, KeptStep, Tags
  <2>3. CASE Log(TRUE, FALSE) /\ Rejected(0)
    BY <2>1, <2>3, LogReports DEF BlockStep, RejectedStep
  <2> QED BY <2>1, <2>2, <2>3
<1>8. CASE VesaTransferBlock
  <2>1. PICK len \in Payloads :
          /\ Element(len) /\ Calloc(FALSE)
          /\ \/ Log(FALSE, "vesa_transfer" = "speaker_alloc") /\ Kept("vesa_transfer", 0)
             \/ Log(TRUE, FALSE) /\ Rejected(0)
    BY <1>8 DEF VesaTransferBlock, SizedBlock
  <2>2. CASE Log(FALSE, "vesa_transfer" = "speaker_alloc") /\ Kept("vesa_transfer", 0)
    BY <2>1, <2>2, LogReports DEF BlockStep, KeptStep, Tags
  <2>3. CASE Log(TRUE, FALSE) /\ Rejected(0)
    BY <2>1, <2>3, LogReports DEF BlockStep, RejectedStep
  <2> QED BY <2>1, <2>2, <2>3
<1>9. CASE IgnoredBlock
  <2>1. PICK len \in Payloads :
          /\ Element(len) /\ Calloc(FALSE) /\ Skipped(0) /\ UNCHANGED torn
          /\ Log(FALSE, FALSE) \/ Log(UntilRevision3, FALSE) \/ Log(TRUE, FALSE)
    BY <1>9 DEF IgnoredBlock
  <2>2. Reports
    BY <2>1, LogReports DEF UntilRevision3
  <2> QED BY <2>1, <2>2 DEF BlockStep, SkippedStep, TypeOK
<1>10. CASE OpaqueBlock
  BY <1>10, LogReports DEF OpaqueBlock, BlockStep, KeptStep, Tags
<1> DEFINE Drop(len) == /\ Element(len) /\ Calloc(FALSE) /\ Log(TRUE, FALSE)
                        /\ Skipped(0) /\ UNCHANGED torn
<1>11. ASSUME NEW len \in Payloads, Drop(len) PROVE SkippedStep
  BY <1>11, LogReports DEF SkippedStep, TypeOK
<1> HIDE DEF Drop
<1>12. ASSUME NEW tag \in Decoded, NEW len \in Payloads,
              Element(len), Calloc(FALSE),
              \/ Log(FALSE, TRUE) /\ Kept(tag, 0)
              \/ Log(TRUE, FALSE) /\ Skipped(0) /\ UNCHANGED torn
       PROVE  BlockStep
  <2>1. CASE Log(FALSE, TRUE) /\ Kept(tag, 0)
    BY <1>12, <2>1, LogReports DEF BlockStep, KeptStep, Tags
  <2>2. CASE Log(TRUE, FALSE) /\ Skipped(0) /\ UNCHANGED torn
    BY <1>12, <2>2, <1>11 DEF Drop, BlockStep
  <2> QED BY <1>12, <2>1, <2>2
<1>17. CASE VideoCapBlock
  BY <1>17, <1>12 DEF VideoCapBlock, DecodedBlock, Extended, Decoded
<1>18. CASE VesaDddbBlock
  BY <1>18, <1>12 DEF VesaDddbBlock, DecodedBlock, Extended, Decoded
<1>19. CASE ColorimetryBlock
  BY <1>19, <1>12 DEF ColorimetryBlock, DecodedBlock, Extended, Decoded
<1>20. CASE HdrStaticBlock
  BY <1>20, <1>12 DEF HdrStaticBlock, DecodedBlock, Extended, Decoded
<1>21. CASE HdrDynamicBlock
  BY <1>21, <1>12 DEF HdrDynamicBlock, DecodedBlock, Extended, Decoded
<1>22. CASE RoomConfigBlock
  BY <1>22, <1>12 DEF RoomConfigBlock, DecodedBlock, Extended, Decoded
<1>23. CASE DidViiBlock
  BY <1>23, <1>12 DEF DidViiBlock, DecodedBlock, Extended, Decoded
<1>13. CASE VideoFormatPrefBlock
  <2> PICK len \in Payloads : Extended(len) /\ \E n \in 0..(len - 1), bad \in BOOLEAN :
        /\ Log(bad, FALSE)
        /\ \/ Calloc(FALSE) /\ Kept("video_format_pref", n)
           \/ Calloc(TRUE) /\ Skipped(n) /\ UNCHANGED torn
    BY <1>13 DEF VideoFormatPrefBlock
  <2>1. PICK n \in 0..(len - 1), bad \in BOOLEAN :
          /\ Element(len) /\ Log(bad, FALSE)
          /\ \/ Calloc(FALSE) /\ Kept("video_format_pref", n)
             \/ Calloc(TRUE) /\ Skipped(n) /\ UNCHANGED torn
    BY DEF Extended
  <2>2. Reports /\ n \in Nat
    <3>1. Reports
      BY <2>1, LogReports
    <3>2. n \in Nat
      OBVIOUS
    <3> QED BY <3>1, <3>2
  <2>3. "video_format_pref" \in Tags /\ "video_format_pref" \in Destroyed
    BY DEF Tags, Destroyed
  <2>4. CASE Calloc(FALSE) /\ Kept("video_format_pref", n)
    BY <2>1, <2>2, <2>3, <2>4 DEF BlockStep, KeptStep
  <2>5. CASE Calloc(TRUE) /\ Skipped(n) /\ UNCHANGED torn
    BY <2>1, <2>2, <2>5 DEF BlockStep, SkippedStep, TypeOK
  <2> QED BY <2>1, <2>4, <2>5
<1>14. CASE HdmiAudioBlock
  <2> PICK len \in Payloads, d \in 0..7 : Extended(len) /\ \E n \in 0..d :
        \/ Log(TRUE, FALSE) /\ Calloc(FALSE) /\ Skipped(0) /\ UNCHANGED torn
        \/ /\ n = 0 /\ Log(len - 1 >= 2 /\ d > 0, TRUE)
           /\ Calloc(FALSE) /\ Kept("hdmi_audio", 0)
        \/ Log(FALSE, TRUE) /\ Calloc(FALSE) /\ Kept("hdmi_audio", n)
        \/ Log(FALSE, TRUE) /\ Calloc(TRUE) /\ Skipped(n) /\ UNCHANGED torn
    BY <1>14 DEF HdmiAudioBlock
  <2>1. PICK n \in 0..d :
          /\ Element(len)
          /\ \/ Log(TRUE, FALSE) /\ Calloc(FALSE) /\ Skipped(0) /\ UNCHANGED torn
             \/ /\ n = 0 /\ Log(len - 1 >= 2 /\ d > 0, TRUE)
                /\ Calloc(FALSE) /\ Kept("hdmi_audio", 0)
             \/ Log(FALSE, TRUE) /\ Calloc(FALSE) /\ Kept("hdmi_audio", n)
             \/ /\ Log(FALSE, TRUE) /\ Calloc(TRUE)
                /\ Skipped(n) /\ UNCHANGED torn
    BY DEF Extended
  <2>2. Reports /\ n \in Nat
    <3>1. Reports
      BY <2>1, LogReports
    <3>2. n \in Nat
      OBVIOUS
    <3> QED BY <3>1, <3>2
  <2>3. "hdmi_audio" \in Tags /\ "hdmi_audio" \in Destroyed
    BY DEF Tags, Destroyed
  <2>4. CASE Log(TRUE, FALSE) /\ Calloc(FALSE) /\ Skipped(0) /\ UNCHANGED torn
    BY <2>1, <2>4, <1>11 DEF Drop, BlockStep
  <2>5. ASSUME NEW k \in {0, n}, Calloc(FALSE), Kept("hdmi_audio", k) PROVE KeptStep
    BY <2>1, <2>2, <2>3, <2>5 DEF KeptStep
  <2>6. CASE Calloc(TRUE) /\ Skipped(n) /\ UNCHANGED torn
    BY <2>1, <2>2, <2>6 DEF BlockStep, SkippedStep, TypeOK
  <2> QED BY <2>1, <2>4, <2>5, <2>6 DEF BlockStep
<1>15. CASE SpeakerLocationBlock
  <2> PICK len \in Payloads : Extended(len) /\
        \E a \in 0..(len \div 2), b \in 0..(len \div 5) :
          \/ Log(TRUE, FALSE) /\ Calloc(FALSE) /\ Skipped(0) /\ UNCHANGED torn
          \/ Log(FALSE, TRUE) /\ Calloc(FALSE) /\ Kept("speaker_location", a + b)
          \/ Log(TRUE, FALSE) /\ Calloc(FALSE) /\ Skipped(a + b) /\ torn' = TRUE
          \/ Log(FALSE, TRUE) /\ Calloc(TRUE) /\ Skipped(a + b) /\ UNCHANGED torn
    BY <1>15 DEF SpeakerLocationBlock
  <2>1. PICK a \in 0..(len \div 2), b \in 0..(len \div 5) :
          /\ Element(len)
          /\ \/ Log(TRUE, FALSE) /\ Calloc(FALSE) /\ Skipped(0) /\ UNCHANGED torn
             \/ Log(FALSE, TRUE) /\ Calloc(FALSE) /\ Kept("speaker_location", a + b)
             \/ Log(TRUE, FALSE) /\ Calloc(FALSE) /\ Skipped(a + b) /\ torn' = TRUE
             \/ Log(FALSE, TRUE) /\ Calloc(TRUE) /\ Skipped(a + b) /\ UNCHANGED torn
    BY DEF Extended
  <2>2. Reports /\ a + b \in Nat
    <3>1. Reports
      BY <2>1, LogReports
    <3>2. a + b \in Nat
      OBVIOUS
    <3> QED BY <3>1, <3>2
  <2>3. "speaker_location" \in Tags /\ "speaker_location" \in Destroyed
    BY DEF Tags, Destroyed
  <2>4. CASE Log(TRUE, FALSE) /\ Calloc(FALSE) /\ Skipped(0) /\ UNCHANGED torn
    BY <2>1, <2>4, <1>11 DEF Drop, BlockStep
  <2>5. CASE Calloc(FALSE) /\ Kept("speaker_location", a + b)
    BY <2>1, <2>2, <2>3, <2>5 DEF BlockStep, KeptStep
  <2>6. CASE Calloc(FALSE) /\ Skipped(a + b) /\ torn' = TRUE
    BY <2>1, <2>2, <2>6 DEF BlockStep, SkippedStep
  <2>7. CASE Calloc(TRUE) /\ Skipped(a + b) /\ UNCHANGED torn
    BY <2>1, <2>2, <2>7 DEF BlockStep, SkippedStep, TypeOK
  <2> QED BY <2>1, <2>4, <2>5, <2>6, <2>7
<1>16. CASE InfoFrameBlock
  <2>1. PICK len \in Payloads : /\ Element(len)
          /\ \/ Log(TRUE, FALSE) /\ Calloc(FALSE) /\ Skipped(0) /\ UNCHANGED torn
             \/ \E n \in 0..len, lost \in BOOLEAN :
                  /\ Calloc(lost)
                  /\ \/ Log(FALSE, TRUE) /\ Kept("infoframe", n)
                     \/ Log(TRUE, FALSE) /\ Skipped(n) /\ torn' = TRUE
    BY <1>16 DEF InfoFrameBlock, Extended
  <2>2. CASE Log(TRUE, FALSE) /\ Calloc(FALSE) /\ Skipped(0) /\ UNCHANGED torn
    BY <2>1, <2>2, <1>11 DEF Drop, BlockStep
  <2>3. ASSUME NEW n \in 0..len, NEW lost \in BOOLEAN, Calloc(lost),
               Log(FALSE, TRUE), Kept("infoframe", n)
        PROVE  KeptStep
    <3>1. n \in Nat /\ "infoframe" \in Tags /\ "infoframe" \in Destroyed
      BY DEF Tags, Destroyed
    <3> QED BY <2>1, <2>3, <3>1, LogReports DEF KeptStep
  <2>4. ASSUME NEW n \in 0..len, NEW lost \in BOOLEAN, Calloc(lost),
               Log(TRUE, FALSE), Skipped(n), torn' = TRUE
        PROVE  SkippedStep
    <3>1. n \in Nat
      OBVIOUS
    <3>2. Element(len) /\ Reports
      BY <2>1, <2>4, LogReports
    <3> QED BY <2>4, <3>1, <3>2 DEF SkippedStep
  <2> QED BY <2>1, <2>2, <2>3, <2>4 DEF BlockStep
<1> QED
  BY <1>1, <1>3, <1>4, <1>5, <1>6, <1>7, <1>8, <1>9, <1>10, <1>13, <1>14,
     <1>15, <1>16, <1>17, <1>18, <1>19, <1>20, <1>21, <1>22, <1>23 DEF DataBlock

-----------------------------------------------------------------------------
(* The structure as the caller allocates it satisfies the invariant.       *)
LEMMA InitIInv == Init => IInv
<1> SUFFICES ASSUME Init PROVE IInv
  OBVIOUS
<1> USE CtaGeometry, CtaErrnos DEF Init
<1>1. TypeOK
  <2>1. HeaderSize \in 0..DtdEnd
    OBVIOUS
  <2>2. elem \in [at : 0..DtdEnd, next : 0..DtdEnd]
    BY <2>1
  <2>3. errno \in Errnos
    OBVIOUS
  <2> QED BY <2>1, <2>2, <2>3 DEF TypeOK
<1>2. CursorInv /\ CapacityHolds
  BY DEF CursorInv, CapacityHolds
<1>3. OwnedIsLive /\ HeapClean
  BY DEF OwnedIsLive, HeapClean, Owned
<1>4. NoSilentGap /\ RejectionExplained /\ OomIsNotEinval
  BY DEF NoSilentGap, RejectionExplained, OomIsNotEinval
<1> QED BY <1>1, <1>2, <1>3, <1>4 DEF IInv

(* Reading the header preserves the invariant.                             *)
LEMMA HeaderStep == ASSUME IInv, Header PROVE IInv'
<1> USE CtaGeometry, CtaBytes DEF IInv
<1>0. hdr' = hdr /\ i' = i /\ elem' = elem /\ UNCHANGED kept /\ live' = live /\ oom' = oom
      /\ torn' = torn /\ pc = "header" /\ pc' \in {"done", "failed", "blocks"}
  BY DEF Header, HeaderNoBlocks, HeaderBadOffset, HeaderOk, input, heap
<1>1. reported' \in BOOLEAN
  <2>1. Reports
    BY LogReports DEF Header, HeaderNoBlocks, HeaderBadOffset, HeaderOk, HeaderLog
  <2> QED BY <2>1 DEF Reports
<1>2. errno' \in Errnos
  BY DEF Header, HeaderNoBlocks, HeaderBadOffset, HeaderOk, heap, TypeOK, Errnos
<1>3. TypeOK'
  BY <1>0, <1>1, <1>2 DEF TypeOK, kept
<1>4. CursorInv'
  <2>1. hdr.dtd_start \in Nat /\ elem.at <= elem.next
    BY DEF TypeOK, CursorInv
  <2>2. /\ i = HeaderSize /\ elem.next = HeaderSize
        /\ data_blocks_len = 0 /\ dtds_len = 0
    BY <1>0 DEF CursorInv
  <2>3. pc' = "blocks" => HeaderSize <= hdr.dtd_start /\ hdr.dtd_start <= DtdEnd
    BY <1>0, <2>1 DEF Header, HeaderNoBlocks, HeaderBadOffset, HeaderOk
  <2> QED BY <1>0, <2>1, <2>2, <2>3 DEF CursorInv, kept
<1>5. (CapacityHolds /\ OwnedIsLive /\ HeapClean)'
  BY <1>0 DEF CapacityHolds, OwnedIsLive, HeapClean, Owned, CursorInv, TypeOK, kept
<1>6. (NoSilentGap /\ RejectionExplained /\ OomIsNotEinval)'
  BY <1>0 DEF NoSilentGap, RejectionExplained, OomIsNotEinval, CursorInv,
     Header, HeaderNoBlocks, HeaderBadOffset, HeaderOk
<1> QED BY <1>3, <1>4, <1>5, <1>6

(* What the four kinds of data block steps have in common.                 *)
LEMMA ElementFacts ==
  ASSUME IInv, NEW len \in Payloads, Element(len)
  PROVE  /\ pc = "blocks" /\ hdr' = hdr /\ dtds_len' = dtds_len /\ timings' = timings
         /\ elem' \in [at : 0..DtdEnd, next : 0..DtdEnd]
         /\ elem'.at < elem'.next
         /\ elem'.next = i + 1 + len /\ elem'.next <= hdr.dtd_start
         /\ i \in Nat /\ hdr.dtd_start \in Nat
         /\ hdr \in [revision : Revisions, dtd_start : DtdStarts, byte3 : BOOLEAN]
<1> USE CtaGeometry, CtaBytes DEF IInv
<1>1. /\ pc = "blocks" /\ hdr' = hdr /\ dtds_len' = dtds_len /\ timings' = timings
      /\ i + 1 + len <= hdr.dtd_start
      /\ elem' = [at |-> i, next |-> i + 1 + len]
  BY DEF Element, input
<1>2. /\ i \in 0..DtdEnd /\ hdr.dtd_start \in Nat /\ hdr.dtd_start <= DtdEnd
      /\ hdr \in [revision : Revisions, dtd_start : DtdStarts, byte3 : BOOLEAN]
  BY <1>1 DEF CursorInv, TypeOK
<1>3. len \in Nat /\ i + 1 + len \in 0..DtdEnd
  BY <1>1, <1>2
<1> QED BY <1>1, <1>2, <1>3

(* What a calloc does to errno keeps OomIsNotEinval and the type of errno. *)
LEMMA CallocFacts ==
  ASSUME IInv, NEW fails \in BOOLEAN, Calloc(fails)
  PROVE  /\ oom' \in BOOLEAN /\ errno' \in Errnos
         /\ OomIsNotEinval'
         /\ oom => oom'
         /\ fails => oom'
BY DEF IInv, Calloc, OomIsNotEinval, TypeOK, Errnos

(* Appending a data block preserves the invariant.                         *)
LEMMA KeptStepInv == ASSUME IInv, KeptStep PROVE IInv'
<1> USE CtaGeometry, CtaBytes DEF IInv
<1>0. PICK len \in Payloads, n \in Nat, tag \in Tags, fails \in BOOLEAN :
        /\ Element(len) /\ Calloc(fails) /\ Reports
        /\ tag \in Destroyed \/ n = 0
        /\ Kept(tag, n)
  BY DEF KeptStep
<1>1. /\ pc' = "blocks" /\ torn' = torn /\ i' = elem'.next
      /\ data_blocks_len' = data_blocks_len + 1
      /\ children' = children + n /\ live' = live + 1 + n
  BY <1>0, ElementFacts DEF Kept, Freed, TypeOK
<1>2. TypeOK'
  BY <1>0, <1>1, ElementFacts, CallocFacts DEF TypeOK, Reports
<1>3. CursorInv' /\ CapacityHolds'
  BY <1>0, <1>1, ElementFacts DEF CursorInv, CapacityHolds, TypeOK
<1>4. OwnedIsLive' /\ HeapClean'
  BY <1>0, <1>1, ElementFacts, CallocFacts DEF OwnedIsLive, HeapClean, Owned, TypeOK
<1>5. NoSilentGap' /\ RejectionExplained' /\ OomIsNotEinval'
  BY <1>0, <1>1, CallocFacts DEF NoSilentGap, RejectionExplained
<1> QED BY <1>2, <1>3, <1>4, <1>5

(* Dropping a data block (label skip) preserves the invariant.             *)
LEMMA SkippedStepInv == ASSUME IInv, SkippedStep PROVE IInv'
<1> USE CtaGeometry, CtaBytes DEF IInv
<1>0. PICK len \in Payloads, n \in Nat, fails \in BOOLEAN :
        /\ Element(len) /\ Calloc(fails) /\ Reports
        /\ Skipped(n)
        /\ torn' \in BOOLEAN /\ (torn => torn')
        /\ n = 0 \/ fails \/ torn'
  BY DEF SkippedStep
<1>1. /\ pc' = "blocks" /\ i' = elem'.next
      /\ data_blocks_len' = data_blocks_len /\ children' = children
      /\ live' = live + n
  BY <1>0, ElementFacts DEF Skipped
<1>2. TypeOK'
  BY <1>0, <1>1, ElementFacts, CallocFacts DEF TypeOK, Reports
<1>3. CursorInv' /\ CapacityHolds'
  BY <1>0, <1>1, ElementFacts DEF CursorInv, CapacityHolds, TypeOK
<1>4. OwnedIsLive' /\ HeapClean'
  BY <1>0, <1>1, ElementFacts, CallocFacts DEF OwnedIsLive, HeapClean, Owned, TypeOK
<1>5. NoSilentGap' /\ RejectionExplained' /\ OomIsNotEinval'
  BY <1>0, <1>1, CallocFacts DEF NoSilentGap, RejectionExplained
<1> QED BY <1>2, <1>3, <1>4, <1>5

(* Giving up on a data block (label error) preserves the invariant.        *)
LEMMA RejectedStepInv == ASSUME IInv, RejectedStep PROVE IInv'
<1> USE CtaGeometry, CtaBytes DEF IInv
<1>0. PICK len \in Payloads, n \in Nat, fails \in BOOLEAN :
        /\ Element(len) /\ Calloc(fails) /\ Reports
        /\ fails \/ (n = 0 /\ reported')
        /\ Rejected(n)
  BY DEF RejectedStep
<1>1. /\ pc' = "failed" /\ i' = i /\ torn' = torn
      /\ data_blocks_len' = data_blocks_len /\ children' = children
      /\ live' = live + n - (data_blocks_len + children + dtds_len)
  BY <1>0, ElementFacts DEF Rejected, Freed, Destroyed, Owned, TypeOK
<1>2. live' \in Nat /\ live' >= n
  BY <1>1, <1>0, ElementFacts DEF OwnedIsLive, Owned, TypeOK
<1>3. TypeOK'
  BY <1>0, <1>1, <1>2, ElementFacts, CallocFacts DEF TypeOK, Reports
<1>4. CursorInv' /\ CapacityHolds'
  BY <1>0, <1>1, ElementFacts DEF CursorInv, CapacityHolds, TypeOK
<1>5. OwnedIsLive' /\ HeapClean'
  BY <1>0, <1>1, <1>2, ElementFacts, CallocFacts DEF OwnedIsLive, HeapClean, Owned, TypeOK
<1>6. NoSilentGap' /\ RejectionExplained' /\ OomIsNotEinval'
  BY <1>0, <1>1, CallocFacts DEF NoSilentGap, RejectionExplained, OomIsNotEinval
<1> QED BY <1>3, <1>4, <1>5, <1>6

(* A failed calloc of the data block preserves the invariant.              *)
LEMMA BlockAllocFailsInv == ASSUME IInv, BlockAllocFails PROVE IInv'
<1> USE CtaGeometry, CtaBytes DEF IInv
<1>0. PICK len \in Payloads :
        /\ Element(len) /\ Calloc(TRUE)
        /\ live' = live - Owned
        /\ pc' = "failed"
        /\ UNCHANGED <<i, data_blocks_len, children, torn, reported>>
  BY DEF BlockAllocFails
<1>1. live' \in Nat /\ oom'
  <2>1. live' \in Nat
    BY <1>0, ElementFacts DEF OwnedIsLive, Owned, TypeOK
  <2>2. oom'
    BY <1>0, CallocFacts
  <2> QED BY <2>1, <2>2
<1>2. TypeOK'
  BY <1>0, <1>1, ElementFacts, CallocFacts DEF TypeOK
<1>3. CursorInv' /\ CapacityHolds'
  BY <1>0, ElementFacts DEF CursorInv, CapacityHolds, TypeOK
<1>4. OwnedIsLive' /\ HeapClean'
  BY <1>0, <1>1 DEF OwnedIsLive, HeapClean, Owned
<1>5. NoSilentGap' /\ RejectionExplained' /\ OomIsNotEinval'
  BY <1>0, <1>1, CallocFacts DEF NoSilentGap, RejectionExplained, OomIsNotEinval
<1> QED BY <1>2, <1>3, <1>4, <1>5

(* Moving on to the detailed timings preserves the invariant.              *)
LEMMA LeaveBlocksInv == ASSUME IInv, Overlap \/ EndBlocks PROVE IInv'
<1> USE CtaGeometry, CtaBytes DEF IInv
<1>0. /\ pc = "blocks" /\ pc' = "dtds" /\ i' = hdr.dtd_start
      /\ hdr' = hdr /\ elem' = elem /\ UNCHANGED kept /\ UNCHANGED heap
  BY DEF Overlap, EndBlocks, input
<1>1. Reports
  BY LogReports DEF Overlap, EndBlocks
<1>2. elem.next = hdr.dtd_start \/ reported'
  <2>1. CASE Overlap
    BY <2>1, LogReports DEF Overlap
  <2>2. CASE EndBlocks
    BY <2>2, <1>0 DEF EndBlocks, CursorInv, TypeOK
  <2> QED BY <2>1, <2>2
<1>3. TypeOK'
  BY <1>0, <1>1 DEF TypeOK, CursorInv, Reports, kept, heap
<1>4. CursorInv' /\ CapacityHolds'
  BY <1>0 DEF TypeOK, CursorInv, CapacityHolds, kept
<1>5. OwnedIsLive' /\ HeapClean'
  BY <1>0 DEF OwnedIsLive, HeapClean, Owned, kept, heap
<1>6. NoSilentGap' /\ RejectionExplained' /\ OomIsNotEinval'
  BY <1>0, <1>2 DEF NoSilentGap, RejectionExplained, OomIsNotEinval, heap
<1> QED BY <1>3, <1>4, <1>5, <1>6

-----------------------------------------------------------------------------
(* The sums the structure's counters form are natural numbers.             *)
LEMMA SumNat == ASSUME NEW a \in Nat, NEW b \in Nat, NEW c \in Nat
                PROVE  a + b + c \in Nat
OBVIOUS

(* Products of natural numbers are natural numbers.                        *)
LEMMA MultNat == ASSUME NEW a \in Nat, NEW b \in Nat PROVE a * b \in Nat
OBVIOUS

(* Multiplying by a natural number is monotonic.                           *)
LEMMA MultMono == ASSUME NEW a \in Nat, NEW b \in Nat, NEW d \in Nat, a <= b
                  PROVE  a * d <= b * d
<1>1. PICK k \in Nat : b = a + k
  <2>1. b - a \in Nat /\ b = a + (b - a)
    OBVIOUS
  <2> QED BY <2>1
<1>2. b * d = a * d + k * d
  BY <1>1
<1>3. k * d \in Nat /\ a * d \in Nat
  OBVIOUS
<1> QED BY <1>2, <1>3

(* Keeping a detailed timing preserves the invariant.                      *)
LEMMA DtdKeptInv == ASSUME IInv, DtdKept PROVE IInv'
<1> USE CtaGeometry, CtaBytes DEF IInv
<1>0. /\ pc = "dtds" /\ i + DtdSize <= DtdEnd /\ dtds_len' = dtds_len + 1
      /\ timings' = timings + 1 /\ live' = live + 1 /\ i' = i + DtdSize
      /\ UNCHANGED <<hdr, pc, elem, data_blocks_len, children, errno, oom, torn, reported>>
  BY DEF DtdKept, DtdFits, input
<1>1. TypeOK'
  BY <1>0 DEF TypeOK
<1>2. i' = hdr.dtd_start + dtds_len' * DtdSize
  <2>1. (dtds_len + 1) * DtdSize = dtds_len * DtdSize + DtdSize
    BY DEF TypeOK
  <2>2. dtds_len * DtdSize \in Nat /\ hdr.dtd_start \in Nat
    BY MultNat DEF TypeOK
  <2>3. i = hdr.dtd_start + dtds_len * DtdSize
    BY <1>0 DEF CursorInv
  <2> HIDE DEF IInv
  <2> QED BY <1>0, <2>1, <2>2, <2>3
<1>3. dtds_len' <= MaxDtds
  <2> SUFFICES ASSUME MaxDtds + 1 <= dtds_len' PROVE FALSE
    BY <1>0 DEF TypeOK
  <2>1. (MaxDtds + 1) * DtdSize <= dtds_len' * DtdSize
    BY <1>0, MultMono DEF TypeOK
  <2>2. /\ (MaxDtds + 1) * DtdSize \in Nat /\ dtds_len' * DtdSize \in Nat
        /\ hdr.dtd_start \in Nat /\ HeaderSize <= hdr.dtd_start
    <3>1. MaxDtds + 1 \in Nat /\ dtds_len' \in Nat /\ DtdSize \in Nat
      BY <1>0 DEF TypeOK
    <3>2. hdr.dtd_start \in Nat /\ HeaderSize <= hdr.dtd_start
      BY <1>0 DEF CursorInv, TypeOK
    <3> QED BY <3>1, <3>2, MultNat
  <2>3. HeaderSize + (MaxDtds + 1) * DtdSize <= i'
    BY <1>2, <2>1, <2>2
  <2> QED BY <1>0, <2>2, <2>3 DEF TypeOK
<1>4. CursorInv' /\ CapacityHolds'
  BY <1>0, <1>2, <1>3 DEF CursorInv, CapacityHolds, TypeOK
<1>5. OwnedIsLive' /\ HeapClean'
  BY <1>0 DEF OwnedIsLive, HeapClean, Owned, TypeOK
<1>6. NoSilentGap' /\ RejectionExplained' /\ OomIsNotEinval'
  BY <1>0 DEF NoSilentGap, RejectionExplained, OomIsNotEinval
<1> QED BY <1>1, <1>4, <1>5, <1>6

(* A failed calloc of a detailed timing preserves the invariant.           *)
LEMMA DtdAllocFailsInv == ASSUME IInv, DtdAllocFails PROVE IInv'
<1> USE CtaGeometry, CtaBytes DEF IInv
<1>0. /\ pc = "dtds" /\ pc' = "failed" /\ Calloc(TRUE)
      /\ timings' = timings + 1 /\ live' = live - Owned
      /\ UNCHANGED <<hdr, i, elem, data_blocks_len, children, dtds_len, torn, reported>>
  BY DEF DtdAllocFails, input
<1>1. live' \in Nat /\ oom'
  <2>1. live' \in Nat
    BY <1>0 DEF OwnedIsLive, Owned, TypeOK
  <2>2. oom'
    BY <1>0, CallocFacts
  <2> QED BY <2>1, <2>2
<1>2. TypeOK'
  <2>1. oom' \in BOOLEAN /\ errno' \in Errnos
    BY <1>0, CallocFacts
  <2> QED BY <1>0, <1>1, <2>1 DEF TypeOK
<1>3. CursorInv' /\ CapacityHolds'
  BY <1>0 DEF CursorInv, CapacityHolds
<1>4. OwnedIsLive' /\ HeapClean'
  BY <1>0, <1>1 DEF OwnedIsLive, HeapClean, Owned
<1>5. NoSilentGap' /\ RejectionExplained' /\ OomIsNotEinval'
  BY <1>0, <1>1, CallocFacts DEF NoSilentGap, RejectionExplained, OomIsNotEinval
<1> QED BY <1>2, <1>3, <1>4, <1>5

(* Scanning the padding preserves the invariant.                           *)
LEMMA PaddingInv == ASSUME IInv, Padding PROVE IInv'
<1> USE CtaGeometry, CtaBytes DEF IInv
<1>0. PICK first \in i..DtdEnd :
      /\ pc = "dtds" /\ pc' = "done" /\ i' = first
      /\ timings' = IF DtdFits /\ first = i + 1 THEN timings + 1 ELSE timings
      /\ Log(first < DtdEnd, FALSE)
      /\ UNCHANGED <<hdr, elem, data_blocks_len, children, dtds_len, live, errno, oom, torn>>
  BY DEF Padding, input, heap
<1>1. Reports
  BY <1>0, LogReports
<1>2. TypeOK'
  BY <1>0, <1>1 DEF TypeOK, Reports
<1>3. CursorInv' /\ CapacityHolds'
  BY <1>0 DEF CursorInv, CapacityHolds
<1>4. OwnedIsLive' /\ HeapClean'
  BY <1>0 DEF OwnedIsLive, HeapClean, Owned
<1>5. NoSilentGap' /\ RejectionExplained' /\ OomIsNotEinval'
  BY <1>0, <1>1 DEF NoSilentGap, RejectionExplained, OomIsNotEinval, Reports
<1> QED BY <1>2, <1>3, <1>4, <1>5

(* Every step, and every stutter, preserves the invariant.                 *)
LEMMA NextIInv == IInv /\ [Next]_vars => IInv'
<1> SUFFICES ASSUME IInv, [Next]_vars PROVE IInv'
  OBVIOUS
<1>1. CASE Header
  BY <1>1, HeaderStep
<1>2. CASE DataBlock
  <2>1. BlockStep
    BY <1>2, BlockSteps DEF IInv
  <2> QED
    BY <2>1, KeptStepInv, SkippedStepInv, RejectedStepInv, BlockAllocFailsInv DEF BlockStep
<1>3. CASE Overlap \/ EndBlocks
  BY <1>3, LeaveBlocksInv
<1>4. CASE Dtds
  BY <1>4, DtdKeptInv, DtdAllocFailsInv, PaddingInv DEF Dtds
<1>5. CASE UNCHANGED vars
  BY <1>5 DEF vars, IInv, TypeOK, CursorInv, CapacityHolds, OwnedIsLive, HeapClean, Owned,
     NoSilentGap, RejectionExplained, OomIsNotEinval
<1> QED BY <1>1, <1>2, <1>3, <1>4, <1>5 DEF Next

(* The inductive invariant holds in every state the parser reaches.        *)
THEOREM Invariance == Spec => []IInv
BY InitIInv, NextIInv, PTL DEF Spec

-----------------------------------------------------------------------------
(* Every value stays in its type: the cursor and every data block lie      *)
(* below the checksum, whatever the bytes of the block are.                *)
THEOREM TypeCorrect == Spec => []TypeOK
<1>1. IInv => TypeOK
  BY DEF IInv
<1> QED BY <1>1, Invariance, PTL

(* The fixed-size arrays never overflow: the assertions before the appends *)
(* to data_blocks[] and detailed_timing_defs[] hold in every state.        *)
THEOREM NoOverflow == Spec => []CapacityHolds
<1>1. IInv => CapacityHolds
  BY DEF IInv
<1> QED BY <1>1, Invariance, PTL

(* What finishing the block frees has not been freed before.               *)
THEOREM NoDoubleFree == Spec => []OwnedIsLive
<1>1. IInv => OwnedIsLive
  BY DEF IInv
<1> QED BY <1>1, Invariance, PTL

(* A block without failed allocations and torn lists leaves nothing        *)
(* behind, kept or rejected.                                               *)
THEOREM CleanHeap == Spec => []HeapClean
<1>1. IInv => HeapClean
  BY DEF IInv
<1> QED BY <1>1, Invariance, PTL

(* A gap between the data blocks and the timings is always reported.       *)
THEOREM GapsReported == Spec => []NoSilentGap
<1>1. IInv => NoSilentGap
  BY DEF IInv
<1> QED BY <1>1, Invariance, PTL

(* A rejection can always be told from errno or from the report, and a     *)
(* failed allocation never looks like EINVAL to parse_ext.                 *)
THEOREM RejectionsVisible == Spec => [](RejectionExplained /\ OomIsNotEinval)
<1>1. IInv => RejectionExplained /\ OomIsNotEinval
  BY DEF IInv
<1> QED BY <1>1, Invariance, PTL

(* Entry k of detailed_timing_defs[] is slot k after dtd_start.            *)
THEOREM DtdsAreSlots == Spec => []DtdIndexIsSlot
<1>1. IInv => DtdIndexIsSlot
  BY DEF IInv, CursorInv, DtdIndexIsSlot
<1> QED BY <1>1, Invariance, PTL

(* Both loops advance: an iteration that goes on with the same loop leaves *)
(* the cursor behind where it was, even after a data block without payload *)
(* or one that was skipped.  As TypeOK keeps the cursor at or before the   *)
(* checksum, neither loop makes more than DtdEnd of them.                  *)
THEOREM LoopsAdvance == Spec => [][pc' = pc /\ pc \in {"blocks", "dtds"} => i' > i]_vars
<1>1. IInv /\ [Next]_vars => [pc' = pc /\ pc \in {"blocks", "dtds"} => i' > i]_vars
  <2> SUFFICES ASSUME IInv, Next, pc' = pc, pc \in {"blocks", "dtds"}
               PROVE  i' > i
    OBVIOUS
  <2> USE CtaGeometry
  <2>1. CASE DataBlock
    <3>1. BlockStep
      BY <2>1, BlockSteps DEF IInv
    <3>2. PICK len \in Payloads : Element(len) /\ (i' = elem'.next \/ pc' = "failed")
      BY <3>1 DEF BlockStep, KeptStep, SkippedStep, RejectedStep, BlockAllocFails,
         Kept, Skipped, Rejected
    <3>3. i' = i + 1 + len /\ i \in Nat /\ len \in Nat
      BY <3>2, ElementFacts, CtaBytes
    <3> QED BY <3>3
  <2>2. CASE Dtds
    <3>1. DtdKept
      BY <2>2 DEF Dtds, DtdAllocFails, Padding
    <3>2. i' = i + DtdSize /\ i \in Nat
      BY <3>1 DEF DtdKept, IInv, TypeOK
    <3> QED BY <3>2
  <2>3. ~Header /\ ~Overlap /\ ~EndBlocks
    BY DEF Header, HeaderNoBlocks, HeaderBadOffset, HeaderOk, Overlap, EndBlocks
  <2> QED BY <2>1, <2>2, <2>3 DEF Next
<1> QED BY <1>1, Invariance, PTL DEF Spec

-----------------------------------------------------------------------------
(* A step of any data block parser, seen from outside.                     *)
LEMMA BlockStepFacts ==
  ASSUME IInv, DataBlock
  PROVE  \E len \in Payloads : Element(len) /\ pc' \in {"blocks", "failed"}
<1>1. BlockStep
  BY BlockSteps DEF IInv
<1> QED
  BY <1>1 DEF BlockStep, KeptStep, SkippedStep, RejectedStep, BlockAllocFails,
     Element, Kept, Skipped, Rejected

(* The data block loop hands out consecutive, disjoint elements of the     *)
(* region between the header and dtd_start, and nothing after it is left.  *)
THEOREM ImplementsWalk == Spec => IsTlvWalk
<1> USE CtaGeometry, CtaBytes
<1>1. Init => Walk!Init
  BY DEF Init, Walk!Init
<1>2. IInv /\ [Next]_vars => [Walk!Next]_Walk!vars
  <2> SUFFICES ASSUME IInv, [Next]_vars PROVE [Walk!Next]_Walk!vars
    OBVIOUS
  <2> USE DEF Walk!Next, Walk!vars
  <2>1. CASE Header
    BY <2>1 DEF Header, HeaderNoBlocks, HeaderBadOffset, HeaderOk, input, Walk!Leave
  <2>2. CASE DataBlock
    <3>1. PICK len \in Payloads : Element(len) /\ pc' \in {"blocks", "failed"}
      BY <2>2, BlockStepFacts
    <3>2. /\ pc = "blocks" /\ hdr' = hdr /\ elem.next = i
          /\ elem' = [at |-> i, next |-> i + 1 + len]
          /\ elem'.next <= hdr.dtd_start
          /\ i \in Nat /\ len \in Nat
      BY <3>1, ElementFacts DEF Element, IInv, CursorInv
    <3>3. Walk!Take
      BY <3>1, <3>2 DEF Walk!Take
    <3> QED BY <3>3
  <2>3. CASE Overlap \/ EndBlocks
    BY <2>3 DEF Overlap, EndBlocks, input, Walk!Leave
  <2>4. CASE Dtds
    BY <2>4 DEF Dtds, DtdKept, DtdAllocFails, Padding, input
  <2>5. CASE UNCHANGED vars
    BY <2>5 DEF vars
  <2> QED BY <2>1, <2>2, <2>3, <2>4, <2>5 DEF Next
<1> QED BY <1>1, <1>2, Invariance, PTL DEF Spec, IsTlvWalk, Walk!Spec

(* parse_ext may rely on the contract: what the parser owns is always      *)
(* allocated, and errno is EINVAL, ENOMEM, or what it was.                 *)
THEOREM ImplementsContract == Spec => KeepsContract
<1>1. Init => Contract!Init
  BY DEF Init, Contract!Init, Status, Owned
<1>2. IInv /\ IInv' /\ [Next]_vars => [Contract!Next]_Contract!vars
  <2> SUFFICES ASSUME IInv, IInv', [Next]_vars PROVE [Contract!Next]_Contract!vars
    OBVIOUS
  <2> USE DEF Contract!Next, Contract!Errors
  <2>0. /\ live \in Nat /\ live' \in Nat /\ oom \in BOOLEAN /\ oom' \in BOOLEAN
        /\ Owned \in Nat /\ Owned' \in Nat
    <3>1. TypeOK /\ TypeOK'
      BY DEF IInv
    <3>2. Owned \in Nat
      BY <3>1 DEF TypeOK, Owned
    <3>3. Owned' \in Nat
      <4>1. data_blocks_len' \in Nat /\ children' \in Nat /\ dtds_len' \in Nat
        BY <3>1 DEF TypeOK
      <4>2. data_blocks_len' + children' + dtds_len' \in Nat
        BY <4>1, SumNat
      <4> QED BY <4>2 DEF Owned
    <3> QED BY <3>1, <3>2, <3>3 DEF TypeOK
  <2>1. CASE Header
    BY <2>0, <2>1 DEF Header, HeaderNoBlocks, HeaderBadOffset, HeaderOk, kept, heap,
       IInv, CursorInv, OomIsNotEinval, Status, Owned, Contract!Work, Contract!Reject
  <2>2. CASE DataBlock
    <3>1. BlockStep
      BY <2>2, BlockSteps DEF IInv
    <3>2. pc = "blocks" /\ dtds_len' = dtds_len
      BY <2>2, BlockStepFacts DEF Element
    <3>3. ASSUME NEW fails \in BOOLEAN, Calloc(fails) PROVE Contract!Errors({})
      BY <3>3, CallocFacts DEF Calloc, OomIsNotEinval
    <3>4. CASE KeptStep
      <4>1. PICK n \in Nat, tag \in Tags, fails \in BOOLEAN : Calloc(fails) /\ Kept(tag, n)
        BY <3>4 DEF KeptStep
      <4>2. /\ pc' = "blocks" /\ live' = live + 1 + n
            /\ data_blocks_len' = data_blocks_len + 1
            /\ children' = children \/ children' = children + n
        BY <3>2, <4>1 DEF Kept, Freed, IInv, TypeOK
      <4>3. Owned' >= Owned /\ live' - live >= Owned' - Owned
        <5>1. /\ data_blocks_len \in Nat /\ children \in Nat /\ dtds_len \in Nat
              /\ live \in Nat
          BY DEF IInv, TypeOK
        <5>2. /\ Owned = data_blocks_len + children + dtds_len
              /\ Owned' = data_blocks_len' + children' + dtds_len
          BY <3>2, <4>2 DEF Owned
        <5> QED BY <4>2, <5>1, <5>2
      <4>4. Contract!Work
        BY <2>0, <3>3, <4>1, <4>2, <4>3 DEF Contract!Work, Status
      <4> QED BY <3>2, <4>4 DEF Status
    <3>5. CASE SkippedStep
      <4>1. PICK n \in Nat, fails \in BOOLEAN : Calloc(fails) /\ Skipped(n)
        BY <3>5 DEF SkippedStep
      <4>2. /\ pc' = "blocks" /\ live' = live + n
            /\ data_blocks_len' = data_blocks_len /\ children' = children
        BY <3>2, <4>1 DEF Skipped
      <4>3. Owned' >= Owned /\ live' - live >= Owned' - Owned
        BY <3>2, <4>2 DEF Owned, IInv, TypeOK
      <4>4. Contract!Work
        BY <2>0, <3>3, <4>1, <4>2, <4>3 DEF Contract!Work, Status
      <4> QED BY <3>2, <4>4 DEF Status
    <3>6. CASE RejectedStep \/ BlockAllocFails
      <4>1. pc' = "failed" /\ \E fails \in BOOLEAN : Calloc(fails)
        BY <3>6 DEF RejectedStep, Rejected, BlockAllocFails
      <4>2. Contract!Reject
        BY <2>0, <3>3, <4>1 DEF Contract!Reject, Status, Owned
      <4> QED BY <3>2, <4>2 DEF Status
    <3> QED BY <3>1, <3>4, <3>5, <3>6 DEF BlockStep
  <2>3. CASE Overlap \/ EndBlocks
    BY <2>0, <2>3 DEF Overlap, EndBlocks, kept, heap, Status, Owned, Contract!vars
  <2>4. CASE Dtds
    <3>1. ASSUME UNCHANGED <<errno, oom>> PROVE Contract!Errors({})
      BY <2>0, <3>1 DEF IInv, OomIsNotEinval
    <3>2. CASE DtdKept
      <4>1. Owned' = Owned + 1 /\ live' = live + 1 /\ Status' = "parsing"
        BY <3>2 DEF DtdKept, Owned, Status, IInv, TypeOK
      <4>2. Contract!Work
        BY <2>0, <3>1, <3>2, <4>1 DEF DtdKept, Contract!Work
      <4> QED BY <3>2, <4>2 DEF DtdKept, Status
    <3>3. CASE DtdAllocFails
      <4>1. pc' = "failed" /\ Contract!Errors({})
        BY <3>3, CallocFacts DEF DtdAllocFails, Calloc, OomIsNotEinval
      <4>2. Contract!Reject
        BY <2>0, <4>1 DEF Contract!Reject, Status, Owned
      <4> QED BY <3>3, <4>2 DEF DtdAllocFails, Status
    <3>4. CASE Padding
      <4>1. Owned' = Owned /\ live' = live /\ Status' = "ok"
        BY <3>4 DEF Padding, Owned, Status, heap
      <4>2. Contract!Work
        BY <2>0, <3>1, <3>4, <4>1 DEF Padding, heap, Contract!Work
      <4> QED BY <3>4, <4>2 DEF Padding, Status
    <3> QED BY <2>4, <3>2, <3>3, <3>4 DEF Dtds
  <2>5. CASE UNCHANGED vars
    BY <2>5 DEF vars, Status, Owned, Contract!vars
  <2> QED BY <2>1, <2>2, <2>3, <2>4, <2>5 DEF Next
<1> QED BY <1>1, <1>2, Invariance, PTL DEF Spec, KeepsContract, Contract!Spec
=============================================================================
