--------------------------- MODULE DisplayIdProofs ---------------------------
(***************************************************************************)
(* Proofs about DisplayIdSection, for every section size, payload lengths  *)
(* and array sizes that satisfy SectionGeometry.                           *)
(***************************************************************************)
EXTENDS DisplayIdSection, TLAPS

(* How the cursor bounds the arrays: each kept block has consumed at least *)
(* its header, each kept timing its bytes.  An overlong block takes the    *)
(* cursor past the end, after which no block is parsed.                    *)
CursorInv ==
  /\ pc \in {"blocks", "done"} => section_size <= MaxSize
  /\ pc = "header" => /\ data_blocks_len = 0 /\ timings = 0 /\ live = 0
                      /\ ~oom /\ i = elem.next
  /\ MinSize - 1 <= i
  /\ pc = "blocks" /\ i < End => /\ elem.next = i
                                 /\ data_blocks_len * HeaderSize + MinSize - 1 <= i
  /\ oom => errno = "ENOMEM"

(* What the loop knows of the bytes it leaves behind: the cursor is at the *)
(* end of the last data block, unless an overlong one has moved it out of  *)
(* the section, and the header of that one is not all zeroes.              *)
TailInv ==
  /\ zeros <= End
  /\ pc # "done" => "filler" \notin reported
  /\ pc = "header" => "overlong" \notin reported
  /\ pc \in {"header", "blocks"} /\ "overlong" \notin reported => elem.next = i
  /\ pc = "blocks" /\ "overlong" \in reported => End <= i /\ elem.next < zeros

IInv == TypeOK /\ CursorInv /\ TailInv /\ CapacityHolds /\ HeapClean /\ TailReportedIff

-----------------------------------------------------------------------------
LEMMA Products == ASSUME NEW a \in Nat, NEW b \in Nat PROVE a * b \in Nat
OBVIOUS

LEMMA Sums == ASSUME NEW a \in Nat, NEW b \in Nat PROVE a + b \in Nat
OBVIOUS

(* Of two products the smaller has the smaller factor.                     *)
LEMMA SmallerFactor ==
  ASSUME NEW a \in Nat, NEW b \in Nat, NEW d \in Nat, a * d < b * d
  PROVE  a < b
<1>1. SUFFICES ASSUME b <= a PROVE FALSE
  OBVIOUS
<1>2. PICK k \in Nat : a = b + k
  <2> a - b \in Nat /\ a = b + (a - b)
    BY <1>1
  <2> QED OBVIOUS
<1>3. a * d = b * d + k * d
  BY <1>2
<1>4. k * d \in Nat /\ b * d \in Nat
  BY Products
<1> QED BY <1>3, <1>4

(* What every parser of a data block starts from.                          *)
LEMMA Geometry ==
  ASSUME TypeOK
  PROVE  /\ section_size \in Nat /\ End \in Nat /\ End = section_size - 1
         /\ MinSize \in Nat /\ MinSize >= 1 /\ HeaderSize \in Nat /\ HeaderSize >= 1
         /\ MaxSize \in Nat /\ MaxDataBlocks \in Nat /\ i \in Nat
<1>1. hdr.bytes \in Nat /\ i \in Nat
  BY SectionBytes DEF TypeOK
<1>2. MinSize \in Nat /\ MinSize >= 1 /\ HeaderSize \in Nat /\ HeaderSize >= 1
  BY SectionGeometry
<1>3. MaxSize \in Nat /\ MaxDataBlocks \in Nat
  BY SectionGeometry
<1> QED BY <1>1, <1>2, <1>3 DEF section_size, End

(* From `zeros' up to the checksum there is nothing to find.               *)
LEMMA AllZeroes ==
  ASSUME NEW at \in Nat, NEW size \in Nat, zeros \in Nat, End \in Nat,
         zeros <= at, at + size <= End
  PROVE  NonZero(at, size) = {FALSE}
<1>1. ~(at < zeros /\ zeros <= at + size)
  OBVIOUS
<1>2. size = 0 \/ (zeros <= at /\ at + size <= End)
  OBVIOUS
<1> QED BY <1>1, <1>2, Zenon DEF NonZero

(* What the data block parsers may add to the report.                      *)
Reports == reported' \in {reported, reported \cup {"blocks"}}

LEMMA ElementFacts ==
  ASSUME IInv, NEW len \in Payloads, Element(len)
  PROVE  /\ pc = "blocks" /\ i < End /\ elem.next = i /\ len \in Nat
         /\ elem' = [at |-> i, next |-> i + len + HeaderSize]
         /\ i + len + HeaderSize <= End
         /\ max_data_block_size' \in Nat /\ UNCHANGED <<hdr, zeros>>
<1>1. End \in Nat /\ i \in Nat /\ HeaderSize \in Nat /\ len \in Nat /\ pc = "blocks" /\ i < End
  BY Geometry, SectionBytes DEF IInv, Element, Iteration
<1>2. Remaining = End - i /\ Remaining \in Nat
  BY <1>1 DEF Remaining
<1> QED BY <1>1, <1>2 DEF IInv, CursorInv, Element, Iteration, input

(* A data block that is not overlong leaves the tail where it was, behind  *)
(* itself.                                                                 *)
LEMMA ElementTail ==
  ASSUME IInv, NEW len \in Payloads, Element(len), Reports,
         \/ pc' = "failed"
         \/ pc' = "blocks" /\ i' = elem'.next
  PROVE  TailInv' /\ TailReportedIff'
<1>1. /\ pc = "blocks" /\ i < End /\ UNCHANGED <<hdr, zeros>>
  BY ElementFacts
<1>2. End \in Nat /\ i \in Nat /\ End' = End
  BY <1>1, Geometry DEF IInv, End, section_size
<1>3. "overlong" \notin reported /\ "filler" \notin reported
  BY <1>1, <1>2 DEF IInv, TailInv
<1>4. "overlong" \notin reported' /\ "filler" \notin reported'
  BY <1>3 DEF Reports
<1> QED BY <1>1, <1>2, <1>4 DEF IInv, TailInv, TailReportedIff

-----------------------------------------------------------------------------
(* The data block parsers differ in what they check; each of their steps   *)
(* keeps a block, drops it, or makes the section fail.                     *)
KeptStep == \E len \in Payloads, tag \in TimingTags \cup {"other"}, n \in Nat :
  /\ Element(len) /\ Reports /\ Calloc(FALSE)
  /\ tag \in TimingTags => n * TimingSize[tag] <= len
  /\ Keep(tag, n)
SkippedStep == \E len \in Payloads : Element(len) /\ Reports /\ Calloc(FALSE) /\ Skip
FailedStep == \E len \in Payloads, n \in Nat, fails \in BOOLEAN :
  Element(len) /\ Reports /\ Calloc(fails) /\ Fail(n)

LEMMA LogReports == ASSUME NEW must, NEW may, Log(must, may) PROVE Reports
BY DEF Log, Reports

LEMMA TimingSteps ==
  ASSUME NEW tag \in TimingTags, NEW may_drop \in BOOLEAN, TimingBlock(tag, may_drop)
  PROVE  KeptStep \/ FailedStep
<1>1. PICK len \in Payloads : \E n \in 0..(len \div TimingSize[tag]) :
        /\ Element(len) /\ n * TimingSize[tag] <= len
        /\ \/ Reports /\ Calloc(FALSE) /\ Keep(tag, n)
           \/ Reports /\ Calloc(TRUE) /\ Fail(n)
  BY LogReports DEF TimingBlock
<1>2. PICK n \in 0..(len \div TimingSize[tag]) :
        /\ Element(len) /\ n * TimingSize[tag] <= len
        /\ \/ Reports /\ Calloc(FALSE) /\ Keep(tag, n)
           \/ Reports /\ Calloc(TRUE) /\ Fail(n)
  BY <1>1
<1>3. n \in Nat
  OBVIOUS
<1> QED BY <1>2, <1>3 DEF KeptStep, FailedStep

LEMMA BlockSteps ==
  ASSUME DataBlock PROVE OverlongBlock \/ KeptStep \/ SkippedStep \/ FailedStep
<1>1. CASE BlockAllocFails
  BY <1>1 DEF BlockAllocFails, FailedStep, Reports
<1>2. CASE DisplayParamsBlock
  <2>1. PICK len \in Payloads :
          /\ Element(len) /\ Calloc(FALSE) /\ Reports
          /\ Keep("other", 0) \/ Fail(0)
    BY <1>2, LogReports DEF DisplayParamsBlock
  <2>2. "other" \notin TimingTags
    BY DEF TimingTags
  <2> QED BY <2>1, <2>2 DEF KeptStep, FailedStep
<1>3. CASE TiledTopoBlock
  <2>1. PICK len \in Payloads :
          /\ Element(len) /\ Calloc(FALSE) /\ Reports
          /\ Keep("other", 0) \/ Skip
    BY <1>3, LogReports DEF TiledTopoBlock
  <2>2. "other" \notin TimingTags
    BY DEF TimingTags
  <2> QED BY <2>1, <2>2 DEF KeptStep, SkippedStep
<1>4. CASE TypeITimingBlock \/ TypeIITimingBlock \/ TypeIIITimingBlock
  BY <1>4, TimingSteps DEF TypeITimingBlock, TypeIITimingBlock, TypeIIITimingBlock, TimingTags
<1>5. CASE OpaqueBlock
  <2>1. PICK len \in Payloads : Element(len) /\ Calloc(FALSE) /\ Reports /\ Keep("other", 0)
    BY <1>5, LogReports DEF OpaqueBlock
  <2>2. "other" \notin TimingTags
    BY DEF TimingTags
  <2> QED BY <2>1, <2>2 DEF KeptStep
<1>6. CASE IgnoredBlock
  BY <1>6, LogReports DEF IgnoredBlock, SkippedStep
<1> QED BY <1>1, <1>2, <1>3, <1>4, <1>5, <1>6 DEF DataBlock

-----------------------------------------------------------------------------
LEMMA InitInv == Init => IInv
<1> SUFFICES ASSUME Init PROVE IInv
  OBVIOUS
<1>1. MinSize - 1 \in Nat /\ MinSize \in Nat /\ HeaderSize \in Nat /\ MaxDataBlocks \in Nat
  BY SectionGeometry
<1>2. errno \in Errnos
  BY SectionErrnos DEF Init
<1>3. TypeOK
  <2>1. zeros \in Nat
    BY <1>1 DEF Init
  <2> QED BY <1>1, <1>2, <2>1 DEF Init, TypeOK
<1>4. CursorInv
  BY <1>1 DEF Init, CursorInv
<1>5. CapacityHolds
  <2>1. last.tag \notin TimingTags
    BY DEF Init, TimingTags
  <2> QED BY <1>1, <2>1 DEF Init, CapacityHolds
<1>6. HeapClean /\ TailReportedIff
  BY DEF Init, HeapClean, Owned, TailReportedIff
<1>7. TailInv
  BY <1>1 DEF Init, TailInv
<1> QED BY <1>3, <1>4, <1>5, <1>6, <1>7 DEF IInv

(* What no step of a data block touches or weakens.                        *)
LEMMA ErrorsKept ==
  ASSUME IInv, NEW fails \in BOOLEAN, Calloc(fails)
  PROVE  /\ oom' \in BOOLEAN /\ errno' \in Errnos
         /\ oom' => errno' = "ENOMEM"
         /\ oom => oom'
         /\ errno' \in {errno, "ENOMEM"}
BY DEF IInv, TypeOK, CursorInv, Calloc, Errnos

LEMMA KeptInv == ASSUME IInv, KeptStep PROVE IInv'
<1>1. PICK len \in Payloads, tag \in TimingTags \cup {"other"}, n \in Nat :
        /\ Element(len) /\ Reports /\ Calloc(FALSE)
        /\ tag \in TimingTags => n * TimingSize[tag] <= len
        /\ Keep(tag, n)
  BY DEF KeptStep
<1>2. /\ pc = "blocks" /\ i < End /\ elem.next = i /\ len \in Nat
      /\ elem' = [at |-> i, next |-> i + len + HeaderSize]
      /\ i + len + HeaderSize <= End
      /\ max_data_block_size' \in Nat /\ hdr' = hdr /\ zeros' = zeros
  BY <1>1, ElementFacts
<1>3. /\ data_blocks_len' = data_blocks_len + 1 /\ last' = [tag |-> tag, n |-> n]
      /\ timings' = timings + n /\ live' = live + 1 + n
      /\ i' = i + len + HeaderSize /\ pc' = "blocks"
  BY <1>1, <1>2 DEF Keep
<1>4. /\ section_size \in Nat /\ End = section_size - 1 /\ section_size <= MaxSize
      /\ MinSize \in Nat /\ MinSize >= 1 /\ HeaderSize \in Nat /\ HeaderSize >= 1
      /\ MaxSize \in Nat /\ MaxDataBlocks \in Nat /\ i \in Nat
      /\ MinSize - 1 <= i /\ data_blocks_len * HeaderSize + MinSize - 1 <= i
      /\ End' = End /\ section_size' = section_size
  BY <1>2, Geometry DEF IInv, CursorInv, End, section_size
<1>5. data_blocks_len \in Nat /\ timings \in Nat /\ live \in Nat /\ live = data_blocks_len + timings
  BY <1>2 DEF IInv, TypeOK, HeapClean, Owned
<1>6. data_blocks_len' * HeaderSize + MinSize - 1 <= i'
  <2>1. (data_blocks_len + 1) * HeaderSize = data_blocks_len * HeaderSize + HeaderSize
    BY <1>4, <1>5
  <2>2. data_blocks_len * HeaderSize \in Nat
    BY <1>4, <1>5, Products
  <2> QED BY <1>2, <1>3, <1>4, <2>1, <2>2
<1>7. data_blocks_len' <= MaxDataBlocks
  <2>1. data_blocks_len' * HeaderSize \in Nat /\ (MaxDataBlocks + 1) * HeaderSize \in Nat
    BY <1>3, <1>4, <1>5, Products
  <2>2. MaxSize < MinSize + (MaxDataBlocks + 1) * HeaderSize
    BY SectionGeometry
  <2>3. data_blocks_len' * HeaderSize < (MaxDataBlocks + 1) * HeaderSize
    BY <1>2, <1>3, <1>4, <1>6, <2>1, <2>2
  <2>4. data_blocks_len' < MaxDataBlocks + 1
    BY <1>3, <1>4, <1>5, <2>3, SmallerFactor
  <2> QED BY <1>3, <1>4, <1>5, <2>4
<1>8. tag \in TimingTags => n <= MaxTimings[tag]
  <2> SUFFICES ASSUME tag \in TimingTags PROVE n <= MaxTimings[tag]
    OBVIOUS
  <2>1. TimingSize[tag] \in Nat /\ MaxTimings[tag] \in Nat
    BY SectionGeometry
  <2>2. n * TimingSize[tag] \in Nat /\ (MaxTimings[tag] + 1) * TimingSize[tag] \in Nat
    BY <2>1, Products
  <2>3. MaxSize < MinSize + HeaderSize + (MaxTimings[tag] + 1) * TimingSize[tag]
    BY SectionGeometry
  <2>4. n * TimingSize[tag] < (MaxTimings[tag] + 1) * TimingSize[tag]
    BY <1>1, <1>2, <1>4, <2>2, <2>3
  <2>5. n < MaxTimings[tag] + 1
    BY <2>1, <2>4, SmallerFactor
  <2> QED BY <2>1, <2>5
<1>9. TypeOK'
  <2>1. i' \in Nat /\ elem' \in [at : Nat, next : Nat]
    BY <1>2, <1>3, <1>4
  <2>2. data_blocks_len' \in Nat /\ timings' \in Nat /\ live' \in Nat
    BY <1>3, <1>5
  <2>3. last' \in [tag : TimingTags \cup {"other"}, n : Nat]
    BY <1>3
  <2>4. reported' \subseteq {"blocks", "overlong", "filler"}
    BY <1>1 DEF Reports, IInv, TypeOK
  <2>5. errno' \in Errnos /\ oom' \in BOOLEAN
    BY <1>1, ErrorsKept
  <2> QED BY <1>2, <1>3, <2>1, <2>2, <2>3, <2>4, <2>5 DEF IInv, TypeOK
<1>10. CursorInv'
  <2>1. oom' => errno' = "ENOMEM"
    BY <1>1, ErrorsKept
  <2>2. MinSize - 1 <= i'
    BY <1>2, <1>3, <1>4
  <2>3. elem'.next = i'
    BY <1>2, <1>3
  <2> QED BY <1>3, <1>4, <1>6, <2>1, <2>2, <2>3 DEF CursorInv
<1>11. CapacityHolds'
  BY <1>3, <1>7, <1>8 DEF CapacityHolds
<1>12. HeapClean'
  BY <1>3, <1>5 DEF HeapClean, Owned
<1>13. TailInv' /\ TailReportedIff'
  BY <1>1, <1>2, <1>3, ElementTail
<1> QED BY <1>9, <1>10, <1>11, <1>12, <1>13 DEF IInv

LEMMA SkippedInv == ASSUME IInv, SkippedStep PROVE IInv'
<1>1. PICK len \in Payloads : Element(len) /\ Reports /\ Calloc(FALSE) /\ Skip
  BY DEF SkippedStep
<1>2. /\ pc = "blocks" /\ i < End /\ elem.next = i /\ len \in Nat
      /\ elem' = [at |-> i, next |-> i + len + HeaderSize]
      /\ i + len + HeaderSize <= End
      /\ max_data_block_size' \in Nat /\ hdr' = hdr /\ zeros' = zeros
  BY <1>1, ElementFacts
<1>3. /\ i' = i + len + HeaderSize /\ pc' = "blocks" /\ live' = live
      /\ data_blocks_len' = data_blocks_len /\ last' = last /\ timings' = timings
  BY <1>1, <1>2 DEF Skip, kept
<1>4. /\ HeaderSize \in Nat /\ i \in Nat /\ MinSize \in Nat
      /\ MinSize - 1 <= i /\ data_blocks_len * HeaderSize + MinSize - 1 <= i
      /\ section_size <= MaxSize /\ section_size' = section_size
  BY <1>2, Geometry DEF IInv, CursorInv, section_size
<1>5. TypeOK'
  <2>1. i' \in Nat /\ elem' \in [at : Nat, next : Nat]
    BY <1>2, <1>3, <1>4
  <2>2. reported' \subseteq {"blocks", "overlong", "filler"}
    BY <1>1 DEF Reports, IInv, TypeOK
  <2>3. errno' \in Errnos /\ oom' \in BOOLEAN
    BY <1>1, ErrorsKept
  <2> QED BY <1>2, <1>3, <2>1, <2>2, <2>3 DEF IInv, TypeOK
<1>6. CursorInv'
  <2>1. oom' => errno' = "ENOMEM"
    BY <1>1, ErrorsKept
  <2>2. data_blocks_len * HeaderSize \in Nat
    BY <1>4, Products DEF IInv, TypeOK
  <2>3. MinSize - 1 <= i' /\ data_blocks_len' * HeaderSize + MinSize - 1 <= i'
    BY <1>2, <1>3, <1>4, <2>2
  <2>4. elem'.next = i'
    BY <1>2, <1>3
  <2> QED BY <1>3, <1>4, <2>1, <2>3, <2>4 DEF CursorInv
<1>7. CapacityHolds' /\ HeapClean'
  BY <1>1, <1>2, <1>3 DEF IInv, CapacityHolds, HeapClean, Owned
<1>8. TailInv' /\ TailReportedIff'
  BY <1>1, <1>2, <1>3, ElementTail
<1> QED BY <1>5, <1>6, <1>7, <1>8 DEF IInv

LEMMA FailedInv == ASSUME IInv, FailedStep PROVE IInv'
<1>1. PICK len \in Payloads, n \in Nat, fails \in BOOLEAN :
        Element(len) /\ Reports /\ Calloc(fails) /\ Fail(n)
  BY DEF FailedStep
<1>2. /\ elem' = [at |-> i, next |-> i + len + HeaderSize] /\ len \in Nat
      /\ max_data_block_size' \in Nat /\ hdr' = hdr /\ zeros' = zeros
  BY <1>1, ElementFacts
<1>3. /\ live' = live + n /\ pc' = "failed" /\ i' = i
      /\ data_blocks_len' = data_blocks_len /\ last' = last /\ timings' = timings
  BY <1>1 DEF Fail, kept
<1>4. TypeOK'
  <2>1. elem' \in [at : Nat, next : Nat]
    BY <1>2, Geometry DEF IInv
  <2>2. live' \in Nat
    BY <1>3 DEF IInv, TypeOK
  <2>3. reported' \subseteq {"blocks", "overlong", "filler"}
    BY <1>1 DEF Reports, IInv, TypeOK
  <2>4. errno' \in Errnos /\ oom' \in BOOLEAN
    BY <1>1, ErrorsKept
  <2> QED BY <1>2, <1>3, <2>1, <2>2, <2>3, <2>4 DEF IInv, TypeOK
<1>5. CursorInv'
  BY <1>1, <1>3, ErrorsKept DEF IInv, CursorInv
<1>6. CapacityHolds' /\ HeapClean'
  BY <1>1, <1>2, <1>3 DEF IInv, CapacityHolds, HeapClean
<1>7. TailInv' /\ TailReportedIff'
  BY <1>1, <1>3, ElementTail
<1> QED BY <1>4, <1>5, <1>6, <1>7 DEF IInv

LEMMA OverlongInv == ASSUME IInv, OverlongBlock PROVE IInv'
<1>1. PICK len \in Payloads :
        /\ Iteration(len) /\ len + HeaderSize > Remaining
        /\ reported' = reported \cup {"overlong"}
        /\ i' = i + len + HeaderSize
        /\ UNCHANGED <<pc, elem, kept, heap>>
  BY DEF OverlongBlock
<1>2. /\ End \in Nat /\ i \in Nat /\ MinSize \in Nat /\ HeaderSize \in Nat /\ len \in Nat
      /\ i < End /\ Remaining = End - i
      /\ MinSize - 1 <= i /\ End' = End /\ section_size' = section_size
      /\ hdr' = hdr /\ zeros' = zeros /\ pc = "blocks" /\ pc' = "blocks"
  BY <1>1, Geometry, SectionBytes
  DEF IInv, CursorInv, Iteration, Remaining, End, section_size, input
<1>3. i' \in Nat /\ ~(i' < End) /\ MinSize - 1 <= i'
  BY <1>1, <1>2
<1>4. TypeOK'
  <2>1. max_data_block_size' \in Nat
    BY <1>1, <1>2 DEF Iteration
  <2>2. reported' \subseteq {"blocks", "overlong", "filler"}
    BY <1>1 DEF IInv, TypeOK
  <2> QED BY <1>1, <1>2, <1>3, <2>1, <2>2 DEF IInv, TypeOK, kept, heap
<1>5. CursorInv'
  BY <1>1, <1>2, <1>3 DEF IInv, CursorInv, heap
<1>6. CapacityHolds' /\ HeapClean' /\ TailReportedIff'
  BY <1>1, <1>2 DEF IInv, CapacityHolds, HeapClean, Owned, TailReportedIff, kept, heap
<1>7. TailInv'
  <2>1. i < zeros
    <3>1. TRUE \in NonZero(i, HeaderSize)
      BY <1>1 DEF Iteration
    <3>2. i + HeaderSize <= End /\ HeaderSize >= 1
      <4>1. Remaining >= HeaderSize
        BY <1>1 DEF Iteration
      <4> QED BY <1>2, <4>1, SectionGeometry
    <3>3. ASSUME ~(i < zeros) PROVE NonZero(i, HeaderSize) = {FALSE}
      <4>1. zeros \in Nat /\ zeros <= i
        BY <1>2, <3>3 DEF IInv, TypeOK
      <4> QED BY <1>2, <3>2, <4>1, AllZeroes
    <3> QED BY <3>1, <3>3
  <2>2. elem.next = i
    BY <1>2 DEF IInv, CursorInv
  <2>3. "filler" \notin reported'
    BY <1>1, <1>2 DEF IInv, TailInv
  <2>4. End <= i' /\ elem'.next < zeros
    BY <1>1, <1>2, <1>3, <2>1, <2>2
  <2> QED BY <1>1, <1>2, <2>3, <2>4 DEF IInv, TailInv
<1> QED BY <1>4, <1>5, <1>6, <1>7 DEF IInv

LEMMA HeaderInv == ASSUME IInv, RejectHeader \/ AcceptHeader PROVE IInv'
<1>1. HeaderError \in {"0", "EINVAL", "ENOTSUP"}
  BY DEF HeaderError
<1>2. CASE RejectHeader
  <2>1. pc = "header" /\ pc' = "failed" /\ errno' \in Errnos
    BY <1>1, <1>2 DEF RejectHeader, Errnos
  <2>2. TypeOK'
    BY <1>2, <2>1 DEF RejectHeader, IInv, TypeOK, kept, input
  <2>3. CursorInv'
    BY <1>2, <2>1 DEF RejectHeader, IInv, CursorInv, kept
  <2>4. CapacityHolds' /\ HeapClean' /\ TailReportedIff'
    BY <1>2, <2>1 DEF RejectHeader, IInv, CapacityHolds, HeapClean, TailReportedIff, kept
  <2>5. TailInv'
    BY <1>2, <2>1 DEF RejectHeader, IInv, TailInv, End, section_size, input
  <2> QED BY <2>2, <2>3, <2>4, <2>5 DEF IInv
<1>3. CASE AcceptHeader
  <2>1. /\ pc = "header" /\ pc' = "blocks" /\ i' = i /\ elem' = elem /\ hdr' = hdr
        /\ section_size' = section_size /\ End' = End
    BY <1>3 DEF AcceptHeader, section_size, End, input
  <2>2. section_size <= MaxSize
    <3>1. ~(section_size > MaxSize)
      BY <1>3 DEF AcceptHeader, HeaderError
    <3> QED BY <3>1, Geometry DEF IInv
  <2>3. TypeOK'
    BY <1>3, <2>1 DEF AcceptHeader, IInv, TypeOK, kept, heap, input
  <2>4. CursorInv'
    <3>1. /\ data_blocks_len = 0 /\ ~oom /\ i = elem.next /\ MinSize - 1 <= i
      BY <2>1 DEF IInv, CursorInv
    <3>2. data_blocks_len' = 0 /\ ~oom'
      BY <1>3, <3>1 DEF AcceptHeader, kept, heap
    <3>3. 0 * HeaderSize + MinSize - 1 <= i
      BY <3>1, Geometry DEF IInv
    <3> QED BY <2>1, <2>2, <3>1, <3>2, <3>3 DEF CursorInv
  <2>5. CapacityHolds' /\ HeapClean' /\ TailReportedIff'
    BY <1>3, <2>1
    DEF AcceptHeader, IInv, CapacityHolds, HeapClean, Owned, TailReportedIff, kept, heap
  <2>6. TailInv'
    BY <1>3, <2>1 DEF AcceptHeader, IInv, TailInv, input
  <2> QED BY <2>3, <2>4, <2>5, <2>6 DEF IInv
<1> QED BY <1>2, <1>3

(* The filler check sees every byte behind the last data block.            *)
LEMMA TailSeen ==
  ASSUME IInv, Filler \/ NoFiller
  PROVE  TailReportedIff'
<1>1. /\ pc = "blocks" /\ elem' = elem /\ zeros' = zeros /\ End' = End
  BY DEF Filler, NoFiller, CheckFiller, input, End, section_size
<1>2. /\ End \in Nat /\ i \in Nat /\ zeros \in Nat /\ zeros <= End /\ "filler" \notin reported
  BY <1>1, Geometry DEF IInv, TypeOK, TailInv
<1>3. CASE Filler
  <2>1. i < End /\ elem.next = i /\ "overlong" \notin reported
    BY <1>1, <1>2, <1>3 DEF Filler, IInv, CursorInv, TailInv
  <2>2. max_data_block_size' = End - i
    BY <1>3 DEF Filler, Remaining
  <2>3. \E found \in NonZero(i, max_data_block_size') :
          reported' = IF found THEN reported \cup {"filler"} ELSE reported
    BY <1>3 DEF Filler, CheckFiller
  <2>4. i + max_data_block_size' = End
    BY <1>2, <2>1, <2>2
  <2>5. reported' = IF i < zeros THEN reported \cup {"filler"} ELSE reported
    <3>1. CASE i < zeros
      <4>1. NonZero(i, max_data_block_size') = {TRUE}
        BY <1>2, <2>4, <3>1 DEF NonZero
      <4> QED BY <2>3, <3>1, <4>1
    <3>2. CASE ~(i < zeros)
      <4>1. zeros <= i /\ End - i \in Nat /\ i + (End - i) <= End
        BY <1>2, <2>1, <3>2
      <4>2. NonZero(i, max_data_block_size') = {FALSE}
        BY <1>2, <2>2, <4>1, AllZeroes
      <4> QED BY <2>3, <3>2, <4>2
    <3> QED BY <3>1, <3>2
  <2>6. CASE i < zeros
    BY <1>1, <1>2, <2>1, <2>5, <2>6 DEF TailReportedIff
  <2>7. CASE ~(i < zeros)
    <3>1. reported' \cap {"overlong", "filler"} = {}
      BY <1>2, <2>1, <2>5, <2>7
    <3> QED BY <1>1, <1>2, <2>1, <2>7, <3>1 DEF TailReportedIff
  <2> QED BY <2>6, <2>7
<1>4. CASE NoFiller
  <2>1. End <= i /\ reported \subseteq reported'
    BY <1>2, <1>4 DEF NoFiller, CheckFiller
  <2>2. CASE "overlong" \in reported
    <3>1. elem.next < zeros /\ elem.next \in Nat
      BY <1>1, <2>2 DEF IInv, TailInv, TypeOK
    <3> QED BY <1>1, <1>2, <2>1, <2>2, <3>1 DEF TailReportedIff
  <2>3. CASE "overlong" \notin reported
    BY <1>1, <1>2, <2>1, <2>3 DEF IInv, TailInv, TailReportedIff
  <2> QED BY <2>2, <2>3
<1> QED BY <1>3, <1>4

LEMMA FillerInv == ASSUME IInv, Filler \/ NoFiller PROVE IInv'
<1>1. /\ pc = "blocks" /\ pc' = "done"
      /\ UNCHANGED <<hdr, zeros, i, elem, data_blocks_len, last, timings, live, errno, oom>>
      /\ section_size' = section_size /\ End' = End
  BY DEF Filler, NoFiller, CheckFiller, section_size, End, kept, heap, input
<1>2. max_data_block_size' \in Nat
  <2>1. CASE Filler
    <3>1. End \in Nat /\ i \in Nat
      BY Geometry DEF IInv
    <3> QED BY <2>1, <3>1 DEF Filler, Remaining
  <2>2. CASE NoFiller
    BY <2>2 DEF NoFiller, IInv, TypeOK
  <2> QED BY <2>1, <2>2
<1>3. reported' \subseteq {"blocks", "overlong", "filler"}
  <2>1. reported' \in {reported, reported \cup {"filler"}}
    BY DEF Filler, NoFiller, CheckFiller
  <2> QED BY <2>1 DEF IInv, TypeOK
<1>4. TypeOK'
  BY <1>1, <1>2, <1>3 DEF IInv, TypeOK
<1>5. CursorInv'
  BY <1>1 DEF IInv, CursorInv
<1>6. TailInv'
  BY <1>1 DEF IInv, TailInv
<1>7. CapacityHolds' /\ HeapClean'
  BY <1>1 DEF IInv, CapacityHolds, HeapClean, Owned
<1> QED BY <1>4, <1>5, <1>6, <1>7, TailSeen DEF IInv

LEMMA NextInv == ASSUME IInv, [Next]_vars PROVE IInv'
<1>1. CASE RejectHeader \/ AcceptHeader
  BY <1>1, HeaderInv
<1>2. CASE DataBlock
  BY <1>2, BlockSteps, OverlongInv, KeptInv, SkippedInv, FailedInv
<1>3. CASE Filler \/ NoFiller
  BY <1>3, FillerInv
<1>4. CASE UNCHANGED vars
  BY <1>4 DEF vars, IInv, TypeOK, CursorInv, TailInv, CapacityHolds, HeapClean, Owned,
     TailReportedIff, section_size, End
<1> QED BY <1>1, <1>2, <1>3, <1>4 DEF Next

(* The inductive invariant.                                                *)
THEOREM Invariance == Spec => []IInv
<1> QED BY InitInv, NextInv, PTL DEF Spec

(* Every variable keeps its type; in particular the cursor and the heap    *)
(* count never go negative.                                                *)
THEOREM TypeCorrect == Spec => []TypeOK
<1>1. IInv => TypeOK
  BY DEF IInv
<1> QED BY <1>1, Invariance, PTL

(* data_blocks[] and the arrays of timings never overflow.                 *)
THEOREM Capacity == Spec => []CapacityHolds
<1>1. IInv => CapacityHolds
  BY DEF IInv
<1> QED BY <1>1, Invariance, PTL

(* A section that is not rejected leaves nothing behind that               *)
(* _di_displayid_finish does not free.                                     *)
THEOREM Clean == Spec => []HeapClean
<1>1. IInv => HeapClean
  BY DEF IInv
<1> QED BY <1>1, Invariance, PTL

(* What is behind the last data block, short of the checksum, is reported  *)
(* if and only if a byte of it is not zero, for every size of the rest and *)
(* whether the loop ended at filler or was ended by an overlong block.     *)
THEOREM TailReported == Spec => []TailReportedIff
<1>1. IInv => TailReportedIff
  BY DEF IInv
<1> QED BY <1>1, Invariance, PTL

-----------------------------------------------------------------------------
(* The loop is a walk: consecutive data blocks below the checksum.         *)
THEOREM ImplementsWalk == Spec => IsTlvWalk
<1>1. Init => Walk!Init
  <2> SUFFICES ASSUME Init PROVE Walk!Init
    OBVIOUS
  <2>1. TypeOK
    BY InitInv DEF IInv
  <2>2. End \in Nat
    BY <2>1, Geometry
  <2> QED BY <2>2 DEF Init, Walk!Init
<1>2. IInv /\ [Next]_vars => [Walk!Next]_Walk!vars
  <2> SUFFICES ASSUME IInv, [Next]_vars PROVE [Walk!Next]_Walk!vars
    OBVIOUS
  <2> USE DEF Walk!Next, Walk!vars
  <2>1. CASE RejectHeader \/ Filler \/ NoFiller
    <3>1. /\ pc \in {"header", "blocks"} /\ pc' \in {"failed", "done"}
          /\ elem' = elem /\ End' = End
      BY <2>1 DEF RejectHeader, Filler, NoFiller, CheckFiller, input, End, section_size
    <3>2. Walk!Leave
      BY <3>1 DEF Walk!Leave
    <3> QED BY <3>2
  <2>2. CASE AcceptHeader
    BY <2>2 DEF AcceptHeader, input, End, section_size
  <2>3. CASE OverlongBlock
    BY <2>3 DEF OverlongBlock, Iteration, input, End, section_size
  <2>4. CASE KeptStep \/ SkippedStep \/ FailedStep
    <3>1. PICK len \in Payloads : Element(len) /\ pc' \in {"blocks", "failed"}
      BY <2>4, ElementFacts DEF KeptStep, SkippedStep, FailedStep, Keep, Skip, Fail
    <3>2. /\ pc = "blocks" /\ hdr' = hdr /\ elem.next = i
          /\ elem' = [at |-> i, next |-> i + len + HeaderSize]
          /\ elem'.next <= End /\ len \in Nat
      BY <3>1, ElementFacts
    <3>3. i \in Nat /\ HeaderSize \in Nat /\ End' = End
      BY <3>2, Geometry DEF IInv, End, section_size
    <3>4. Walk!Take
      BY <3>1, <3>2, <3>3 DEF Walk!Take
    <3> QED BY <3>4
  <2>5. CASE UNCHANGED vars
    BY <2>5 DEF vars, End, section_size
  <2> QED BY <2>1, <2>2, <2>3, <2>4, <2>5, BlockSteps DEF Next
<1> QED BY <1>1, <1>2, Invariance, PTL DEF Spec, IsTlvWalk, Walk!Spec

(* parse_ext may rely on the contract: what the parser owns is allocated,  *)
(* and errno is EINVAL, ENOTSUP, ENOMEM, or what it was.                   *)
THEOREM ImplementsContract == Spec => KeepsContract
<1>1. Init => Contract!Init
  BY DEF Init, Contract!Init, Status, Owned
<1>2. IInv /\ IInv' /\ [Next]_vars => [Contract!Next]_Contract!vars
  <2> SUFFICES ASSUME IInv, IInv', [Next]_vars PROVE [Contract!Next]_Contract!vars
    OBVIOUS
  <2> USE DEF Contract!Next
  <2>0. /\ live \in Nat /\ live' \in Nat /\ oom' \in BOOLEAN
        /\ data_blocks_len \in Nat /\ timings \in Nat /\ oom \in BOOLEAN
        /\ (oom => errno = "ENOMEM")
    BY DEF IInv, TypeOK, CursorInv
  <2>1. Owned \in Nat /\ Owned' \in Nat
    <3>1. data_blocks_len' \in Nat /\ timings' \in Nat
      BY DEF IInv, TypeOK
    <3>2. data_blocks_len + timings \in Nat /\ data_blocks_len' + timings' \in Nat
      BY <2>0, <3>1, Sums
    <3>3. Owned \in {0, data_blocks_len + timings}
      BY DEF Owned
    <3>4. Owned' \in {0, data_blocks_len' + timings'}
      BY DEF Owned
    <3> QED BY <3>2, <3>3, <3>4
  <2>2. ASSUME UNCHANGED <<errno, oom>> PROVE Contract!Errors({})
    BY <2>0, <2>2 DEF Contract!Errors
  <2>3. ASSUME pc \in {"header", "blocks"} PROVE Status = "parsing"
    BY <2>3 DEF Status
  <2>4. ASSUME pc' \in {"header", "blocks"} PROVE Status' = "parsing"
    BY <2>4 DEF Status
  <2>5. ASSUME pc' = "failed" PROVE Status' = "failed" /\ Owned' = 0
    BY <2>5 DEF Status, Owned
  <2>6. ASSUME pc' = "done" PROVE Status' = "ok"
    BY <2>6 DEF Status
  <2>7. CASE RejectHeader
    <3>1. HeaderError \in {"EINVAL", "ENOTSUP"}
      BY <2>7 DEF RejectHeader, HeaderError
    <3>2. /\ pc = "header" /\ pc' = "failed" /\ oom' = oom /\ ~oom
          /\ errno' \in {"EINVAL", "ENOTSUP"}
      BY <2>7, <3>1 DEF RejectHeader, IInv, CursorInv
    <3>3. Contract!Errors({"EINVAL", "ENOTSUP"})
      BY <2>0, <3>2 DEF Contract!Errors
    <3> QED BY <2>0, <2>3, <2>5, <3>2, <3>3 DEF Contract!Reject
  <2>8. CASE AcceptHeader \/ OverlongBlock \/ Filler \/ NoFiller
    <3>1. /\ pc \in {"header", "blocks"} /\ pc' \in {"blocks", "done"}
          /\ UNCHANGED <<errno, oom, live, data_blocks_len, timings>>
      BY <2>8 DEF AcceptHeader, OverlongBlock, Iteration, Filler, NoFiller, CheckFiller, kept, heap
    <3>2. Owned' = Owned
      BY <3>1 DEF Owned
    <3>3. Contract!Work
      BY <2>0, <2>1, <2>2, <2>4, <2>6, <3>1, <3>2 DEF Contract!Work
    <3> QED BY <2>3, <3>1, <3>3
  <2>9. CASE KeptStep
    <3>1. PICK len \in Payloads, tag \in TimingTags \cup {"other"}, n \in Nat :
            Element(len) /\ Calloc(FALSE) /\ Keep(tag, n)
      BY <2>9 DEF KeptStep
    <3>2. /\ pc = "blocks" /\ pc' = "blocks" /\ live' = live + 1 + n
          /\ data_blocks_len' = data_blocks_len + 1 /\ timings' = timings + n
          /\ UNCHANGED <<errno, oom>>
      BY <2>0, <3>1, ElementFacts DEF Keep, Calloc, IInv, TypeOK
    <3>3. Owned' >= Owned /\ live' - live >= Owned' - Owned
      BY <2>0, <3>2 DEF Owned
    <3>4. Contract!Work
      BY <2>0, <2>1, <2>2, <2>4, <3>2, <3>3 DEF Contract!Work
    <3> QED BY <2>3, <3>2, <3>4
  <2>10. CASE SkippedStep
    <3>1. PICK len \in Payloads : Element(len) /\ Calloc(FALSE) /\ Skip
      BY <2>10 DEF SkippedStep
    <3>2. /\ pc = "blocks" /\ pc' = "blocks"
          /\ UNCHANGED <<errno, oom, live, data_blocks_len, timings>>
      BY <2>0, <3>1, ElementFacts DEF Skip, kept, Calloc, IInv, TypeOK
    <3>3. Owned' = Owned
      BY <3>2 DEF Owned
    <3>4. Contract!Work
      BY <2>0, <2>1, <2>2, <2>4, <3>2, <3>3 DEF Contract!Work
    <3> QED BY <2>3, <3>2, <3>4
  <2>11. CASE FailedStep
    <3>1. PICK len \in Payloads, n \in Nat, fails \in BOOLEAN :
            Element(len) /\ Calloc(fails) /\ Fail(n)
      BY <2>11 DEF FailedStep
    <3>2. pc = "blocks" /\ pc' = "failed"
      BY <3>1, ElementFacts DEF Fail
    <3>3. Contract!Errors({"EINVAL", "ENOTSUP"})
      BY <3>1, ErrorsKept DEF Contract!Errors
    <3> QED BY <2>0, <2>3, <2>5, <3>2, <3>3 DEF Contract!Reject
  <2>12. CASE UNCHANGED vars
    BY <2>12 DEF vars, Contract!vars, Status, Owned
  <2> QED BY <2>7, <2>8, <2>9, <2>10, <2>11, <2>12, BlockSteps DEF Next
<1> QED BY <1>1, <1>2, Invariance, PTL DEF Spec, KeepsContract, Contract!Spec

=============================================================================
