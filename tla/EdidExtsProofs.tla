--------------------------- MODULE EdidExtsProofs ---------------------------
(***************************************************************************)
(* Proofs about EdidExts, for every block size, array size, set of inputs  *)
(* and set of extension kinds that satisfies its assumptions.              *)
(***************************************************************************)
EXTENDS EdidExts, TLAPS

(* What the position in the input has to do with the arrays: the whole     *)
(* blocks of the input bound the loop, exts[] never has more entries than  *)
(* blocks were looked at, and only a parsed EDID owns anything.            *)
ParsedInv ==
  /\ pc = "start" => skipped = <<>> /\ i = 0 /\ lost = 0
  /\ pc \notin {"exts", "done"} => exts = <<>> /\ owned = 0
  /\ exts_len < MaxBlocks
  /\ Len(exts) <= i
  /\ pc = "exts" => (exts_len + 1) * BlockSize <= blob.size

IInv == TypeOK /\ ParsedInv /\ HeapExact /\ OomIsFinal /\ BlocksInOrder

-----------------------------------------------------------------------------
(* A size holds size \div BlockSize whole blocks.                          *)
LEMMA WholeBlocks ==
  ASSUME NEW b \in Nat \ {0}, NEW s \in Nat, s >= b
  PROVE  s \div b \in Nat /\ s \div b >= 1 /\ (s \div b) * b <= s
OBVIOUS

(* Fewer blocks take fewer bytes.                                          *)
LEMMA FewerBlocks ==
  ASSUME NEW b \in Nat, NEW m \in Nat, NEW n \in Nat, m <= n
  PROVE  m * b <= n * b
<1>1. PICK d \in Nat : n = m + d
  <2> n - m \in Nat /\ n = m + (n - m)
    OBVIOUS
  <2> QED OBVIOUS
<1>2. n * b = m * b + d * b
  BY <1>1
<1>3. d * b \in Nat /\ m * b \in Nat
  OBVIOUS
<1> QED BY <1>2, <1>3

(* The loop runs over blocks that lie in the input, and over fewer than    *)
(* exts[] has room for.                                                    *)
LEMMA LoopFits ==
  ASSUME TypeOK, HeadError = "0"
  PROVE  /\ ExtsLen \in Nat /\ ExtsLen < MaxBlocks
         /\ (ExtsLen + 1) * BlockSize <= blob.size
<1>1. blob.size \in Nat /\ blob.count \in 0..(MaxBlocks - 1) /\ BlockSize \in Nat \ {0} /\ MaxBlocks \in Nat
  BY ExtsGeometry DEF TypeOK
<1>2. blob.size >= BlockSize
  <2>1. blob.size < BlockSize => HeadError = "EINVAL"
    BY Zenon DEF HeadError
  <2> QED BY <1>1, <2>1
<1> DEFINE n == blob.size \div BlockSize
<1>3. n \in Nat /\ n >= 1 /\ n * BlockSize <= blob.size
  BY <1>1, <1>2, WholeBlocks
<1>4. ExtsLen \in Nat /\ ExtsLen + 1 <= n /\ ExtsLen < MaxBlocks
  BY <1>1, <1>3 DEF ExtsLen, BlocksInSize
<1>5. (ExtsLen + 1) * BlockSize <= n * BlockSize
  BY <1>1, <1>3, <1>4, FewerBlocks
<1> HIDE DEF n
<1>6. (ExtsLen + 1) * BlockSize \in Nat /\ n * BlockSize \in Nat
  BY <1>1, <1>3, <1>4
<1> QED BY <1>1, <1>3, <1>4, <1>5, <1>6

-----------------------------------------------------------------------------
(* Between two calls of parse_ext, exts[] and the skipped blocks hold the  *)
(* blocks before the next one.                                             *)
LEMMA BlocksBefore ==
  ASSUME TypeOK, BlocksInOrder, pc = "exts"
  PROVE  /\ \A a \in 1..Len(exts) : exts[a].block < NextBlock
         /\ \A a \in 1..Len(skipped) : skipped[a].block < NextBlock
<1>1. Blocks(exts) \subseteq 1..i /\ Blocks(skipped) \subseteq 1..i
  BY DEF BlocksInOrder
<1>2. i \in Nat
  BY DEF TypeOK
<1>3. ASSUME NEW a \in 1..Len(exts) PROVE exts[a].block < NextBlock
  <2> exts[a].block \in Blocks(exts)
    BY DEF Blocks
  <2> exts[a].block \in 1..i
    BY <1>1
  <2> QED BY <1>2 DEF NextBlock
<1>4. ASSUME NEW a \in 1..Len(skipped) PROVE skipped[a].block < NextBlock
  <2> skipped[a].block \in Blocks(skipped)
    BY DEF Blocks
  <2> skipped[a].block \in 1..i
    BY <1>1
  <2> QED BY <1>2 DEF NextBlock
<1> QED BY <1>3, <1>4

(* Appending the next block keeps a sequence of blocks increasing.         *)
LEMMA AppendNext ==
  ASSUME NEW S, NEW s \in Seq(S), NEW e \in S, NEW n \in Nat,
         e.block = n, \A a \in 1..Len(s) : s[a].block < n,
         Increasing(s)
  PROVE  /\ Increasing(Append(s, e))
         /\ Blocks(Append(s, e)) = Blocks(s) \cup {n}
         /\ n \notin Blocks(s)
<1> DEFINE t == Append(s, e)
<1>1. /\ t \in Seq(S) /\ Len(t) = Len(s) + 1 /\ Len(s) \in Nat
      /\ t[Len(s) + 1] = e /\ \A a \in 1..Len(s) : t[a] = s[a]
  OBVIOUS
<1> HIDE DEF t
<1>2. ASSUME NEW a \in 1..Len(t), NEW b \in 1..Len(t), a < b
      PROVE  t[a].block < t[b].block
  <2>1. a \in 1..Len(s)
    BY <1>1, <1>2
  <2>2. CASE b \in 1..Len(s)
    BY <1>1, <1>2, <2>1, <2>2 DEF Increasing
  <2>3. CASE b = Len(s) + 1
    BY <1>1, <2>1, <2>3
  <2> QED BY <1>1, <2>2, <2>3
<1>3. Blocks(t) = Blocks(s) \cup {n}
  <2>1. 1..Len(t) = 1..Len(s) \cup {Len(s) + 1}
    BY <1>1
  <2> QED BY <1>1, <2>1 DEF Blocks
<1>4. n \notin Blocks(s)
  BY DEF Blocks
<1> QED BY <1>2, <1>3, <1>4 DEF t, Increasing

(* A kept block: exts[] grows by it.                                       *)
LEMMA KeepInv ==
  ASSUME IInv, InLoop, NEW tag \in ExtTags \ {"unknown"}, NEW n \in Nat, NEW l \in Nat,
         Keep(tag, n, l), errno' \in Errnos
  PROVE  IInv'
<1> DEFINE e == [block |-> NextBlock, tag |-> tag]
<1>1. /\ TypeOK /\ ParsedInv /\ HeapExact /\ OomIsFinal /\ BlocksInOrder /\ pc = "exts"
      /\ NextBlock \in Nat /\ i \in Nat /\ exts_len \in Nat /\ i < exts_len
  BY DEF IInv, InLoop, NextBlock, TypeOK
<1>2. e \in [block : Nat, tag : ExtTags \ {"unknown"}] /\ exts \in Seq([block : Nat, tag : ExtTags \ {"unknown"}])
  BY <1>1 DEF TypeOK
<1>3. exts' = Append(exts, e) /\ i' = i + 1 /\ pc' = pc /\ skipped' = skipped
  BY DEF Keep
<1>4. TypeOK'
  BY <1>1, <1>2, <1>3 DEF TypeOK, Keep
<1>5. ParsedInv'
  BY <1>1, <1>2, <1>3 DEF ParsedInv, Keep
<1>6. HeapExact' /\ OomIsFinal'
  BY <1>1 DEF HeapExact, OomIsFinal, Keep, TypeOK
<1>7. BlocksInOrder'
  <2>1. \A a \in 1..Len(exts) : exts[a].block < NextBlock
    BY <1>1, BlocksBefore
  <2>2. Increasing(exts) /\ Increasing(skipped) /\ Blocks(exts) \cap Blocks(skipped) = {}
        /\ Blocks(exts) \cup Blocks(skipped) = 1..i
    BY <1>1 DEF BlocksInOrder
  <2>3. Increasing(exts') /\ Blocks(exts') = Blocks(exts) \cup {NextBlock}
    <3> DEFINE S == [block : Nat, tag : ExtTags \ {"unknown"}]
    <3>1. e \in S /\ exts \in Seq(S) /\ e.block = NextBlock
      BY <1>2
    <3> HIDE DEF S, e
    <3> QED BY <1>1, <1>3, <2>1, <2>2, <3>1, AppendNext
  <2>4. 1..i' = 1..i \cup {NextBlock} /\ NextBlock \notin 1..i
    BY <1>1, <1>3 DEF NextBlock
  <2>5. Blocks(skipped') = Blocks(skipped) /\ Increasing(skipped')
    BY <1>3, <2>2
  <2> QED BY <2>2, <2>3, <2>4, <2>5 DEF BlocksInOrder
<1> QED BY <1>4, <1>5, <1>6, <1>7 DEF IInv

(* A skipped block, for any reason but a failed calloc.                    *)
LEMMA SkipInv ==
  ASSUME IInv, InLoop, NEW l \in Nat, Skip(FALSE, l), errno' \in Errnos
  PROVE  IInv'
<1> DEFINE e == [block |-> NextBlock, oom |-> FALSE]
<1>1. /\ TypeOK /\ ParsedInv /\ HeapExact /\ OomIsFinal /\ BlocksInOrder /\ pc = "exts"
      /\ NextBlock \in Nat /\ i \in Nat /\ exts_len \in Nat /\ i < exts_len
  BY DEF IInv, InLoop, NextBlock, TypeOK
<1>2. e \in [block : Nat, oom : BOOLEAN] /\ skipped \in Seq([block : Nat, oom : BOOLEAN])
  BY <1>1 DEF TypeOK
<1>3. skipped' = Append(skipped, e) /\ i' = i + 1 /\ pc' = pc /\ exts' = exts
  BY DEF Skip
<1>4. TypeOK'
  BY <1>1, <1>2, <1>3 DEF TypeOK, Skip
<1>5. ParsedInv'
  <2> Len(exts) \in Nat
    BY <1>1 DEF TypeOK
  <2> QED BY <1>1, <1>3 DEF ParsedInv, Skip
<1>6. HeapExact'
  BY <1>1 DEF HeapExact, Skip, TypeOK
<1>7. OomIsFinal'
  <2>1. ASSUME NEW a \in 1..Len(skipped') PROVE ~skipped'[a].oom
    <3>1. CASE a \in 1..Len(skipped)
      BY <1>1, <1>2, <1>3, <3>1 DEF OomIsFinal
    <3>2. CASE a = Len(skipped) + 1
      BY <1>2, <1>3, <3>2
    <3> QED BY <1>2, <1>3, <3>1, <3>2
  <2> QED BY <2>1 DEF OomIsFinal
<1>8. BlocksInOrder'
  <2>1. \A a \in 1..Len(skipped) : skipped[a].block < NextBlock
    BY <1>1, BlocksBefore
  <2>2. Increasing(exts) /\ Increasing(skipped) /\ Blocks(exts) \cap Blocks(skipped) = {}
        /\ Blocks(exts) \cup Blocks(skipped) = 1..i
    BY <1>1 DEF BlocksInOrder
  <2>3. Increasing(skipped') /\ Blocks(skipped') = Blocks(skipped) \cup {NextBlock}
    <3> DEFINE S == [block : Nat, oom : BOOLEAN]
    <3>1. e \in S /\ skipped \in Seq(S) /\ e.block = NextBlock
      BY <1>2
    <3> HIDE DEF S, e
    <3> QED BY <1>1, <1>3, <2>1, <2>2, <3>1, AppendNext
  <2>4. 1..i' = 1..i \cup {NextBlock} /\ NextBlock \notin 1..i
    BY <1>1, <1>3 DEF NextBlock
  <2>5. Blocks(exts') = Blocks(exts) /\ Increasing(exts')
    BY <1>3, <2>2
  <2> QED BY <2>2, <2>3, <2>4, <2>5 DEF BlocksInOrder
<1> QED BY <1>4, <1>5, <1>6, <1>7, <1>8 DEF IInv

(* A refused EDID owns nothing and has no extensions.                      *)
LEMMA GiveUpInv ==
  ASSUME IInv, InLoop, NEW l \in Nat, GiveUp(l), errno' \in Errnos
  PROVE  IInv'
<1>1. TypeOK /\ ParsedInv /\ HeapExact /\ OomIsFinal /\ owned \in Nat /\ lost \in Nat /\ i \in Nat
  BY DEF IInv, TypeOK
<1>2. live = owned + lost
  BY <1>1 DEF HeapExact
<1>3. exts' = <<>> /\ Len(exts') = 0 /\ pc' = "null" /\ owned' = 0
      /\ live' = lost + l /\ lost' = lost + l
  BY <1>1, <1>2 DEF GiveUp
<1>4. TypeOK'
  BY <1>1, <1>3 DEF TypeOK, GiveUp
<1>5. ParsedInv'
  BY <1>1, <1>3 DEF ParsedInv, GiveUp
<1>6. HeapExact' /\ OomIsFinal' /\ BlocksInOrder'
  BY <1>1, <1>3 DEF HeapExact, OomIsFinal, BlocksInOrder, GiveUp
<1> QED BY <1>4, <1>5, <1>6 DEF IInv

-----------------------------------------------------------------------------
LEMMA InitInv == ASSUME Init PROVE IInv
<1> USE ExtsErrnos
<1>1. TypeOK
  BY DEF Init, TypeOK
<1>2. 0 < MaxBlocks
  BY ExtsGeometry
<1>3. ParsedInv
  BY <1>2 DEF Init, ParsedInv
<1>4. HeapExact /\ OomIsFinal /\ BlocksInOrder
  BY DEF Init, HeapExact, OomIsFinal, BlocksInOrder
<1> QED BY <1>1, <1>3, <1>4 DEF IInv

(* The steps before the loop: the head is refused, or the base section is. *)
LEMMA HeadInv == ASSUME IInv, RejectHead \/ BaseAllocFails PROVE IInv'
<1>1. /\ TypeOK /\ ParsedInv /\ HeapExact /\ OomIsFinal /\ pc = "start"
      /\ owned = 0 /\ lost \in Nat /\ live = owned + lost
      /\ exts = <<>> /\ skipped = <<>> /\ Len(exts) = 0
  BY DEF IInv, TypeOK, ParsedInv, HeapExact, RejectHead, BaseAllocFails
<1>2. CASE RejectHead
  <2>1. errno' \in Errnos
    <3>1. HeadError \in {"0", "EINVAL", "ENOTSUP"}
      BY Zenon DEF HeadError
    <3> QED BY <1>2, <3>1 DEF RejectHead, Errnos
  <2>2. TypeOK'
    BY <1>1, <1>2, <2>1 DEF RejectHead, TypeOK
  <2>3. ParsedInv' /\ HeapExact' /\ OomIsFinal' /\ BlocksInOrder'
    BY <1>1, <1>2 DEF RejectHead, ParsedInv, HeapExact, OomIsFinal, BlocksInOrder
  <2> QED BY <2>2, <2>3 DEF IInv
<1>3. CASE BaseAllocFails
  <2> PICK l \in Leaks : /\ errno' = "ENOMEM" /\ lost' = lost + l /\ live' = live + l
                        /\ pc' = "null" /\ UNCHANGED <<blob, exts_len, i, exts, skipped, owned>>
    BY <1>3 DEF BaseAllocFails
  <2> l \in Nat
    BY ExtsHeap
  <2>1. TypeOK'
    BY <1>1 DEF TypeOK, Errnos
  <2>2. ParsedInv' /\ HeapExact' /\ OomIsFinal' /\ BlocksInOrder'
    BY <1>1 DEF ParsedInv, HeapExact, OomIsFinal, BlocksInOrder
  <2> QED BY <2>1, <2>2 DEF IInv
<1> QED BY <1>2, <1>3

LEMMA ParseBaseInv == ASSUME IInv, ParseBase PROVE IInv'
<1>1. /\ TypeOK /\ ParsedInv /\ HeapExact /\ pc = "start" /\ HeadError = "0"
      /\ owned = 0 /\ lost \in Nat /\ live = owned + lost /\ i = 0
      /\ exts = <<>> /\ skipped = <<>> /\ Len(exts) = 0
  BY DEF IInv, TypeOK, ParsedInv, HeapExact, ParseBase
<1> PICK n \in BaseAllocs : /\ exts_len' = ExtsLen /\ owned' = 1 + n /\ live' = live + 1 + n
                           /\ pc' = "exts" /\ UNCHANGED <<blob, i, exts, skipped, lost, errno>>
  BY DEF ParseBase
<1>2. n \in Nat
  BY ExtsHeap
<1>3. ExtsLen \in Nat /\ ExtsLen < MaxBlocks /\ (ExtsLen + 1) * BlockSize <= blob.size
  BY <1>1, LoopFits
<1>4. TypeOK'
  BY <1>1, <1>2, <1>3 DEF TypeOK
<1>5. ParsedInv'
  BY <1>1, <1>3 DEF ParsedInv
<1>6. HeapExact' /\ OomIsFinal'
  BY <1>1, <1>2 DEF HeapExact, OomIsFinal
<1>7. BlocksInOrder'
  BY <1>1 DEF BlocksInOrder, Increasing, Blocks
<1> QED BY <1>4, <1>5, <1>6, <1>7 DEF IInv

(* The end of the loop, and di_edid_destroy.                               *)
LEMMA EndInv == ASSUME IInv, ExtsParsed \/ Destroy PROVE IInv'
<1>1. /\ TypeOK /\ ParsedInv /\ HeapExact /\ OomIsFinal /\ BlocksInOrder
      /\ owned \in Nat /\ lost \in Nat /\ live = owned + lost /\ i \in Nat
  BY DEF IInv, TypeOK, HeapExact
<1>2. CASE ExtsParsed
  <2>1. TypeOK' /\ ParsedInv'
    BY <1>1, <1>2 DEF ExtsParsed, TypeOK, ParsedInv
  <2>2. HeapExact' /\ OomIsFinal'
    BY <1>1, <1>2 DEF ExtsParsed, HeapExact, OomIsFinal
  <2>3. BlocksInOrder'
    BY <1>1, <1>2 DEF ExtsParsed, BlocksInOrder, Increasing, Blocks
  <2> QED BY <2>1, <2>2, <2>3 DEF IInv
<1>3. CASE Destroy
  <2>1. exts' = <<>> /\ Len(exts') = 0 /\ pc' = "destroyed" /\ owned' = 0 /\ live' = lost /\ lost' = lost
    BY <1>1, <1>3 DEF Destroy
  <2>2. TypeOK'
    BY <1>1, <1>3, <2>1 DEF Destroy, TypeOK
  <2>3. ParsedInv'
    BY <1>1, <1>3, <2>1 DEF Destroy, ParsedInv
  <2>4. HeapExact' /\ OomIsFinal' /\ BlocksInOrder'
    BY <1>1, <1>3, <2>1 DEF Destroy, HeapExact, OomIsFinal, BlocksInOrder
  <2> QED BY <2>2, <2>3, <2>4 DEF IInv
<1> QED BY <1>2, <1>3

(* An iteration of the loop keeps the block, skips it or gives up.         *)
LEMMA LoopSteps ==
  ASSUME TypeOK, ExtBadChecksum \/ ExtAllocFails \/ ExtOpaque \/ ExtUnknown \/ ExtParsed \/ ExtRejected
  PROVE  /\ InLoop /\ errno' \in Errnos
         /\ \/ \E tag \in ExtTags \ {"unknown"}, n \in Nat, l \in Nat : Keep(tag, n, l)
            \/ \E l \in Nat : Skip(FALSE, l)
            \/ \E l \in Nat : GiveUp(l)
<1> USE ExtsHeap
<1>1. errno \in Errnos
  BY DEF TypeOK
<1>2. CASE ExtBadChecksum \/ ExtAllocFails
  BY <1>2 DEF ExtBadChecksum, ExtAllocFails, Errnos
<1>3. CASE ExtOpaque
  BY <1>1, <1>3 DEF ExtOpaque
<1>4. CASE ExtUnknown
  BY <1>1, <1>4 DEF ExtUnknown
<1>5. CASE ExtParsed
  <2>1. DOMAIN Tolerated = {"cta", "displayid"}
    BY DEF Tolerated
  <2> QED BY <1>1, <1>5, <2>1 DEF ExtParsed, Errnos
<1>6. CASE ExtRejected
  <2> PICK tag \in ExtTags \cap DOMAIN Tolerated, oom \in BOOLEAN, l \in Leaks :
        /\ InLoop
        /\ errno' \in IF oom THEN {"ENOMEM"} ELSE {errno} \cup Rejections[tag]
        /\ IF errno' \in Tolerated[tag] THEN Skip(oom, l) ELSE GiveUp(l)
    BY <1>6 DEF ExtRejected
  <2>1. tag \in {"cta", "displayid"}
    BY DEF Tolerated
  <2>2. errno' \in Errnos
    BY <1>1, <2>1 DEF Rejections, Errnos
  <2>3. CASE oom
    <3>1. errno' = "ENOMEM"
      BY <2>3
    <3>2. errno' \notin Tolerated[tag]
      BY <2>1, <3>1 DEF Tolerated
    <3> QED BY <2>2, <3>2
  <2>4. CASE ~oom
    BY <2>2, <2>4
  <2> QED BY <2>3, <2>4
<1> QED BY <1>2, <1>3, <1>4, <1>5, <1>6

LEMMA NextInv == ASSUME IInv, [Next]_vars PROVE IInv'
<1>1. TypeOK
  BY DEF IInv
<1>2. CASE RejectHead \/ BaseAllocFails
  BY <1>2, HeadInv
<1>3. CASE ParseBase
  BY <1>3, ParseBaseInv
<1>4. CASE ExtsParsed \/ Destroy
  BY <1>4, EndInv
<1>5. CASE ExtBadChecksum \/ ExtAllocFails \/ ExtOpaque \/ ExtUnknown \/ ExtParsed \/ ExtRejected
  BY <1>1, <1>5, LoopSteps, KeepInv, SkipInv, GiveUpInv
<1>6. CASE UNCHANGED vars
  <2>1. TypeOK' /\ ParsedInv'
    BY <1>6 DEF vars, IInv, TypeOK, ParsedInv
  <2>2. HeapExact' /\ OomIsFinal'
    BY <1>6 DEF vars, IInv, HeapExact, OomIsFinal
  <2>3. BlocksInOrder'
    BY <1>6 DEF vars, IInv, BlocksInOrder, Increasing, Blocks
  <2> QED BY <2>1, <2>2, <2>3 DEF IInv
<1> QED BY <1>2, <1>3, <1>4, <1>5, <1>6 DEF Next

(* The inductive invariant: types, the place of the cursor between kept and*)
(* skipped blocks, the heap, and what a failed allocation leads to.        *)
THEOREM Invariance == Spec => []IInv
BY InitInv, NextInv, PTL DEF Spec

-----------------------------------------------------------------------------
(* The block parse_ext reads next lies in the input, and exts[] keeps room *)
(* for its NULL: both for any size and any byte 0x7E.                      *)
LEMMA InvInBounds == ASSUME IInv PROVE ExtsInBounds
<1>1. /\ i \in Nat /\ exts_len \in Nat /\ i <= exts_len /\ Len(exts) <= i /\ exts_len < MaxBlocks
      /\ Len(exts) \in Nat /\ BlockSize \in Nat /\ MaxBlocks \in Nat /\ blob.size \in Nat
      /\ pc = "exts" => (exts_len + 1) * BlockSize <= blob.size
  <2>1. TypeOK /\ ParsedInv
    BY DEF IInv
  <2>2. blob.size \in Nat /\ BlockSize \in Nat /\ MaxBlocks \in Nat
    BY <2>1, ExtsGeometry DEF TypeOK
  <2>3. i \in Nat /\ exts_len \in Nat /\ i <= exts_len /\ Len(exts) \in Nat
    BY <2>1 DEF TypeOK
  <2>4. Len(exts) <= i /\ exts_len < MaxBlocks
    BY <2>1 DEF ParsedInv
  <2>5. pc = "exts" => (exts_len + 1) * BlockSize <= blob.size
    BY <2>1 DEF ParsedInv
  <2> QED BY <2>2, <2>3, <2>4, <2>5
<1>2. ASSUME InLoop PROVE (NextBlock + 1) * BlockSize <= blob.size
  <2>1. NextBlock + 1 \in Nat /\ NextBlock + 1 <= exts_len + 1 /\ pc = "exts"
    BY <1>1, <1>2 DEF InLoop, NextBlock
  <2>2. (NextBlock + 1) * BlockSize <= (exts_len + 1) * BlockSize
    BY <1>1, <2>1, FewerBlocks
  <2>3. (NextBlock + 1) * BlockSize \in Nat /\ (exts_len + 1) * BlockSize \in Nat
    BY <1>1, <2>1
  <2> QED BY <1>1, <2>1, <2>2, <2>3
<1> QED BY <1>1, <1>2 DEF ExtsInBounds

(* Every variable of _di_edid_parse keeps its type.                        *)
THEOREM TypeCorrect == Spec => []TypeOK
<1>1. IInv => TypeOK
  BY DEF IInv
<1> QED BY <1>1, Invariance, PTL

THEOREM InBounds == Spec => []ExtsInBounds
BY InvInBounds, Invariance, PTL

(* However kept and skipped blocks alternate, every block is accounted for *)
(* once, and exts[] is in the order of the input.                          *)
THEOREM OrderKept == Spec => []BlocksInOrder
<1>1. IInv => BlocksInOrder
  BY DEF IInv
<1> QED BY <1>1, Invariance, PTL

(* On every path out of the parser, and after di_edid_destroy, what is     *)
(* still allocated is what a nested parser lost.                           *)
THEOREM ExactHeap == Spec => []HeapExact
<1>1. IInv => HeapExact
  BY DEF IInv
<1> QED BY <1>1, Invariance, PTL

(* A nested parser that ran out of memory makes the whole EDID fail.       *)
THEOREM OomFinal == Spec => []OomIsFinal
<1>1. IInv => OomIsFinal
  BY DEF IInv
<1> QED BY <1>1, Invariance, PTL
=============================================================================
