---------------------------- MODULE EdidBaseProofs ----------------------------
(***************************************************************************)
(* Proofs about EdidBase, for every number of standard timings, of byte    *)
(* descriptors and of entries in a descriptor.                             *)
(***************************************************************************)
EXTENDS EdidBase, TLAPS

(* The fixed arrays are bounded by the loops over the bytes: no entry of   *)
(* an array is used without an iteration.                                  *)
LoopInv ==
  /\ pc = "standard" => /\ standard_timings_len <= i /\ i <= MaxStandard
                        /\ detailed_timing_defs_len = 0 /\ display_descriptors_len = 0
                        /\ seen = <<>>
  /\ pc = "descriptors" => /\ detailed_timing_defs_len + display_descriptors_len <= i
                           /\ i <= Descriptors

(* What the two reports about the order of descriptors go by: the lengths  *)
(* of two lists stand for what was seen before.                            *)
OrderInv ==
  /\ pc \in {"standard", "descriptors"} /\ seen = <<>> => "preferred" \notin reports
  /\ pc = "descriptors" =>
       /\ seen = <<>> => detailed_timing_defs_len = 0
       /\ seen # <<>> /\ seen[1] = "dtd" => detailed_timing_defs_len > 0
       /\ \A a \in 1..Len(seen) : seen[a] = "kept" => display_descriptors_len > 0

(* The parser gives up at the first calloc that fails.                     *)
FailInv == IF pc = "null" THEN oom # "no" /\ errno = "ENOMEM" ELSE oom = "no"

IInv == TypeOK /\ LoopInv /\ HeapClean /\ OrderInv /\ FailInv
        /\ PreferredReportedIff /\ OrderReported

Places == {"standard", "dtd", "descriptor"} \cup Lists

-----------------------------------------------------------------------------
(* The parsers of descriptors differ in what they say and allocate; each   *)
(* of their steps keeps the descriptor, drops it, or gives up.             *)
Noted == \E r \in SUBSET (Rules \ {"preferred"}) : reports' = reports \cup Preferred \cup r
KeptStep == \E kind \in Lists \cup {"plain", "range_limits"}, n \in Nat :
  (kind \notin Lists => n = 0) /\ Keep(kind, n) /\ Noted
DropStep == Drop /\ Noted
FailStep == \E where \in Places, n \in Nat :
  /\ where \notin Lists => n = 0
  /\ GiveUp(where, n) /\ seen' = seen
  /\ \/ pc = "standard" /\ reports' = reports
     \/ InDescriptors /\ (Noted \/ reports' = reports \cup Ordering)

LEMMA NotedFacts ==
  ASSUME NEW r \in SUBSET (Rules \ {"preferred"}), reports' = reports \cup Preferred \cup r
  PROVE  Noted
BY DEF Noted

LEMMA SomeContents == ASSUME NEW c \in Contents PROVE c \in SUBSET (Rules \ {"preferred"})
BY DEF Contents, Rules

LEMMA DescriptorSteps ==
  ASSUME \/ PlainDescriptor \/ RangeLimitsKept \/ RangeLimitsDropped \/ UnknownDescriptor
         \/ StandardIds \/ ColorPoints \/ CvtCodes \/ ListAllocFails
         \/ DescriptorAllocFails \/ DtdAllocFails \/ StandardAllocFails
  PROVE  KeptStep \/ DropStep \/ FailStep
<1>0. \A l \in Lists : MaxEntries[l] \in Nat
  BY BaseGeometry
<1>1. CASE PlainDescriptor \/ RangeLimitsKept
  BY <1>1, SomeContents, NotedFacts DEF PlainDescriptor, RangeLimitsKept, KeptStep
<1>2. CASE RangeLimitsDropped
  <2>1. PICK c \in Contents : Drop /\ reports' = reports \cup Preferred \cup c
    BY <1>2 DEF RangeLimitsDropped, Contents
  <2> QED BY <2>1, SomeContents, NotedFacts DEF DropStep
<1>3. CASE UnknownDescriptor
  <2>1. PICK manufacturer \in BOOLEAN : Drop /\
          reports' = reports \cup Preferred
                     \cup (IF manufacturer THEN {} ELSE UntilRevision4("unknown"))
    BY <1>3 DEF UnknownDescriptor
  <2>2. (IF manufacturer THEN {} ELSE UntilRevision4("unknown")) \in SUBSET (Rules \ {"preferred"})
    BY DEF UntilRevision4, Rules
  <2> QED BY <2>1, <2>2, NotedFacts DEF DropStep
<1>4. CASE StandardIds \/ ColorPoints \/ CvtCodes
  <2>1. PICK kind \in Lists : \E n \in 0..MaxEntries[kind], c \in Contents :
          Keep(kind, n) /\ reports' = reports \cup Preferred \cup c
    <3>1. CASE StandardIds
      BY <3>1 DEF StandardIds, Lists
    <3>2. CASE ColorPoints
      <4>1. "color_point" \in Lists /\ \A n \in 1..MaxEntries["color_point"] :
              n \in 0..MaxEntries["color_point"]
        BY <1>0 DEF Lists
      <4> QED BY <3>2, <4>1 DEF ColorPoints
    <3>3. CASE CvtCodes
      <4>1. "cvt_codes" \in Lists /\ \A n \in 1..MaxEntries["cvt_codes"] :
              n \in 0..MaxEntries["cvt_codes"]
        BY <1>0 DEF Lists
      <4> QED BY <3>3, <4>1 DEF CvtCodes
    <3> QED BY <1>4, <3>1, <3>2, <3>3
  <2>2. PICK n \in 0..MaxEntries[kind] : \E c \in Contents :
          Keep(kind, n) /\ reports' = reports \cup Preferred \cup c
    BY <2>1
  <2>3. n \in Nat
    BY <1>0
  <2> QED BY <2>2, <2>3, SomeContents, NotedFacts DEF KeptStep
<1>5. CASE ListAllocFails
  <2>1. PICK kind \in Lists, c \in Contents : \E n \in 0..(MaxEntries[kind] - 1) :
          /\ InDescriptors /\ GiveUp(kind, n) /\ seen' = seen
          /\ reports' = reports \cup Preferred \cup c
    BY <1>5 DEF ListAllocFails
  <2>2. PICK n \in 0..(MaxEntries[kind] - 1) :
          /\ InDescriptors /\ GiveUp(kind, n) /\ seen' = seen
          /\ reports' = reports \cup Preferred \cup c
    BY <2>1
  <2>3. n \in Nat
    BY <1>0
  <2> QED BY <2>2, <2>3, SomeContents, NotedFacts DEF FailStep, Places
<1>6. CASE DescriptorAllocFails
  <2>1. {} \in SUBSET (Rules \ {"preferred"}) /\ reports' = reports \cup Preferred \cup {}
    BY <1>6 DEF DescriptorAllocFails
  <2>2. Noted
    BY <2>1, NotedFacts
  <2> QED BY <1>6, <2>2 DEF DescriptorAllocFails, FailStep, Places, Lists
<1>7. CASE DtdAllocFails
  BY <1>7 DEF DtdAllocFails, FailStep, Places, Lists
<1>8. CASE StandardAllocFails
  BY <1>8 DEF StandardAllocFails, InStandard, FailStep, Places, Lists
<1> QED BY <1>1, <1>2, <1>3, <1>4, <1>5, <1>6, <1>7, <1>8

-----------------------------------------------------------------------------
(* Once something was seen, a further display descriptor changes nothing   *)
(* about the report that the first one must be a timing.                   *)
LEMMA PreferredSettled ==
  ASSUME IInv, InDescriptors, Noted, seen # <<>>
  PROVE  ("preferred" \in reports') <=> (revision \in 3..4 /\ seen[1] # "dtd")
<1>1. ("preferred" \in reports) <=> (revision \in 3..4 /\ seen[1] # "dtd")
  BY DEF IInv, PreferredReportedIff
<1>2. seen[1] = "dtd" => detailed_timing_defs_len # 0
  BY DEF IInv, OrderInv, InDescriptors, TypeOK
<1>3. ("preferred" \in reports') <=>
        ("preferred" \in reports \/ (revision \in 3..4 /\ detailed_timing_defs_len = 0))
  BY DEF Noted, Preferred
<1> QED BY <1>1, <1>2, <1>3

(* The first display descriptor settles it.                                *)
LEMMA PreferredFirst ==
  ASSUME IInv, InDescriptors, Noted, seen = <<>>
  PROVE  ("preferred" \in reports') <=> revision \in 3..4
<1>1. "preferred" \notin reports /\ detailed_timing_defs_len = 0
  BY DEF IInv, OrderInv, InDescriptors
<1> QED BY <1>1 DEF Noted, Preferred

LEMMA NotedRules == ASSUME IInv, Noted PROVE reports' \subseteq Rules /\ reports \subseteq reports'
BY DEF IInv, TypeOK, Noted, Preferred, Rules

LEMMA AppendFacts ==
  ASSUME NEW S, NEW s \in Seq(S), NEW x \in S
  PROVE  /\ Append(s, x) \in Seq(S) /\ Len(Append(s, x)) = Len(s) + 1 /\ Len(s) \in Nat
         /\ Append(s, x)[Len(s) + 1] = x
         /\ \A k \in 1..Len(s) : Append(s, x)[k] = s[k]
         /\ Append(s, x) # <<>>
         /\ Append(s, x)[1] = IF s = <<>> THEN x ELSE s[1]
OBVIOUS

(* What the two properties of the order need of one more descriptor.       *)
LEMMA OneMoreSeen ==
  ASSUME IInv, InDescriptors, NEW x \in {"dtd", "kept", "dropped"}, seen' = Append(seen, x)
  PROVE  /\ seen' \in Seq({"dtd", "kept", "dropped"}) /\ seen' # <<>>
         /\ seen'[1] = IF seen = <<>> THEN x ELSE seen[1]
         /\ \A y \in {"dtd", "kept"} :
              (\E a \in 1..Len(seen') : seen'[a] = y)
                => x = y \/ \E a \in 1..Len(seen) : seen[a] = y
         /\ (\E a, b \in 1..Len(seen') : a < b /\ seen'[a] = "kept" /\ seen'[b] = "dtd")
              => \/ \E a, b \in 1..Len(seen) : a < b /\ seen[a] = "kept" /\ seen[b] = "dtd"
                 \/ x = "dtd" /\ \E a \in 1..Len(seen) : seen[a] = "kept"
<1>1. seen \in Seq({"dtd", "kept", "dropped"})
  BY DEF IInv, TypeOK
<1>2. /\ seen' \in Seq({"dtd", "kept", "dropped"}) /\ seen' # <<>>
      /\ seen'[1] = (IF seen = <<>> THEN x ELSE seen[1])
      /\ Len(seen') = Len(seen) + 1 /\ Len(seen) \in Nat
      /\ seen'[Len(seen) + 1] = x
      /\ \A k \in 1..Len(seen) : seen'[k] = seen[k]
  BY <1>1, AppendFacts
<1>3. ASSUME NEW a \in 1..Len(seen') PROVE a = Len(seen) + 1 \/ a \in 1..Len(seen)
  BY <1>2, <1>3
<1>4. ASSUME NEW y \in {"dtd", "kept"}, NEW a \in 1..Len(seen'), seen'[a] = y
      PROVE  x = y \/ \E k \in 1..Len(seen) : seen[k] = y
  BY <1>2, <1>3, <1>4
<1>5. ASSUME NEW a \in 1..Len(seen'), NEW b \in 1..Len(seen'),
             a < b, seen'[a] = "kept", seen'[b] = "dtd"
      PROVE  \/ \E k, l \in 1..Len(seen) : k < l /\ seen[k] = "kept" /\ seen[l] = "dtd"
             \/ x = "dtd" /\ \E k \in 1..Len(seen) : seen[k] = "kept"
  <2>1. a \in 1..Len(seen)
    BY <1>2, <1>5
  <2>2. seen[a] = "kept"
    BY <1>2, <1>5, <2>1
  <2>3. CASE b \in 1..Len(seen)
    BY <1>2, <1>5, <2>1, <2>2, <2>3
  <2>4. CASE b = Len(seen) + 1
    BY <1>2, <1>5, <2>1, <2>2, <2>4
  <2> QED BY <1>3, <2>3, <2>4
<1> QED BY <1>2, <1>4, <1>5

-----------------------------------------------------------------------------
LEMMA Sum5 ==
  ASSUME NEW a \in Nat, NEW b \in Nat, NEW c \in Nat, NEW d \in Nat
  PROVE  1 + a + b + c + d \in Nat
OBVIOUS

LEMMA OwnedNat == ASSUME TypeOK PROVE Owned \in Nat
<1>1. /\ standard_timings_len \in Nat /\ detailed_timing_defs_len \in Nat
      /\ display_descriptors_len \in Nat /\ children \in Nat
  BY BaseGeometry DEF TypeOK
<1> QED BY <1>1, Sum5 DEF Owned

LEMMA InitInv == Init => IInv
<1> SUFFICES ASSUME Init PROVE IInv
  OBVIOUS
<1>1. MaxStandard \in Nat /\ Descriptors \in Nat /\ StaleErrnos \subseteq Errnos
  BY BaseGeometry, BaseInput
<1>2. i \in 0..MaxStandard /\ standard_timings_len \in 0..MaxStandard
  BY <1>1 DEF Init
<1>3. detailed_timing_defs_len + display_descriptors_len <= Descriptors
  BY <1>1 DEF Init
<1>4. TypeOK
  BY <1>1, <1>2, <1>3 DEF Init, TypeOK
<1>5. LoopInv
  BY <1>1 DEF Init, LoopInv
<1>6. HeapClean
  BY DEF Init, HeapClean, Owned
<1>7. OrderInv /\ FailInv /\ PreferredReportedIff
  BY DEF Init, OrderInv, FailInv, PreferredReportedIff
<1>8. OrderReported
  BY DEF Init, OrderReported
<1> QED BY <1>4, <1>5, <1>6, <1>7, <1>8 DEF IInv

-----------------------------------------------------------------------------
(* The standard timings: nothing is seen yet and no list in use but one.   *)
LEMMA StandardInv ==
  ASSUME IInv, StandardUnused \/ StandardKept \/ StandardDone
  PROVE  IInv'
<1>1. MaxStandard \in Nat /\ Descriptors \in Nat
  BY BaseGeometry
<1>2. /\ pc = "standard" /\ seen = <<>> /\ i \in Nat /\ i <= MaxStandard
      /\ standard_timings_len \in Nat /\ standard_timings_len <= i
      /\ detailed_timing_defs_len = 0 /\ display_descriptors_len = 0
      /\ children \in Nat /\ live \in Nat /\ "preferred" \notin reports
  BY <1>1 DEF StandardUnused, StandardKept, StandardDone, InStandard, IInv, LoopInv, OrderInv, TypeOK
<1>3. /\ revision' = revision /\ seen' = seen /\ oom' = oom /\ errno' = errno
      /\ detailed_timing_defs_len' = detailed_timing_defs_len
      /\ display_descriptors_len' = display_descriptors_len /\ children' = children
  BY DEF StandardUnused, StandardKept, StandardDone
<1>4. reports' = reports \/ reports' = reports \cup {"standard"}
  BY DEF StandardUnused, StandardKept, StandardDone, UntilRevision4
<1>5. /\ i' \in Nat /\ standard_timings_len' \in Nat
      /\ \/ pc' = "standard" /\ i' <= MaxStandard /\ standard_timings_len' <= i'
            /\ i' \in 0..MaxStandard
         \/ pc' = "descriptors" /\ i' = 0
      /\ standard_timings_len' <= MaxStandard
  <2>1. CASE StandardUnused
    BY <1>1, <1>2, <2>1 DEF StandardUnused, InStandard
  <2>2. CASE StandardKept
    BY <1>1, <1>2, <2>2 DEF StandardKept, InStandard
  <2>3. CASE StandardDone
    BY <1>1, <1>2, <2>3 DEF StandardDone
  <2> QED BY <2>1, <2>2, <2>3
<1>6. live' \in Nat
  BY <1>2 DEF StandardUnused, StandardKept, StandardDone
<1>7. TypeOK'
  <2>1. i' \in 0..MaxStandard \cup 0..Descriptors /\ standard_timings_len' \in 0..MaxStandard
    BY <1>1, <1>5
  <2>2. reports' \subseteq Rules /\ pc' \in {"standard", "descriptors", "exts", "null"}
    BY <1>4, <1>5 DEF IInv, TypeOK, Rules
  <2> QED BY <1>3, <1>6, <2>1, <2>2 DEF IInv, TypeOK
<1>8. LoopInv'
  BY <1>1, <1>2, <1>3, <1>5 DEF LoopInv
<1>9. HeapClean'
  <2>1. live = 1 + standard_timings_len + 0 + 0 + children
    BY <1>2 DEF IInv, HeapClean, Owned
  <2>2. live' = 1 + standard_timings_len' + 0 + 0 + children
    <3>1. CASE StandardKept
      <4>1. live + 1 = 1 + (standard_timings_len + 1) + 0 + 0 + children
        BY <1>2, <2>1
      <4>2. live' = live + 1 /\ standard_timings_len' = standard_timings_len + 1
        BY <3>1 DEF StandardKept
      <4> QED BY <4>1, <4>2, Zenon
    <3>2. CASE StandardUnused \/ StandardDone
      BY <2>1, <3>2 DEF StandardUnused, StandardDone
    <3> QED BY <3>1, <3>2
  <2>3. live' = Owned'
    <3>1. detailed_timing_defs_len' = 0 /\ display_descriptors_len' = 0 /\ children' = children
      BY <1>2, <1>3
    <3> QED BY <2>2, <3>1, Zenon DEF Owned
  <2>4. pc' # "null"
    BY <1>5
  <2> QED BY <2>3, <2>4 DEF HeapClean
<1>10. OrderInv'
  <2>1. "preferred" \notin reports' /\ Len(seen') = 0
    BY <1>2, <1>3, <1>4
  <2> QED BY <1>2, <1>3, <2>1 DEF OrderInv
<1>11. FailInv' /\ PreferredReportedIff' /\ OrderReported'
  <2>1. pc' # "null" /\ seen' = <<>> /\ oom' = "no" /\ Len(seen') = 0
    BY <1>2, <1>3, <1>5 DEF IInv, FailInv
  <2> QED BY <2>1 DEF FailInv, PreferredReportedIff, OrderReported
<1> QED BY <1>7, <1>8, <1>9, <1>10, <1>11 DEF IInv

(* A failed calloc empties the lists and keeps what was reported.          *)
LEMMA FailStepInv == ASSUME IInv, FailStep PROVE IInv'
<1>1. PICK where \in Places, n \in Nat :
        /\ where \notin Lists => n = 0
        /\ GiveUp(where, n) /\ seen' = seen
        /\ \/ pc = "standard" /\ reports' = reports
           \/ InDescriptors /\ (Noted \/ reports' = reports \cup Ordering)
  BY DEF FailStep
<1>2. /\ errno' = "ENOMEM" /\ oom' = where /\ pc' = "null"
      /\ live' = (live + n) - Owned
      /\ standard_timings_len' = 0 /\ detailed_timing_defs_len' = 0
      /\ display_descriptors_len' = 0 /\ children' = 0
      /\ revision' = revision /\ i' = i /\ seen' = seen
  BY <1>1 DEF GiveUp
<1>3. live' = n
  <2>1. live = Owned /\ Owned \in Nat
    BY <1>1, OwnedNat DEF IInv, HeapClean, InDescriptors
  <2> QED BY <1>2, <2>1
<1>4. reports' \subseteq Rules /\ reports \subseteq reports'
  BY <1>1, NotedRules DEF IInv, TypeOK, Ordering, Rules
<1>5. TypeOK'
  <2>1. MaxStandard \in Nat /\ Descriptors \in Nat
    BY BaseGeometry
  <2>2. standard_timings_len' \in 0..MaxStandard
        /\ detailed_timing_defs_len' + display_descriptors_len' <= Descriptors
    BY <1>2, <2>1
  <2>3. oom' \in {"no", "standard", "dtd", "descriptor"} \cup Lists
    BY <1>2 DEF Places
  <2>4. errno' \in Errnos /\ live' \in Nat /\ pc' \in {"standard", "descriptors", "exts", "null"}
    BY <1>2, <1>3 DEF Errnos
  <2>5. children' \in Nat /\ detailed_timing_defs_len' \in Nat /\ display_descriptors_len' \in Nat
    BY <1>2
  <2> QED BY <1>2, <1>4, <2>2, <2>3, <2>4, <2>5 DEF IInv, TypeOK
<1>6. LoopInv' /\ OrderInv'
  BY <1>2 DEF LoopInv, OrderInv
<1>7. HeapClean'
  BY <1>1, <1>2, <1>3 DEF HeapClean
<1>8. FailInv'
  BY <1>2 DEF FailInv, Places, Lists
<1>9. PreferredReportedIff'
  <2>1. CASE seen = <<>>
    BY <1>2, <2>1 DEF PreferredReportedIff
  <2>2. CASE seen # <<>> /\ Noted
    <3>1. InDescriptors
      BY <1>1, <2>2 DEF IInv, LoopInv
    <3> QED BY <1>2, <2>2, <3>1, PreferredSettled DEF PreferredReportedIff
  <2>3. CASE seen # <<>> /\ ~Noted
    <3>1. "preferred" \in reports' <=> "preferred" \in reports
      BY <1>1, <2>3 DEF Ordering
    <3> QED BY <1>2, <3>1 DEF IInv, PreferredReportedIff
  <2> QED BY <2>1, <2>2, <2>3
<1>10. OrderReported'
  BY <1>2, <1>4 DEF IInv, OrderReported
<1> QED BY <1>5, <1>6, <1>7, <1>8, <1>9, <1>10 DEF IInv

(* What all that goes on after one more descriptor has in common.          *)
LEMMA SeenInv ==
  ASSUME IInv, InDescriptors, NEW x \in {"dtd", "kept", "dropped"}, seen' = Append(seen, x),
         i' = i + 1, pc' = pc, oom' = oom, errno' = errno, revision' = revision,
         standard_timings_len' = standard_timings_len,
         NEW d \in 0..1, x # "dropped" <=> d = 1,
         detailed_timing_defs_len' = detailed_timing_defs_len + (IF x = "dtd" THEN d ELSE 0),
         display_descriptors_len' = display_descriptors_len + (IF x = "dtd" THEN 0 ELSE d),
         IF x = "dtd" THEN reports' = reports \cup Ordering ELSE Noted,
         live' \in Nat, children' \in Nat, live' = Owned'
  PROVE  IInv'
<1>1. MaxStandard \in Nat /\ Descriptors \in Nat
  BY BaseGeometry
<1>2. /\ i \in Nat /\ i < Descriptors /\ pc = "descriptors"
      /\ detailed_timing_defs_len \in Nat /\ display_descriptors_len \in Nat
      /\ detailed_timing_defs_len + display_descriptors_len <= i
  BY <1>1 DEF InDescriptors, IInv, LoopInv, TypeOK
<1>3. /\ detailed_timing_defs_len' \in Nat /\ display_descriptors_len' \in Nat /\ i' \in Nat
      /\ detailed_timing_defs_len' + display_descriptors_len' <= i' /\ i' <= Descriptors
  <2>1. CASE x = "dtd"
    BY <1>1, <1>2, <2>1
  <2>2. CASE x = "kept"
    BY <1>1, <1>2, <2>2
  <2>3. CASE x = "dropped"
    BY <1>1, <1>2, <2>3
  <2> QED BY <2>1, <2>2, <2>3
<1>4. reports' \subseteq Rules /\ reports \subseteq reports'
  BY NotedRules DEF IInv, TypeOK, Ordering, Rules
<1>5. TypeOK'
  <2>1. i' \in 0..Descriptors
    BY <1>1, <1>3
  <2>2. detailed_timing_defs_len' + display_descriptors_len' <= Descriptors
    BY <1>1, <1>3
  <2>3. seen' \in Seq({"dtd", "kept", "dropped"})
    BY OneMoreSeen
  <2> QED BY <1>3, <1>4, <2>1, <2>2, <2>3 DEF IInv, TypeOK
<1>6. LoopInv'
  BY <1>2, <1>3 DEF LoopInv
<1>7. HeapClean'
  BY <1>2 DEF HeapClean
<1>8. FailInv'
  BY DEF IInv, FailInv
<1>9. seen' # <<>> /\ seen'[1] = IF seen = <<>> THEN x ELSE seen[1]
  BY OneMoreSeen
<1>10. OrderInv'
  <2>1. seen'[1] = "dtd" => detailed_timing_defs_len' > 0
    <3>1. CASE x = "dtd"
      BY <1>2, <3>1
    <3>2. CASE x # "dtd" /\ seen # <<>>
      BY <1>2, <1>9, <3>2 DEF IInv, OrderInv
    <3>3. CASE x # "dtd" /\ seen = <<>>
      BY <1>9, <3>3
    <3> QED BY <3>1, <3>2, <3>3
  <2>2. ASSUME NEW a \in 1..Len(seen'), seen'[a] = "kept" PROVE display_descriptors_len' > 0
    <3>1. x = "kept" \/ \E k \in 1..Len(seen) : seen[k] = "kept"
      BY <2>2, OneMoreSeen
    <3>2. CASE x = "kept"
      BY <1>2, <3>2
    <3>3. CASE \E k \in 1..Len(seen) : seen[k] = "kept"
      <4>1. display_descriptors_len > 0
        BY <1>2, <3>3 DEF IInv, OrderInv
      <4> QED BY <1>2, <4>1
    <3> QED BY <3>1, <3>2, <3>3
  <2> QED BY <1>2, <1>9, <2>1, <2>2 DEF OrderInv
<1>11. PreferredReportedIff'
  <2>1. CASE x = "dtd"
    <3>1. "preferred" \in reports' <=> "preferred" \in reports
      BY <2>1 DEF Ordering
    <3>2. seen = <<>> => "preferred" \notin reports
      BY <1>2 DEF IInv, OrderInv
    <3> QED BY <1>9, <2>1, <3>1, <3>2 DEF IInv, PreferredReportedIff
  <2>2. CASE x # "dtd"
    BY <1>9, <2>2, PreferredSettled, PreferredFirst DEF PreferredReportedIff
  <2> QED BY <2>1, <2>2
<1>12. OrderReported'
  <2> SUFFICES ASSUME \E a, b \in 1..Len(seen') :
                        a < b /\ seen'[a] = "kept" /\ seen'[b] = "dtd"
               PROVE  "ordering" \in reports'
    BY DEF OrderReported
  <2>1. \/ \E a, b \in 1..Len(seen) : a < b /\ seen[a] = "kept" /\ seen[b] = "dtd"
        \/ x = "dtd" /\ \E a \in 1..Len(seen) : seen[a] = "kept"
    BY OneMoreSeen
  <2>2. CASE \E a, b \in 1..Len(seen) : a < b /\ seen[a] = "kept" /\ seen[b] = "dtd"
    BY <1>4, <2>2 DEF IInv, OrderReported
  <2>3. CASE x = "dtd" /\ \E a \in 1..Len(seen) : seen[a] = "kept"
    <3>1. display_descriptors_len > 0
      BY <1>2, <2>3 DEF IInv, OrderInv
    <3> QED BY <2>3, <3>1 DEF Ordering
  <2> QED BY <2>1, <2>2, <2>3
<1> QED BY <1>5, <1>6, <1>7, <1>8, <1>10, <1>11, <1>12 DEF IInv

(* In the loop everything allocated is reachable.                          *)
LEMMA LoopHeap ==
  ASSUME IInv, InDescriptors
  PROVE  /\ live = 1 + standard_timings_len + detailed_timing_defs_len
                   + display_descriptors_len + children
         /\ live \in Nat /\ children \in Nat /\ standard_timings_len \in Nat
         /\ detailed_timing_defs_len \in Nat /\ display_descriptors_len \in Nat
<1>1. pc = "descriptors"
  BY DEF InDescriptors
<1>2. standard_timings_len \in Nat
  BY BaseGeometry DEF IInv, TypeOK
<1> QED BY <1>1, <1>2 DEF IInv, TypeOK, HeapClean, Owned

LEMMA DtdInv == ASSUME IInv, DtdKept PROVE IInv'
<1>1. /\ InDescriptors /\ reports' = reports \cup Ordering
      /\ detailed_timing_defs_len' = detailed_timing_defs_len + 1
      /\ display_descriptors_len' = display_descriptors_len /\ children' = children
      /\ seen' = Append(seen, "dtd") /\ live' = live + 1 /\ i' = i + 1 /\ pc' = pc
      /\ standard_timings_len' = standard_timings_len
      /\ oom' = oom /\ errno' = errno /\ revision' = revision
  BY DEF DtdKept
<1>2. live' = Owned' /\ live' \in Nat /\ children' \in Nat
  <2>1. live + 1 = 1 + standard_timings_len + (detailed_timing_defs_len + 1)
                   + display_descriptors_len + children
    BY <1>1, LoopHeap
  <2>2. live' = Owned'
    BY <1>1, <2>1, Zenon DEF Owned
  <2> QED BY <1>1, <2>2, LoopHeap
<1>3. display_descriptors_len' = display_descriptors_len + 0
  BY <1>1, LoopHeap
<1> QED BY <1>1, <1>2, <1>3, SeenInv

LEMMA KeptInv == ASSUME IInv, KeptStep PROVE IInv'
<1>1. PICK kind \in Lists \cup {"plain", "range_limits"}, n \in Nat :
        (kind \notin Lists => n = 0) /\ Keep(kind, n) /\ Noted
  BY DEF KeptStep
<1>2. Freed(kind, n) = n
  BY <1>1 DEF Freed
<1>3. /\ InDescriptors /\ Noted
      /\ display_descriptors_len' = display_descriptors_len + 1
      /\ detailed_timing_defs_len' = detailed_timing_defs_len /\ children' = children + n
      /\ seen' = Append(seen, "kept") /\ live' = live + 1 + n /\ i' = i + 1 /\ pc' = pc
      /\ standard_timings_len' = standard_timings_len
      /\ oom' = oom /\ errno' = errno /\ revision' = revision
  BY <1>1, <1>2 DEF Keep
<1>4. live' = Owned' /\ live' \in Nat /\ children' \in Nat
  <2>1. live + 1 + n = 1 + standard_timings_len + detailed_timing_defs_len
                       + (display_descriptors_len + 1) + (children + n)
    <3>1. /\ live = 1 + standard_timings_len + detailed_timing_defs_len
                    + display_descriptors_len + children
          /\ children \in Nat /\ standard_timings_len \in Nat
          /\ detailed_timing_defs_len \in Nat /\ display_descriptors_len \in Nat
      BY <1>3, LoopHeap
    <3> QED BY <3>1
  <2>2. live' = Owned'
    BY <1>3, <2>1, Zenon DEF Owned
  <2>3. live \in Nat /\ children \in Nat
    BY <1>3, LoopHeap
  <2>4. live + 1 + n \in Nat /\ children + n \in Nat
    BY <2>3
  <2> QED BY <1>3, <2>2, <2>4, Zenon
<1>5. detailed_timing_defs_len' = detailed_timing_defs_len + 0
  BY <1>3, LoopHeap
<1> QED BY <1>3, <1>4, <1>5, SeenInv

LEMMA DropInv == ASSUME IInv, DropStep PROVE IInv'
<1>1. /\ InDescriptors /\ Noted
      /\ display_descriptors_len' = display_descriptors_len
      /\ detailed_timing_defs_len' = detailed_timing_defs_len /\ children' = children
      /\ seen' = Append(seen, "dropped") /\ live' = live /\ i' = i + 1 /\ pc' = pc
      /\ standard_timings_len' = standard_timings_len
      /\ oom' = oom /\ errno' = errno /\ revision' = revision
  BY DEF DropStep, Drop
<1>2. live' = Owned' /\ live' \in Nat /\ children' \in Nat
  <2>1. live = 1 + standard_timings_len + detailed_timing_defs_len
               + display_descriptors_len + children
    BY <1>1, LoopHeap
  <2>2. live' = Owned'
    BY <1>1, <2>1, Zenon DEF Owned
  <2> QED BY <1>1, <2>2, LoopHeap
<1>3. /\ detailed_timing_defs_len' = detailed_timing_defs_len + 0
      /\ display_descriptors_len' = display_descriptors_len + 0
  BY <1>1, LoopHeap
<1> QED BY <1>1, <1>2, <1>3, SeenInv

LEMMA DoneInv == ASSUME IInv, DescriptorsDone PROVE IInv'
<1>1. /\ pc = "descriptors" /\ pc' = "exts"
      /\ UNCHANGED <<revision, i, standard_timings_len, detailed_timing_defs_len,
                     display_descriptors_len, children, reports, seen, oom, live, errno>>
  BY DEF DescriptorsDone
<1>2. TypeOK' /\ LoopInv' /\ OrderInv' /\ FailInv'
  BY <1>1 DEF IInv, TypeOK, LoopInv, OrderInv, FailInv
<1>3. HeapClean'
  BY <1>1 DEF IInv, HeapClean, Owned
<1>4. PreferredReportedIff' /\ OrderReported'
  BY <1>1 DEF IInv, PreferredReportedIff, OrderReported
<1> QED BY <1>2, <1>3, <1>4 DEF IInv

LEMMA NextInv == ASSUME IInv, [Next]_vars PROVE IInv'
<1>1. CASE Next
  BY <1>1, StandardInv, DescriptorSteps, KeptInv, DropInv, FailStepInv, DtdInv, DoneInv DEF Next
<1>2. CASE UNCHANGED vars
  BY <1>2 DEF vars, IInv, TypeOK, LoopInv, OrderInv, FailInv, HeapClean, Owned,
     PreferredReportedIff, OrderReported
<1> QED BY <1>1, <1>2

(* The inductive invariant.                                                *)
THEOREM Invariance == Spec => []IInv
<1> QED BY InitInv, NextInv, PTL DEF Spec

(* No array of struct di_edid gets more entries than it has room for, and  *)
(* the last one stays NULL.                                                *)
THEOREM TypeCorrect == Spec => []TypeOK
<1>1. IInv => TypeOK
  BY DEF IInv
<1> QED BY <1>1, Invariance, PTL

(* Everything allocated is reachable from the EDID, and everything was     *)
(* freed when the parser gave up, unless on an entry of a descriptor.      *)
THEOREM Clean == Spec => []HeapClean
<1>1. IInv => HeapClean
  BY DEF IInv
<1> QED BY <1>1, Invariance, PTL

(* The first descriptor is reported if and only if it is not a timing.     *)
THEOREM PreferredExact == Spec => []PreferredReportedIff
<1>1. IInv => PreferredReportedIff
  BY DEF IInv
<1> QED BY <1>1, Invariance, PTL

(* A timing after a display descriptor that was kept is always reported.   *)
THEOREM OrderExact == Spec => []OrderReported
<1>1. IInv => OrderReported
  BY DEF IInv
<1> QED BY <1>1, Invariance, PTL

-----------------------------------------------------------------------------
(* The base section keeps the contract of the extensions, and rejects      *)
(* nothing by itself: NULL means ENOMEM.                                   *)
THEOREM ImplementsContract == Spec => KeepsContract
<1>1. Init => Contract!Init
  BY DEF Init, Contract!Init, Status, Failing, Reachable, Allocated, Owned
<1>2. IInv /\ IInv' /\ [Next]_vars => [Contract!Next]_Contract!vars
  <2> SUFFICES ASSUME IInv, IInv', [Next]_vars PROVE [Contract!Next]_Contract!vars
    OBVIOUS
  <2> USE DEF Contract!Next
  <2>1. CASE UNCHANGED vars
    BY <2>1 DEF vars, Contract!vars, Status, Failing, Reachable, Allocated, Owned
  <2>2. CASE FailStep
    <3>1. /\ pc \in {"standard", "descriptors"} /\ pc' = "null"
          /\ errno' = "ENOMEM" /\ live' \in Nat
      BY <2>2 DEF FailStep, GiveUp, InDescriptors, IInv, TypeOK
    <3>2. Status = "parsing" /\ Status' = "failed" /\ Reachable' = 0 /\ Allocated' \in Nat
      BY <3>1 DEF Status, Reachable, Allocated
    <3>3. Failing' = TRUE
      BY <3>1 DEF Failing, IInv, FailInv
    <3>4. Contract!Errors({})
      BY <3>1, <3>3 DEF Contract!Errors
    <3> QED BY <3>2, <3>4 DEF Contract!Reject
  <2>3. CASE StandardUnused \/ StandardKept \/ StandardDone \/ DtdKept \/ KeptStep \/ DropStep
             \/ DescriptorsDone
    <3>1. /\ pc \in {"standard", "descriptors"} /\ pc' \in {"standard", "descriptors", "exts"}
          /\ errno' = errno /\ oom' = oom
      BY <2>3 DEF StandardUnused, StandardKept, StandardDone, InStandard, DtdKept, InDescriptors,
         KeptStep, Keep, DropStep, Drop, DescriptorsDone
    <3>2. PICK n \in Nat : live' = live + n
      <4>1. live \in Nat
        BY DEF IInv, TypeOK
      <4>2. CASE KeptStep
        <5>1. PICK n \in Nat : live' = live + 1 + n
          BY <4>2 DEF KeptStep, Keep
        <5>2. 1 + n \in Nat /\ live + 1 + n = live + (1 + n)
          BY <4>1
        <5> QED BY <5>1, <5>2
      <4>3. CASE ~KeptStep
        <5>1. live' = live \/ live' = live + 1
          BY <2>3, <4>3 DEF StandardUnused, StandardKept, StandardDone, DtdKept,
             DropStep, Drop, DescriptorsDone
        <5>2. live = live + 0
          BY <4>1
        <5> QED BY <5>1, <5>2
      <4> QED BY <4>2, <4>3
    <3>3. /\ live = Owned /\ live' = Owned' /\ live \in Nat /\ live' \in Nat
          /\ live >= 1
      <4>1. live = Owned /\ live' = Owned'
        BY <3>1 DEF IInv, HeapClean
      <4>2. Owned >= 1
        <5>1. /\ standard_timings_len \in Nat /\ detailed_timing_defs_len \in Nat
              /\ display_descriptors_len \in Nat /\ children \in Nat
          BY BaseGeometry DEF IInv, TypeOK
        <5> QED BY <5>1 DEF Owned
      <4> QED BY <4>1, <4>2 DEF IInv, TypeOK
    <3>4. /\ Reachable = live - 1 /\ Reachable' = live' - 1
          /\ Allocated = live - 1 /\ Allocated' = live' - 1
          /\ Status = "parsing" /\ Status' \in {"parsing", "ok"}
      BY <3>1, <3>3 DEF Reachable, Allocated, Status
    <3>5. live - 1 \in Nat /\ (live + n) - 1 \in Nat /\ (live + n) - 1 >= live - 1
      BY <3>3
    <3>6. Contract!Errors({})
      <4>1. ~Failing /\ ~Failing' /\ Failing \in BOOLEAN /\ Failing' \in BOOLEAN
        BY <3>1 DEF IInv, FailInv, Failing
      <4> QED BY <3>1, <4>1 DEF Contract!Errors
    <3>7. /\ Reachable' \in Nat /\ Reachable' >= Reachable
          /\ Allocated' \in Nat /\ Allocated' - Allocated >= Reachable' - Reachable
      <4>1. PICK a \in Nat, b \in Nat : a = live - 1 /\ b = (live + n) - 1 /\ b >= a
        BY <3>5
      <4>2. Reachable = a /\ Reachable' = b /\ Allocated = a /\ Allocated' = b
        BY <3>2, <3>4, <4>1, Zenon
      <4>3. b - a >= b - a
        OBVIOUS
      <4> QED BY <4>1, <4>2, <4>3, Zenon
    <3> QED BY <3>4, <3>6, <3>7 DEF Contract!Work
  <2> QED BY <2>1, <2>2, <2>3, DescriptorSteps DEF Next
<1> QED BY <1>1, <1>2, Invariance, PTL DEF Spec, KeepsContract, Contract!Spec

=============================================================================
