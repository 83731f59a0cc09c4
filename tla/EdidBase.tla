------------------------------ MODULE EdidBase ------------------------------
(***************************************************************************)
(* The allocating part of the base EDID section (edid.c): the loop over    *)
(* the standard timings and the loop over the four byte descriptors of     *)
(* _di_edid_parse, with parse_standard_timing, parse_byte_descriptor and   *)
(* the descriptor parsers it calls, and the part of _di_edid_destroy that  *)
(* undoes them.                                                            *)
(*                                                                         *)
(* What the bytes decode to is left to module EdidDecode; here a           *)
(* descriptor is its kind and the number of entries it allocates, and a    *)
(* failure report is the name of the rule it is about.                     *)
(*                                                                         *)
(* A definition named X_Something is X with a plausible mistake in it; it  *)
(* takes part in no specification.                                         *)
(***************************************************************************)
EXTENDS Naturals, Sequences

CONSTANTS
  MaxStandard,   \* EDID_MAX_STANDARD_TIMING_COUNT, 8
  Descriptors,   \* EDID_BYTE_DESCRIPTOR_COUNT, 4
  MaxEntries,    \* entries of a descriptor by its kind: 6, 2 and 4
  Revisions,     \* EDID revisions, byte 0x13
  StaleErrnos    \* values errno may have when the library is called

Lists == {"std_ids", "color_point", "cvt_codes"}
Errnos == {"0", "EINVAL", "ENOTSUP", "ENOMEM"}

ASSUME BaseGeometry == /\ MaxStandard \in Nat /\ Descriptors \in Nat
                       /\ MaxEntries \in [Lists -> Nat \ {0}]
ASSUME BaseInput == Revisions \subseteq Nat /\ StaleErrnos \subseteq Errnos

VARIABLES
  revision,
  pc,                    \* "standard", "descriptors", "exts", "null"
  i,                     \* timings, then descriptors, parsed so far
  standard_timings_len,
  detailed_timing_defs_len,
  display_descriptors_len,
  children,              \* entries of the kept descriptors that are freed with them
  reports,               \* the rules add_failure was called for
  seen,                  \* ghost: "dtd", "kept" or "dropped" by descriptor
  oom,                   \* where a calloc failed, "no" if none did
  live,                  \* allocations that have not been freed
  errno

vars == <<revision, pc, i, standard_timings_len, detailed_timing_defs_len,
          display_descriptors_len, children, reports, seen, oom, live, errno>>

Rules == {"standard", "ordering", "preferred", "contents", "unknown"}

(* Every array of struct di_edid has one slot more than it may hold, the   *)
(* NULL its readers and _di_edid_destroy stop at.                          *)
TypeOK ==
  /\ revision \in Revisions
  /\ pc \in {"standard", "descriptors", "exts", "null"}
  /\ i \in 0..MaxStandard \cup 0..Descriptors
  /\ standard_timings_len \in 0..MaxStandard
  /\ detailed_timing_defs_len \in Nat /\ display_descriptors_len \in Nat
  /\ detailed_timing_defs_len + display_descriptors_len <= Descriptors
  /\ children \in Nat
  /\ reports \subseteq Rules
  /\ seen \in Seq({"dtd", "kept", "dropped"})
  /\ oom \in {"no", "standard", "dtd", "descriptor"} \cup Lists
  /\ live \in Nat /\ errno \in Errnos

Init ==
  /\ revision \in Revisions
  /\ pc = "standard" /\ i = 0
  /\ standard_timings_len = 0 /\ detailed_timing_defs_len = 0
  /\ display_descriptors_len = 0 /\ children = 0
  /\ reports = {} /\ seen = <<>> /\ oom = "no"
  /\ live = 1                              \* the EDID itself
  /\ errno \in StaleErrnos

-----------------------------------------------------------------------------
(* add_failure_until: newer revisions may give reserved values a meaning.  *)
UntilRevision4(rule) == IF revision <= 4 THEN {rule} ELSE {}

(* destroy_display_descriptor: the lists that are freed, by tag.           *)
Freed_NoCvtCodes(kind, n) == IF kind \in Lists \ {"cvt_codes"} THEN n ELSE 0
Freed(kind, n) == IF kind \in Lists THEN n ELSE 0

(* What _di_edid_destroy frees.                                            *)
Owned == 1 + standard_timings_len + detailed_timing_defs_len
         + display_descriptors_len + children

(* A calloc failed with n entries hanging off a descriptor nobody points   *)
(* to any more: _di_edid_destroy, and NULL to the caller.                  *)
GiveUp_Einval(where, n) ==
  /\ errno' = "EINVAL" /\ oom' = where
  /\ live' = (live + n) - Owned
  /\ pc' = "null"
  /\ standard_timings_len' = 0 /\ detailed_timing_defs_len' = 0
  /\ display_descriptors_len' = 0 /\ children' = 0
  /\ UNCHANGED <<revision, i>>
GiveUp(where, n) ==
  /\ errno' = "ENOMEM" /\ oom' = where
  /\ live' = (live + n) - Owned
  /\ pc' = "null"
  /\ standard_timings_len' = 0 /\ detailed_timing_defs_len' = 0
  /\ display_descriptors_len' = 0 /\ children' = 0
  /\ UNCHANGED <<revision, i>>

-----------------------------------------------------------------------------
(* parse_standard_timing for entry i of the base block.                    *)
InStandard_OneMore == pc = "standard" /\ i <= MaxStandard
InStandard == pc = "standard" /\ i < MaxStandard

StandardUnused ==
  /\ InStandard
  /\ \E reserved \in BOOLEAN :
       reports' = reports \cup IF reserved THEN UntilRevision4("standard") ELSE {}
  /\ i' = i + 1
  /\ UNCHANGED <<revision, pc, standard_timings_len, detailed_timing_defs_len,
                 display_descriptors_len, children, seen, oom, live, errno>>

StandardKept ==
  /\ InStandard
  /\ standard_timings_len' = standard_timings_len + 1
  /\ live' = live + 1
  /\ i' = i + 1
  /\ UNCHANGED <<revision, pc, detailed_timing_defs_len, display_descriptors_len, children,
                 reports, seen, oom, errno>>

StandardAllocFails == InStandard /\ GiveUp("standard", 0) /\ UNCHANGED <<reports, seen>>

StandardDone ==
  /\ pc = "standard" /\ i = MaxStandard
  /\ pc' = "descriptors" /\ i' = 0
  /\ UNCHANGED <<revision, standard_timings_len, detailed_timing_defs_len,
                 display_descriptors_len, children, reports, seen, oom, live, errno>>

-----------------------------------------------------------------------------
(* parse_byte_descriptor.  The order of descriptors is judged before       *)
(* anything is allocated.                                                  *)
InDescriptors == pc = "descriptors" /\ i < Descriptors

Ordering_Always == {}
Ordering == IF display_descriptors_len > 0 THEN {"ordering"} ELSE {}

DtdKept ==
  /\ InDescriptors
  /\ reports' = reports \cup Ordering
  /\ detailed_timing_defs_len' = detailed_timing_defs_len + 1
  /\ seen' = Append(seen, "dtd")
  /\ live' = live + 1
  /\ i' = i + 1
  /\ UNCHANGED <<revision, pc, standard_timings_len, display_descriptors_len, children, oom, errno>>

DtdAllocFails ==
  /\ InDescriptors
  /\ reports' = reports \cup Ordering
  /\ GiveUp("dtd", 0)
  /\ UNCHANGED seen

Preferred_OtherCount ==
  IF revision \in 3..4 /\ display_descriptors_len = 0 THEN {"preferred"} ELSE {}
Preferred ==
  IF revision \in 3..4 /\ detailed_timing_defs_len = 0 THEN {"preferred"} ELSE {}

DescriptorAllocFails ==
  /\ InDescriptors
  /\ reports' = reports \cup Preferred
  /\ GiveUp("descriptor", 0)
  /\ UNCHANGED seen

Keep(kind, n) ==
  /\ InDescriptors
  /\ display_descriptors_len' = display_descriptors_len + 1
  /\ children' = children + Freed(kind, n)
  /\ seen' = Append(seen, "kept")
  /\ live' = live + 1 + n
  /\ i' = i + 1
  /\ UNCHANGED <<revision, pc, standard_timings_len, detailed_timing_defs_len, oom, errno>>

(* free(desc) and true: the descriptor is left out of the result.          *)
Drop ==
  /\ InDescriptors
  /\ seen' = Append(seen, "dropped")
  /\ i' = i + 1
  /\ UNCHANGED <<revision, pc, standard_timings_len, detailed_timing_defs_len,
                 display_descriptors_len, children, oom, live, errno>>

(* What the parser of one kind of descriptor may have to say about it.     *)
Contents == {{}, {"contents"}}

(* Strings, established timings III, color management data and dummies.    *)
PlainDescriptor == \E c \in Contents :
  /\ Keep("plain", 0)
  /\ reports' = reports \cup Preferred \cup c

RangeLimitsKept == \E c \in Contents :
  /\ Keep("range_limits", 0)
  /\ reports' = reports \cup Preferred \cup c

RangeLimitsDropped == \E c \in (IF revision <= 4 THEN {{"contents"}} ELSE Contents) :
  /\ Drop
  /\ reports' = reports \cup Preferred \cup c

(* Types up to 0x0F are the manufacturer's.                                *)
UnknownDescriptor == \E manufacturer \in BOOLEAN :
  /\ Drop
  /\ reports' = reports \cup Preferred
                \cup IF manufacturer THEN {} ELSE UntilRevision4("unknown")

(* Six standard timings, of which the unused ones take no memory.          *)
StandardIds == \E n \in 0..MaxEntries["std_ids"], c \in Contents :
  /\ Keep("std_ids", n)
  /\ reports' = reports \cup Preferred \cup c

(* One color point or two.                                                 *)
ColorPoints == \E n \in 1..MaxEntries["color_point"], c \in Contents :
  /\ Keep("color_point", n)
  /\ reports' = reports \cup Preferred \cup c

(* Of the CVT timing codes the first is kept even when all its bytes are 0. *)
CvtCodes == \E n \in 1..MaxEntries["cvt_codes"], c \in Contents :
  /\ Keep("cvt_codes", n)
  /\ reports' = reports \cup Preferred \cup c

(* The calloc of an entry fails after n entries: the descriptor is freed   *)
(* and its entries are not.                                                *)
ListAllocFails == \E kind \in Lists, c \in Contents : \E n \in 0..(MaxEntries[kind] - 1) :
  /\ InDescriptors
  /\ reports' = reports \cup Preferred \cup c
  /\ GiveUp(kind, n)
  /\ UNCHANGED seen

DescriptorsDone ==
  /\ pc = "descriptors" /\ i = Descriptors
  /\ pc' = "exts"
  /\ UNCHANGED <<revision, i, standard_timings_len, detailed_timing_defs_len,
                 display_descriptors_len, children, reports, seen, oom, live, errno>>

Next ==
  \/ StandardUnused \/ StandardKept \/ StandardAllocFails \/ StandardDone
  \/ DtdKept \/ DtdAllocFails \/ DescriptorAllocFails
  \/ PlainDescriptor \/ RangeLimitsKept \/ RangeLimitsDropped \/ UnknownDescriptor
  \/ StandardIds \/ ColorPoints \/ CvtCodes \/ ListAllocFails
  \/ DescriptorsDone

Spec == Init /\ [][Next]_vars

-----------------------------------------------------------------------------
(* As long as the parser runs, and when it is done, everything allocated   *)
(* can be reached from the EDID; when it gives up, nothing is left behind  *)
(* unless the failed calloc was that of an entry of a descriptor.          *)
HeapClean ==
  /\ pc # "null" => live = Owned
  /\ pc = "null" /\ oom \notin Lists => live = 0

(* The report that the first descriptor must be a timing is made exactly   *)
(* when the first descriptor is not one, whatever follows it and whether   *)
(* or not it was kept, for the revisions with that rule.                   *)
PreferredReportedIff ==
  seen # <<>> =>
    (("preferred" \in reports) <=> (revision \in 3..4 /\ seen[1] # "dtd"))

(* A timing after a display descriptor is reported whenever the result     *)
(* holds that display descriptor, so a client that sees the two lists and  *)
(* no report may take the timings to come first.                           *)
OrderReported ==
  (\E a, b \in 1..Len(seen) : a < b /\ seen[a] = "kept" /\ seen[b] = "dtd")
    => "ordering" \in reports

(* The base section keeps the contract the parsers of extensions keep,     *)
(* with nothing it rejects by itself: the only reason to give up the EDID  *)
(* is a failed calloc, and errno says so.                                  *)
Status == CASE pc = "exts" -> "ok" [] pc = "null" -> "failed" [] OTHER -> "parsing"
Failing == oom # "no"
Reachable == IF pc = "null" THEN 0 ELSE Owned - 1     \* besides the EDID itself
Allocated == IF pc = "null" THEN live ELSE live - 1
Contract == INSTANCE ExtParser WITH
  ENOMEM <- "ENOMEM", Rejections <- {},
  status <- Status, oom <- Failing, owned <- Reachable, live <- Allocated
KeepsContract == Contract!Spec
=============================================================================
