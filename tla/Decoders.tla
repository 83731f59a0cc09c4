------------------------------ MODULE Decoders -------------------------------
(***************************************************************************)
(* The decoders of edid.c, cta.c and displayid.c and the printers of       *)
(* di-edid-decode at work: bytes of some kind are decoded, what was kept   *)
(* is printed.  What a decoder needs besides its bytes is in context: the  *)
(* features of byte 0x18, the underscan flag of the extension's header,    *)
(* whether a CVT code is the first of its descriptor.                      *)
(*                                                                         *)
(* A definition named X_Something is X with a plausible mistake in it; it  *)
(* takes part in no specification.                                         *)
(***************************************************************************)
EXTENDS CtaPayloads, DisplayIdDecode, InfoDerive

CONSTANTS
  Revisions,     \* revisions of the EDID, or of the CTA-861 extension
  Inputs         \* for each kind the inputs: [context, data]

Kinds == {"vendor", "basic", "chroma", "established", "dtd", "range", "standard",
          "color_point", "color_management", "established_iii", "cvt",
          "video", "vic", "svr", "sad", "dddb", "speaker", "video_cap", "hdr_static",
          "colorimetry", "hdr_dynamic", "transfer", "hdmi_audio", "infoframe", "room", "location",
          "type_i", "type_vii", "type_ii", "type_iii", "params", "tiled", "info"}
ASSUME DecoderKinds == DOMAIN Inputs \subseteq Kinds /\ Revisions \subseteq Nat

(* What the callers pass: bytes, as many as they have checked to be there, *)
(* at the indices the decoder uses; a payload is as long as the block      *)
(* says, 31 bytes at most, and the one of a capability map 30.             *)
Bytes(first, last) == [first..last -> Byte]
Payload == {d \in Seq(Byte) : Len(d) <= 31}
BlockValues == [eotfs : SUBSET Nat, type1 : BOOLEAN, max : Byte, min : Byte]
                 \cup [supported : SUBSET (Nat \X Nat)] \cup [gamma : Nat]
InfoData ==
  [exts : Seq([tag : {"cta", "displayid", "opaque"},
               blocks : Seq([tag : STRING, value : BlockValues])]),
   srgb : BOOLEAN, gamma : Nat, coords : [1..8 -> Nat],
   descriptors : Seq([tag : STRING, string : STRING]), product : Nat, serial : Nat]
DataForm(k) ==
  CASE k = "vendor" -> Bytes(16, 17)
    [] k = "basic" -> Bytes(20, 24)
    [] k = "chroma" -> Bytes(25, 34)
    [] k = "established" -> Bytes(35, 37)
    [] k = "dtd" -> Bytes(0, 17)
    [] k = "range" -> Bytes(4, 17)
    [] k \in {"color_point", "color_management"} -> Bytes(5, 17)
    [] k = "established_iii" -> Bytes(6, 17)
    [] k = "standard" -> Byte \X Byte
    [] k \in {"cvt", "sad", "type_iii"} -> Byte \X Byte \X Byte
    [] k \in {"vic", "svr", "video_cap"} -> Byte
    [] k = "video" -> [blocks : Seq(Payload), map : {m \in Payload : Len(m) <= 30}]
    [] k = "type_i" -> Bytes(1, 20)
    [] k = "type_ii" -> Bytes(1, 11)
    [] k = "params" -> Bytes(0, 14)
    [] k = "tiled" -> Bytes(0, 24)
    [] k = "info" -> InfoData
    [] OTHER -> Payload
ContextForm(k) ==
  CASE k = "range" -> [default_gtf : BOOLEAN, continuous_freq : BOOLEAN]
    [] k \in {"params", "tiled"} -> Nat
    [] OTHER -> BOOLEAN
ASSUME InputForms ==
  \A k \in DOMAIN Inputs : Inputs[k] \subseteq [context : ContextForm(k), data : DataForm(k)]

VARIABLES
  kind, rev, context, data,   \* what is decoded
  pc,        \* "bytes", "kept", "dropped", "printed", "aborted"
  result,    \* of the decoder
  lines      \* the printed lines

input == <<kind, rev, context, data>>
vars == <<kind, rev, context, data, pc, result, lines>>

Init ==
  /\ kind \in DOMAIN Inputs /\ rev \in Revisions
  /\ \E i \in Inputs[kind] : context = i.context /\ data = i.data
  /\ pc = "bytes" /\ result = Dropped({}) /\ lines = {}

Decode(k, results) ==
  /\ pc = "bytes" /\ kind = k
  /\ result' \in results
  /\ pc' = IF result'.kept THEN "kept" ELSE "dropped"
  /\ UNCHANGED <<input, lines>>

(* A printer that meets a value it has no name for calls abort().          *)
PrintLines(k, printed) ==
  /\ pc = "kept" /\ kind = k
  /\ lines' = printed
  /\ pc' = IF printed = Abort THEN "aborted" ELSE "printed"
  /\ UNCHANGED <<input, result>>

-----------------------------------------------------------------------------
(* The base section.                                                       *)
DecodeVendor == Decode("vendor", {parse_vendor_product(rev, data)})
DecodeBasic == Decode("basic", {parse_basic_params_features(rev, data)})
DecodeChroma == Decode("chroma", {parse_chromaticity_coords(data)})
DecodeEstablished == Decode("established", {parse_established_timings_i_ii(data)})
DecodeDtd == Decode("dtd", {Kept(_di_edid_parse_detailed_timing_def(data), {})})
DecodeRange == Decode("range", {parse_display_range_limits(rev, context, data)})
DecodeStandard == Decode("standard", {parse_standard_timing(rev, data[1], data[2])})
DecodeColorPoint == Decode("color_point", {parse_color_point_descriptor(data)})
DecodeColorManagement ==
  Decode("color_management", {parse_color_management_data_descriptor(rev, data)})
DecodeEstablishedIii ==
  Decode("established_iii", {parse_established_timings_iii_descriptor(rev, data)})
DecodeCvt == Decode("cvt", {parse_cvt_timing_code(data, context)})

PrintVendor == PrintLines("vendor", VendorLines(result.value))
PrintBasic == PrintLines("basic", BasicLines(rev, result.value))
PrintDtd == PrintLines("dtd", {<<"flags", DtdFlags(result.value)>>,
                               <<"polarities", DtdPolarities(result.value)>>,
                               <<"back porch", DtdBackPorch(result.value)>>})
PrintRange == PrintLines("range", RangeLines(rev, result.value))
PrintStandard == PrintLines("standard", {StandardLine(result.value)})
PrintEstablishedIii ==
  PrintLines("established_iii", {<<"DMT", row.dmt_id>> : row \in Range(result.value)})
PrintCvt == PrintLines("cvt", {<<"CVT", line>> : line \in CvtLines(result.value)})

BaseStep ==
  \/ DecodeVendor \/ DecodeBasic \/ DecodeChroma \/ DecodeEstablished \/ DecodeDtd
  \/ DecodeRange \/ DecodeStandard \/ DecodeColorPoint \/ DecodeColorManagement
  \/ DecodeEstablishedIii \/ DecodeCvt
  \/ PrintVendor \/ PrintBasic \/ PrintDtd \/ PrintRange \/ PrintStandard
  \/ PrintEstablishedIii \/ PrintCvt

-----------------------------------------------------------------------------
(* The CTA-861 extension.  The video data are the SVDs of each video block *)
(* and the bitmap of a YCbCr 4:2:0 capability map.                         *)
VideoBlocks(revision, blocks) ==
  LET parsed == [b \in DOMAIN blocks |-> parse_video_block(revision, blocks[b])]
  IN  Kept([b \in DOMAIN blocks |-> parsed[b].value],
           UNION {parsed[b].failures : b \in DOMAIN blocks})

DecodeVideo == Decode("video", {VideoBlocks(rev, data.blocks)})
DecodeVic == Decode("vic", {Kept(f, {}) : f \in di_cta_video_format_from_vic(data)})
DecodeSvr == Decode("svr", {parse_svr(data)})
DecodeSad == Decode("sad", {parse_sad(rev, data)})
DecodeDddb == Decode("dddb", {parse_vesa_dddb(data)})
DecodeSpeaker == Decode("speaker", {parse_speaker_alloc_block(rev, data)})
DecodeVideoCap == Decode("video_cap", {parse_video_cap_block(rev, context, data)})
DecodeHdrStatic == Decode("hdr_static", {parse_hdr_static_metadata_block(rev, data)})
DecodeColorimetry == Decode("colorimetry", {parse_colorimetry_block(rev, data)})
DecodeHdrDynamic == Decode("hdr_dynamic", {parse_hdr_dynamic_metadata_block(data)})
DecodeTransfer == Decode("transfer", {parse_vesa_transfer_characteristics_block(data)})
DecodeHdmiAudio == Decode("hdmi_audio", {parse_hdmi_audio_block(rev, data)})
DecodeInfoFrames == Decode("infoframe", {parse_infoframe_block(data)})
DecodeRoom == Decode("room", {parse_room_config_block(rev, data)})
DecodeLocations == Decode("location", {parse_speaker_location_block(data)})

PrintVideo ==
  PrintLines("video", {<<"YCbCr 4:2:0", k, CapMapLines(result.value, data.map)[k]>> :
                         k \in DOMAIN CapMapLines(result.value, data.map)})
PrintVic == PrintLines("vic", IF result.value = NULL THEN {<<"VIC", data>>}
                              ELSE {<<"VIC", data, result.value>>})
PrintSvr == PrintLines("svr", {SvrLine(result.value)})
PrintDddb == PrintLines("dddb", DddbLines(result.value))
PrintHdrStatic == PrintLines("hdr_static", HdrStaticLines(result.value))
PrintSad == PrintLines("sad", SadLines(result.value))
PrintSpeaker == PrintLines("speaker", SpeakerLines(result.value.speakers))
PrintVideoCap == PrintLines("video_cap", VideoCapLines(result.value))
PrintColorimetry == PrintLines("colorimetry", ColorimetryLines(result.value))
PrintHdrDynamic == PrintLines("hdr_dynamic", HdrDynamicLines(result.value))
PrintTransfer == PrintLines("transfer", TransferLines(result.value))
PrintHdmiAudio == PrintLines("hdmi_audio", HdmiAudioLines(result.value))
PrintInfoFrames == PrintLines("infoframe", InfoFrameLines(result.value))

CtaStep ==
  \/ DecodeVideo \/ DecodeVic \/ DecodeSvr \/ DecodeSad \/ DecodeDddb
  \/ DecodeSpeaker \/ DecodeVideoCap \/ DecodeHdrStatic
  \/ DecodeColorimetry \/ DecodeHdrDynamic \/ DecodeTransfer \/ DecodeHdmiAudio
  \/ DecodeInfoFrames \/ DecodeRoom \/ DecodeLocations
  \/ PrintVideo \/ PrintVic \/ PrintSvr \/ PrintDddb \/ PrintHdrStatic
  \/ PrintSad \/ PrintSpeaker \/ PrintVideoCap \/ PrintColorimetry \/ PrintHdrDynamic
  \/ PrintTransfer \/ PrintHdmiAudio \/ PrintInfoFrames

-----------------------------------------------------------------------------
(* DisplayID, and the answers of info.c.                                   *)
DecodeTypeI == Decode("type_i", parse_type_i_timing(data))
DecodeTypeVii == Decode("type_vii", {parse_did_type_vii_timing(data)})
DecodeTypeIi == Decode("type_ii", {parse_type_ii_timing(data)})
DecodeTypeIii == Decode("type_iii", {parse_type_iii_timing(data)})
DecodeParams == Decode("params", {parse_display_params_block(data, context)})
DecodeTiled == Decode("tiled", {parse_tiled_topo_block(data, context)})

PrintTiming == \E k \in {"type_i", "type_vii", "type_ii"} :
                 PrintLines(k, TimingLines(result.value))
PrintShortTiming == PrintLines("type_iii", ShortTimingLines(result.value))
PrintTiled == PrintLines("tiled", TiledLines(result.value))

\* What a client of info.c can ask about the EDID info.
Answers(info) ==
  [hdr |-> derive_edid_hdr_static_metadata(info.exts),
   colorimetry |-> derive_edid_supported_signal_colorimetry(info.exts),
   gamma |-> di_info_get_default_gamma(info.exts, info.srgb, info.gamma),
   primaries |-> derive_edid_color_primaries(info.srgb, info.coords),
   model |-> di_info_get_model(info.descriptors, info.product),
   serial |-> di_info_get_serial(info.descriptors, info.serial)]
DeriveInfo == Decode("info", {Kept(Answers(data), {})})

DisplayIdStep ==
  \/ DecodeTypeI \/ DecodeTypeVii \/ DecodeTypeIi \/ DecodeTypeIii
  \/ DecodeParams \/ DecodeTiled
  \/ PrintTiming \/ PrintShortTiming \/ PrintTiled \/ DeriveInfo

Next == BaseStep \/ CtaStep \/ DisplayIdStep
Spec == Init /\ [][Next]_vars

-----------------------------------------------------------------------------
Seen == pc \in {"kept", "printed", "aborted"}

\* The ranges of the fields that enumerations of the headers stand for.
ValueOK ==
  CASE kind = "vendor" -> result.value.manufacture_week \in 0..54
    [] kind = "range" -> result.value.type \in {"bare", "default GTF", "secondary GTF", "CVT"}
    [] kind = "svr" -> result.value.type \in {"VIC", "DTD", "VTDB", "T8VTDB"}
    [] kind = "sad" -> result.value.max_channels \in 0..32
    [] kind = "dddb" -> /\ result.value.content_protection \in 0..3
                        /\ result.value.scan_direction \in 0..2
                        /\ result.value.subpixel_layout \in 0..12
    [] kind = "hdr_dynamic" -> DOMAIN result.value \subseteq HdrFlagTypes \cup {3}
    [] kind = "type_iii" -> result.value.algo \in 0..1 /\ result.value.aspect_ratio \in 0..UNDEFINED
    [] kind = "tiled" -> result.value.tiles \in [1..4 -> 1..64]
    [] OTHER -> TRUE
TypeOK ==
  /\ kind \in DOMAIN Inputs /\ rev \in Revisions
  /\ pc \in {"bytes", "kept", "dropped", "printed", "aborted"}
  /\ result.kept \in BOOLEAN
  /\ Seen => result.kept /\ ValueOK
  /\ lines # {} => pc \in {"printed", "aborted"}

(* What is dropped is reported, in the revisions whose rules the parser    *)
(* knows: a whole block or code, except for the codes that say "unused",   *)
(* 01h 01h of a standard timing and 00h 00h 00h of a CVT code after the    *)
(* first; one of the SVDs of a block; one entry of a payload that is a     *)
(* list.                                                                   *)
KnownRevision == IF kind \in {"video", "sad", "hdmi_audio"} THEN rev <= 3 ELSE rev <= 4
Unused == \/ kind = "standard" /\ data = <<1, 1>>
          \/ kind = "cvt" /\ ~context /\ data = <<0, 0, 0>>
WholeDropReported == pc = "dropped" /\ KnownRevision /\ ~Unused => result.failures # {}
SvdDropReported ==
  kind = "video" /\ Seen /\ KnownRevision
  /\ (\E b \in DOMAIN result.value : Len(result.value[b]) < Len(data.blocks[b]))
    => result.failures # {}

(* The payload can be cut, from its first entry on, into entries of the    *)
(* sizes they state, which start at S, and nothing but a rest too short    *)
(* for an entry is left.                                                   *)
FirstEntry == IF kind = "infoframe" THEN 3 + data[1] \div 32 ELSE 1
LeastEntry == CASE kind = "hdr_dynamic" -> 3 [] kind = "infoframe" -> 1 [] kind = "location" -> 2
EntrySize(k) ==
  CASE kind = "hdr_dynamic" -> 1 + data[k]
    [] kind = "infoframe" -> (IF data[k] % 32 = 1 THEN 4 ELSE 1) + data[k] \div 32
    [] kind = "location" -> IF data[k] \in 64..127 \cup 192..255 THEN 5 ELSE 2
IsCut(S) ==
  /\ \A k \in S : k = FirstEntry \/ \E j \in S : j + EntrySize(j) = k
  /\ \A next \in {FirstEntry} \cup {k + EntrySize(k) : k \in S} :
       /\ next <= Len(data) + 1
       /\ next \in S \/ next + LeastEntry > Len(data) + 1
EntriesKept(S) ==
  CASE kind = "hdr_dynamic" ->
         {Word(data[k + 2], data[k + 1]) : k \in S} = DOMAIN result.value
    [] kind = "infoframe" ->       \* vendor-specific ones are passed over
         Len(result.value.infoframes) = Cardinality({k \in S : data[k] % 32 # 1})
    [] kind = "location" -> Len(result.value) = Cardinality(S)
EntryDropReported ==
  /\ kind \in {"hdr_dynamic", "infoframe", "location"} /\ Seen /\ result.failures = {} =>
       \E S \in SUBSET (1..(Len(data) + 1 - LeastEntry)) : IsCut(S) /\ EntriesKept(S)
  /\ kind = "hdmi_audio" /\ Seen /\ KnownRevision /\ result.failures = {}
     /\ Len(data) >= 2 /\ data[2] % 8 # 0 =>
       result.value.audio_3d # NULL /\ Len(result.value.audio_3d.sads) = data[2] % 8

DropIsReported == WholeDropReported /\ SvdDropReported /\ EntryDropReported

(* Range limits a client gets are ranges: whatever the offset flags and    *)
(* the bytes, no minimum above its maximum, and none zero or past 510 in a *)
(* revision the parser knows.                                              *)
RangeLimitsOrdered ==
  kind = "range" /\ Seen =>
    LET r == result.value.rates
    IN  /\ r.min_vert <= r.max_vert /\ r.min_horiz <= r.max_horiz
        /\ rev <= 4 => /\ {r.min_vert, r.min_horiz} \subseteq 1..510
                       /\ {r.max_vert, r.max_horiz} \subseteq 1..510

-----------------------------------------------------------------------------
(* The bytes of a detailed timing and of a type I or VII timing, written   *)
(* again from its value.  An image size that is an aspect ratio, and the   *)
(* flags, are not compared.                                                *)
High(n) == n \div 256
Low(n) == n % 256
DtdByte(t, k) ==
  CASE k = 0 -> Low(t.pixel_clock_khz \div 10)
    [] k = 1 -> High(t.pixel_clock_khz \div 10)
    [] k = 2 -> Low(t.horiz_video)
    [] k = 3 -> Low(t.horiz_blank)
    [] k = 4 -> 16 * High(t.horiz_video) + High(t.horiz_blank)
    [] k = 5 -> Low(t.vert_video)
    [] k = 6 -> Low(t.vert_blank)
    [] k = 7 -> 16 * High(t.vert_video) + High(t.vert_blank)
    [] k = 8 -> Low(t.horiz_front_porch)
    [] k = 9 -> Low(t.horiz_sync_pulse)
    [] k = 10 -> 16 * (t.vert_front_porch % 16) + (t.vert_sync_pulse % 16)
    [] k = 11 -> 64 * High(t.horiz_front_porch) + 16 * High(t.horiz_sync_pulse)
                   + 4 * (t.vert_front_porch \div 16) + t.vert_sync_pulse \div 16
    [] k = 12 -> Low(t.image_mm[1])
    [] k = 13 -> Low(t.image_mm[2])
    [] k = 14 -> 16 * High(t.image_mm[1]) + High(t.image_mm[2])
    [] k = 15 -> t.horiz_border
    [] k = 16 -> t.vert_border
TimingBytes(t) ==
  [k \in 1..20 \ {4} |->
     IF k <= 3 THEN ((t.clock - 1) \div 256^(k - 1)) % 256
     ELSE LET size == t.sizes[(k - 3) \div 2] - 1
              polarity == IF k = 10 THEN t.horiz_sync_polarity
                          ELSE k = 18 /\ t.vert_sync_polarity
          IN  IF k % 2 = 1 THEN Low(size) ELSE High(size) + (IF polarity THEN 128 ELSE 0)]

(* Fields that share a byte are never mixed up and none loses a bit: the   *)
(* value of a timing determines the bytes it came from.                    *)
TimingLossless ==
  /\ kind = "dtd" /\ Seen =>
       LET t == result.value
           unsized == IF t.image_mm = <<0, 0>> THEN 12..14 ELSE {}
       IN  \A k \in 0..16 \ unsized : DtdByte(t, k) = data[k]
  /\ kind \in {"type_i", "type_vii"} /\ Seen =>
       LET bytes == TimingBytes(result.value)
           first == IF kind = "type_vii" THEN 1 ELSE 0
       IN  \A k \in DOMAIN bytes : bytes[k] = data[k + first]

-----------------------------------------------------------------------------
(* Two generated tables and the arithmetic of three parsers name the same  *)
(* timings.  The two bytes the DMT table gives a timing, found in an EDID, *)
(* are printed as that timing.  The three bytes it gives a timing that CVT *)
(* computes, decoded and put through the formula, give the sizes, the      *)
(* blanking, the sync and the pixel clock of the table.  A standard timing *)
(* that the table does not know, put through GTF, refreshes at the rate    *)
(* its byte names, to half a kHz of its clock.  Every bit of established   *)
(* timings III stands for a timing of the table, no two for the same: the  *)
(* assertion on the lookup cannot fail.                                    *)
StdIdRoundTrip ==
  kind = "standard" /\ pc = "printed" =>
    \A k \in DOMAIN DmtTimings :
      DmtTimings[k].edid_std_id = Word(data[1], data[2]) =>
        \A l \in lines : l[1] = "DMT" /\ l[2] = DmtTimings[k].dmt_id
AgreesWithRow(line, row) ==
  /\ line.timing.total_active_pixels = row.horiz_video
  /\ line.timing.v_lines_rnd = row.vert_video
  /\ line.timing.h_blank = row.horiz_blank
  /\ line.timing.h_front_porch = row.horiz_front_porch
  /\ line.timing.h_sync = row.horiz_sync_pulse
  /\ line.timing.v_blank = row.vert_blank
  /\ line.timing.v_front_porch = row.vert_front_porch
  /\ line.timing.v_sync = row.vert_sync_pulse
  /\ line.timing.pixel_freq_khz = row.pixel_clock_khz
CvtIdAgrees ==
  kind = "cvt" /\ pc = "printed" =>
    \A k \in DOMAIN DmtTimings :
      LET row == DmtTimings[k]
      IN  row.cvt_id = 256 * Word(data[1], data[2]) + data[3] /\ row.cvt_id # 0 =>
            \A l \in lines : l[2].hz = row.refresh_rate_hz /\ l[2].reduced = row.reduced_blanking
                              => AgreesWithRow(l[2], row)
EstablishedIiiKnown ==
  kind = "established_iii" /\ Seen =>
    LET rows == result.value
        bits == {k \in 0..43 : has_bit(data[6 + k \div 8], 7 - (k % 8))}
    IN  /\ \A k \in DOMAIN rows : rows[k] # NULL
        /\ Cardinality({rows[k].dmt_id : k \in DOMAIN rows}) = Cardinality(bits)
GtfRateIsNamed ==
  kind = "standard" /\ pc = "printed" =>
    \A l \in lines : l[1] = "GTF" =>
      LET t == l[2]
          horiz_total == t.h_pixels + t.h_front_porch + t.h_sync + t.h_back_porch
          vert_total == t.v_lines + t.v_front_porch + t.v_sync + t.v_back_porch
          named == result.value.refresh_rate_hz * horiz_total * vert_total
      IN  1000 * t.pixel_freq_khz \in (named - 500)..(named + 500)
NamedTimingsAgree == StdIdRoundTrip /\ CvtIdAgrees /\ EstablishedIiiKnown /\ GtfRateIsNamed

(* One line of a CVT code is marked as the preferred rate, and none only   *)
(* where the code names a rate it does not support, which is reported.     *)
PreferredMarkedOnce ==
  kind = "cvt" /\ pc = "printed" =>
    LET marked == {l \in lines : l[2].preferred}
    IN  /\ Cardinality(marked) <= 1
        /\ marked = {} <=> "CVT preferred" \in result.failures

-----------------------------------------------------------------------------
(* The capability map counts the SVDs of all video blocks together.  This  *)
(* holds as long as no reserved SVD was dropped on the way.                *)
CapMapNames ==
  kind = "video" /\ pc = "printed" =>
    LET codes == FlattenSeq(data.blocks)
        named == {j \in DOMAIN codes :
                    data.map = <<>> \/ \E b \in DOMAIN data.map :
                                         (j - 1) \div 8 = b - 1 /\ has_bit(data.map[b], (j - 1) % 8)}
    IN  (\A j \in DOMAIN codes : parse_svd(rev, codes[j]).kept) =>
          {l[3] : l \in lines} = {parse_svd(rev, codes[j]).value : j \in named}

(* The sparse table answers a VIC with its own format, and knows the VICs  *)
(* of CTA-861-H: 1 to 127 and 193 to 219.                                  *)
KnownVics == 1..127 \cup 193..219
VicLookupExact ==
  kind = "vic" /\ Seen /\ data < video_formats_len =>
    LET known == result.value # NULL
    IN  /\ known <=> data \in KnownVics
        /\ known => result.value.vic = data

(* An extension can only add: what an earlier one said of metadata,        *)
(* colorimetry or gamma is what a client gets, whatever comes behind it.   *)
Says(exts, tag) == \E e \in Range(exts) : e.tag = "cta" /\ \E b \in Range(e.blocks) : b.tag = tag
FirstExtensionWins ==
  kind = "info" /\ Seen =>
    \A n \in 0..Len(data.exts) :
      LET earlier == SubSeq(data.exts, 1, n)
          answers == Answers([data EXCEPT !.exts = earlier])
      IN  /\ Says(earlier, "hdr_static_metadata") => answers.hdr = result.value.hdr
          /\ Says(earlier, "colorimetry") => answers.colorimetry = result.value.colorimetry
          /\ (\E e \in Range(earlier) : e.tag = "displayid")
               => answers.gamma = result.value.gamma

(* No value a decoder keeps makes a printer abort, except for the reserved *)
(* stereo value of a type I timing.                                        *)
ReservedStereo == kind = "type_i" /\ "stereo" \in result.failures
PrintersTotal == pc = "aborted" => ReservedStereo

-----------------------------------------------------------------------------
(* cta.h:61: "Returns NULL if the VIC is unknown."                         *)
VicUnknownIsNull == kind = "vic" /\ Seen /\ data \notin KnownVics => result.value = NULL

(* cta.h:35: "A CTA-861 video format".  These refresh at 24, 25, 30, 48,   *)
(* 50, 60, 100, 120, 200 or 240 Hz, or 1000/1001 of it.                    *)
PictureRates == {24, 25, 30, 48, 50, 60, 100, 120, 200, 240}
VicRates ==
  kind = "vic" /\ pc = "printed" /\ data < video_formats_len /\ result.value # NULL =>
    LET total == VicTotal(result.value)
        rate == MulDiv(2000, result.value.pixel_clock_khz, (total.h * total.v2) \div 1000)
    IN  \E hz \in PictureRates : rate \in (995 * hz)..(1005 * hz)

(* A standard timing that is a DMT timing refreshes at the rate its own    *)
(* bytes name, edid.h:325 "Field Refresh Rate in Hz", give or take 1 Hz.   *)
PrintedRateIsNamed ==
  kind = "standard" /\ pc = "printed" =>
    \A l \in lines : l[1] = "DMT" =>
      LET hz == result.value.refresh_rate_hz
      IN  l[3] \in (100 * hz - 100)..(100 * hz + 100)

(* cta.c:480-482: "Bits F17, F27:F25 must be 0." is said only when one is set. *)
AudioBitsAreNamed ==
  kind = "sad" /\ Seen /\ result.value.format \in Mpeg4 /\ "audio bits" \in result.failures
    => has_bit(data[1], 7) \/ get_bit_range(data[2], 7, 5) # 0
=============================================================================
