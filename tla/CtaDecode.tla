----------------------------- MODULE CtaDecode ------------------------------
(***************************************************************************)
(* What cta.c makes of the payload of the CTA-861 data blocks, and what    *)
(* di-edid-decode/cta.c prints of it.  Pure operators, with the results    *)
(* of EdidDecode: [kept, value, failures] of a decoder, a set of lines or  *)
(* "abort" of a printer.  rev is the revision of the extension, d the      *)
(* payload as a sequence, so that d[1] is data[0].                         *)
(*                                                                         *)
(* A definition named X_Something is X with a plausible mistake in it.     *)
(***************************************************************************)
EXTENDS EdidDecode, VicTable

-----------------------------------------------------------------------------
(* Video formats by VIC.  The table has video_formats_len slots, from 0 on; *)
(* the code looks one further, at whatever the build put behind the table. *)
Unrelated == [unrelated |-> TRUE]

di_cta_video_format_from_vic_IdBound(vic) ==
  IF vic > 153 \/ VideoFormats[vic].vic = 0 THEN {NULL} ELSE {VideoFormats[vic]}
di_cta_video_format_from_vic(vic) ==
  IF vic > video_formats_len THEN {NULL}
  ELSE IF vic = video_formats_len THEN {NULL, Unrelated}
  ELSE IF VideoFormats[vic].vic = 0 THEN {NULL} ELSE {VideoFormats[vic]}

(* Lines and field of print_vic, in half lines.                            *)
VicTotal(f) ==
  LET field == IF f.interlaced THEN f.v_active \div 2 ELSE f.v_active
  IN  [h |-> f.h_active + f.h_front + f.h_sync + f.h_back,
       v2 |-> 2 * (field + f.v_front + f.v_sync + f.v_back)
                + (IF f.interlaced THEN 1 ELSE 0)]

-----------------------------------------------------------------------------
(* Short video descriptors, in order; reserved ones leave no gap.          *)
parse_svd(rev, raw) ==
  CASE raw \in {0, 128} \/ raw >= 254 -> Dropped(Until(rev, 3, TRUE, "VIC"))
    [] raw \in 1..127 \cup 193..253 -> Kept([vic |-> raw, native |-> FALSE], {})
    [] raw \in 129..192 -> Kept([vic |-> raw % 128, native |-> TRUE], {})

parse_video_block(rev, d) ==
  LET raw == [k \in DOMAIN d |-> parse_svd(rev, d[k])]
      svds == [k \in DOMAIN d |-> raw[k].value]
  IN  Kept(Picked(svds, {k \in DOMAIN raw : raw[k].kept}),
           Always(d = <<>>, "empty") \cup UNION {raw[k].failures : k \in DOMAIN raw})

(* The YCbCr 4:2:0 capability map: an empty one means all.                 *)
cap_map_bytes == 63

di_cta_ycbcr420_cap_map_supported(map, svd_index) ==
  \/ map = <<>>
  \/ /\ svd_index \div 8 < cap_map_bytes
     /\ svd_index \div 8 < Len(map)       \* the rest of the bitmap is zero
     /\ has_bit(map[svd_index \div 8 + 1], svd_index % 8)

(* print_ycbcr420_cap_map: one index over the SVDs of all video blocks.    *)
CapMapLines_PerBlock(blocks, map) ==
  FlattenSeq([b \in DOMAIN blocks |->
    Picked(blocks[b], {k \in DOMAIN blocks[b] : di_cta_ycbcr420_cap_map_supported(map, k - 1)})])
CapMapLines(blocks, map) ==
  LET svds == FlattenSeq(blocks)
  IN  Picked(svds, {k \in DOMAIN svds : di_cta_ycbcr420_cap_map_supported(map, k - 1)})

-----------------------------------------------------------------------------
(* Short video references.  The index of a VTDB is stored in dtd_index, so *)
(* t7_t10_vtdb_index keeps calloc's zero.                                  *)
parse_svr(code) ==
  LET svr == [type |-> "VIC", vic |-> 0, dtd_index |-> 0, t7_t10_vtdb_index |-> 0]
  IN  CASE code \in {0, 128, 255} \cup 161..192 -> Dropped({"reserved SVR"})
        [] code \in 1..127 \cup 193..253 -> Kept([svr EXCEPT !.vic = code], {})
        [] code \in 129..144 ->
             Kept([svr EXCEPT !.type = "DTD", !.dtd_index = code - 129], {})
        [] code \in 145..160 ->
             Kept([svr EXCEPT !.type = "VTDB", !.dtd_index = code - 145], {})
        [] code = 254 -> Kept([svr EXCEPT !.type = "T8VTDB"], {})

SvrLine(svr) ==
  CASE svr.type = "VIC" -> <<"VIC", svr.vic>>
    [] svr.type = "DTD" -> <<"DTD", svr.dtd_index + 1>>
    [] svr.type = "VTDB" -> <<"VTDB", svr.t7_t10_vtdb_index + 1>>
    [] svr.type = "T8VTDB" -> <<"T8VTDB">>

-----------------------------------------------------------------------------
(* Short audio descriptors.                                                *)
AudioFormats == <<"LPCM", "AC3", "MPEG1", "MP3", "MPEG2", "AAC_LC", "DTS", "ATRAC",
                  "ONE_BIT_AUDIO", "ENHANCED_AC3", "DTS_HD", "MAT", "DST", "WMA_PRO">>
\* By code extension, where the code is 15; 9 is reserved.
AudioFormatsExt == [e \in {4, 5, 6, 7, 8, 10, 11, 12, 13} |->
  CASE e = 4 -> "MPEG4_HE_AAC" [] e = 5 -> "MPEG4_HE_AAC_V2" [] e = 6 -> "MPEG4_AAC_LC"
    [] e = 7 -> "DRA" [] e = 8 -> "MPEG4_HE_AAC_SURROUND"
    [] e = 10 -> "MPEG4_AAC_LC_SURROUND" [] e = 11 -> "MPEGH_3D" [] e = 12 -> "AC4"
    [] e = 13 -> "LPCM_3D"]
Mpeg4 == {"MPEG4_HE_AAC", "MPEG4_HE_AAC_V2", "MPEG4_AAC_LC",
          "MPEG4_HE_AAC_SURROUND", "MPEG4_AAC_LC_SURROUND"}
Bitrated == {"AC3", "MPEG1", "MP3", "MPEG2", "AAC_LC", "DTS", "ATRAC"}

parse_sad_format(code, ext) ==
  CASE code \in DOMAIN AudioFormats -> AudioFormats[code]
    [] code = 15 /\ ext \in DOMAIN AudioFormatsExt -> AudioFormatsExt[ext]
    [] OTHER -> "reserved"

\* Bit numbers of byte 2 that are sample rates; the rest of the byte is not read.
SampleRates(format, byte) ==
  LET known == CASE format \in Mpeg4 -> 0..4
                 [] format = "AC4" -> {1, 2, 4, 6}
                 [] OTHER -> 0..6
  IN  {k \in known : has_bit(byte, k)}

MaxChannels(format, d) ==
  CASE format \in {"MPEGH_3D", "AC4"} -> 0
    [] format = "LPCM_3D" ->
         1 + (d[1] % 8) + 8 * get_bit_range(d[1], 7, 7) + 16 * get_bit_range(d[2], 7, 7)
    [] OTHER -> 1 + (d[1] % 8)

\* The format-specific part, always set for its format.
SadDetail(format, d) ==
  CASE format \in {"LPCM", "LPCM_3D"} -> {k \in 0..2 : has_bit(d[3], k)}
    [] format \in Bitrated -> <<"bitrate", 8 * d[3]>>
    [] format \in Mpeg4 ->
         {k \in 1..2 : has_bit(d[3], k)}
           \cup (IF format \in {"MPEG4_AAC_LC", "MPEG4_HE_AAC_SURROUND",
                                "MPEG4_AAC_LC_SURROUND"} /\ has_bit(d[3], 0)
                 THEN {0} ELSE {})
    [] format = "MPEGH_3D" ->
         [level |-> IF d[1] % 8 > 5 THEN 0 ELSE d[1] % 8,
          profiles |-> {k \in 0..1 : has_bit(d[3], k)}]
    [] format = "ENHANCED_AC3" -> {k \in 0..1 : has_bit(d[3], k)}
    \* requires_hash_calculation negates the very bit that guards it
    [] format = "MAT" -> [objects |-> has_bit(d[3], 0), hash |-> FALSE]
    [] format = "WMA_PRO" -> <<"profile", d[3] % 8>>
    [] OTHER -> "none"

\* For MPEG-4 the message names byte 2, the code looks at byte 3.
ReservedAudioBits(format, d) ==
  CASE format \in {"LPCM", "WMA_PRO"} ->
         has_bit(d[1], 7) \/ has_bit(d[2], 7) \/ get_bit_range(d[3], 7, 3) # 0
    [] format \in Bitrated \cup {"ONE_BIT_AUDIO", "ENHANCED_AC3", "DTS_HD", "MAT", "DST"} ->
         has_bit(d[1], 7) \/ has_bit(d[2], 7)
    [] format \in Mpeg4 -> has_bit(d[1], 7) \/ get_bit_range(d[3], 7, 5) # 0
    [] format = "MPEGH_3D" -> has_bit(d[1], 7) \/ has_bit(d[2], 7) \/ has_bit(d[3], 2)
    [] format = "AC4" -> \/ \E k \in {0, 1, 2, 7} : has_bit(d[1], k)
                         \/ \E k \in {0, 3, 5, 7} : has_bit(d[2], k)
    [] OTHER -> FALSE

parse_sad(rev, d) ==
  LET format == parse_sad_format(get_bit_range(d[1], 6, 3), get_bit_range(d[3], 7, 3))
  IN  IF format = "reserved" THEN Dropped(Until(rev, 3, TRUE, "audio format"))
      ELSE Kept([format |-> format, max_channels |-> MaxChannels(format, d),
                 rates |-> SampleRates(format, d[2]), detail |-> SadDetail(format, d)],
                Until(rev, 3, format = "MPEGH_3D" /\ d[1] % 8 > 5, "audio level")
                  \cup Until(rev, 3, ReservedAudioBits(format, d), "audio bits"))

-----------------------------------------------------------------------------
(* VESA display device data block.                                         *)
DddbAnalog == <<"VGA", "NAVI_V", "NAVI_D">>
DddbInterfaces == <<"LVDS", "RSDS", "DVI_D", "DVI_I_ANALOG", "DVI_I_DIGITAL", "HDMI_A",
                    "HDMI_B", "MDDI", "DISPLAYPORT", "IEEE_1394", "M1_ANALOG", "M1_DIGITAL">>

\* The channels an interface may have; for LVDS and RSDS they are lanes.
DddbChannels(interface) ==
  CASE interface \in {"LVDS", "RSDS"} -> 0..15
    [] interface \in {"DVI_D", "DVI_I_DIGITAL", "MDDI", "M1_DIGITAL"} -> 1..2
    [] interface = "HDMI_A" -> {1}
    [] interface = "HDMI_B" -> {2}
    [] interface = "DISPLAYPORT" -> {1, 2, 4}
    [] OTHER -> {0}

\* With d[k] byte k - 1 of the payload, byte k + 1 of the specification.
DddbClocks(d) == <<get_bit_range(d[4], 7, 2), Word(get_bit_range(d[4], 1, 0), d[5])>>

DddbValue_KeepsScan(interface, channels, d) ==
  [interface |-> interface, num_channels |-> channels,
   content_protection |-> IF d[3] \in 0..3 THEN d[3] ELSE 0,
   clocks |-> DddbClocks(d), scan_direction |-> get_bit_range(d[11], 1, 0),
   subpixel_layout |-> IF d[12] \in 0..12 THEN d[12] ELSE 0, audio_delay_ms |-> 0]
DddbValue(interface, channels, d) ==
  LET clocks == DddbClocks(d)
      scan == get_bit_range(d[11], 1, 0)
      delay == 2 * (d[17] % 128)
  IN  [interface |-> interface,
       num_channels |-> IF channels \in DddbChannels(interface) THEN channels ELSE 0,
       content_protection |-> IF d[3] \in 0..3 THEN d[3] ELSE 0,
       clocks |-> IF clocks[1] > clocks[2] THEN <<0, 0>> ELSE clocks,
       scan_direction |-> IF scan = 3 THEN 0 ELSE scan,
       subpixel_layout |-> IF d[12] \in 0..12 THEN d[12] ELSE 0,
       audio_delay_ms |-> IF has_bit(d[17], 7) THEN delay ELSE -delay]

\* d[k] is byte k + 1 of the block, after its two header bytes.
parse_vesa_dddb(d) ==
  LET type == get_bit_range(d[1], 7, 4)
      low == get_bit_range(d[1], 3, 0)
      interface == CASE type = 0 /\ low < 3 -> DddbAnalog[low + 1]
                     [] type \in DOMAIN DddbInterfaces -> DddbInterfaces[type]
                     [] OTHER -> "unknown"
      channels == IF type = 0 THEN 0 ELSE low
  IN  IF Len(d) # 30 THEN Dropped({"length"})
      ELSE Checked(<<Refuse(interface = "unknown", TRUE, "interface"),
                     Note(channels \notin DddbChannels(interface), TRUE, "channels"),
                     Note(d[3] \notin 0..3, TRUE, "content protection"),
                     Note(DddbClocks(d)[1] > DddbClocks(d)[2], TRUE, "clocks"),
                     Note(get_bit_range(d[11], 1, 0) = 3, TRUE, "scan direction"),
                     Note(d[12] \notin 0..12, TRUE, "subpixel layout"),
                     Note(d[15] % 8 # 0, TRUE, "misc bits"),
                     Note(d[16] % 32 # 0, TRUE, "audio bits"),
                     Note(get_bit_range(d[22], 3, 2) # 0, TRUE, "chromaticity bits")>>,
                   DddbValue(interface, channels, d))

\* The names print_cta_vesa_dddb has for what is not a mere pair of bits.
DddbLines(v) ==
  IF \/ v.content_protection \notin 0..3 \/ v.scan_direction \notin 0..2
     \/ v.subpixel_layout \notin 0..12
  THEN Abort
  ELSE {<<"Interface", v.interface>>, <<"Clocks", v.clocks>>}
         \cup If(v.num_channels # 0,
                 <<IF v.interface \in {"LVDS", "RSDS"} THEN "lanes" ELSE "channels",
                   v.num_channels>>)

-----------------------------------------------------------------------------
(* Speaker allocation: byte 1 bit 6 is deprecated from revision 3 on, and  *)
(* stands for bit 3 before.                                                *)
parse_speaker_alloc(rev, d) ==
  LET old == has_bit(d[1], 6) /\ rev < 3
      first == {k \in {0, 1, 2, 3, 4, 5, 7} : has_bit(d[1], k)}
  IN  Kept([speakers |-> <<first \cup (IF old THEN {3} ELSE {}),
                           {k \in 0..7 : has_bit(d[2], k)}, {k \in 0..2 : has_bit(d[3], k)}>>],
           Always(has_bit(d[1], 6) /\ rev >= 3, "F16")
             \cup Always(get_bit_range(d[3], 7, 4) # 0, "F37-F34")
             \cup Always(rev >= 3 /\ has_bit(d[3], 3), "F33"))

parse_speaker_alloc_block(rev, d) ==
  IF Len(d) < 3 THEN Dropped({"length"}) ELSE parse_speaker_alloc(rev, d)

(* Video capabilities, against the flags of the extension's header.        *)
parse_video_cap_block(rev, it_underscan, byte) ==
  LET it == get_bit_range(byte, 3, 2)     \* 1 is always over, 2 always under
  IN  Kept([quantization |-> {k \in 6..7 : has_bit(byte, k)},
            pt |-> get_bit_range(byte, 5, 4), it |-> it, ce |-> get_bit_range(byte, 1, 0)],
           Always(~has_bit(byte, 6) /\ rev >= 3, "RGB quantization")
             \cup Always(it = 1 /\ it_underscan, "IT overscan")
             \cup Always(it = 2 /\ ~it_underscan, "IT underscan"))

(* HDR static metadata.  Luminances stay in their code; the minimum is a   *)
(* fraction of the maximum, so it is kept only with one.                   *)
parse_hdr_static_metadata_block(rev, d) ==
  LET max == IF Len(d) > 2 THEN d[3] ELSE 0
  IN  IF Len(d) < 2 THEN Dropped({"length"})
      ELSE Kept([eotfs |-> {k \in 0..3 : has_bit(d[1], k)}, type1 |-> has_bit(d[2], 0),
                 max |-> max, min |-> IF Len(d) > 4 /\ max # 0 THEN d[5] ELSE 0],
                Until(rev, 3, get_bit_range(d[1], 7, 4) # 0, "EOTF")
                  \cup Until(rev, 3, get_bit_range(d[2], 7, 1) # 0, "descriptor")
                  \cup Always(Len(d) > 4 /\ max = 0, "min without max"))

\* print_cta_hdr_static_metadata divides the minimum by the maximum.
HdrStaticLines(v) ==
  IF v.min # 0 /\ v.max = 0 THEN Abort
  ELSE If(v.max # 0, <<"max", v.max>>) \cup If(v.min # 0, <<"min", v.min>>)

=============================================================================
