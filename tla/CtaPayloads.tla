---------------------------- MODULE CtaPayloads -----------------------------
(***************************************************************************)
(* The payloads of the extended CTA-861 data blocks that CtaDecode leaves: *)
(* colorimetry, HDR dynamic metadata, transfer characteristics, HDMI       *)
(* audio, InfoFrames, room configuration and speaker locations, and what   *)
(* di-edid-decode/cta.c prints of them and of the short audio descriptors. *)
(* Three of them are lists of entries that state their own length.  Same   *)
(* conventions as CtaDecode; coordinates are in 1/64, the points of a      *)
(* transfer function in 1/1023.                                            *)
(*                                                                         *)
(* A definition named X_Something is X with a plausible mistake in it.     *)
(***************************************************************************)
EXTENDS CtaDecode

-----------------------------------------------------------------------------
(* Lists of entries.  The entry that starts at k takes size[k] bytes, and  *)
(* the loop goes on while at least least bytes are left.  The first entry  *)
(* may start behind the payload, and then there is none.                   *)
Misfit == 256      \* more than any payload holds: the loop must not step over it

Starts(d, first, least, size) ==
  LET from[k \in 1..(Len(d) + first)] ==
        IF k + least > Len(d) + 1 \/ k + size[k] > Len(d) + 1 THEN <<>>
        ELSE <<k>> \o from[k + size[k]]
  IN  from[first]
Stop(starts, first, size) ==
  IF starts = <<>> THEN first ELSE Last(starts) + size[Last(starts)]

\* An entry the loop did not get over is an error, whatever came before it.
LeftOver_Strict(d, stop, least) == stop + least < Len(d) + 1
LeftOver(d, stop, least) == stop + least <= Len(d) + 1

-----------------------------------------------------------------------------
(* Colorimetry: the eight flags of byte 1, and bits 7 and 6 of byte 2.     *)
parse_colorimetry_block(rev, d) ==
  IF Len(d) < 2 THEN Dropped({"length"})
  ELSE Kept([supported |-> {bit \in {1} \X (0..7) \cup {2} \X (6..7) : has_bit(d[bit[1]], bit[2])}],
            Until(rev, 3, d[2] % 64 # 0, "MD0-MD3"))

ColorimetryLines(v) == {<<"Colorimetry", flag>> : flag \in v.supported}

-----------------------------------------------------------------------------
(* HDR dynamic metadata: entries of a length, a type and maybe flags.  A   *)
(* trailing byte or two are ignored.                                       *)
HdrFlagTypes == {1, 2, 4, 256}     \* 3 is known too, and has no flags
HdrType(d, k) == Word(d[k + 2], d[k + 1])
HdrEntrySizes(d) == [k \in DOMAIN d |-> IF d[k] < 2 THEN Misfit ELSE d[k] + 1]

HdrDynamicEntry(d, k) ==
  LET type == HdrType(d, k)
      flags == IF d[k] >= 3 THEN d[k + 3] ELSE 0
      high == IF type = 2 THEN has_bit(flags, 7) ELSE flags >= 16
      checks == CASE type \in HdrFlagTypes ->
                       <<Refuse(d[k] < 3, TRUE, "no flags"), Note(d[k] # 3, TRUE, "type length"),
                         Refuse(type = 2 /\ flags % 16 = 0, TRUE, "spec version"),
                         Note(high, TRUE, "support flags")>>
                  [] type = 3 -> <<Note(d[k] # 2, TRUE, "type length")>>
                  [] OTHER -> <<Refuse(TRUE, TRUE, "unknown type")>>
  IN  Checked(checks, [type |-> type, flags |-> flags])

\* Each type has one place, which a later entry overwrites.  The version of
\* type 2 is written before it is found to be 0 and refused.
HdrVersion(d, starts, type) ==
  LET written == {k \in Range(starts) : HdrType(d, k) = type /\ d[k] >= 3}
  IN  IF type \in HdrFlagTypes THEN d[Max(written) + 3] % 16 ELSE 0
HdrCapable(entries, type) ==
  LET of == {i \in DOMAIN entries : entries[i].kept /\ entries[i].value.type = type}
      flags == entries[Max(of)].value.flags
  IN  IF type = 2 THEN {k \in 4..6 : has_bit(flags, k)} ELSE {}

parse_hdr_dynamic_metadata_block(d) ==
  LET size == HdrEntrySizes(d)
      starts == Starts(d, 1, 3, size)
      entries == [i \in DOMAIN starts |-> HdrDynamicEntry(d, starts[i])]
      failures == UNION {entries[i].failures : i \in DOMAIN entries}
      kept == {i \in DOMAIN entries : entries[i].kept}
  IN  IF Len(d) < 3 THEN Dropped({"length"})
      ELSE IF LeftOver(d, Stop(starts, 1, size), 3) THEN Dropped(failures \cup {"entry length"})
      ELSE Kept([type \in {entries[i].value.type : i \in kept} |->
                   [version |-> HdrVersion(d, starts, type), capable |-> HdrCapable(entries, type)]],
                failures)

HdrDynamicLines(v) == {<<"HDR Dynamic Metadata Type", type, v[type]>> : type \in DOMAIN v}

-----------------------------------------------------------------------------
(* VESA transfer characteristics: increments, and a last point that is 1   *)
(* whatever they add up to.                                                *)
parse_vesa_transfer_characteristics_block(d) ==
  LET point[k \in DOMAIN d] == IF k = 1 THEN d[1] % 64 ELSE point[k - 1] + d[k]
  IN  IF Len(d) \notin {7, 15, 31} THEN Dropped({"length"})
      ELSE Kept([usage |-> get_bit_range(d[1], 7, 6),
                 points |-> [k \in DOMAIN d |-> point[k]] \o <<1023>>], {})

TransferLines(v) == {<<"transfer", v.usage, v.points>>}

-----------------------------------------------------------------------------
(* HDMI audio: 3D descriptors, short audio descriptors packed otherwise,   *)
(* and after them the one that allocates the speakers.                     *)
parse_hdmi_audio_3d_descriptor(rev, s) ==
  LET code == get_bit_range(s[1], 3, 0)
      format == parse_sad_format(code, 0)
  IN  IF format = "reserved" THEN Dropped(Until(rev, 3, TRUE, "audio format"))
      ELSE IF format \notin {"LPCM", "ONE_BIT_AUDIO"} THEN Dropped({"3D format"})
      ELSE Kept([format |-> format, max_channels |-> 1 + get_bit_range(s[2], 4, 0),
                 rates |-> {k \in 0..6 : has_bit(s[3], k)},
                 detail |-> IF format = "LPCM" THEN {k \in 0..2 : has_bit(s[4], k)} ELSE "none"], {})

HdmiAudio3d(rev, slots) ==
  LET sads == [j \in 1..(Len(slots) - 1) |-> parse_hdmi_audio_3d_descriptor(rev, slots[j])]
      kept == {j \in DOMAIN sads : sads[j].kept}
      last == Last(slots)
      speakers == parse_speaker_alloc(rev, last)
      channels == get_bit_range(last[4], 7, 4)
  IN  Kept([sads |-> Picked([j \in DOMAIN sads |-> sads[j].value], kept),
            channels |-> IF channels \in 1..3 THEN channels ELSE 0,
            speakers |-> speakers.value.speakers],
           speakers.failures \cup UNION {sads[j].failures : j \in DOMAIN sads})

parse_hdmi_audio_block(rev, d) ==
  LET streams == get_bit_range(d[1], 1, 0)
      non_mixed == has_bit(d[1], 2)
      multi == Always(streams = 0 /\ non_mixed, "non-mixed")
      ms == IF streams = 0 THEN <<>> ELSE <<streams + 1, non_mixed>>
      descs == IF Len(d) < 2 THEN 0 ELSE get_bit_range(d[2], 2, 0)
      audio_3d == HdmiAudio3d(rev, [j \in 1..(descs + 1) |-> SubSeq(d, 4 * j - 1, 4 * j + 2)])
      without == [multi_stream |-> ms, audio_3d |-> NULL]
  IN  IF Len(d) < 1 THEN Dropped({"length"})
      ELSE IF descs = 0 THEN Kept(without, multi)
      ELSE IF descs + 1 > (Len(d) - 2) \div 4 THEN Kept(without, multi \cup {"descriptors"})
      ELSE Kept([without EXCEPT !.audio_3d = audio_3d.value], multi \cup audio_3d.failures)

SpeakerLines(speakers) ==
  UNION {{<<"Speaker", i, k>> : k \in speakers[i]} : i \in DOMAIN speakers}

AudioFormatNames == Range(AudioFormats) \cup Range(AudioFormatsExt)
SadLines(sad) ==
  IF \/ sad.format \notin AudioFormatNames
     \/ sad.format = "MPEGH_3D" /\ sad.detail.level \notin 0..5
  THEN Abort
  ELSE {<<sad.format, "rates", sad.rates>>, <<sad.format, "detail", sad.detail>>}
         \cup If(sad.max_channels # 0, <<sad.format, "Max channels", sad.max_channels>>)

HdmiAudioLines(v) ==
  LET streams == IF v.multi_stream = <<>> THEN {} ELSE {<<"Streams", v.multi_stream>>}
      sads == UNION {SadLines(v.audio_3d.sads[j]) : j \in DOMAIN v.audio_3d.sads}
  IN  IF v.audio_3d = NULL THEN streams
      ELSE IF Abort \subseteq sads THEN Abort
      ELSE streams \cup sads \cup {<<"Channels", v.audio_3d.channels>>}
             \cup SpeakerLines(v.audio_3d.speakers)

-----------------------------------------------------------------------------
(* InfoFrames.  A vendor-specific one (type 1) is passed over in silence,  *)
(* a reserved type (8 to 31) is reported, type 0 is an error.              *)
InfoFrameType(d, k) == get_bit_range(d[k], 4, 0)
InfoFrameSizes(d) == [k \in DOMAIN d |->
  LET length == get_bit_range(d[k], 7, 5)
  IN  CASE InfoFrameType(d, k) = 0 -> Misfit
        [] InfoFrameType(d, k) = 1 -> length + 4
        [] OTHER -> length + 1]

parse_infoframe_block(d) ==
  LET first == get_bit_range(d[1], 7, 5) + 3      \* after the processing descriptor
      size == InfoFrameSizes(d)
      starts == Starts(d, first, 1, size)
      stop == Stop(starts, first, size)
      types == [i \in DOMAIN starts |-> InfoFrameType(d, starts[i])]
      failures == Always(get_bit_range(d[1], 4, 0) # 0, "F14-F10")
                    \cup Always(\E i \in DOMAIN types : types[i] >= 8, "reserved type")
  IN  IF Len(d) < 2 THEN Dropped({"length"})
      ELSE IF LeftOver(d, stop, 1) \/ stop > Len(d) + 1 THEN Dropped(failures \cup {"entry"})
      ELSE Kept([num_simultaneous_vsifs |-> d[2] + 1,
                 infoframes |-> Picked(types, {i \in DOMAIN types : types[i] \in 2..7})],
                failures)

InfoFrameLines(v) ==
  IF \E i \in DOMAIN v.infoframes : v.infoframes[i] \notin 2..7 THEN Abort
  ELSE {<<"VSIFs", v.num_simultaneous_vsifs - 1>>}
         \cup {<<"InfoFrame", type>> : type \in Range(v.infoframes)}

-----------------------------------------------------------------------------
(* Room configuration and speaker locations; neither is printed.           *)
decode_coord(x) == IF x < 128 THEN x ELSE x - 256

parse_room_config_block(rev, d) ==
  LET speakers == parse_speaker_alloc(rev, SubSeq(d, 2, 4))
      counted == has_bit(d[1], 6)
      count == get_bit_range(d[1], 4, 0)
      located == has_bit(d[1], 5)
  IN  IF Len(d) < 4 THEN Dropped({"length"})
      ELSE Kept([speaker_count |-> IF counted THEN count + 1 ELSE 0,
                 has_speaker_location_descriptors |-> located,
                 speakers |-> speakers.value.speakers,
                 max |-> IF Len(d) < 7 THEN <<16, 16, 8>> ELSE SubSeq(d, 5, 7),
                 display |-> IF Len(d) < 10 THEN <<0, 64, 0>>
                             ELSE [k \in 1..3 |-> decode_coord(d[7 + k])]],
                speakers.failures
                  \cup Always(~counted /\ count # 0, "speaker count")
                  \cup Always(~counted /\ located, "speaker locations")
                  \cup Always(has_bit(d[1], 7) /\ Len(d) < 10, "display coordinates"))

\* Two bytes, or five with the COORD bit set; a last byte alone is ignored.
LocationSizes(d) == [k \in DOMAIN d |-> IF has_bit(d[k], 6) THEN 5 ELSE 2]
Location(d, k) ==
  [is_active |-> has_bit(d[k], 5), channel_index |-> get_bit_range(d[k], 4, 0),
   speaker_id |-> get_bit_range(d[k + 1], 4, 0),
   coords |-> IF has_bit(d[k], 6) THEN [c \in 1..3 |-> decode_coord(d[k + 1 + c])] ELSE <<>>]

\* The bits of an entry are checked before its coordinates are looked for.
parse_speaker_location_block(d) ==
  LET size == LocationSizes(d)
      starts == Starts(d, 1, 2, size)
      stop == Stop(starts, 1, size)
      short == LeftOver(d, stop, 2)
      looked == Range(starts) \cup (IF short THEN {stop} ELSE {})
      failures == Always(\E k \in looked : has_bit(d[k], 7) \/ d[k + 1] >= 32, "F27-F25, F17")
  IN  IF Len(d) < 2 THEN Dropped({"length"})
      ELSE IF short THEN Dropped(failures \cup {"coordinates"})
      ELSE Kept([i \in DOMAIN starts |-> Location(d, starts[i])], failures)

-----------------------------------------------------------------------------
(* Video capabilities: the three behaviors have two bits and four names.   *)
VideoCapLines(v) ==
  IF ~({v.pt, v.it, v.ce} \subseteq 0..3) THEN Abort
  ELSE {<<"quantization", v.quantization>>, <<"PT", v.pt>>, <<"IT", v.it>>, <<"CE", v.ce>>}

=============================================================================
