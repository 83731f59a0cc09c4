---------------------------- MODULE DecodersProofs ----------------------------
(***************************************************************************)
(* What the decoders keep and the printers say, for every input of the     *)
(* form that the callers pass.                                             *)
(***************************************************************************)
EXTENDS Decoders, ListsProofs

(* The input is one of the inputs, and has the form the callers pass.      *)
Given ==
  /\ kind \in DOMAIN Inputs /\ rev \in Nat /\ rev \in Revisions
  /\ context \in ContextForm(kind) /\ data \in DataForm(kind)

(* Once there is a result, it is what the decoder of the kind makes of the *)
(* input, whether printed since or not.                                    *)
Decoded ==
  pc # "bytes" =>
    /\ kind = "vendor" => result = parse_vendor_product(rev, data)
    /\ kind = "basic" => result = parse_basic_params_features(rev, data)
    /\ kind = "chroma" => result = parse_chromaticity_coords(data)
    /\ kind = "established" => result = parse_established_timings_i_ii(data)
    /\ kind = "dtd" => result = Kept(_di_edid_parse_detailed_timing_def(data), {})
    /\ kind = "range" => result = parse_display_range_limits(rev, context, data)
    /\ kind = "standard" => result = parse_standard_timing(rev, data[1], data[2])
    /\ kind = "color_point" => result = parse_color_point_descriptor(data)
    /\ kind = "color_management" => result = parse_color_management_data_descriptor(rev, data)
    /\ kind = "established_iii" => result = parse_established_timings_iii_descriptor(rev, data)
    /\ kind = "cvt" => result = parse_cvt_timing_code(data, context)
    /\ kind = "video" => result = VideoBlocks(rev, data.blocks)
    /\ kind = "vic" => \E f \in di_cta_video_format_from_vic(data) : result = Kept(f, {})
    /\ kind = "svr" => result = parse_svr(data)
    /\ kind = "sad" => result = parse_sad(rev, data)
    /\ kind = "dddb" => result = parse_vesa_dddb(data)
    /\ kind = "speaker" => result = parse_speaker_alloc_block(rev, data)
    /\ kind = "video_cap" => result = parse_video_cap_block(rev, context, data)
    /\ kind = "hdr_static" => result = parse_hdr_static_metadata_block(rev, data)
    /\ kind = "colorimetry" => result = parse_colorimetry_block(rev, data)
    /\ kind = "hdr_dynamic" => result = parse_hdr_dynamic_metadata_block(data)
    /\ kind = "transfer" => result = parse_vesa_transfer_characteristics_block(data)
    /\ kind = "hdmi_audio" => result = parse_hdmi_audio_block(rev, data)
    /\ kind = "infoframe" => result = parse_infoframe_block(data)
    /\ kind = "room" => result = parse_room_config_block(rev, data)
    /\ kind = "location" => result = parse_speaker_location_block(data)
    /\ kind = "type_i" => result \in parse_type_i_timing(data)
    /\ kind = "type_vii" => result = parse_did_type_vii_timing(data)
    /\ kind = "type_ii" => result = parse_type_ii_timing(data)
    /\ kind = "type_iii" => result = parse_type_iii_timing(data)
    /\ kind = "params" => result = parse_display_params_block(data, context)
    /\ kind = "tiled" => result = parse_tiled_topo_block(data, context)
    /\ kind = "info" => result = Kept(Answers(data), {})

(* Only something kept is printed, and only "printed" and "aborted" have   *)
(* lines.                                                                  *)
Control ==
  /\ pc \in {"bytes", "kept", "dropped", "printed", "aborted"}
  /\ Seen => result.kept = TRUE
  /\ pc = "dropped" => result.kept # TRUE
  /\ pc = "bytes" => result = Dropped({})
  /\ pc \notin {"printed", "aborted"} => lines = {}

(* The kinds that di-edid-decode prints.                                   *)
PrintedKinds == Kinds \ {"chroma", "established", "color_point", "color_management",
                         "room", "location", "params", "info"}

(* What was printed is what the printer of the kind makes of the value,    *)
(* and what was aborted is what it aborts on.                              *)
Printed ==
  pc \in {"printed", "aborted"} =>
    /\ kind \in PrintedKinds
    /\ pc = "aborted" => lines = Abort
    /\ kind = "vendor" => lines = VendorLines(result.value)
    /\ kind = "basic" => lines = BasicLines(rev, result.value)
    /\ kind = "dtd" => lines = {<<"flags", DtdFlags(result.value)>>,
                                <<"polarities", DtdPolarities(result.value)>>,
                                <<"back porch", DtdBackPorch(result.value)>>}
    /\ kind = "range" => lines = RangeLines(rev, result.value)
    /\ kind = "standard" => lines = {StandardLine(result.value)}
    /\ kind = "established_iii" =>
         lines = {<<"DMT", row.dmt_id>> : row \in Range(result.value)}
    /\ kind = "cvt" => lines = {<<"CVT", line>> : line \in CvtLines(result.value)}
    /\ kind = "video" =>
         lines = {<<"YCbCr 4:2:0", k, CapMapLines(result.value, data.map)[k]>> :
                    k \in DOMAIN CapMapLines(result.value, data.map)}
    /\ kind = "vic" => lines = IF result.value = NULL THEN {<<"VIC", data>>}
                                ELSE {<<"VIC", data, result.value>>}
    /\ kind = "svr" => lines = {SvrLine(result.value)}
    /\ kind = "dddb" => lines = DddbLines(result.value)
    /\ kind = "hdr_static" => lines = HdrStaticLines(result.value)
    /\ kind = "sad" => lines = SadLines(result.value)
    /\ kind = "speaker" => lines = SpeakerLines(result.value.speakers)
    /\ kind = "video_cap" => lines = VideoCapLines(result.value)
    /\ kind = "colorimetry" => lines = ColorimetryLines(result.value)
    /\ kind = "hdr_dynamic" => lines = HdrDynamicLines(result.value)
    /\ kind = "transfer" => lines = TransferLines(result.value)
    /\ kind = "hdmi_audio" => lines = HdmiAudioLines(result.value)
    /\ kind = "infoframe" => lines = InfoFrameLines(result.value)
    /\ kind = "type_iii" => lines = ShortTimingLines(result.value)
    /\ kind = "tiled" => lines = TiledLines(result.value)
    /\ kind \in {"type_i", "type_vii", "type_ii"} => lines = TimingLines(result.value)

IInv == Given /\ Decoded /\ Control /\ Printed

(* The inputs are of the form the callers pass, so the first state is.     *)
LEMMA GivenInit == Init => Given
<1> SUFFICES ASSUME Init PROVE Given OBVIOUS
<1>1. kind \in DOMAIN Inputs /\ rev \in Revisions BY DEF Init
<1>2. PICK i \in Inputs[kind] : context = i.context /\ data = i.data BY DEF Init
<1>3. i \in [context : ContextForm(kind), data : DataForm(kind)] BY <1>1, InputForms
<1>4. context \in ContextForm(kind) /\ data \in DataForm(kind) BY <1>2, <1>3
<1> QED BY <1>1, <1>4, DecoderKinds DEF Given

(* No step changes the input.                                              *)
LEMMA InputKept == Next => UNCHANGED <<kind, rev, context, data>>
<1> USE DEF input, Decode, PrintLines
<1>1. BaseStep => UNCHANGED <<kind, rev, context, data>>
  BY DEF BaseStep, DecodeVendor, DecodeBasic, DecodeChroma, DecodeEstablished,
    DecodeDtd, DecodeRange, DecodeStandard, DecodeColorPoint, DecodeColorManagement,
    DecodeEstablishedIii, DecodeCvt, PrintVendor, PrintBasic, PrintDtd, PrintRange,
    PrintStandard, PrintEstablishedIii, PrintCvt
<1>2. CtaStep => UNCHANGED <<kind, rev, context, data>>
  BY DEF CtaStep, DecodeVideo, DecodeVic, DecodeSvr, DecodeSad, DecodeDddb,
    DecodeSpeaker, DecodeVideoCap, DecodeHdrStatic, DecodeColorimetry, DecodeHdrDynamic,
    DecodeTransfer, DecodeHdmiAudio, DecodeInfoFrames, DecodeRoom, DecodeLocations,
    PrintVideo, PrintVic, PrintSvr, PrintDddb, PrintHdrStatic, PrintSad, PrintSpeaker,
    PrintVideoCap, PrintColorimetry, PrintHdrDynamic, PrintTransfer, PrintHdmiAudio,
    PrintInfoFrames
<1>3. DisplayIdStep => UNCHANGED <<kind, rev, context, data>>
  BY DEF DisplayIdStep, DecodeTypeI, DecodeTypeVii, DecodeTypeIi, DecodeTypeIii,
    DecodeParams, DecodeTiled, DeriveInfo, PrintTiming, PrintShortTiming, PrintTiled
<1> QED BY <1>1, <1>2, <1>3 DEF Next

(* A step decodes, or prints what was kept.                                *)
LEMMA StepForms ==
  ASSUME Next
  PROVE  \/ /\ pc = "bytes" /\ pc' = (IF result'.kept THEN "kept" ELSE "dropped")
            /\ lines' = lines
         \/ /\ pc = "kept" /\ result' = result
            /\ pc' = (IF lines' = Abort THEN "aborted" ELSE "printed")
<1> USE DEF Decode, PrintLines
<1>1. CASE BaseStep
  BY <1>1 DEF BaseStep, DecodeVendor, DecodeBasic, DecodeChroma, DecodeEstablished,
    DecodeDtd, DecodeRange, DecodeStandard, DecodeColorPoint, DecodeColorManagement,
    DecodeEstablishedIii, DecodeCvt, PrintVendor, PrintBasic, PrintDtd, PrintRange,
    PrintStandard, PrintEstablishedIii, PrintCvt
<1>2. CASE CtaStep
  BY <1>2 DEF CtaStep, DecodeVideo, DecodeVic, DecodeSvr, DecodeSad, DecodeDddb,
    DecodeSpeaker, DecodeVideoCap, DecodeHdrStatic, DecodeColorimetry, DecodeHdrDynamic,
    DecodeTransfer, DecodeHdmiAudio, DecodeInfoFrames, DecodeRoom, DecodeLocations,
    PrintVideo, PrintVic, PrintSvr, PrintDddb, PrintHdrStatic, PrintSad, PrintSpeaker,
    PrintVideoCap, PrintColorimetry, PrintHdrDynamic, PrintTransfer, PrintHdmiAudio,
    PrintInfoFrames
<1>3. CASE DisplayIdStep
  BY <1>3 DEF DisplayIdStep, DecodeTypeI, DecodeTypeVii, DecodeTypeIi, DecodeTypeIii,
    DecodeParams, DecodeTiled, DeriveInfo, PrintTiming, PrintShortTiming, PrintTiled
<1> QED BY <1>1, <1>2, <1>3 DEF Next

(* A decoding step leaves the result of the decoder of the kind.           *)
LEMMA DecodedStep == IInv /\ Next => Decoded'
<1> SUFFICES ASSUME IInv, Next PROVE Decoded' OBVIOUS
<1>0. UNCHANGED <<kind, rev, context, data>> BY InputKept
<1>1. CASE result' = result /\ pc = "kept" BY <1>0, <1>1 DEF IInv, Decoded
<1> USE DEF Decode

<1>2. CASE DecodeVendor BY <1>0, <1>2 DEF Decoded, DecodeVendor
<1>3. CASE DecodeBasic BY <1>0, <1>3 DEF Decoded, DecodeBasic
<1>4. CASE DecodeChroma BY <1>0, <1>4 DEF Decoded, DecodeChroma
<1>5. CASE DecodeEstablished BY <1>0, <1>5 DEF Decoded, DecodeEstablished
<1>6. CASE DecodeDtd BY <1>0, <1>6 DEF Decoded, DecodeDtd
<1>7. CASE DecodeRange BY <1>0, <1>7 DEF Decoded, DecodeRange
<1>8. CASE DecodeStandard BY <1>0, <1>8 DEF Decoded, DecodeStandard
<1>9. CASE DecodeColorPoint BY <1>0, <1>9 DEF Decoded, DecodeColorPoint
<1>10. CASE DecodeColorManagement BY <1>0, <1>10 DEF Decoded, DecodeColorManagement
<1>11. CASE DecodeEstablishedIii BY <1>0, <1>11 DEF Decoded, DecodeEstablishedIii
<1>12. CASE DecodeCvt BY <1>0, <1>12 DEF Decoded, DecodeCvt
<1>13. CASE DecodeVideo BY <1>0, <1>13 DEF Decoded, DecodeVideo
<1>14. CASE DecodeVic BY <1>0, <1>14 DEF Decoded, DecodeVic
<1>15. CASE DecodeSvr BY <1>0, <1>15 DEF Decoded, DecodeSvr
<1>16. CASE DecodeSad BY <1>0, <1>16 DEF Decoded, DecodeSad
<1>17. CASE DecodeDddb BY <1>0, <1>17 DEF Decoded, DecodeDddb
<1>18. CASE DecodeSpeaker BY <1>0, <1>18 DEF Decoded, DecodeSpeaker
<1>19. CASE DecodeVideoCap BY <1>0, <1>19 DEF Decoded, DecodeVideoCap
<1>20. CASE DecodeHdrStatic BY <1>0, <1>20 DEF Decoded, DecodeHdrStatic
<1>21. CASE DecodeColorimetry BY <1>0, <1>21 DEF Decoded, DecodeColorimetry
<1>22. CASE DecodeHdrDynamic BY <1>0, <1>22 DEF Decoded, DecodeHdrDynamic
<1>23. CASE DecodeTransfer BY <1>0, <1>23 DEF Decoded, DecodeTransfer
<1>24. CASE DecodeHdmiAudio BY <1>0, <1>24 DEF Decoded, DecodeHdmiAudio
<1>25. CASE DecodeInfoFrames BY <1>0, <1>25 DEF Decoded, DecodeInfoFrames
<1>26. CASE DecodeRoom BY <1>0, <1>26 DEF Decoded, DecodeRoom
<1>27. CASE DecodeLocations BY <1>0, <1>27 DEF Decoded, DecodeLocations
<1>28. CASE DecodeTypeI BY <1>0, <1>28 DEF Decoded, DecodeTypeI
<1>29. CASE DecodeTypeVii BY <1>0, <1>29 DEF Decoded, DecodeTypeVii
<1>30. CASE DecodeTypeIi BY <1>0, <1>30 DEF Decoded, DecodeTypeIi
<1>31. CASE DecodeTypeIii BY <1>0, <1>31 DEF Decoded, DecodeTypeIii
<1>32. CASE DecodeParams BY <1>0, <1>32 DEF Decoded, DecodeParams
<1>33. CASE DecodeTiled BY <1>0, <1>33 DEF Decoded, DecodeTiled
<1>34. CASE DeriveInfo BY <1>0, <1>34 DEF Decoded, DeriveInfo
<1>35. CASE PrintVendor \/ PrintBasic \/ PrintDtd \/ PrintRange \/ PrintStandard \/
  PrintEstablishedIii \/ PrintCvt \/ PrintVideo \/ PrintVic \/ PrintSvr \/ PrintDddb \/
  PrintHdrStatic \/ PrintSad \/ PrintSpeaker \/ PrintVideoCap \/ PrintColorimetry \/
  PrintHdrDynamic \/ PrintTransfer \/ PrintHdmiAudio \/ PrintInfoFrames \/ PrintTiming
  \/ PrintShortTiming \/ PrintTiled
  BY <1>1, <1>35 DEF PrintLines, PrintVendor, PrintBasic, PrintDtd, PrintRange,
    PrintStandard, PrintEstablishedIii, PrintCvt, PrintVideo, PrintVic, PrintSvr,
    PrintDddb, PrintHdrStatic, PrintSad, PrintSpeaker, PrintVideoCap, PrintColorimetry,
    PrintHdrDynamic, PrintTransfer, PrintHdmiAudio, PrintInfoFrames, PrintTiming,
    PrintShortTiming, PrintTiled
<1> QED BY <1>2, <1>3, <1>4, <1>5, <1>6, <1>7, <1>8, <1>9, <1>10, <1>11, <1>12, <1>13,
  <1>14, <1>15, <1>16, <1>17, <1>18, <1>19, <1>20, <1>21, <1>22, <1>23, <1>24, <1>25,
  <1>26, <1>27, <1>28, <1>29, <1>30, <1>31, <1>32, <1>33, <1>34, <1>35 DEF Next,
  BaseStep, CtaStep, DisplayIdStep

(* A result is kept when it was decoded to be kept, and printing keeps it. *)
LEMMA ControlStep == IInv /\ Next => Control'
<1> SUFFICES ASSUME IInv, Next PROVE Control' OBVIOUS
<1> USE DEF IInv, Control, Seen
<1>1. CASE /\ pc = "bytes" /\ pc' = (IF result'.kept THEN "kept" ELSE "dropped")
           /\ lines' = lines
  BY <1>1
<1>2. CASE /\ pc = "kept" /\ result' = result
           /\ pc' = (IF lines' = Abort THEN "aborted" ELSE "printed")
  BY <1>2
<1> QED BY <1>1, <1>2, StepForms

(* A printing step leaves the lines of the printer of the kind.            *)
LEMMA PrintedStep == IInv /\ Next => Printed'
<1> SUFFICES ASSUME IInv, Next, pc' \in {"printed", "aborted"} PROVE Printed' BY DEF
  Printed
<1>0. UNCHANGED <<kind, rev, context, data>> BY InputKept
<1>1. pc = "kept" BY StepForms
<1> USE DEF PrintLines, PrintedKinds, Kinds
<1>2. CASE PrintVendor BY <1>0, <1>2 DEF Printed, PrintVendor
<1>3. CASE PrintBasic BY <1>0, <1>3 DEF Printed, PrintBasic
<1>4. CASE PrintDtd BY <1>0, <1>4 DEF Printed, PrintDtd
<1>5. CASE PrintRange BY <1>0, <1>5 DEF Printed, PrintRange
<1>6. CASE PrintStandard BY <1>0, <1>6 DEF Printed, PrintStandard
<1>7. CASE PrintEstablishedIii BY <1>0, <1>7 DEF Printed, PrintEstablishedIii
<1>8. CASE PrintCvt BY <1>0, <1>8 DEF Printed, PrintCvt
<1>9. CASE PrintVideo BY <1>0, <1>9 DEF Printed, PrintVideo
<1>10. CASE PrintVic BY <1>0, <1>10 DEF Printed, PrintVic
<1>11. CASE PrintSvr BY <1>0, <1>11 DEF Printed, PrintSvr
<1>12. CASE PrintDddb BY <1>0, <1>12 DEF Printed, PrintDddb
<1>13. CASE PrintHdrStatic BY <1>0, <1>13 DEF Printed, PrintHdrStatic
<1>14. CASE PrintSad BY <1>0, <1>14 DEF Printed, PrintSad
<1>15. CASE PrintSpeaker BY <1>0, <1>15 DEF Printed, PrintSpeaker
<1>16. CASE PrintVideoCap BY <1>0, <1>16 DEF Printed, PrintVideoCap
<1>17. CASE PrintColorimetry BY <1>0, <1>17 DEF Printed, PrintColorimetry
<1>18. CASE PrintHdrDynamic BY <1>0, <1>18 DEF Printed, PrintHdrDynamic
<1>19. CASE PrintTransfer BY <1>0, <1>19 DEF Printed, PrintTransfer
<1>20. CASE PrintHdmiAudio BY <1>0, <1>20 DEF Printed, PrintHdmiAudio
<1>21. CASE PrintInfoFrames BY <1>0, <1>21 DEF Printed, PrintInfoFrames
<1>22. CASE PrintShortTiming BY <1>0, <1>22 DEF Printed, PrintShortTiming
<1>23. CASE PrintTiled BY <1>0, <1>23 DEF Printed, PrintTiled
<1>24. CASE PrintTiming BY <1>0, <1>24 DEF Printed, PrintTiming
<1>25. CASE ~(PrintVendor \/ PrintBasic \/ PrintDtd \/ PrintRange \/ PrintStandard \/ PrintEstablishedIii \/ PrintCvt \/ PrintVideo \/ PrintVic \/ PrintSvr \/ PrintDddb \/ PrintHdrStatic \/ PrintSad \/ PrintSpeaker \/ PrintVideoCap \/ PrintColorimetry \/ PrintHdrDynamic \/ PrintTransfer \/ PrintHdmiAudio \/ PrintInfoFrames \/ PrintTiming \/ PrintShortTiming \/ PrintTiled)
  BY <1>1, <1>25 DEF Next, BaseStep, CtaStep, DisplayIdStep, Decode,
     DecodeVendor, DecodeBasic, DecodeChroma, DecodeEstablished, DecodeDtd, DecodeRange,
       DecodeStandard, DecodeColorPoint, DecodeColorManagement, DecodeEstablishedIii,
       DecodeCvt, DecodeVideo, DecodeVic, DecodeSvr, DecodeSad, DecodeDddb,
       DecodeSpeaker, DecodeVideoCap, DecodeHdrStatic, DecodeColorimetry,
       DecodeHdrDynamic, DecodeTransfer, DecodeHdmiAudio, DecodeInfoFrames, DecodeRoom,
       DecodeLocations, DecodeTypeI, DecodeTypeVii, DecodeTypeIi, DecodeTypeIii,
       DecodeParams, DecodeTiled, DeriveInfo
<1> QED BY <1>2, <1>3, <1>4, <1>5, <1>6, <1>7, <1>8, <1>9, <1>10, <1>11, <1>12, <1>13,
  <1>14, <1>15, <1>16, <1>17, <1>18, <1>19, <1>20, <1>21, <1>22, <1>23, <1>24, <1>25

(* The invariant holds of the first state and is kept by every step.       *)
THEOREM Invariant == Spec => []IInv
<1>1. Init => IInv
  <2> SUFFICES ASSUME Init PROVE IInv OBVIOUS
  <2>1. pc = "bytes" /\ result = Dropped({}) /\ lines = {} BY DEF Init
  <2> QED BY <2>1, GivenInit DEF IInv, Decoded, Control, Printed, Seen
<1>2. IInv /\ [Next]_vars => IInv'
  <2> SUFFICES ASSUME IInv, [Next]_vars PROVE IInv' OBVIOUS
  <2>1. CASE Next
    <3>1. Given' BY <2>1, InputKept DEF IInv, Given
    <3> QED BY <2>1, <3>1, DecodedStep, ControlStep, PrintedStep DEF IInv
  <2>2. CASE UNCHANGED vars
    <3>0. UNCHANGED <<kind, rev, context, data, pc, result, lines>> BY <2>2 DEF vars
    <3>1. Given' BY <3>0 DEF IInv, Given
    <3>2. Decoded' BY <3>0 DEF IInv, Decoded
    <3>3. Control' BY <3>0 DEF IInv, Control, Seen
    <3>4. Printed' BY <3>0 DEF IInv, Printed
    <3> QED BY <3>1, <3>2, <3>3, <3>4 DEF IInv
  <2> QED BY <2>1, <2>2
<1> QED BY <1>1, <1>2, PTL DEF Spec

-----------------------------------------------------------------------------
(* The checks of a decoder with early returns: what was kept passed every  *)
(* check that drops, and what was dropped did not pass one of them.        *)
LEMMA CheckedKept ==
  ASSUME NEW checks, NEW value, Checked(checks, value).kept = TRUE
  PROVE  /\ Checked(checks, value).value = value
         /\ \A i \in DOMAIN checks : ~(checks[i].bad /\ checks[i].drops)
BY DEF Checked, Kept, Dropped

(* A check that drops and reports leaves a failure.                        *)
LEMMA CheckedDropped ==
  ASSUME NEW N \in Nat, NEW checks, DOMAIN checks = 1..N, NEW value,
         \A i \in 1..N : checks[i].bad /\ checks[i].drops => checks[i].reported,
         Checked(checks, value).kept # TRUE
  PROVE  Checked(checks, value).failures # {}
<1> DEFINE stops == {i \in DOMAIN checks : checks[i].bad /\ checks[i].drops}
           reached == {i \in DOMAIN checks : \A j \in stops : i <= j}
           failures == {checks[i].failure : i \in {i \in reached : checks[i].bad /\ checks[i].reported}}
<1>1. Checked(checks, value) = IF stops = {} THEN Kept(value, failures) ELSE Dropped(failures)
  BY DEF Checked
<1>2. stops # {}
  <2>1. Kept(value, failures).kept = TRUE BY DEF Kept
  <2> HIDE DEF stops, failures
  <2> QED BY <1>1, <2>1
<1>3. PICK i \in stops : \A j \in stops : i <= j
  <2>1. stops \in SUBSET Nat OBVIOUS
  <2> HIDE DEF stops
  <2> QED BY <1>2, <2>1, NatMin
<1>4. i \in reached /\ checks[i].bad /\ checks[i].reported BY <1>3
<1>5. checks[i].failure \in failures BY <1>4
<1>6. Checked(checks, value).failures = failures BY <1>1, <1>2 DEF Dropped
<1> HIDE DEF failures
<1> QED BY <1>5, <1>6

(* The bytes of a range descriptor.                                        *)
LEMMA RangeForm ==
  ASSUME IInv, kind = "range"
  PROVE  data \in Bytes(4, 17)
BY DEF IInv, Given, DataForm

(* Where the parts of a list of three parts are.                           *)
Parted(l, a, b, c) ==
  /\ DOMAIN l = 1..17
  /\ \A i \in 1..4 : l[i] = a[i]
  /\ \A i \in 1..2 : l[4 + i] = b[i]
  /\ \A i \in 1..11 : l[6 + i] = c[i]
(* Three lists of 4, 2 and 11 elements, joined, are in their places.       *)
LEMMA ThreeParts ==
  ASSUME NEW a, NEW b, NEW c, a = [i \in 1..4 |-> a[i]], b = [i \in 1..2 |-> b[i]],
         c = [i \in 1..11 |-> c[i]]
  PROVE  Parted(a \o b \o c, a, b, c)
<1> DEFINE V == {a[i] : i \in 1..4} \cup {b[i] : i \in 1..2} \cup {c[i] : i \in 1..11}
<1>1. a \in Seq(V) /\ Len(a) = 4
  <2>1. a \in [1..4 -> V] OBVIOUS
  <2> HIDE DEF V
  <2> QED BY <2>1
<1>2. b \in Seq(V) /\ Len(b) = 2
  <2>1. b \in [1..2 -> V] OBVIOUS
  <2> HIDE DEF V
  <2> QED BY <2>1
<1>3. c \in Seq(V) /\ Len(c) = 11
  <2>1. c \in [1..11 -> V] OBVIOUS
  <2> HIDE DEF V
  <2> QED BY <2>1
<1> HIDE DEF V
<1>4. a \o b \in Seq(V) /\ Len(a \o b) = 6 BY <1>1, <1>2
<1>5. a \o b \o c \in Seq(V) /\ Len(a \o b \o c) = 17 BY <1>3, <1>4
<1>6. DOMAIN (a \o b \o c) = 1..17 BY <1>5
<1>7. Joined(a \o b, a, b) BY <1>1, <1>2, Concat
<1>8. Joined(a \o b \o c, a \o b, c) BY <1>3, <1>4, Concat
<1> QED BY <1>1, <1>2, <1>3, <1>4, <1>6, <1>7, <1>8 DEF Joined, Parted

(* The checks of a range descriptor that the properties speak of, at the   *)
(* places where the decoder makes them.                                    *)
LEMMA RangeChecksAt ==
  ASSUME NEW r, NEW features, NEW d
  PROVE  Parted(RangeChecks(r, features, d), RangeLimitChecks(r, d),
                RangeOrder(RangeRates(r, d)), RangeClassChecks(r, features, d))
<1>1. RangeLimitChecks(r, d) = [i \in 1..4 |-> RangeLimitChecks(r, d)[i]] BY DEF
  RangeLimitChecks
<1>2. RangeOrder(RangeRates(r, d)) = [i \in 1..2 |-> RangeOrder(RangeRates(r, d))[i]]
  BY DEF RangeOrder
<1>3. RangeClassChecks(r, features, d) = [i \in 1..11 |-> RangeClassChecks(r, features, d)[i]]
  BY DEF RangeClassChecks
<1> QED BY <1>1, <1>2, <1>3, ThreeParts DEF RangeChecks

(* A minimum that is not above the maximum.                                *)
LEMMA NotAbove == \A m \in 0..510, n \in 0..510 : ~(m > n) => m <= n
OBVIOUS
(* Limits in order, and in the known revisions neither zero nor past 510.  *)
RatesInOrder(r, rates) ==
  /\ rates.min_vert <= rates.max_vert /\ rates.min_horiz <= rates.max_horiz
  /\ r <= 4 => /\ {rates.min_vert, rates.min_horiz} \subseteq 1..510
               /\ {rates.max_vert, rates.max_horiz} \subseteq 1..510

(* Limits that are kept are in order, and in the known revisions above 0   *)
(* and, with an offset of 255 at most, no more than 510.                   *)
LEMMA RangeRatesKept ==
  ASSUME NEW r \in Nat, NEW features, NEW d \in Bytes(4, 17),
         parse_display_range_limits(r, features, d).kept = TRUE
  PROVE  RatesInOrder(r, parse_display_range_limits(r, features, d).value.rates)
<1> DEFINE checks == RangeChecks(r, features, d)
           rates == RangeRates(r, d)
           type == RangeType(r, features, d[10])
           value == [rates |-> rates, type |-> type, detail |-> RangeDetail(type, d)]
<1>1. /\ parse_display_range_limits(r, features, d).value.rates = rates
      /\ \A i \in DOMAIN checks : ~(checks[i].bad /\ checks[i].drops)
  <2>1. parse_display_range_limits(r, features, d) = Checked(checks, value)
    BY DEF parse_display_range_limits
  <2>2. value.rates = rates OBVIOUS
  <2> HIDE DEF value, checks
  <2> QED BY <2>1, <2>2, CheckedKept
<1>2. /\ {rates.min_vert, rates.max_vert, rates.min_horiz, rates.max_horiz} \subseteq 0..510
      /\ 0 \notin {d[5], d[6], d[7], d[8]} =>
           {rates.min_vert, rates.max_vert, rates.min_horiz, rates.max_horiz} \subseteq 1..510
  <2> DEFINE vert == RangeOffsets(r, get_bit_range(d[4], 1, 0))
             horiz == RangeOffsets(r, get_bit_range(d[4], 3, 2))
  <2>1. \A flags : RangeOffsets(r, flags)[1] \in {0, 255} /\ RangeOffsets(r, flags)[2] \in {0, 255}
    BY DEF RangeOffsets
  <2>2. d[5] \in 0..255 /\ d[6] \in 0..255 /\ d[7] \in 0..255 /\ d[8] \in 0..255
    BY DEF Bytes, Byte
  <2>3. /\ vert[1] \in {0, 255} /\ vert[2] \in {0, 255}
        /\ horiz[1] \in {0, 255} /\ horiz[2] \in {0, 255}
    BY <2>1
  <2>4. /\ rates.min_vert = d[5] + vert[2] /\ rates.max_vert = d[6] + vert[1]
        /\ rates.min_horiz = d[7] + horiz[2] /\ rates.max_horiz = d[8] + horiz[1]
    BY DEF RangeRates
  <2> HIDE DEF vert, horiz, rates
  <2> DEFINE Fits(x, n) == x \in 0..510 /\ (n # 0 => x \in 1..510)
  <2>5. /\ Fits(d[5] + vert[2], d[5]) /\ Fits(d[6] + vert[1], d[6])
        /\ Fits(d[7] + horiz[2], d[7]) /\ Fits(d[8] + horiz[1], d[8])
    <3>1. \A n \in 0..255 : \A o \in {0, 255} : Fits(n + o, n) OBVIOUS
    <3>2. Fits(d[5] + vert[2], d[5]) BY <2>2, <2>3, <3>1
    <3>3. Fits(d[6] + vert[1], d[6]) BY <2>2, <2>3, <3>1
    <3>4. Fits(d[7] + horiz[2], d[7]) BY <2>2, <2>3, <3>1
    <3>5. Fits(d[8] + horiz[1], d[8]) BY <2>2, <2>3, <3>1
    <3> HIDE DEF Fits
    <3> QED BY <3>2, <3>3, <3>4, <3>5
  <2>6. /\ Fits(rates.min_vert, d[5]) /\ Fits(rates.max_vert, d[6])
        /\ Fits(rates.min_horiz, d[7]) /\ Fits(rates.max_horiz, d[8])
    <3> HIDE DEF Fits
    <3> QED BY <2>4, <2>5
  <2>7. \A a, b, c, e, S : a \in S /\ b \in S /\ c \in S /\ e \in S => {a, b, c, e} \subseteq S
    OBVIOUS
  <2>8. \A a, b, c, e : 0 \notin {a, b, c, e} => a # 0 /\ b # 0 /\ c # 0 /\ e # 0 OBVIOUS
  <2>9. {rates.min_vert, rates.max_vert, rates.min_horiz, rates.max_horiz} \subseteq 0..510
    BY <2>6, <2>7
  <2>10. ASSUME 0 \notin {d[5], d[6], d[7], d[8]}
         PROVE  {rates.min_vert, rates.max_vert, rates.min_horiz, rates.max_horiz} \subseteq 1..510
    <3>1. d[5] # 0 /\ d[6] # 0 /\ d[7] # 0 /\ d[8] # 0 BY <2>8, <2>10
    <3> QED BY <2>6, <2>7, <3>1
  <2> QED BY <2>9, <2>10
<1> HIDE DEF rates
<1>3. ~(RangeOrder(rates)[1].bad /\ RangeOrder(rates)[1].drops)
      /\ ~(RangeOrder(rates)[2].bad /\ RangeOrder(rates)[2].drops)
  BY <1>1, RangeChecksAt DEF Parted, rates
<1>4. rates.min_vert <= rates.max_vert /\ rates.min_horiz <= rates.max_horiz
  <2>1. /\ RangeOrder(rates)[1].bad <=> rates.min_vert > rates.max_vert
        /\ RangeOrder(rates)[2].bad <=> rates.min_horiz > rates.max_horiz
        /\ RangeOrder(rates)[1].drops = TRUE /\ RangeOrder(rates)[2].drops = TRUE
    BY DEF RangeOrder, Refuse
  <2>2. ~RangeOrder(rates)[1].bad /\ ~RangeOrder(rates)[2].bad BY <1>3, <2>1
  <2>3. ~(rates.min_vert > rates.max_vert) /\ ~(rates.min_horiz > rates.max_horiz)
    BY <2>1, <2>2
  <2>4. /\ rates.min_vert \in 0..510 /\ rates.max_vert \in 0..510
        /\ rates.min_horiz \in 0..510 /\ rates.max_horiz \in 0..510
    BY <1>2
  <2> QED BY <2>3, <2>4, NotAbove, ZenonT(40)
<1>5. r <= 4 => 0 \notin {d[5], d[6], d[7], d[8]}
  <2>1. ~(RangeLimitChecks(r, d)[4].bad /\ RangeLimitChecks(r, d)[4].drops)
    BY <1>1, RangeChecksAt DEF Parted
  <2> QED BY <2>1 DEF RangeLimitChecks, Refuse
<1>6. r <= 4 => {rates.min_vert, rates.max_vert, rates.min_horiz, rates.max_horiz} \subseteq 1..510
  BY <1>2, <1>5, Zenon
<1> QED BY <1>1, <1>4, <1>6 DEF RatesInOrder

(* Range limits a client gets are in order, and in the known revisions     *)
(* between 1 and 510.                                                      *)
THEOREM Ranges == Spec => []RangeLimitsOrdered
<1>1. IInv => RangeLimitsOrdered
  <2> SUFFICES ASSUME IInv, kind = "range", Seen PROVE RangeLimitsOrdered
    BY DEF RangeLimitsOrdered
  <2>1. result = parse_display_range_limits(rev, context, data) /\ result.kept = TRUE
    BY DEF IInv, Decoded, Control, Seen
  <2>2. rev \in Nat BY DEF IInv, Given
  <2>3. RatesInOrder(rev, result.value.rates) BY <2>1, <2>2, RangeForm, RangeRatesKept
  <2> QED BY <2>3 DEF RangeLimitsOrdered, RatesInOrder
<1> QED BY <1>1, Invariant, PTL

-----------------------------------------------------------------------------
(* The fields of a byte, as quotients and remainders.                      *)
LEMMA Fields ==
  \A b \in Byte :
    /\ get_bit_range(b, 7, 4) = b \div 16 /\ get_bit_range(b, 3, 0) = b % 16
    /\ get_bit_range(b, 7, 6) = b \div 64 /\ get_bit_range(b, 5, 4) = (b \div 16) % 4
    /\ get_bit_range(b, 3, 2) = (b \div 4) % 4 /\ get_bit_range(b, 1, 0) = b % 4
    /\ get_bit_range(b, 6, 0) = b % 128
    /\ has_bit(b, 7) <=> b \div 128 = 1
<1>1. /\ 2^0 = 1 /\ 2^1 = 2 /\ 2^2 = 4 /\ 2^3 = 8 /\ 2^4 = 16 /\ 2^5 = 32 /\ 2^6 = 64 /\ 2^7 = 128
      /\ 7 - 4 + 1 = 4 /\ 3 - 0 + 1 = 4 /\ 7 - 6 + 1 = 2 /\ 5 - 4 + 1 = 2 /\ 3 - 2 + 1 = 2
      /\ 1 - 0 + 1 = 2 /\ 6 - 0 + 1 = 7
  OBVIOUS
<1>2. ASSUME NEW b \in Byte
      PROVE  get_bit_range(b, 7, 4) = b \div 16 /\ get_bit_range(b, 3, 0) = b % 16
  BY <1>1 DEF get_bit_range, Byte
<1>3. ASSUME NEW b \in Byte
      PROVE  get_bit_range(b, 7, 6) = b \div 64 /\ get_bit_range(b, 5, 4) = (b \div 16) % 4
  BY <1>1 DEF get_bit_range, Byte
<1>4. ASSUME NEW b \in Byte
      PROVE  get_bit_range(b, 3, 2) = (b \div 4) % 4 /\ get_bit_range(b, 1, 0) = b % 4
  BY <1>1 DEF get_bit_range, Byte
<1>5. ASSUME NEW b \in Byte PROVE get_bit_range(b, 6, 0) = b % 128
  BY <1>1 DEF get_bit_range, Byte
<1>6. ASSUME NEW b \in Byte PROVE has_bit(b, 7) <=> b \div 128 = 1
  BY <1>1 DEF has_bit, Byte
<1> QED BY <1>2, <1>3, <1>4, <1>5, <1>6

(* A word holds both its bytes.                                            *)
LEMMA Halves ==
  \A a, b \in Byte : /\ High(Word(a, b)) = a /\ Low(Word(a, b)) = b /\ Word(a, b) \in Nat
                     /\ (10 * Word(a, b)) \div 10 = Word(a, b)
BY DEF High, Low, Word, Byte

(* The fields that share a byte, put together again.                       *)
LEMMA Nibbles ==
  ASSUME NEW b \in Byte, NEW h, NEW l, h = b \div 16, l = b % 16
  PROVE  16 * h + l = b
BY DEF Byte
(* A byte is put together again from its four pairs of bits.               *)
LEMMA Pairs ==
  ASSUME NEW b \in Byte, NEW h, NEW i, NEW j, NEW l,
         h = b \div 64, i = (b \div 16) % 4, j = (b \div 4) % 4, l = b % 4
  PROVE  64 * h + 16 * i + 4 * j + l = b
BY DEF Byte
(* The ranges of the parts of a byte.                                      *)
LEMMA Parts ==
  \A b \in Byte :
    /\ b \div 16 \in 0..15 /\ b % 16 \in 0..15 /\ b \div 64 \in 0..3
    /\ (b \div 16) % 4 \in 0..3 /\ (b \div 4) % 4 \in 0..3 /\ b % 4 \in 0..3
<1>1. \A b \in Byte : b \div 16 \in 0..15 BY DEF Byte
<1>2. \A b \in Byte : b % 16 \in 0..15 BY DEF Byte
<1>3. \A b \in Byte : b \div 64 \in 0..3 BY DEF Byte
<1>4. \A b \in Byte : (b \div 16) % 4 \in 0..3 BY DEF Byte
<1>5. \A b \in Byte : (b \div 4) % 4 \in 0..3 BY DEF Byte
<1>6. \A b \in Byte : b % 4 \in 0..3 BY DEF Byte
<1> QED BY <1>1, <1>2, <1>3, <1>4, <1>5, <1>6
(* A field of two and four bits gives back both parts.                     *)
LEMMA Sixteens ==
  ASSUME NEW p \in 0..3, NEW n \in 0..15, NEW field, field = 16 * p + n
  PROVE  field % 16 = n /\ field \div 16 = p
OBVIOUS
(* Parts of a byte are bytes.                                              *)
LEMMA SmallBytes == 0..15 \subseteq Byte /\ 0..3 \subseteq Byte
BY DEF Byte

(* The fields of a detailed timing give back its bytes.                    *)
LEMMA DtdBytes ==
  ASSUME NEW d \in Bytes(0, 17)
  PROVE  LET t == _di_edid_parse_detailed_timing_def(d)
             unsized == IF t.image_mm = <<0, 0>> THEN 12..14 ELSE {}
         IN  \A k \in 0..16 \ unsized : DtdByte(t, k) = d[k]
<1> DEFINE t == _di_edid_parse_detailed_timing_def(d)
<1>0. \A k \in 0..17 : d[k] \in Byte BY DEF Bytes
<1>1. t.pixel_clock_khz = 10 * Word(d[1], d[0]) BY DEF
  _di_edid_parse_detailed_timing_def
<1>2. /\ t.horiz_video = Word(d[4] \div 16, d[2]) /\ t.horiz_blank = Word(d[4] % 16, d[3])
      /\ t.vert_video = Word(d[7] \div 16, d[5]) /\ t.vert_blank = Word(d[7] % 16, d[6])
  BY <1>0, Fields DEF _di_edid_parse_detailed_timing_def
<1>3. /\ t.horiz_front_porch = Word(d[11] \div 64, d[8])
      /\ t.horiz_sync_pulse = Word((d[11] \div 16) % 4, d[9])
  <2>1. get_bit_range(d[11], 7, 6) = d[11] \div 64 /\ get_bit_range(d[11], 5, 4) = (d[11] \div 16) % 4
    BY <1>0, Fields
  <2> QED BY <2>1 DEF _di_edid_parse_detailed_timing_def
<1>4. /\ t.vert_front_porch = 16 * ((d[11] \div 4) % 4) + d[10] \div 16
      /\ t.vert_sync_pulse = 16 * (d[11] % 4) + (d[10] % 16)
  <2>1. get_bit_range(d[11], 3, 2) = (d[11] \div 4) % 4 /\ get_bit_range(d[11], 1, 0) = d[11] % 4
    BY <1>0, Fields
  <2>2. get_bit_range(d[10], 7, 4) = d[10] \div 16 /\ get_bit_range(d[10], 3, 0) = d[10] % 16
    BY <1>0, Fields
  <2>3. t.vert_front_porch = 16 * get_bit_range(d[11], 3, 2) + get_bit_range(d[10], 7, 4)
    BY DEF _di_edid_parse_detailed_timing_def
  <2>4. t.vert_sync_pulse = 16 * get_bit_range(d[11], 1, 0) + get_bit_range(d[10], 3, 0)
    BY DEF _di_edid_parse_detailed_timing_def
  <2> HIDE DEF t
  <2>5. t.vert_front_porch = 16 * ((d[11] \div 4) % 4) + d[10] \div 16 BY <2>1, <2>2, <2>3, Zenon
  <2>6. t.vert_sync_pulse = 16 * (d[11] % 4) + (d[10] % 16) BY <2>1, <2>2, <2>4, Zenon
  <2> QED BY <2>5, <2>6
<1>5. t.horiz_border = d[15] /\ t.vert_border = d[16] BY DEF
  _di_edid_parse_detailed_timing_def
<1>6. ASSUME t.image_mm # <<0, 0>>
      PROVE  t.image_mm = <<Word(d[14] \div 16, d[12]), Word(d[14] % 16, d[13])>>
  BY <1>0, <1>6, Fields DEF _di_edid_parse_detailed_timing_def, ImageSize, Word
<1> HIDE DEF t
<1>7. /\ d[4] \div 16 \in Byte /\ d[4] % 16 \in Byte /\ d[7] \div 16 \in Byte /\ d[7] % 16 \in Byte
      /\ d[11] \div 64 \in Byte /\ (d[11] \div 16) % 4 \in Byte
      /\ d[14] \div 16 \in Byte /\ d[14] % 16 \in Byte
  BY <1>0, Parts, SmallBytes
<1>10. DtdByte(t, 0) = d[0] /\ DtdByte(t, 1) = d[1] BY <1>0, <1>1, Halves DEF DtdByte
<1>11. DtdByte(t, 2) = d[2] /\ DtdByte(t, 3) = d[3] BY <1>0, <1>2, <1>7, Halves DEF
  DtdByte
<1>12. DtdByte(t, 4) = d[4]
  <2>1. DtdByte(t, 4) = 16 * High(t.horiz_video) + High(t.horiz_blank) BY DEF DtdByte
  <2>2. High(t.horiz_video) = d[4] \div 16 /\ High(t.horiz_blank) = d[4] % 16
    BY <1>0, <1>2, <1>7, Halves
  <2>3. 16 * High(t.horiz_video) + High(t.horiz_blank) = d[4] BY <1>0, <2>2, Nibbles
  <2> QED BY <2>1, <2>3
<1>13. DtdByte(t, 5) = d[5] /\ DtdByte(t, 6) = d[6] BY <1>0, <1>2, <1>7, Halves DEF
  DtdByte
<1>14. DtdByte(t, 7) = d[7]
  <2>1. DtdByte(t, 7) = 16 * High(t.vert_video) + High(t.vert_blank) BY DEF DtdByte
  <2>2. High(t.vert_video) = d[7] \div 16 /\ High(t.vert_blank) = d[7] % 16
    BY <1>0, <1>2, <1>7, Halves
  <2>3. 16 * High(t.vert_video) + High(t.vert_blank) = d[7] BY <1>0, <2>2, Nibbles
  <2> QED BY <2>1, <2>3
<1>15. DtdByte(t, 8) = d[8] /\ DtdByte(t, 9) = d[9] BY <1>0, <1>3, <1>7, Halves DEF
  DtdByte
<1>8. /\ t.vert_front_porch % 16 = d[10] \div 16 /\ t.vert_sync_pulse % 16 = d[10] % 16
      /\ t.vert_front_porch \div 16 = (d[11] \div 4) % 4 /\ t.vert_sync_pulse \div 16 = d[11] % 4
  <2>1. /\ (d[11] \div 4) % 4 \in 0..3 /\ d[11] % 4 \in 0..3
        /\ d[10] \div 16 \in 0..15 /\ d[10] % 16 \in 0..15
    BY <1>0, Parts
  <2>2. t.vert_front_porch % 16 = d[10] \div 16 /\ t.vert_front_porch \div 16 = (d[11] \div 4) % 4
    BY <1>4, <2>1, Sixteens
  <2>3. t.vert_sync_pulse % 16 = d[10] % 16 /\ t.vert_sync_pulse \div 16 = d[11] % 4
    BY <1>4, <2>1, Sixteens
  <2> QED BY <2>2, <2>3
<1>16. DtdByte(t, 10) = d[10]
  <2>1. DtdByte(t, 10) = 16 * (t.vert_front_porch % 16) + (t.vert_sync_pulse % 16) BY
    DEF DtdByte
  <2>2. 16 * (t.vert_front_porch % 16) + (t.vert_sync_pulse % 16) = d[10] BY <1>0, <1>8, Nibbles
  <2> QED BY <2>1, <2>2
<1>17. DtdByte(t, 11) = d[11]
  <2>1. DtdByte(t, 11) = 64 * High(t.horiz_front_porch) + 16 * High(t.horiz_sync_pulse)
                           + 4 * (t.vert_front_porch \div 16) + t.vert_sync_pulse \div 16
    BY DEF DtdByte
  <2>2. /\ High(t.horiz_front_porch) = d[11] \div 64
        /\ High(t.horiz_sync_pulse) = (d[11] \div 16) % 4
    BY <1>0, <1>3, <1>7, Halves
  <2>3. 64 * High(t.horiz_front_porch) + 16 * High(t.horiz_sync_pulse)
          + 4 * (t.vert_front_porch \div 16) + t.vert_sync_pulse \div 16 = d[11]
    BY <1>0, <1>8, <2>2, Pairs
  <2> QED BY <2>1, <2>3
<1>18. ASSUME t.image_mm # <<0, 0>>
       PROVE  DtdByte(t, 12) = d[12] /\ DtdByte(t, 13) = d[13] /\ DtdByte(t, 14) = d[14]
  <2>1. t.image_mm[1] = Word(d[14] \div 16, d[12]) /\ t.image_mm[2] = Word(d[14] % 16, d[13])
    BY <1>6, <1>18
  <2>2. DtdByte(t, 12) = d[12] /\ DtdByte(t, 13) = d[13] BY <1>0, <1>7, <2>1, Halves DEF
    DtdByte
  <2>3. DtdByte(t, 14) = 16 * High(t.image_mm[1]) + High(t.image_mm[2]) BY DEF DtdByte
  <2>4. High(t.image_mm[1]) = d[14] \div 16 /\ High(t.image_mm[2]) = d[14] % 16
    BY <1>0, <1>7, <2>1, Halves
  <2>5. 16 * High(t.image_mm[1]) + High(t.image_mm[2]) = d[14] BY <1>0, <2>4, Nibbles
  <2> QED BY <2>2, <2>3, <2>5
<1>19. DtdByte(t, 15) = d[15] /\ DtdByte(t, 16) = d[16] BY <1>5 DEF DtdByte
<1>20. ASSUME NEW k \in 0..16, t.image_mm = <<0, 0>> => k \notin 12..14
       PROVE  DtdByte(t, k) = d[k]
  <2>1. \/ k = 0 \/ k = 1 \/ k = 2 \/ k = 3 \/ k = 4 \/ k = 5 \/ k = 6 \/ k = 7 \/ k = 8 \/ k = 9
        \/ k = 10 \/ k = 11 \/ k = 12 \/ k = 13 \/ k = 14 \/ k = 15 \/ k = 16
    OBVIOUS
  <2>2. k \in {12, 13, 14} => t.image_mm # <<0, 0>> BY <1>20
  <2> QED BY <2>1, <2>2, <1>10, <1>11, <1>12, <1>13, <1>14, <1>15, <1>16, <1>17, <1>18, <1>19
<1> QED BY <1>20 DEF t

(* The three bytes of a pixel clock.                                       *)
LEMMA ClockBytes ==
  \A a, b, c \in Byte :
    LET n == a + 256 * Word(c, b)
    IN  n % 256 = a /\ (n \div 256) % 256 = b /\ (n \div 65536) % 256 = c
<1> SUFFICES ASSUME NEW a \in Byte, NEW b \in Byte, NEW c \in Byte
             PROVE  LET n == a + 256 * Word(c, b)
                    IN  n % 256 = a /\ (n \div 256) % 256 = b /\ (n \div 65536) % 256 = c
  OBVIOUS
<1> DEFINE n == a + 256 * Word(c, b)
<1>1. n = a + 256 * b + 65536 * c BY DEF Word, Byte
<1>2. n % 256 = a BY <1>1 DEF Byte
<1>3. n \div 256 = b + 256 * c BY <1>1 DEF Byte
<1>4. (n \div 256) % 256 = b BY <1>3 DEF Byte
<1>5. n \div 65536 = c BY <1>1 DEF Byte
<1>6. c % 256 = c BY DEF Byte
<1> QED BY <1>2, <1>4, <1>5, <1>6
(* A clock is stored less one.                                             *)
LEMMA ClockLessOne ==
  ASSUME NEW a \in Byte, NEW b \in Byte, NEW c \in Byte, NEW clock,
         clock = 1 + a + 256 * Word(c, b)
  PROVE  a + 256 * Word(c, b) \in Nat /\ clock - 1 = a + 256 * Word(c, b)
BY DEF Byte, Word

(* A byte whose top bit is a flag.                                         *)
LEMMA Flagged ==
  \A b \in Byte : /\ get_bit_range(b, 6, 0) + (IF has_bit(b, 7) THEN 128 ELSE 0) = b
                  /\ get_bit_range(b, 6, 0) \in Byte
<1> SUFFICES ASSUME NEW b \in Byte
             PROVE  /\ get_bit_range(b, 6, 0) + (IF has_bit(b, 7) THEN 128 ELSE 0) = b
                    /\ get_bit_range(b, 6, 0) \in Byte
  OBVIOUS
<1>1. get_bit_range(b, 6, 0) = b % 128 /\ (has_bit(b, 7) <=> b \div 128 = 1) BY Fields
<1>2. CASE b \div 128 = 1 BY <1>1, <1>2 DEF Byte
<1>3. CASE b \div 128 # 1 BY <1>1, <1>3 DEF Byte
<1> QED BY <1>2, <1>3
(* So is a size.                                                           *)
LEMMA SizeLessOne ==
  ASSUME NEW a \in Byte, NEW b \in Byte, NEW size, size = 1 + Word(a, b)
  PROVE  size - 1 = Word(a, b)
BY DEF Byte, Word

(* The fields of a type I or VII timing give back its bytes.               *)
LEMMA TypeIBytes ==
  ASSUME NEW d, \A k \in 1..20 : d[k] \in Byte, NEW before
  PROVE  LET bytes == TimingBytes(_di_displayid_parse_type_1_7_timing(d, before).value)
         IN  DOMAIN bytes = 1..20 \ {4} /\ \A k \in 1..20 \ {4} : bytes[k] = d[k]
<1> DEFINE t == _di_displayid_parse_type_1_7_timing(d, before).value
           bytes == TimingBytes(t)
<1>1. /\ t.clock = 1 + d[1] + 256 * Word(d[3], d[2]) /\ t.sizes = TimingSizes(d)
      /\ t.horiz_sync_polarity <=> has_bit(d[10], 7)
      /\ t.vert_sync_polarity <=> has_bit(d[18], 7)
  BY DEF _di_displayid_parse_type_1_7_timing, Kept
<1>2. ASSUME NEW j \in 1..8
      PROVE  t.sizes[j] = 1 + Word(IF j \in {3, 7} THEN get_bit_range(d[2 * j + 4], 6, 0)
                                   ELSE d[2 * j + 4], d[2 * j + 3])
  BY <1>1 DEF TimingSizes
<1> HIDE DEF t
<1>3. DOMAIN bytes = 1..20 \ {4} BY DEF TimingBytes
<1>4. bytes[1] = d[1] /\ bytes[2] = d[2] /\ bytes[3] = d[3]
  <2> DEFINE n == d[1] + 256 * Word(d[3], d[2])
  <2>1. d[1] \in Byte /\ d[2] \in Byte /\ d[3] \in Byte OBVIOUS
  <2>2. n \in Nat /\ t.clock - 1 = n BY <1>1, <2>1, ClockLessOne
  <2>3. 256^(1 - 1) = 1 /\ 256^(2 - 1) = 256 /\ 256^(3 - 1) = 65536 OBVIOUS
  <2> HIDE DEF n
  <2>4. /\ bytes[1] = (n \div 1) % 256 /\ bytes[2] = (n \div 256) % 256
        /\ bytes[3] = (n \div 65536) % 256
    BY <2>2, <2>3 DEF TimingBytes
  <2>5. n \div 1 = n BY <2>2
  <2> QED BY <2>1, <2>4, <2>5, ClockBytes DEF n
<1>5. ASSUME NEW j \in 1..8
      PROVE  bytes[2 * j + 3] = d[2 * j + 3] /\ bytes[2 * j + 4] = d[2 * j + 4]
  <2>1. d[2 * j + 3] \in Byte /\ d[2 * j + 4] \in Byte OBVIOUS
  <2> DEFINE size == t.sizes[j] - 1
             polarity == IF 2 * j + 4 = 10 THEN t.horiz_sync_polarity
                         ELSE 2 * j + 4 = 18 /\ t.vert_sync_polarity
             hi == IF j \in {3, 7} THEN get_bit_range(d[2 * j + 4], 6, 0) ELSE d[2 * j + 4]
  <2>2. hi \in Byte BY <2>1, Flagged
  <2>3. size = Word(hi, d[2 * j + 3])
    <3>1. t.sizes[j] = 1 + Word(hi, d[2 * j + 3]) BY <1>2
    <3> HIDE DEF hi
    <3> QED BY <2>1, <2>2, <3>1, SizeLessOne
  <2>4. Low(size) = d[2 * j + 3] /\ High(size) = hi BY <2>1, <2>2, <2>3, Halves
  <2>5. /\ 2 * j + 3 \in 1..20 \ {4} /\ 2 * j + 4 \in 1..20 \ {4}
        /\ 2 * j + 3 > 3 /\ 2 * j + 4 > 3 /\ (2 * j + 3) % 2 = 1 /\ (2 * j + 4) % 2 # 1
        /\ (2 * j + 3 - 3) \div 2 = j /\ (2 * j + 4 - 3) \div 2 = j
    OBVIOUS
  <2>6. bytes[2 * j + 3] = Low(size) BY <2>5 DEF TimingBytes
  <2>7. bytes[2 * j + 4] = High(size) + (IF polarity THEN 128 ELSE 0) BY <2>5 DEF
    TimingBytes
  <2>8. hi + (IF polarity THEN 128 ELSE 0) = d[2 * j + 4]
    <3>1. CASE j = 3 BY <1>1, <2>1, <3>1, Flagged
    <3>2. CASE j = 7 BY <1>1, <2>1, <3>2, Flagged
    <3>3. CASE j \notin {3, 7} BY <2>1, <3>3 DEF Byte
    <3> QED BY <3>1, <3>2, <3>3
  <2> QED BY <2>4, <2>6, <2>7, <2>8
<1>6. ASSUME NEW k \in 1..20 \ {4} PROVE bytes[k] = d[k]
  <2>1. CASE k <= 3 BY <1>4, <2>1
  <2>2. CASE k > 3
    <3>1. (k - 3) \div 2 \in 1..8 BY <2>2
    <3>2. k = 2 * ((k - 3) \div 2) + 3 \/ k = 2 * ((k - 3) \div 2) + 4 BY <2>2
    <3> QED BY <1>5, <3>1, <3>2
  <2> QED BY <2>1, <2>2
<1> QED BY <1>3, <1>6 DEF t

(* A sequence of a length that is not 0 is not empty.                      *)
LEMMA LengthOne == \A s : Len(s) = 21 => s # <<>>
<1> SUFFICES ASSUME NEW s, Len(s) = 21, s = <<>> PROVE FALSE OBVIOUS
<1>1. Len(<<>>) = 0 OBVIOUS
<1>2. Len(s) = Len(<<>>) OBVIOUS
<1>3. 21 = 0 BY <1>1, <1>2
<1> QED BY <1>3

(* A type VII timing that is kept has 21 bytes, and is the timing of the   *)
(* last 20 of them.                                                        *)
LEMMA TypeViiKept ==
  ASSUME NEW d \in Seq(Byte), parse_did_type_vii_timing(d).kept = TRUE
  PROVE  /\ Len(d) = 21
         /\ parse_did_type_vii_timing(d).value = _di_displayid_parse_type_1_7_timing(Tail(d), 0).value
<1> DEFINE timing == _di_displayid_parse_type_1_7_timing(Tail(d), 0)
           checks == <<Refuse(Len(d) # 21, TRUE, "length"),
                       Refuse(get_bit_range(d[1], 6, 4) # 0, TRUE, "T7_M"),
                       Refuse(d[1] % 8 # 2, TRUE, "revision"),
                       Note(has_bit(d[1], 3), TRUE, "DSC_PT"),
                       Note(has_bit(d[1], 7), TRUE, "bit 7")>>
           header == Checked(checks, NULL)
<1>1. parse_did_type_vii_timing(d)
        = IF header.kept THEN Kept(timing.value, header.failures \cup timing.failures) ELSE header
  BY Zenon DEF parse_did_type_vii_timing
<1>2. 1 \in DOMAIN checks /\ checks[1].drops /\ (checks[1].bad <=> Len(d) # 21)
  <2>1. 1 \in DOMAIN checks /\ checks[1] = Refuse(Len(d) # 21, TRUE, "length") OBVIOUS
  <2>2. /\ Refuse(Len(d) # 21, TRUE, "length").drops
        /\ Refuse(Len(d) # 21, TRUE, "length").bad <=> Len(d) # 21
    BY DEF Refuse
  <2> HIDE DEF checks
  <2> QED BY <2>1, <2>2
<1> HIDE DEF checks, timing
<1>3. header.kept = TRUE
  <2>1. header.kept \in BOOLEAN BY DEF Checked, Kept, Dropped
  <2> HIDE DEF header
  <2> QED BY <1>1, <2>1
<1>4. Len(d) = 21 BY <1>2, <1>3, CheckedKept
<1>5. parse_did_type_vii_timing(d) = Kept(timing.value, header.failures \cup timing.failures)
  BY <1>1, <1>3
<1> QED BY <1>4, <1>5 DEF Kept, timing

(* The value of a timing determines the bytes it came from, but for an     *)
(* image size that is an aspect ratio, and the flags.                      *)
THEOREM LosslessTimings == Spec => []TimingLossless
<1>1. IInv => TimingLossless
  <2> SUFFICES ASSUME IInv, Seen PROVE TimingLossless BY DEF TimingLossless
  <2>0. result.kept = TRUE BY DEF IInv, Control
  <2>1. ASSUME kind = "dtd"
        PROVE  LET t == result.value
                   unsized == IF t.image_mm = <<0, 0>> THEN 12..14 ELSE {}
               IN  \A k \in 0..16 \ unsized : DtdByte(t, k) = data[k]
    <3>1. data \in Bytes(0, 17) BY <2>1 DEF IInv, Given, DataForm
    <3>2. result = Kept(_di_edid_parse_detailed_timing_def(data), {})
      BY <2>1 DEF IInv, Decoded, Seen
    <3>3. result.value = _di_edid_parse_detailed_timing_def(data) BY <3>2 DEF Kept
    <3> QED BY <3>1, <3>3, DtdBytes
  <2>2. ASSUME kind = "type_i"
        PROVE  LET bytes == TimingBytes(result.value)
               IN  \A k \in DOMAIN bytes : bytes[k] = data[k + 0]
    <3>1. data \in Bytes(1, 20) BY <2>2 DEF IInv, Given, DataForm
    <3>2. \A k \in 1..20 : data[k] \in Byte BY <3>1 DEF Bytes
    <3>3. result \in parse_type_i_timing(data) BY <2>2 DEF IInv, Decoded, Seen
    <3>4. PICK s : result = _di_displayid_parse_type_1_7_timing(data, s)
      BY <3>3 DEF parse_type_i_timing
    <3>5. /\ DOMAIN TimingBytes(result.value) = 1..20 \ {4}
          /\ \A k \in 1..20 \ {4} : TimingBytes(result.value)[k] = data[k]
      BY <3>2, <3>4, TypeIBytes
    <3>6. \A k \in 1..20 : k + 0 = k OBVIOUS
    <3> QED BY <3>5, <3>6
  <2>3. ASSUME kind = "type_vii"
        PROVE  LET bytes == TimingBytes(result.value)
               IN  \A k \in DOMAIN bytes : bytes[k] = data[k + 1]
    <3>0. data \in Payload BY <2>3 DEF IInv, Given, DataForm
    <3>1. data \in Seq(Byte) BY <3>0 DEF Payload
    <3>2. result = parse_did_type_vii_timing(data) BY <2>3 DEF IInv, Decoded, Seen
    <3>3. /\ Len(data) = 21
          /\ result.value = _di_displayid_parse_type_1_7_timing(Tail(data), 0).value
      BY <2>0, <3>1, <3>2, TypeViiKept
    <3>4. \A k \in 1..20 : Tail(data)[k] = data[k + 1]
      <4>1. data # <<>>
        <5>1. Len(data) = 21 BY <3>3
        <5> QED BY <5>1, LengthOne
      <4>2. ASSUME NEW k \in 1..20 PROVE Tail(data)[k] = data[k + 1]
        <5>1. k \in 1..(Len(data) - 1) BY <3>3
        <5> QED BY <3>1, <4>1, <5>1
      <4> QED BY <4>2
    <3>6. \A k \in 1..20 : Tail(data)[k] \in Byte
      <4>1. ASSUME NEW k \in 1..20 PROVE data[k + 1] \in Byte
        <5>1. k + 1 \in 1..Len(data) BY <3>3
        <5> QED BY <3>1, <5>1
      <4> QED BY <3>4, <4>1
    <3>5. /\ DOMAIN TimingBytes(result.value) = 1..20 \ {4}
          /\ \A k \in 1..20 \ {4} : TimingBytes(result.value)[k] = Tail(data)[k]
      <4> DEFINE tail == Tail(data)
                 value == _di_displayid_parse_type_1_7_timing(tail, 0).value
      <4>1. \A k \in 1..20 : tail[k] \in Byte BY <3>6
      <4> HIDE DEF tail
      <4>2. DOMAIN TimingBytes(value) = 1..20 \ {4} BY <4>1, TypeIBytes
      <4>3. \A k \in 1..20 \ {4} : TimingBytes(value)[k] = tail[k] BY <4>1, TypeIBytes
      <4> QED BY <3>3, <4>2, <4>3 DEF tail
    <3> QED BY <3>4, <3>5
  <2> QED BY <2>1, <2>2, <2>3 DEF TimingLossless
<1> QED BY <1>1, Invariant, PTL


(* A set with at most one element has a cardinality of at most one.        *)
LEMMA AtMostOne == \A S, x : S \subseteq {x} => Cardinality(S) <= 1
<1> SUFFICES ASSUME NEW S, NEW x, S \subseteq {x} PROVE Cardinality(S) <= 1 OBVIOUS
<1>1. CASE S = {} BY <1>1, FS_EmptySet
<1>2. CASE S = {x} BY <1>2, FS_Singleton
<1> QED BY <1>1, <1>2

(* A line of a CVT code is marked just when it is made so.                 *)
LEMMA CvtLineMarked ==
  ASSUME NEW code, NEW hz, NEW reduced, NEW preferred \in BOOLEAN
  PROVE  CvtLine(code, hz, reduced, preferred).preferred <=> preferred
BY DEF CvtLine

(* Of the lines of a CVT code, at most the one of the preferred rate is    *)
(* marked: the reduced one if both are printed, and none if neither is.    *)
LEMMA CvtMarked ==
  ASSUME NEW code, code.reduced_60hz \in BOOLEAN
  PROVE  \E x : \A l \in CvtLines(code) : l.preferred => l = x
<1> DEFINE both == code.preferred = 60 /\ code.reduced_60hz
           reduced == CvtLine(code, 60, TRUE, code.preferred = 60)
           standard(hz) == CvtLine(code, hz, FALSE,
                                   code.preferred = hz /\ ~(hz = 60 /\ code.reduced_60hz))
<1>1. \A l \in CvtLines(code) : \/ \E hz \in code.standard : l = standard(hz)
                                \/ code.reduced_60hz /\ l = reduced
  BY DEF CvtLines, If
<1>2. \A hz : standard(hz).preferred => code.preferred = hz /\ ~(hz = 60 /\ code.reduced_60hz)
  BY CvtLineMarked
<1>3. reduced.preferred => code.preferred = 60 BY CvtLineMarked
<1> HIDE DEF reduced, standard
<1>4. CASE both BY <1>1, <1>2, <1>4
<1>5. CASE ~both BY <1>1, <1>2, <1>3, <1>5
<1> QED BY <1>4, <1>5

(* Some line is marked just when the preferred rate is one of the printed. *)
LEMMA CvtMarksOne ==
  ASSUME NEW code, code.reduced_60hz \in BOOLEAN
  PROVE  (\E l \in CvtLines(code) : l.preferred) <=> is_preferred_vrate_supported(code)
<1> DEFINE reduced == CvtLine(code, 60, TRUE, code.preferred = 60)
           standard(hz) == CvtLine(code, hz, FALSE,
                                   code.preferred = hz /\ ~(hz = 60 /\ code.reduced_60hz))
<1>1. CvtLines(code) = {standard(hz) : hz \in code.standard}
                         \cup (IF code.reduced_60hz THEN {reduced} ELSE {})
  BY DEF CvtLines, If
<1>2. \A hz : standard(hz).preferred <=> code.preferred = hz /\ ~(hz = 60 /\ code.reduced_60hz)
  BY CvtLineMarked
<1>3. reduced.preferred <=> code.preferred = 60 BY CvtLineMarked
<1> HIDE DEF reduced, standard
<1>4. ASSUME is_preferred_vrate_supported(code) PROVE \E l \in CvtLines(code) : l.preferred
  <2>1. CASE code.preferred = 60 /\ code.reduced_60hz BY <1>1, <1>3, <2>1
  <2>2. CASE ~(code.preferred = 60 /\ code.reduced_60hz)
    <3>1. standard(code.preferred) \in CvtLines(code)
      BY <1>1, <1>4, <2>2 DEF is_preferred_vrate_supported
    <3>2. standard(code.preferred).preferred BY <1>2, <2>2
    <3> QED BY <3>1, <3>2
  <2> QED BY <2>1, <2>2
<1>5. ASSUME NEW l \in CvtLines(code), l.preferred PROVE is_preferred_vrate_supported(code)
  <2>1. CASE l = reduced /\ code.reduced_60hz
    BY <1>3, <1>5, <2>1 DEF is_preferred_vrate_supported
  <2>2. CASE \E hz \in code.standard : l = standard(hz)
    BY <1>2, <1>5, <2>2 DEF is_preferred_vrate_supported
  <2> QED BY <1>1, <2>1, <2>2
<1> QED BY <1>4, <1>5

(* One line of a CVT code is marked as the preferred rate, and none only   *)
(* where the code names a rate it does not support, which is reported.     *)
THEOREM OneMark == Spec => []PreferredMarkedOnce
<1>1. IInv => PreferredMarkedOnce
  <2> SUFFICES ASSUME IInv, kind = "cvt", pc = "printed"
               PROVE  LET marked == {l \in lines : l[2].preferred}
                      IN  /\ Cardinality(marked) <= 1
                          /\ marked = {} <=> "CVT preferred" \in result.failures
    BY DEF PreferredMarkedOnce
  <2> DEFINE code == CvtTimingCode(data)
             marked == {l \in lines : l[2].preferred}
  <2>1. result.kept = TRUE BY DEF IInv, Control, Seen
  <2>2. result = parse_cvt_timing_code(data, context) BY DEF IInv, Decoded
  <2>3. /\ result.value = code
        /\ "CVT preferred" \in result.failures <=> ~is_preferred_vrate_supported(code)
    BY <2>1, <2>2 DEF parse_cvt_timing_code, Kept, Dropped, Always
  <2>4. lines = {<<"CVT", line>> : line \in CvtLines(code)} BY <2>3 DEF IInv, Printed
  <2>5. code.reduced_60hz \in BOOLEAN BY DEF CvtTimingCode, has_bit
  <2> HIDE DEF code
  <2>6. \A l \in lines : \E line \in CvtLines(code) : l = <<"CVT", line>> /\ l[2] = line
    BY <2>4
  <2>7. \A line \in CvtLines(code) : \E l \in lines : l = <<"CVT", line>> /\ l[2] = line
    <3> SUFFICES ASSUME NEW line \in CvtLines(code)
                 PROVE  \E l \in lines : l = <<"CVT", line>> /\ l[2] = line
      OBVIOUS
    <3>1. <<"CVT", line>> \in lines BY <2>4
    <3>2. <<"CVT", line>>[2] = line OBVIOUS
    <3> QED BY <3>1, <3>2
  <2>8. PICK x : \A l \in CvtLines(code) : l.preferred => l = x BY <2>5, CvtMarked
  <2>9. marked \subseteq {<<"CVT", x>>} BY <2>6, <2>8
  <2>10. Cardinality(marked) <= 1 BY <2>9, AtMostOne
  <2>11. marked = {} <=> ~is_preferred_vrate_supported(code)
    BY <2>5, <2>6, <2>7, CvtMarksOne
  <2> QED BY <2>3, <2>10, <2>11
<1> QED BY <1>1, Invariant, PTL

(* The least number of a set is the least of every part that reaches it.   *)
LEMMA MinOfFirst ==
  ASSUME NEW S \in SUBSET Nat, NEW T \in SUBSET S, T # {},
         \A k \in S \ T : \A j \in T : j <= k
  PROVE  Min(T) = Min(S)
<1>1. T \in SUBSET Nat /\ S # {} OBVIOUS
<1>2. Min(T) \in T /\ \A k \in T : Min(T) <= k BY <1>1, MinIsLeast
<1>3. Min(S) \in S /\ \A k \in S : Min(S) <= k BY <1>1, MinIsLeast
<1>4. Min(T) <= Min(S) BY <1>2, <1>3
<1>5. Min(S) <= Min(T) BY <1>2, <1>3
<1>6. Min(T) \in Nat /\ Min(S) \in Nat BY <1>2, <1>3
<1> QED BY <1>4, <1>5, <1>6

(* The first hit is the first hit of every beginning that has one.         *)
LEMMA FirstOfPrefix ==
  ASSUME NEW L \in Nat, NEW n \in 0..L, NEW s, NEW t, NEW P \in SUBSET (1..L), NEW none,
         P \cap (1..n) # {}, \A k \in 1..n : t[k] = s[k]
  PROVE  FirstOf(t, P \cap (1..n), none) = FirstOf(s, P, none)
<1> DEFINE T == P \cap (1..n)
<1>1. P \in SUBSET Nat /\ T \in SUBSET P OBVIOUS
<1>2. \A k \in P \ T : \A j \in T : j <= k OBVIOUS
<1>3. Min(T) = Min(P) BY <1>1, <1>2, MinOfFirst
<1>4. Min(T) \in T
  <2>1. T \in SUBSET Nat OBVIOUS
  <2> QED BY <2>1, MinIsLeast
<1>5. t[Min(T)] = s[Min(P)] BY <1>3, <1>4
<1>6. P # {} OBVIOUS
<1> QED BY <1>5, <1>6 DEF FirstOf

(* The first extensions of an EDID.                                        *)
LEMMA Earlier ==
  ASSUME NEW A, NEW exts \in Seq(A), NEW n \in 0..Len(exts)
  PROVE  /\ DOMAIN SubSeq(exts, 1, n) = 1..n
         /\ \A k \in 1..n : SubSeq(exts, 1, n)[k] = exts[k]
         /\ 1..n \subseteq DOMAIN exts
OBVIOUS

(* A data block found in the first extensions is the one found in all.     *)
LEMMA CtaBlockOfFirst ==
  ASSUME NEW A, NEW exts \in Seq(A), NEW n \in 0..Len(exts), NEW tag,
         Says(SubSeq(exts, 1, n), tag)
  PROVE  di_edid_get_cta_data_block(SubSeq(exts, 1, n), tag)
           = di_edid_get_cta_data_block(exts, tag)
<1> DEFINE earlier == SubSeq(exts, 1, n)
           P == {k \in DOMAIN exts : Has(exts[k], "cta", tag)}
           Q == {k \in DOMAIN earlier : Has(earlier[k], "cta", tag)}
           s == [k \in DOMAIN exts |-> FirstWithTag(exts[k].blocks, tag)]
           t == [k \in DOMAIN earlier |-> FirstWithTag(earlier[k].blocks, tag)]
<1>1. /\ DOMAIN earlier = 1..n
      /\ \A k \in 1..n : earlier[k] = exts[k]
      /\ 1..n \subseteq DOMAIN exts
  BY Earlier
<1>2. DOMAIN exts = 1..Len(exts) /\ Len(exts) \in Nat OBVIOUS
<1>3. PICK k \in DOMAIN earlier : Has(earlier[k], "cta", tag) BY DEF Says, Range, Has
<1> HIDE DEF earlier
<1>4. Q = P \cap (1..n) BY <1>1
<1>5. Q # {} BY <1>3
<1>6. \A j \in 1..n : t[j] = s[j] BY <1>1
<1>7. P \in SUBSET (1..Len(exts)) BY <1>2
<1>8. FirstOf(t, Q, NULL) = FirstOf(s, P, NULL)
  <2> HIDE DEF P, Q, s, t
  <2> QED BY <1>2, <1>4, <1>5, <1>6, <1>7, FirstOfPrefix
<1> QED BY <1>8 DEF di_edid_get_cta_data_block, earlier

(* The same of the gamma, which the first DisplayID extension decides.     *)
LEMMA GammaOfFirst ==
  ASSUME NEW A, NEW exts \in Seq(A), NEW n \in 0..Len(exts), NEW srgb, NEW gamma,
         \E e \in Range(SubSeq(exts, 1, n)) : e.tag = "displayid"
  PROVE  di_info_get_default_gamma(SubSeq(exts, 1, n), srgb, gamma)
           = di_info_get_default_gamma(exts, srgb, gamma)
<1> DEFINE earlier == SubSeq(exts, 1, n)
           P == {k \in DOMAIN exts : exts[k].tag = "displayid"}
           Q == {k \in DOMAIN earlier : earlier[k].tag = "displayid"}
           s == [k \in DOMAIN exts |-> FirstWithTag(exts[k].blocks, "display_params")]
           t == [k \in DOMAIN earlier |-> FirstWithTag(earlier[k].blocks, "display_params")]
<1>1. /\ DOMAIN earlier = 1..n
      /\ \A k \in 1..n : earlier[k] = exts[k]
      /\ 1..n \subseteq DOMAIN exts
  BY Earlier
<1>2. DOMAIN exts = 1..Len(exts) /\ Len(exts) \in Nat OBVIOUS
<1>3. PICK k \in DOMAIN earlier : earlier[k].tag = "displayid" BY DEF Range
<1> HIDE DEF earlier
<1>4. Q = P \cap (1..n) BY <1>1
<1>5. Q # {} BY <1>3
<1>6. \A j \in 1..n : t[j] = s[j] BY <1>1
<1>7. P \in SUBSET (1..Len(exts)) BY <1>2
<1>8. FirstOf(t, Q, NULL) = FirstOf(s, P, NULL)
  <2> HIDE DEF P, Q, s, t
  <2> QED BY <1>2, <1>4, <1>5, <1>6, <1>7, FirstOfPrefix
<1> QED BY <1>8 DEF di_info_get_default_gamma, earlier

(* An extension can only add: what an earlier one said of metadata,        *)
(* colorimetry or gamma is what a client gets, whatever comes behind it.   *)
THEOREM FirstWins == Spec => []FirstExtensionWins
<1>1. IInv => FirstExtensionWins
  <2> SUFFICES ASSUME IInv, kind = "info", Seen, NEW n \in 0..Len(data.exts)
               PROVE  LET earlier == SubSeq(data.exts, 1, n)
                          answers == Answers([data EXCEPT !.exts = earlier])
                      IN  /\ Says(earlier, "hdr_static_metadata")
                               => answers.hdr = result.value.hdr
                          /\ Says(earlier, "colorimetry")
                               => answers.colorimetry = result.value.colorimetry
                          /\ (\E e \in Range(earlier) : e.tag = "displayid")
                               => answers.gamma = result.value.gamma
    BY DEF FirstExtensionWins
  <2> DEFINE earlier == SubSeq(data.exts, 1, n)
             first == [data EXCEPT !.exts = earlier]
             A == [tag : {"cta", "displayid", "opaque"},
                   blocks : Seq([tag : STRING, value : BlockValues])]
  <2>1. data \in InfoData BY DEF IInv, Given, DataForm
  <2>2. data.exts \in Seq(A) BY <2>1 DEF InfoData
  <2>3. first.exts = earlier /\ first.srgb = data.srgb /\ first.gamma = data.gamma
    BY <2>1 DEF InfoData
  <2>4. result.value = Answers(data) BY DEF IInv, Decoded, Seen, Kept
  <2> HIDE DEF A, first
  <2>5. /\ Answers(first).hdr = derive_edid_hdr_static_metadata(earlier)
        /\ Answers(first).colorimetry = derive_edid_supported_signal_colorimetry(earlier)
        /\ Answers(first).gamma = di_info_get_default_gamma(earlier, data.srgb, data.gamma)
    BY <2>3 DEF Answers
  <2>6. /\ result.value.hdr = derive_edid_hdr_static_metadata(data.exts)
        /\ result.value.colorimetry = derive_edid_supported_signal_colorimetry(data.exts)
        /\ result.value.gamma = di_info_get_default_gamma(data.exts, data.srgb, data.gamma)
    BY <2>4 DEF Answers
  <2>7. ASSUME Says(earlier, "hdr_static_metadata")
        PROVE  Answers(first).hdr = result.value.hdr
    <3>1. di_edid_get_cta_data_block(earlier, "hdr_static_metadata")
            = di_edid_get_cta_data_block(data.exts, "hdr_static_metadata")
      BY <2>2, <2>7, CtaBlockOfFirst
    <3> QED BY <2>5, <2>6, <3>1 DEF derive_edid_hdr_static_metadata
  <2>8. ASSUME Says(earlier, "colorimetry")
        PROVE  Answers(first).colorimetry = result.value.colorimetry
    <3>1. di_edid_get_cta_data_block(earlier, "colorimetry")
            = di_edid_get_cta_data_block(data.exts, "colorimetry")
      BY <2>2, <2>8, CtaBlockOfFirst
    <3> QED BY <2>5, <2>6, <3>1 DEF derive_edid_supported_signal_colorimetry
  <2>9. ASSUME \E e \in Range(earlier) : e.tag = "displayid"
        PROVE  Answers(first).gamma = result.value.gamma
    <3>1. di_info_get_default_gamma(earlier, data.srgb, data.gamma)
            = di_info_get_default_gamma(data.exts, data.srgb, data.gamma)
      BY <2>2, <2>9, GammaOfFirst
    <3> QED BY <2>5, <2>6, <3>1
  <2> QED BY <2>7, <2>8, <2>9 DEF first
<1> QED BY <1>1, Invariant, PTL

-----------------------------------------------------------------------------
(* Lines that are not the one of an abort.                                 *)
LEMMA NotAbort == \A S : <<"abort">> \notin S => S # Abort
BY DEF Abort

(* A line of several parts is not the line of an abort.                    *)
LEMMA LongLine ==
  \A w, a, b, c : /\ <<w, a>> # <<"abort">> /\ <<w, a, b>> # <<"abort">>
                  /\ <<w, a, b, c>> # <<"abort">>
OBVIOUS

(* A line under a condition is not the line of an abort.                   *)
LEMMA IfLine ==
  ASSUME NEW condition, NEW line, line # <<"abort">>
  PROVE  <<"abort">> \notin If(condition, line)
BY DEF If

(* A model year, a week or a year is printed.                              *)
LEMMA VendorTotal == \A v : VendorLines(v) # Abort
BY LongLine, NotAbort DEF VendorLines

(* The interface of a digital input is one that has a name.                *)
LEMMA DigitalInterface ==
  ASSUME NEW r \in Nat, NEW byte \in Byte
  PROVE  parse_video_input_digital(r, byte).value.interface \in Interfaces
<1>1. CASE r < 2 BY <1>1 DEF parse_video_input_digital, Kept, Interfaces
<1>2. CASE r \in 2..3 BY <1>2 DEF parse_video_input_digital, Kept, Interfaces
<1>3. CASE r >= 4 BY <1>3 DEF parse_video_input_digital, Kept, Interfaces
<1> QED BY <1>1, <1>2, <1>3

(* From 1.4 on every EDID has a preferred timing, as the printer asserts.  *)
LEMMA BasicTotal ==
  ASSUME NEW r \in Nat, NEW d \in Bytes(20, 24)
  PROVE  BasicLines(r, parse_basic_params_features(r, d).value) # Abort
<1> DEFINE v == parse_basic_params_features(r, d).value
<1>1. v.is_digital => v.video_input.interface \in Interfaces
  <2>1. d[20] \in Byte BY DEF Bytes
  <2> QED BY <2>1, DigitalInterface DEF parse_basic_params_features, Kept
<1>2. r >= 4 => v.misc_features.has_preferred_timing
  BY DEF parse_basic_params_features, Kept, MiscFeatures
<1>3. v.screen_size # <<"abort">>
  BY LongLine DEF parse_basic_params_features, Kept, ScreenSize
<1> HIDE DEF v
<1>4. /\ <<"Digital display">> # <<"abort">> /\ <<"Analog display">> # <<"abort">>
      /\ <<"DFP 1.x">> # <<"abort">> /\ <<"sRGB">> # <<"abort">>
      /\ <<"Preferred">> # <<"abort">> /\ <<"Continuous">> # <<"abort">>
      /\ <<"Default GTF">> # <<"abort">>
  OBVIOUS
<1>5. <<"abort">> \notin BasicLines(r, v)
  BY <1>1, <1>2, <1>3, <1>4, IfLine, LongLine DEF BasicLines
<1> QED BY <1>5, NotAbort DEF v

(* The preferred aspect ratio of range limits that are kept has a name.    *)
LEMMA RangeTotal ==
  ASSUME NEW r \in Nat, NEW features, NEW d \in Bytes(4, 17),
         parse_display_range_limits(r, features, d).kept = TRUE
  PROVE  /\ RangeLines(r, parse_display_range_limits(r, features, d).value) # Abort
         /\ parse_display_range_limits(r, features, d).value.type
              \in {"bare", "default GTF", "secondary GTF", "CVT"}
<1> DEFINE checks == RangeChecks(r, features, d)
           class == RangeClassChecks(r, features, d)
           type == RangeType(r, features, d[10])
           value == [rates |-> RangeRates(r, d), type |-> type, detail |-> RangeDetail(type, d)]
<1>1. /\ parse_display_range_limits(r, features, d).value = value
      /\ \A i \in DOMAIN checks : ~(checks[i].bad /\ checks[i].drops)
  <2>1. parse_display_range_limits(r, features, d) = Checked(checks, value)
    BY DEF parse_display_range_limits
  <2> HIDE DEF value, checks
  <2> QED BY <2>1, CheckedKept
<1>2. \A i \in 1..11 : ~(class[i].bad /\ class[i].drops)
  <2>1. /\ DOMAIN checks = 1..17
        /\ \A i \in 1..11 : checks[6 + i] = class[i]
    BY RangeChecksAt DEF Parted
  <2> HIDE DEF checks, class
  <2>2. ASSUME NEW i \in 1..11 PROVE ~(class[i].bad /\ class[i].drops)
    <3>1. 6 + i \in 1..17 OBVIOUS
    <3> QED BY <1>1, <2>1, <3>1
  <2> QED BY <2>2
<1>3. type # "refused"
  <2>1. class[2] = Refuse(type = "refused", TRUE, "range class") BY DEF RangeClassChecks
  <2>2. /\ Refuse(type = "refused", TRUE, "range class").drops
        /\ Refuse(type = "refused", TRUE, "range class").bad <=> type = "refused"
    BY DEF Refuse
  <2> HIDE DEF class, type
  <2>3. ~(class[2].bad /\ class[2].drops) BY <1>2
  <2> QED BY <2>1, <2>2, <2>3
<1>4. type \in {"bare", "default GTF", "secondary GTF", "CVT"} BY <1>3 DEF RangeType
<1>5. type = "CVT" => ~(get_bit_range(d[15], 7, 5) > 4)
  <2>1. class[8] = Refuse(type = "CVT" /\ get_bit_range(d[15], 7, 5) > 4, r <= 4, "preferred aspect")
    BY DEF RangeClassChecks
  <2> DEFINE wide == type = "CVT" /\ get_bit_range(d[15], 7, 5) > 4
  <2>2. /\ Refuse(wide, r <= 4, "preferred aspect").drops
        /\ Refuse(wide, r <= 4, "preferred aspect").bad <=> wide
    BY DEF Refuse
  <2> HIDE DEF class
  <2>3. ~(class[8].bad /\ class[8].drops) BY <1>2
  <2>4. class[8].drops /\ (class[8].bad <=> wide) BY <2>1, <2>2
  <2> QED BY <2>3, <2>4
<1>6. get_bit_range(d[15], 7, 5) \in 0..7
  <2>1. d[15] \in Byte BY DEF Bytes
  <2>2. 7 - 5 + 1 = 3 /\ 2^3 = 8 /\ 2^5 = 32 OBVIOUS
  <2> QED BY <2>1, <2>2 DEF get_bit_range, Byte
<1>7. type = "CVT" => value.detail.preferred_aspect_ratio + 1 \in DOMAIN RangeAspects
  <2>1. type = "CVT" => value.detail.preferred_aspect_ratio = get_bit_range(d[15], 7, 5)
    BY DEF RangeDetail
  <2>2. DOMAIN RangeAspects = 1..5 BY DEF RangeAspects
  <2>3. \A a \in 0..7 : ~(a > 4) => a + 1 \in 1..5 OBVIOUS
  <2> QED BY <1>5, <1>6, <2>1, <2>2, <2>3
<1>8. value.type = type OBVIOUS
<1> HIDE DEF value, type
<1>9. <<"abort">> \notin RangeLines(r, value)
  <2>1. <<"GTF Secondary Curve Block">> # <<"abort">> OBVIOUS
  <2> QED BY <1>7, <1>8, <2>1, IfLine, LongLine DEF RangeLines
<1> QED BY <1>1, <1>4, <1>8, <1>9, NotAbort

(* A standard timing is printed as a DMT or as a GTF timing.               *)
LEMMA StandardTotal == \A t : {StandardLine(t)} # Abort
BY LongLine, NotAbort DEF StandardLine

(* A reference of a kind that is kept is one of the four kinds.            *)
LEMMA SvrKinds ==
  ASSUME NEW code \in Byte, parse_svr(code).kept = TRUE
  PROVE  parse_svr(code).value.type \in {"VIC", "DTD", "VTDB", "T8VTDB"}
<1>1. \/ code \in {0, 128, 255} \cup 161..192 \/ code \in 1..127 \cup 193..253
      \/ code \in 129..144 \/ code \in 145..160 \/ code = 254
  BY DEF Byte
<1>2. CASE code \in {0, 128, 255} \cup 161..192 BY <1>2 DEF parse_svr, Dropped
<1>3. CASE code \in 1..127 \cup 193..253 BY <1>3 DEF parse_svr, Kept
<1>4. CASE code \in 129..144 BY <1>4 DEF parse_svr, Kept
<1>5. CASE code \in 145..160 BY <1>5 DEF parse_svr, Kept
<1>6. CASE code = 254 BY <1>6 DEF parse_svr, Kept
<1> QED BY <1>1, <1>2, <1>3, <1>4, <1>5, <1>6

(* Each of the four kinds of reference has a line.                         *)
LEMMA SvrTotal ==
  ASSUME NEW svr, svr.type \in {"VIC", "DTD", "VTDB", "T8VTDB"}
  PROVE  {SvrLine(svr)} # Abort
<1>1. <<"T8VTDB">> # <<"abort">> OBVIOUS
<1>2. SvrLine(svr) # <<"abort">> BY <1>1, LongLine DEF SvrLine
<1> QED BY <1>2, NotAbort

(* An audio format that is not reserved has a name.                        *)
LEMMA FormatNamed ==
  ASSUME NEW code, NEW ext, parse_sad_format(code, ext) # "reserved"
  PROVE  parse_sad_format(code, ext) \in AudioFormatNames
<1>1. CASE code \in DOMAIN AudioFormats
  BY <1>1 DEF parse_sad_format, AudioFormatNames, Range
<1>2. CASE code \notin DOMAIN AudioFormats
  <2>1. code = 15 /\ ext \in DOMAIN AudioFormatsExt
    BY <1>2 DEF parse_sad_format
  <2>2. parse_sad_format(code, ext) = AudioFormatsExt[ext] BY <1>2, <2>1 DEF
    parse_sad_format
  <2> QED BY <2>1, <2>2 DEF AudioFormatNames, Range
<1> QED BY <1>1, <1>2

(* The lines of a descriptor with a named format and, if it is MPEG-H, a   *)
(* known level.                                                            *)
LEMMA SadLinesTotal ==
  ASSUME NEW sad, sad.format \in AudioFormatNames,
         sad.format = "MPEGH_3D" => sad.detail.level \in 0..5
  PROVE  <<"abort">> \notin SadLines(sad)
BY IfLine, LongLine DEF SadLines

(* A short audio descriptor that is kept has a format with a name, and a   *)
(* level with one, a level above 5 being cleared.                          *)
LEMMA SadTotal ==
  ASSUME NEW r, NEW d \in Byte \X Byte \X Byte, parse_sad(r, d).kept = TRUE
  PROVE  /\ SadLines(parse_sad(r, d).value) # Abort
         /\ parse_sad(r, d).value.max_channels \in 0..32
<1> DEFINE format == parse_sad_format(get_bit_range(d[1], 6, 3), get_bit_range(d[3], 7,
  3))
           value == [format |-> format, max_channels |-> MaxChannels(format, d),
                     rates |-> SampleRates(format, d[2]), detail |-> SadDetail(format, d)]
<1>0. d[1] \in Byte /\ d[2] \in Byte OBVIOUS
<1>1. format # "reserved" /\ parse_sad(r, d).value = value BY DEF parse_sad, Kept,
  Dropped
<1>2. format \in AudioFormatNames BY <1>1, FormatNamed
<1>3. /\ value.format = format /\ value.detail = SadDetail(format, d)
      /\ value.max_channels = MaxChannels(format, d)
  OBVIOUS
<1>4. format = "MPEGH_3D" => SadDetail(format, d).level \in 0..5
  <2>1. SadDetail("MPEGH_3D", d).level = IF d[1] % 8 > 5 THEN 0 ELSE d[1] % 8
    BY DEF SadDetail, Bitrated, Mpeg4
  <2>2. \A b \in Byte : (IF b % 8 > 5 THEN 0 ELSE b % 8) \in 0..5 BY DEF Byte
  <2> HIDE DEF format
  <2> QED BY <1>0, <2>1, <2>2
<1>5. MaxChannels(format, d) \in 0..32
  <2>1. \A b \in Byte : b % 8 \in 0..7 BY DEF Byte
  <2>2. \A b \in Byte : get_bit_range(b, 7, 7) \in 0..1
    <3>1. 7 - 7 + 1 = 1 /\ 2^1 = 2 /\ 2^7 = 128 OBVIOUS
    <3> QED BY <3>1 DEF get_bit_range, Byte
  <2>3. \A n \in 0..7, i \in 0..1, j \in 0..1 : 1 + n \in 0..32 /\ 1 + n + 8 * i + 16 * j \in 0..32
    OBVIOUS
  <2>4. /\ 1 + (d[1] % 8) \in 0..32
        /\ 1 + (d[1] % 8) + 8 * get_bit_range(d[1], 7, 7) + 16 * get_bit_range(d[2], 7, 7) \in 0..32
    BY <1>0, <2>1, <2>2, <2>3
  <2> DEFINE low == 1 + (d[1] % 8)
             wide == 1 + (d[1] % 8) + 8 * get_bit_range(d[1], 7, 7) + 16 * get_bit_range(d[2], 7, 7)
  <2> HIDE DEF format
  <2>5. MaxChannels(format, d) \in {0, low, wide} BY DEF MaxChannels
  <2> HIDE DEF low, wide
  <2>6. 0 \in 0..32 OBVIOUS
  <2> QED BY <2>4, <2>5, <2>6 DEF low, wide
<1> HIDE DEF value
<1>6. <<"abort">> \notin SadLines(value) BY <1>2, <1>3, <1>4, SadLinesTotal
<1> QED BY <1>1, <1>3, <1>5, <1>6, NotAbort

(* Fields of a display device block with a value that has no name are      *)
(* cleared, so every field of a block that is kept has one.                *)
LEMMA DddbTotal ==
  ASSUME NEW d \in Seq(Byte), parse_vesa_dddb(d).kept = TRUE
  PROVE  /\ DddbLines(parse_vesa_dddb(d).value) # Abort
         /\ parse_vesa_dddb(d).value.content_protection \in 0..3
         /\ parse_vesa_dddb(d).value.scan_direction \in 0..2
         /\ parse_vesa_dddb(d).value.subpixel_layout \in 0..12
<1>1. Len(d) = 30 BY DEF parse_vesa_dddb, Dropped
<1> DEFINE type == get_bit_range(d[1], 7, 4)
           low == get_bit_range(d[1], 3, 0)
           interface == CASE type = 0 /\ low < 3 -> DddbAnalog[low + 1]
                          [] type \in DOMAIN DddbInterfaces -> DddbInterfaces[type]
                          [] OTHER -> "unknown"
           channels == IF type = 0 THEN 0 ELSE low
           v == DddbValue(interface, channels, d)
<1>3. parse_vesa_dddb(d).value = v
  <2> DEFINE checks ==
        <<Refuse(interface = "unknown", TRUE, "interface"),
          Note(channels \notin DddbChannels(interface), TRUE, "channels"),
          Note(d[3] \notin 0..3, TRUE, "content protection"),
          Note(DddbClocks(d)[1] > DddbClocks(d)[2], TRUE, "clocks"),
          Note(get_bit_range(d[11], 1, 0) = 3, TRUE, "scan direction"),
          Note(d[12] \notin 0..12, TRUE, "subpixel layout"),
          Note(d[15] % 8 # 0, TRUE, "misc bits"),
          Note(d[16] % 32 # 0, TRUE, "audio bits"),
          Note(get_bit_range(d[22], 3, 2) # 0, TRUE, "chromaticity bits")>>
  <2>1. parse_vesa_dddb(d) = Checked(checks, v) BY <1>1, Zenon DEF parse_vesa_dddb
  <2> HIDE DEF v, checks
  <2> QED BY <2>1, CheckedKept
<1>4. get_bit_range(d[11], 1, 0) \in 0..3
  <2>1. 11 \in 1..Len(d) BY <1>1
  <2>2. d[11] \in Byte BY <2>1
  <2> QED BY <2>2, Fields, Parts
<1>5. v.content_protection \in 0..3 /\ v.subpixel_layout \in 0..12 BY DEF DddbValue
<1>6. v.scan_direction \in 0..2
  <2>1. v.scan_direction = IF get_bit_range(d[11], 1, 0) = 3 THEN 0 ELSE get_bit_range(d[11], 1, 0)
    BY DEF DddbValue
  <2> QED BY <1>4, <2>1
<1> HIDE DEF v
<1>7. <<"abort">> \notin DddbLines(v) BY <1>5, <1>6, IfLine, LongLine DEF DddbLines
<1> QED BY <1>3, <1>5, <1>6, <1>7, NotAbort

(* Every behavior has two bits, and each of their four values a name.      *)
LEMMA VideoCapTotal ==
  ASSUME NEW r, NEW underscan, NEW byte \in Byte
  PROVE  VideoCapLines(parse_video_cap_block(r, underscan, byte).value) # Abort
<1> DEFINE v == parse_video_cap_block(r, underscan, byte).value
<1>1. \A b \in Byte : /\ get_bit_range(b, 5, 4) \in 0..3 /\ get_bit_range(b, 3, 2) \in 0..3
                      /\ get_bit_range(b, 1, 0) \in 0..3
  BY Fields, Parts
<1>2. {v.pt, v.it, v.ce} \subseteq 0..3 BY <1>1 DEF parse_video_cap_block, Kept
<1> HIDE DEF v
<1>3. <<"abort">> \notin VideoCapLines(v) BY <1>2, LongLine DEF VideoCapLines
<1> QED BY <1>3, NotAbort DEF v

(* A minimum luminance is kept only with a maximum.                        *)
LEMMA HdrStaticTotal ==
  ASSUME NEW r, NEW d, parse_hdr_static_metadata_block(r, d).kept = TRUE
  PROVE  HdrStaticLines(parse_hdr_static_metadata_block(r, d).value) # Abort
<1> DEFINE v == parse_hdr_static_metadata_block(r, d).value
<1>1. v.max = 0 => v.min = 0 BY DEF parse_hdr_static_metadata_block, Kept, Dropped
<1> HIDE DEF v
<1>2. <<"abort">> \notin HdrStaticLines(v) BY <1>1, IfLine, LongLine DEF HdrStaticLines
<1> QED BY <1>2, NotAbort DEF v

(* The tiles' behaviors are cleared when they have no name; so is the      *)
(* stereo value of a type II timing.                                       *)
LEMMA TiledTotal ==
  ASSUME NEW d, NEW size, parse_tiled_topo_block(d, size).kept = TRUE
  PROVE  TiledLines(parse_tiled_topo_block(d, size).value) # Abort
<1> DEFINE v == parse_tiled_topo_block(d, size).value
<1>1. v.missing_recv_behavior \in 0..1 /\ v.single_recv_behavior \in 0..3
  BY DEF parse_tiled_topo_block, Kept, Dropped
<1> HIDE DEF v
<1>2. <<"abort">> \notin TiledLines(v) BY <1>1, IfLine, LongLine DEF TiledLines
<1> QED BY <1>2, NotAbort DEF v

(* A timing is printed when its stereo value has a name.                   *)
LEMMA TimingTotal ==
  ASSUME NEW t, t.options.stereo_3d \in Stereo3d
  PROVE  TimingLines(t) # Abort
<1>1. <<"preferred">> # <<"abort">> OBVIOUS
<1>2. <<"abort">> \notin TimingLines(t) BY <1>1, IfLine, LongLine DEF TimingLines
<1> QED BY <1>2, NotAbort

(* It has one when it is not reserved, or when the field was cleared.      *)
LEMMA StereoNamed ==
  ASSUME NEW d, NEW before
  PROVE  LET timing == _di_displayid_parse_type_1_7_timing(d, before)
         IN  "stereo" \notin timing.failures \/ before \in Stereo3d =>
               timing.value.options.stereo_3d \in Stereo3d
<1> DEFINE timing == _di_displayid_parse_type_1_7_timing(d, before)
           stereo == get_bit_range(d[4], 6, 5)
<1>1. timing.value.options.stereo_3d = IF stereo \in Stereo3d THEN stereo ELSE before
  BY DEF _di_displayid_parse_type_1_7_timing, Kept, TimingOptions
<1>2. stereo \notin Stereo3d => "stereo" \in timing.failures
  BY DEF _di_displayid_parse_type_1_7_timing, Kept, Always
<1> HIDE DEF timing, stereo
<1>3. "stereo" \notin timing.failures \/ before \in Stereo3d =>
        timing.value.options.stereo_3d \in Stereo3d
  BY <1>1, <1>2
<1> QED BY <1>3 DEF timing

(* The field of a type II timing is cleared too.                           *)
LEMMA TypeIiStereo == \A d : parse_type_ii_timing(d).value.options.stereo_3d \in Stereo3d
BY DEF parse_type_ii_timing, Kept, Stereo3d

-----------------------------------------------------------------------------
(* The walk over a payload of L bytes from k on: entries that fit, one     *)
(* behind the other, up to a place where no entry fits.                    *)
StopOf(s, k, size) == IF s = <<>> THEN k ELSE s[Len(s)] + size[s[Len(s)]]
Walk(s, k, least, size, L) ==
  /\ s \in Seq(1..L)
  /\ \A i \in 1..Len(s) : s[i] + least <= L + 1 /\ s[i] + size[s[i]] <= L + 1 /\ k <= s[i]
  /\ \A i \in 1..Len(s) : s[i] = IF i = 1 THEN k ELSE s[i - 1] + size[s[i - 1]]
  /\ \A i, j \in 1..Len(s) : i < j => s[i] < s[j]
  /\ \/ StopOf(s, k, size) + least > L + 1
     \/ StopOf(s, k, size) + size[StopOf(s, k, size)] > L + 1

(* An entry in front of a walk.                                            *)
LEMMA WalkOn ==
  ASSUME NEW L \in Nat, NEW least \in Nat, NEW size \in [1..L -> Nat \ {0}], NEW k \in 1..L,
         k + least <= L + 1, k + size[k] <= L + 1, NEW t, Walk(t, k + size[k], least, size, L)
  PROVE  Walk(<<k>> \o t, k, least, size, L)
<1> DEFINE m == k + size[k]
           s == <<k>> \o t
<1>1. t \in Seq(1..L) /\ Len(t) \in Nat BY DEF Walk
<1>2. s \in Seq(1..L) /\ Len(s) = Len(t) + 1 BY <1>1
<1>3. s[1] = k /\ \A i \in 2..Len(s) : s[i] = t[i - 1] BY <1>1, <1>2
<1>4. size[k] \in Nat \ {0} /\ m \in Nat /\ k < m OBVIOUS
<1> HIDE DEF s
<1>11. \A i \in 1..Len(t) : t[i] \in 1..L /\ t[i] \in Nat BY <1>1
<1>12. \A i \in 1..Len(s) : i # 1 => i \in 2..Len(s) /\ i - 1 \in 1..Len(t)
  <2>1. \A n \in Nat : \A i \in 1..(n + 1) : i # 1 => i \in 2..(n + 1) /\ i - 1 \in 1..n
    OBVIOUS
  <2> QED BY <1>1, <1>2, <2>1, Zenon
<1>13. \A i \in 1..Len(s) : i # 1 => i - 1 \in 1..Len(t) /\ s[i] = t[i - 1]
  BY <1>3, <1>12, Zenon
<1>5. ASSUME NEW i \in 1..Len(s)
      PROVE  s[i] + least <= L + 1 /\ s[i] + size[s[i]] <= L + 1 /\ k <= s[i]
  <2>1. CASE i = 1 BY <1>3, <2>1
  <2>2. CASE i # 1
    <3>1. i - 1 \in 1..Len(t) /\ s[i] = t[i - 1] BY <1>13, <2>2
    <3>2. t[i - 1] + least <= L + 1 /\ t[i - 1] + size[t[i - 1]] <= L + 1 /\ m <= t[i - 1]
      BY <3>1 DEF Walk
    <3>3. t[i - 1] \in Nat BY <1>11, <3>1
    <3>4. k <= t[i - 1] BY <1>4, <3>2, <3>3
    <3> QED BY <3>1, <3>2, <3>4
  <2> QED BY <2>1, <2>2
<1>6. ASSUME NEW i \in 1..Len(s)
      PROVE  s[i] = IF i = 1 THEN k ELSE s[i - 1] + size[s[i - 1]]
  <2>1. CASE i = 1 BY <1>3, <2>1
  <2>2. CASE i = 2
    <3>1. 2 - 1 = 1 OBVIOUS
    <3>3. 1 \in 1..Len(t) /\ s[2] = t[1] /\ s[i - 1] = k BY <1>3, <1>13, <2>2, <3>1
    <3>2. t[1] = m BY <3>3 DEF Walk
    <3> QED BY <1>3, <2>2, <3>1, <3>2, <3>3
  <2>3. CASE i > 2
    <3>3. i - 1 # 1 /\ i - 1 \in 1..Len(s)
      <4>1. \A n \in Nat : \A e \in 1..n : e > 2 => e - 1 # 1 /\ e - 1 \in 1..n OBVIOUS
      <4>2. Len(s) \in Nat BY <1>1, <1>2
      <4> QED BY <2>3, <4>1, <4>2
    <3>1. i - 1 \in 1..Len(t) /\ i - 1 # 1 /\ s[i] = t[i - 1] /\ s[i - 1] = t[i - 1 - 1]
      BY <1>13, <2>3, <3>3, SMTT(30)
    <3>2. t[i - 1] = t[i - 1 - 1] + size[t[i - 1 - 1]] BY <3>1 DEF Walk
    <3> QED BY <2>3, <3>1, <3>2
  <2> QED BY <1>1, <1>2, <2>1, <2>2, <2>3
<1>7. ASSUME NEW i \in 1..Len(s), NEW j \in 1..Len(s), i < j PROVE s[i] < s[j]
  <2>0. j - 1 \in 1..Len(t) /\ s[j] = t[j - 1]
    <3>1. j # 1 BY <1>1, <1>2, <1>7
    <3> QED BY <1>13, <3>1
  <2>1. CASE i = 1
    <3>1. m <= t[j - 1] /\ t[j - 1] \in Nat BY <1>11, <2>0 DEF Walk
    <3> QED BY <1>3, <1>4, <2>0, <2>1, <3>1
  <2>2. CASE i # 1
    <3>3. i \in Nat /\ j \in Nat BY <1>1, <1>2
    <3>4. i - 1 < j - 1 BY <1>7, <3>3
    <3>1. i - 1 \in 1..Len(t) /\ s[i] = t[i - 1] /\ i - 1 < j - 1
      BY <1>13, <2>2, <3>4
    <3>2. t[i - 1] < t[j - 1] BY <2>0, <3>1 DEF Walk
    <3> QED BY <2>0, <3>1, <3>2
  <2> QED BY <2>1, <2>2
<1>8. StopOf(s, k, size) = StopOf(t, m, size)
  <2>0. s # <<>>
    <3>1. Len(<<>>) = 0 OBVIOUS
    <3>2. Len(s) # 0 BY <1>1, <1>2
    <3> QED BY <3>1, <3>2
  <2>1. CASE t = <<>>
    <3>1. Len(t) = 0 /\ Len(s) = 1 BY <1>2, <2>1
    <3> QED BY <1>3, <2>0, <2>1, <3>1 DEF StopOf
  <2>2. CASE t # <<>>
    <3>1. Len(t) # 0 BY <1>1, <2>2
    <3>2. Len(s) \in 2..Len(s) /\ Len(s) - 1 = Len(t) BY <1>1, <1>2, <3>1
    <3>3. s[Len(s)] = t[Len(t)] BY <1>3, <3>2
    <3> QED BY <2>0, <2>2, <3>3 DEF StopOf
  <2> QED BY <2>1, <2>2
<1>9. \/ StopOf(s, k, size) + least > L + 1
      \/ StopOf(s, k, size) + size[StopOf(s, k, size)] > L + 1
  BY <1>8 DEF Walk
<1>10. Walk(s, k, least, size, L) BY <1>2, <1>5, <1>6, <1>7, <1>9 DEF Walk
<1> QED BY <1>10 DEF s

(* The loops over entries that state their own length walk the payload.    *)
LEMMA StartsWalk ==
  ASSUME NEW A, NEW d \in Seq(A), NEW first \in Nat \ {0}, NEW least \in Nat \ {0},
         NEW size \in [1..Len(d) -> Nat \ {0}]
  PROVE  Walk(Starts(d, first, least, size), first, least, size, Len(d))
<1> DEFINE L == Len(d)
           N == L + first
           ends(k) == k + least > L + 1 \/ k + size[k] > L + 1
           Body(f) == [k \in 1..N |-> IF ends(k) THEN <<>> ELSE <<k>> \o f[k + size[k]]]
           F == CHOOSE f : f = Body(f)
<1>0. L \in Nat /\ N \in Nat /\ first \in 1..N OBVIOUS
<1>1. Starts(d, first, least, size) = F[first] BY DEF Starts
<1>2. ASSUME NEW k \in 1..N, ~ends(k)
      PROVE  k \in 1..L /\ k + size[k] \in (k + 1)..N
  <2>1. k \in 1..L BY <1>0, <1>2
  <2>2. size[k] \in Nat \ {0} BY <2>1
  <2> QED BY <1>0, <1>2, <2>1, <2>2
<1> HIDE DEF L, N, ends
<1>3. \E f \in [1..N -> Seq(Nat)] : f = Body(f)
  <2> DEFINE V == Seq(Nat)
             jump == [k \in 1..N |-> IF ends(k) THEN 0 ELSE k + size[k]]
             step == [k \in 1..N |-> [t \in V |-> <<k>> \o t]]
  <2>1. <<>> \in V OBVIOUS
  <2>2. step \in Steps(N, V)
    <3>1. ASSUME NEW k \in 1..N, NEW t \in V PROVE <<k>> \o t \in V
      BY <1>0
    <3> QED BY <3>1 DEF Steps
  <2>3. jump \in Jumps(N)
    <3>1. \A k \in 1..N : jump[k] = 0 \/ jump[k] \in (k + 1)..N BY <1>2
    <3>2. \A k \in 1..N : (k + 1)..N \subseteq 0..N /\ 0 \in 0..N BY <1>0
    <3>3. jump \in [1..N -> 0..N] BY <3>1, <3>2
    <3> QED BY <3>1, <3>3 DEF Jumps
  <2>4. \A k \in 1..N : jump[k] = 0 <=> ends(k) BY <1>0, <1>2
  <2>5. PICK f \in [1..N -> V] :
          \A k \in 1..N : f[k] = IF jump[k] = 0 THEN <<>> ELSE step[k][f[jump[k]]]
    <3> DEFINE empty == <<>>
    <3>1. empty \in V BY <2>1
    <3> HIDE DEF V, jump, step, empty
    <3>2. \E f : Falls(f, N, V, empty, jump, step) BY <1>0, <2>2, <2>3, <3>1, Downward
    <3> QED BY <3>2 DEF empty, Falls
  <2>6. ASSUME NEW k \in 1..N
        PROVE  f[k] = IF ends(k) THEN <<>> ELSE <<k>> \o f[k + size[k]]
    <3>1. CASE ends(k) BY <2>4, <2>5, <3>1
    <3>2. CASE ~ends(k)
      <4>1. jump[k] = k + size[k] /\ jump[k] # 0 /\ jump[k] \in 1..N BY <1>0, <1>2, <3>2
      <4>2. f[jump[k]] \in V BY <2>5, <4>1
      <4>3. f[k] = step[k][f[jump[k]]] BY <2>5, <4>1
      <4> QED BY <3>2, <4>1, <4>2, <4>3
    <3> QED BY <3>1, <3>2
  <2>7. f = [k \in 1..N |-> f[k]] BY <2>5
  <2>8. f = Body(f) BY <2>6, <2>7
  <2> QED BY <2>5, <2>8
<1>4. F = Body(F) BY <1>3
<1> HIDE DEF F
<1>5. \A k \in 1..N : F[k] = IF ends(k) THEN <<>> ELSE <<k>> \o F[k + size[k]] BY <1>4
<1> DEFINE T == {k \in 1..N : Walk(F[k], k, least, size, L)}
<1>6. ASSUME NEW k \in 1..N, \A j \in (k + 1)..N : j \in T PROVE k \in T
  <2>1. CASE ends(k)
    <3>1. F[k] = <<>> BY <1>5, <2>1
    <3>2. Len(<<>>) = 0 /\ <<>> \in Seq(1..L) /\ 1..0 = {} OBVIOUS
    <3>3. StopOf(<<>>, k, size) = k BY DEF StopOf
    <3>4. Walk(<<>>, k, least, size, L) BY <2>1, <3>2, <3>3 DEF Walk, ends
    <3> QED BY <3>1, <3>4
  <2>2. CASE ~ends(k)
    <3>1. k \in 1..L /\ k + size[k] \in (k + 1)..N BY <1>2, <2>2
    <3>2. Walk(F[k + size[k]], k + size[k], least, size, L) BY <1>6, <3>1
    <3>3. size[k] \in Nat \ {0} BY <3>1 DEF L
    <3>4. k + least <= L + 1 /\ k + size[k] <= L + 1 BY <1>0, <2>2, <3>3 DEF ends
    <3>5. Walk(<<k>> \o F[k + size[k]], k, least, size, L)
      BY <1>0, <3>1, <3>2, <3>4, WalkOn DEF L
    <3> QED BY <1>5, <2>2, <3>5
  <2> QED BY <2>1, <2>2
<1> HIDE DEF T
<1>7. 1..N \subseteq T BY <1>0, <1>6, DownTo
<1>8. Walk(F[first], first, least, size, L) BY <1>0, <1>7 DEF T
<1> QED BY <1>1, <1>8 DEF L

(* More fields of a byte.                                                  *)
LEMMA MoreFields ==
  \A b \in Byte :
    /\ get_bit_range(b, 7, 5) = b \div 32 /\ b \div 32 \in 0..7
    /\ get_bit_range(b, 4, 0) = b % 32 /\ b % 32 \in 0..31
    /\ get_bit_range(b, 2, 0) = b % 8 /\ b % 8 \in 0..7
    /\ has_bit(b, 6) <=> b \in 64..127 \cup 192..255
<1>1. /\ 2^0 = 1 /\ 2^3 = 8 /\ 2^5 = 32 /\ 2^6 = 64
      /\ 7 - 5 + 1 = 3 /\ 4 - 0 + 1 = 5 /\ 2 - 0 + 1 = 3
  OBVIOUS
<1>2. ASSUME NEW b \in Byte PROVE get_bit_range(b, 7, 5) = b \div 32 /\ b \div 32 \in 0..7
  BY <1>1 DEF get_bit_range, Byte
<1>3. ASSUME NEW b \in Byte PROVE get_bit_range(b, 4, 0) = b % 32 /\ b % 32 \in 0..31
  BY <1>1 DEF get_bit_range, Byte
<1>4. ASSUME NEW b \in Byte PROVE get_bit_range(b, 2, 0) = b % 8 /\ b % 8 \in 0..7
  BY <1>1 DEF get_bit_range, Byte
<1>5. ASSUME NEW b \in Byte PROVE has_bit(b, 6) <=> b \in 64..127 \cup 192..255
  BY <1>1 DEF has_bit, Byte
<1> QED BY <1>2, <1>3, <1>4, <1>5

(* The sizes of the entries of the three lists.                            *)
LEMMA EntrySizes ==
  ASSUME NEW d \in Seq(Byte)
  PROVE  /\ HdrEntrySizes(d) \in [1..Len(d) -> Nat \ {0}]
         /\ InfoFrameSizes(d) \in [1..Len(d) -> Nat \ {0}]
         /\ LocationSizes(d) \in [1..Len(d) -> Nat \ {0}]
<1>1. DOMAIN d = 1..Len(d) /\ \A k \in 1..Len(d) : d[k] \in Byte OBVIOUS
<1>2. HdrEntrySizes(d) \in [1..Len(d) -> Nat \ {0}]
  <2>1. \A b \in Byte : (IF b < 2 THEN 256 ELSE b + 1) \in Nat \ {0} BY DEF Byte
  <2> QED BY <1>1, <2>1 DEF HdrEntrySizes, Misfit
<1>3. InfoFrameSizes(d) \in [1..Len(d) -> Nat \ {0}]
  <2>1. \A n \in 0..7 : n + 1 \in Nat \ {0} /\ n + 4 \in Nat \ {0} OBVIOUS
  <2>2. 256 \in Nat \ {0} OBVIOUS
  <2>3. \A k \in 1..Len(d) :
          InfoFrameSizes(d)[k] \in
            {256, get_bit_range(d[k], 7, 5) + 1, get_bit_range(d[k], 7, 5) + 4}
    BY <1>1 DEF InfoFrameSizes, Misfit
  <2>4. \A k \in 1..Len(d) : get_bit_range(d[k], 7, 5) \in 0..7 BY <1>1, MoreFields
  <2>5. \A k \in 1..Len(d) : InfoFrameSizes(d)[k] \in Nat \ {0} BY <2>1, <2>2, <2>3, <2>4, SMTT(30)
  <2>6. InfoFrameSizes(d) = [k \in 1..Len(d) |-> InfoFrameSizes(d)[k]]
    BY <1>1 DEF InfoFrameSizes
  <2> QED BY <2>5, <2>6
<1>4. LocationSizes(d) \in [1..Len(d) -> Nat \ {0}] BY <1>1 DEF LocationSizes
<1> QED BY <1>2, <1>3, <1>4

(* A kept entry of HDR dynamic metadata has a type that is known.          *)
LEMMA HdrEntryKnown ==
  ASSUME NEW d, NEW k, HdrDynamicEntry(d, k).kept = TRUE
  PROVE  /\ HdrDynamicEntry(d, k).value.type = HdrType(d, k)
         /\ HdrType(d, k) \in HdrFlagTypes \cup {3}
<1> DEFINE type == HdrType(d, k)
           flags == IF d[k] >= 3 THEN d[k + 3] ELSE 0
           high == IF type = 2 THEN has_bit(flags, 7) ELSE flags >= 16
           checks == CASE type \in HdrFlagTypes ->
                            <<Refuse(d[k] < 3, TRUE, "no flags"),
                              Note(d[k] # 3, TRUE, "type length"),
                              Refuse(type = 2 /\ flags % 16 = 0, TRUE, "spec version"),
                              Note(high, TRUE, "support flags")>>
                       [] type = 3 -> <<Note(d[k] # 2, TRUE, "type length")>>
                       [] OTHER -> <<Refuse(TRUE, TRUE, "unknown type")>>
           value == [type |-> type, flags |-> flags]
<1>1. HdrDynamicEntry(d, k) = Checked(checks, value) BY Zenon DEF HdrDynamicEntry
<1>2. value.type = type OBVIOUS
<1>3. /\ Checked(checks, value).value = value
      /\ \A i \in DOMAIN checks : ~(checks[i].bad /\ checks[i].drops)
  <2> HIDE DEF checks, value
  <2> QED BY <1>1, CheckedKept
<1>4. ASSUME type \notin HdrFlagTypes \cup {3} PROVE FALSE
  <2>1. checks = <<Refuse(TRUE, TRUE, "unknown type")>> BY <1>4
  <2>2. Refuse(TRUE, TRUE, "unknown type").bad /\ Refuse(TRUE, TRUE, "unknown type").drops
    BY DEF Refuse
  <2> DEFINE refused == Refuse(TRUE, TRUE, "unknown type")
  <2> HIDE DEF checks, refused
  <2>4. 1 \in DOMAIN <<refused>> /\ <<refused>>[1] = refused OBVIOUS
  <2>3. 1 \in DOMAIN checks /\ checks[1] = Refuse(TRUE, TRUE, "unknown type")
    BY <2>1, <2>4 DEF refused
  <2> QED BY <1>3, <2>2, <2>3
<1> HIDE DEF checks, value
<1> QED BY <1>1, <1>2, <1>3, <1>4

(* So have the types of the block that is kept.                            *)
LEMMA HdrTypesKnown ==
  ASSUME NEW d, parse_hdr_dynamic_metadata_block(d).kept = TRUE
  PROVE  DOMAIN parse_hdr_dynamic_metadata_block(d).value \subseteq HdrFlagTypes \cup {3}
<1> DEFINE starts == Starts(d, 1, 3, HdrEntrySizes(d))
           entries == [i \in DOMAIN starts |-> HdrDynamicEntry(d, starts[i])]
           kept == {i \in DOMAIN entries : entries[i].kept}
<1>1. DOMAIN parse_hdr_dynamic_metadata_block(d).value = {entries[i].value.type : i \in kept}
  BY DEF parse_hdr_dynamic_metadata_block, Kept, Dropped
<1>2. ASSUME NEW i \in kept PROVE entries[i].value.type \in HdrFlagTypes \cup {3}
  <2>1. entries[i] = HdrDynamicEntry(d, starts[i]) /\ entries[i].kept OBVIOUS
  <2>2. HdrDynamicEntry(d, starts[i]).kept \in BOOLEAN
    BY DEF HdrDynamicEntry, Checked, Kept, Dropped
  <2> HIDE DEF starts, entries
  <2>3. HdrDynamicEntry(d, starts[i]).kept = TRUE BY <2>1, <2>2
  <2> DEFINE k == starts[i]
  <2> HIDE DEF k
  <2>4. /\ HdrDynamicEntry(d, k).value.type = HdrType(d, k)
        /\ HdrType(d, k) \in HdrFlagTypes \cup {3}
    BY <2>3, HdrEntryKnown DEF k
  <2> QED BY <2>1, <2>4 DEF k
<1> QED BY <1>1, <1>2

(* A descriptor of 3D audio that is kept has one of two formats.           *)
LEMMA Format3d ==
  ASSUME NEW r, NEW s, parse_hdmi_audio_3d_descriptor(r, s).kept
  PROVE  parse_hdmi_audio_3d_descriptor(r, s).value.format \in {"LPCM", "ONE_BIT_AUDIO"}
BY DEF parse_hdmi_audio_3d_descriptor, Kept, Dropped

(* The descriptors of 3D audio that are kept have one of two formats.      *)
LEMMA Sads3d ==
  ASSUME NEW r, NEW slots, Len(slots) \in Nat \ {0}
  PROVE  LET sads == HdmiAudio3d(r, slots).value.sads
         IN  \A j \in DOMAIN sads : sads[j].format \in {"LPCM", "ONE_BIT_AUDIO"}
<1> DEFINE N == Len(slots) - 1
           parsed == [j \in 1..N |-> parse_hdmi_audio_3d_descriptor(r, slots[j])]
           kept == {j \in DOMAIN parsed : parsed[j].kept}
           values == [j \in DOMAIN parsed |-> parsed[j].value]
           V == {parsed[j].value : j \in 1..N}
<1>1. HdmiAudio3d(r, slots).value.sads = Picked(values, kept) BY DEF HdmiAudio3d, Kept
<1>2. \A j \in kept : values[j].format \in {"LPCM", "ONE_BIT_AUDIO"} BY Format3d
<1>3. values \in Seq(V)
  <2>0. N \in Nat OBVIOUS
  <2> HIDE DEF parsed, N
  <2>1. DOMAIN parsed = 1..N BY DEF parsed
  <2>2. values \in [1..N -> V] BY <2>1 DEF parsed
  <2> QED BY <2>0, <2>2, SMTT(30)
<1> HIDE DEF values, V, kept
<1>4. \A j \in DOMAIN Picked(values, kept) :
        \E i \in (1..Len(values)) \cap kept : Picked(values, kept)[j] = values[i]
  BY <1>3, PickedElements
<1> QED BY <1>1, <1>2, <1>4

(* Their formats have names, so none of their lines is the one of an abort. *)
LEMMA HdmiAudioTotal ==
  ASSUME NEW r, NEW d \in Seq(Byte), parse_hdmi_audio_block(r, d).kept = TRUE
  PROVE  HdmiAudioLines(parse_hdmi_audio_block(r, d).value) # Abort
<1> DEFINE v == parse_hdmi_audio_block(r, d).value
           descs == IF Len(d) < 2 THEN 0 ELSE get_bit_range(d[2], 2, 0)
           slots == [j \in 1..(descs + 1) |-> SubSeq(d, 4 * j - 1, 4 * j + 2)]
<1>1. v.audio_3d \in {NULL, HdmiAudio3d(r, slots).value}
  BY DEF parse_hdmi_audio_block, Kept, Dropped
<1>2. Len(slots) \in Nat \ {0}
  <2>1. descs \in 0..7
    <3>1. CASE Len(d) < 2 BY <3>1
    <3>2. CASE ~(Len(d) < 2)
      <4>1. 2 \in 1..Len(d) BY <3>2
      <4>2. d[2] \in Byte BY <4>1
      <4> QED BY <3>2, <4>2, MoreFields
    <3> QED BY <3>1, <3>2
  <2> HIDE DEF descs
  <2>2. descs + 1 \in Nat \ {0} BY <2>1
  <2> QED BY <2>2
<1> HIDE DEF slots, v
<1>3. v.audio_3d # NULL =>
        \A j \in DOMAIN v.audio_3d.sads : v.audio_3d.sads[j].format \in {"LPCM", "ONE_BIT_AUDIO"}
  BY <1>1, <1>2, Sads3d
<1>4. {"LPCM", "ONE_BIT_AUDIO"} \subseteq AudioFormatNames \ {"MPEGH_3D"}
  <2>1. AudioFormats[1] = "LPCM" /\ AudioFormats[9] = "ONE_BIT_AUDIO" /\ {1, 9} \subseteq DOMAIN AudioFormats
    BY DEF AudioFormats
  <2> QED BY <2>1 DEF AudioFormatNames, Range
<1>5. v.audio_3d # NULL => \A j \in DOMAIN v.audio_3d.sads : <<"abort">> \notin SadLines(v.audio_3d.sads[j])
  BY <1>3, <1>4, SadLinesTotal
<1>6. \A speakers : <<"abort">> \notin SpeakerLines(speakers) BY LongLine DEF
  SpeakerLines
<1>7. <<"abort">> \notin HdmiAudioLines(v)
  <2> DEFINE streams == IF v.multi_stream = <<>> THEN {} ELSE {<<"Streams",
    v.multi_stream>>}
             sads == UNION {SadLines(v.audio_3d.sads[j]) : j \in DOMAIN v.audio_3d.sads}
  <2>1. HdmiAudioLines(v) = IF v.audio_3d = NULL THEN streams
                            ELSE IF Abort \subseteq sads THEN Abort
                            ELSE streams \cup sads \cup {<<"Channels", v.audio_3d.channels>>}
                                   \cup SpeakerLines(v.audio_3d.speakers)
    BY Zenon DEF HdmiAudioLines
  <2>2. <<"abort">> \notin streams BY LongLine
  <2>3. v.audio_3d # NULL => <<"abort">> \notin sads BY <1>5
  <2>4. v.audio_3d # NULL => ~(Abort \subseteq sads) BY <2>3 DEF Abort
  <2> HIDE DEF streams, sads
  <2> QED BY <1>6, <2>1, <2>2, <2>3, <2>4, LongLine
<1> QED BY <1>7, NotAbort DEF v

(* Only InfoFrames of a named type are kept.                               *)
LEMMA InfoFrameTotal ==
  ASSUME NEW d \in Seq(Byte), parse_infoframe_block(d).kept = TRUE
  PROVE  InfoFrameLines(parse_infoframe_block(d).value) # Abort
<1> DEFINE v == parse_infoframe_block(d).value
           first == get_bit_range(d[1], 7, 5) + 3
           starts == Starts(d, first, 1, InfoFrameSizes(d))
           types == [i \in DOMAIN starts |-> InfoFrameType(d, starts[i])]
           listed == {i \in DOMAIN types : types[i] \in 2..7}
           V == {types[i] : i \in DOMAIN types}
<1>1. Len(d) >= 2 /\ v.infoframes = Picked(types, listed)
  BY DEF parse_infoframe_block, Kept, Dropped
<1>2. d[1] \in Byte
  <2>1. 1 \in 1..Len(d) BY <1>1
  <2> QED BY <2>1
<1>3. first \in Nat \ {0}
  <2>1. get_bit_range(d[1], 7, 5) \in 0..7 BY <1>2, MoreFields
  <2> QED BY <2>1
<1>4. starts \in Seq(1..Len(d))
  <2> HIDE DEF first
  <2>1. 1 \in Nat \ {0} OBVIOUS
  <2>2. Walk(starts, first, 1, InfoFrameSizes(d), Len(d))
    BY <1>3, <2>1, EntrySizes, StartsWalk
  <2> QED BY <2>2 DEF Walk
<1>5. types \in Seq(V)
  <2> HIDE DEF starts
  <2>1. DOMAIN types = 1..Len(starts) /\ Len(starts) \in Nat BY <1>4
  <2>2. types \in [1..Len(starts) -> V] BY <2>1
  <2> QED BY <2>1, <2>2
<1>6. \A j \in DOMAIN v.infoframes : v.infoframes[j] \in 2..7
  <2>1. \A i \in listed : types[i] \in 2..7 OBVIOUS
  <2> HIDE DEF types, listed, V, v
  <2>2. \A j \in DOMAIN Picked(types, listed) :
          \E i \in (1..Len(types)) \cap listed : Picked(types, listed)[j] = types[i]
    BY <1>5, PickedElements
  <2> QED BY <1>1, <2>1, <2>2
<1> HIDE DEF v
<1>7. <<"abort">> \notin InfoFrameLines(v) BY <1>6, LongLine DEF InfoFrameLines
<1> QED BY <1>7, NotAbort DEF v

-----------------------------------------------------------------------------
(* Decoders that keep a value whatever the bytes.                          *)
LEMMA BaseKept ==
  \A r, d : /\ parse_vendor_product(r, d).kept = TRUE
            /\ parse_basic_params_features(r, d).kept = TRUE
            /\ parse_chromaticity_coords(d).kept = TRUE
            /\ parse_established_timings_i_ii(d).kept = TRUE
            /\ parse_color_point_descriptor(d).kept = TRUE
            /\ parse_color_management_data_descriptor(r, d).kept = TRUE
            /\ parse_established_timings_iii_descriptor(r, d).kept = TRUE
<1>1. \A r, d : parse_vendor_product(r, d).kept = TRUE BY DEF parse_vendor_product, Kept
<1>2. \A r, d : parse_basic_params_features(r, d).kept = TRUE
  BY DEF parse_basic_params_features, Kept
<1>3. \A d : parse_chromaticity_coords(d).kept = TRUE BY DEF parse_chromaticity_coords,
  Kept
<1>4. \A d : parse_established_timings_i_ii(d).kept = TRUE
  BY DEF parse_established_timings_i_ii, Kept
<1>5. \A d : parse_color_point_descriptor(d).kept = TRUE BY DEF
  parse_color_point_descriptor, Kept
<1>6. \A r, d : parse_color_management_data_descriptor(r, d).kept = TRUE
  BY DEF parse_color_management_data_descriptor, Kept
<1>7. \A r, d : parse_established_timings_iii_descriptor(r, d).kept = TRUE
  BY DEF parse_established_timings_iii_descriptor, Kept
<1> QED BY <1>1, <1>2, <1>3, <1>4, <1>5, <1>6, <1>7, Zenon

(* So do these of the CTA-861 extension and of DisplayID.                  *)
LEMMA ExtensionKept ==
  /\ \A r, blocks : VideoBlocks(r, blocks).kept = TRUE
  /\ \A r, underscan, byte : parse_video_cap_block(r, underscan, byte).kept = TRUE
  /\ \A d, before : _di_displayid_parse_type_1_7_timing(d, before).kept = TRUE
  /\ \A d : parse_type_ii_timing(d).kept = TRUE
<1>1. \A r, blocks : VideoBlocks(r, blocks).kept = TRUE BY DEF VideoBlocks, Kept
<1>2. \A r, underscan, byte : parse_video_cap_block(r, underscan, byte).kept = TRUE
  BY DEF parse_video_cap_block, Kept
<1>3. \A d, before : _di_displayid_parse_type_1_7_timing(d, before).kept = TRUE
  BY DEF _di_displayid_parse_type_1_7_timing, Kept
<1>4. \A d : parse_type_ii_timing(d).kept = TRUE BY DEF parse_type_ii_timing, Kept
<1> QED BY <1>1, <1>2, <1>3, <1>4

(* A value is kept, or it is dropped and, when it must be, reported.       *)
Settled(r, reported) == \/ r.kept = TRUE
                        \/ r.kept = FALSE /\ (reported => r.failures # {})

(* Blocks that are too short, or that hold an entry that does not fit, are *)
(* reported in every revision.                                             *)
LEMMA LengthsSettled ==
  \A r, d, size :
    /\ Settled(parse_speaker_alloc_block(r, d), TRUE)
    /\ Settled(parse_hdr_static_metadata_block(r, d), TRUE)
    /\ Settled(parse_colorimetry_block(r, d), TRUE)
    /\ Settled(parse_vesa_transfer_characteristics_block(d), TRUE)
    /\ Settled(parse_hdmi_audio_block(r, d), TRUE)
    /\ Settled(parse_room_config_block(r, d), TRUE)
    /\ Settled(parse_display_params_block(d, size), TRUE)
    /\ Settled(parse_tiled_topo_block(d, size), TRUE)
<1>1. \A r, d : Settled(parse_speaker_alloc_block(r, d), TRUE)
  BY DEF Settled, parse_speaker_alloc_block, parse_speaker_alloc, Kept, Dropped
<1>2. \A r, d : Settled(parse_hdr_static_metadata_block(r, d), TRUE)
  BY DEF Settled, parse_hdr_static_metadata_block, Kept, Dropped
<1>3. \A r, d : Settled(parse_colorimetry_block(r, d), TRUE)
  BY DEF Settled, parse_colorimetry_block, Kept, Dropped
<1>4. \A d : Settled(parse_vesa_transfer_characteristics_block(d), TRUE)
  BY DEF Settled, parse_vesa_transfer_characteristics_block, Kept, Dropped
<1>5. ASSUME NEW r, NEW d PROVE Settled(parse_hdmi_audio_block(r, d), TRUE)
  <2> DEFINE streams == get_bit_range(d[1], 1, 0)
             non_mixed == has_bit(d[1], 2)
             multi == Always(streams = 0 /\ non_mixed, "non-mixed")
             ms == IF streams = 0 THEN <<>> ELSE <<streams + 1, non_mixed>>
             descs == IF Len(d) < 2 THEN 0 ELSE get_bit_range(d[2], 2, 0)
             audio_3d == HdmiAudio3d(r, [j \in 1..(descs + 1) |-> SubSeq(d, 4 * j - 1, 4 * j + 2)])
             without == [multi_stream |-> ms, audio_3d |-> NULL]
             few == descs + 1 > (Len(d) - 2) \div 4
             whole == [without EXCEPT !.audio_3d = audio_3d.value]
             short == Dropped({"length"})
             plain == Kept(without, multi)
             cut == Kept(without, multi \cup {"descriptors"})
             full == Kept(whole, multi \cup audio_3d.failures)
  <2>1. parse_hdmi_audio_block(r, d) = IF Len(d) < 1 THEN short ELSE IF descs = 0 THEN plain
                                       ELSE IF few THEN cut ELSE full
    BY Zenon DEF parse_hdmi_audio_block
  <2>2. Settled(short, TRUE) BY DEF Settled, Dropped
  <2>3. \A v, f : Settled(Kept(v, f), TRUE) BY DEF Settled, Kept
  <2>4. Settled(plain, TRUE) /\ Settled(cut, TRUE) /\ Settled(full, TRUE) BY <2>3, Zenon
  <2> HIDE DEF short, plain, cut, full, descs, few
  <2> QED BY <2>1, <2>2, <2>4
<1>6. \A r, d : Settled(parse_room_config_block(r, d), TRUE)
  BY DEF Settled, parse_room_config_block, Kept, Dropped
<1>7. \A d, size : Settled(parse_display_params_block(d, size), TRUE)
  BY DEF Settled, parse_display_params_block, Kept, Dropped
<1>8. \A d, size : Settled(parse_tiled_topo_block(d, size), TRUE)
  BY ZenonT(40) DEF Settled, parse_tiled_topo_block, Kept, Dropped
<1> QED BY <1>1, <1>2, <1>3, <1>4, <1>5, <1>6, <1>7, <1>8, Zenon

(* So are the lists of entries.                                            *)
LEMMA ListsSettled ==
  \A d : /\ Settled(parse_hdr_dynamic_metadata_block(d), TRUE)
         /\ Settled(parse_infoframe_block(d), TRUE)
         /\ Settled(parse_speaker_location_block(d), TRUE)
<1>1. \A d : Settled(parse_hdr_dynamic_metadata_block(d), TRUE)
  BY DEF Settled, parse_hdr_dynamic_metadata_block, Kept, Dropped
<1>2. \A d : Settled(parse_infoframe_block(d), TRUE)
  BY ZenonT(40) DEF Settled, parse_infoframe_block, Kept, Dropped
<1>3. \A d : Settled(parse_speaker_location_block(d), TRUE)
  BY DEF Settled, parse_speaker_location_block, Kept, Dropped
<1> QED BY <1>1, <1>2, <1>3, Zenon

(* Codes: reserved ones are reported, unused ones are not.                 *)
LEMMA CodesSettled ==
  /\ \A r, b0, b1 : Settled(parse_standard_timing(r, b0, b1), r <= 4 /\ ~(b0 = 1 /\ b1 = 1))
  /\ \A b, first : Settled(parse_cvt_timing_code(b, first), ~(~first /\ b = <<0, 0, 0>>))
  /\ \A code \in Byte : Settled(parse_svr(code), TRUE)
  /\ \A r, d : Settled(parse_sad(r, d), r <= 3)
<1>0. \A r, n, failure : Until(r, n, TRUE, failure) = IF r <= n THEN {failure} ELSE {}
  BY DEF Until, Always
<1>6. \A failures, reported : (reported => failures # {}) => Settled(Dropped(failures), reported)
  BY DEF Settled, Dropped
<1>7. \A failure : {failure} # {} OBVIOUS
<1>8. \A r, n, failure : r <= n => Until(r, n, TRUE, failure) # {} BY <1>0, <1>7
<1>5. /\ \A r, n, failure, more : Settled(Dropped(Until(r, n, TRUE, failure)), r <= n /\ more)
      /\ \A r, n, failure : Settled(Dropped(Until(r, n, TRUE, failure)), r <= n)
      /\ \A failure : Settled(Dropped({failure}), TRUE)
  BY <1>6, <1>7, <1>8, Zenon
<1>1. \A r, b0, b1 : Settled(parse_standard_timing(r, b0, b1), r <= 4 /\ ~(b0 = 1 /\ b1 = 1))
  <2> SUFFICES ASSUME NEW r, NEW b0, NEW b1
               PROVE  Settled(parse_standard_timing(r, b0, b1), r <= 4 /\ ~(b0 = 1 /\ b1 = 1))
    OBVIOUS
  <2>1. CASE b0 = 1 /\ b1 = 1 BY <2>1 DEF Settled, parse_standard_timing, Dropped
  <2>2. CASE ~(b0 = 1 /\ b1 = 1) /\ b0 = 0
    <3>1. parse_standard_timing(r, b0, b1) = Dropped(Until(r, 4, TRUE, "standard timing code"))
      BY <2>2 DEF parse_standard_timing
    <3> QED BY <1>5, <3>1
  <2>3. CASE ~(b0 = 1 /\ b1 = 1) /\ b0 # 0
    BY <2>3 DEF Settled, parse_standard_timing, Kept
  <2> QED BY <2>1, <2>2, <2>3
<1>2. \A b, first : Settled(parse_cvt_timing_code(b, first), ~(~first /\ b = <<0, 0, 0>>))
  BY DEF Settled, parse_cvt_timing_code, Kept, Dropped
<1>3. ASSUME NEW code \in Byte PROVE Settled(parse_svr(code), TRUE)
  <2>1. \/ code \in {0, 128, 255} \cup 161..192 \/ code \in 1..127 \cup 193..253
        \/ code \in 129..144 \/ code \in 145..160 \/ code = 254
    BY DEF Byte
  <2>2. CASE code \in {0, 128, 255} \cup 161..192 
    <3> DEFINE svr == [type |-> "VIC", vic |-> 0, dtd_index |-> 0, t7_t10_vtdb_index |->
      0]
               vic == Kept([svr EXCEPT !.vic = code], {})
               dtd == Kept([svr EXCEPT !.type = "DTD", !.dtd_index = code - 129], {})
               vtdb == Kept([svr EXCEPT !.type = "VTDB", !.dtd_index = code - 145], {})
               t8 == Kept([svr EXCEPT !.type = "T8VTDB"], {})
               reserved == code \in {0, 128, 255} \cup 161..192
               isVic == code \in 1..127 \cup 193..253
               isDtd == code \in 129..144
               isVtdb == code \in 145..160
    <3>1. parse_svr(code) = CASE reserved -> Dropped({"reserved SVR"})
                              [] isVic -> vic [] isDtd -> dtd [] isVtdb -> vtdb [] code = 254 -> t8
      BY Zenon DEF parse_svr
    <3>2. reserved /\ ~isVic /\ ~isDtd /\ ~isVtdb /\ code # 254 BY <2>2
    <3> HIDE DEF vic, dtd, vtdb, t8, reserved, isVic, isDtd, isVtdb
    <3>3. parse_svr(code) = Dropped({"reserved SVR"}) BY <3>1, <3>2
    <3> QED BY <1>5, <3>3
  <2>3. CASE code \in 1..127 \cup 193..253 BY <2>3 DEF Settled, parse_svr, Kept
  <2>4. CASE code \in 129..144 BY <2>4 DEF Settled, parse_svr, Kept
  <2>5. CASE code \in 145..160 BY <2>5 DEF Settled, parse_svr, Kept
  <2>6. CASE code = 254 BY <2>6 DEF Settled, parse_svr, Kept
  <2> QED BY <2>1, <2>2, <2>3, <2>4, <2>5, <2>6, ZenonT(40)
<1>4. ASSUME NEW r, NEW d PROVE Settled(parse_sad(r, d), r <= 3)
  <2> DEFINE format == parse_sad_format(get_bit_range(d[1], 6, 3), get_bit_range(d[3],
    7, 3))
  <2>1. CASE format = "reserved"
    <3>1. parse_sad(r, d) = Dropped(Until(r, 3, TRUE, "audio format")) BY <2>1 DEF
      parse_sad
    <3> QED BY <1>5, <3>1
  <2>2. CASE format # "reserved" BY <2>2 DEF Settled, parse_sad, Kept
  <2> QED BY <2>1, <2>2
<1> QED BY <1>1, <1>2, <1>3, <1>4

(* A list of checks settles it.                                            *)
LEMMA CheckedSettled ==
  ASSUME NEW N \in Nat, NEW checks, DOMAIN checks = 1..N, NEW value, NEW known \in BOOLEAN,
         known => \A i \in 1..N : checks[i].bad /\ checks[i].drops => checks[i].reported
  PROVE  Settled(Checked(checks, value), known)
<1>1. Checked(checks, value).kept = TRUE \/ Checked(checks, value).kept = FALSE
  BY DEF Checked, Kept, Dropped
<1>2. known /\ Checked(checks, value).kept # TRUE => Checked(checks, value).failures # {}
  BY CheckedDropped
<1> QED BY <1>1, <1>2 DEF Settled

(* Four decoders go through such a list; that of the range limits reports  *)
(* only in the revisions it knows.                                         *)
LEMMA RangeSettled ==
  ASSUME NEW r \in Nat, NEW features, NEW d
  PROVE  Settled(parse_display_range_limits(r, features, d), r <= 4)
<1> DEFINE checks == RangeChecks(r, features, d)
           limits == RangeLimitChecks(r, d)
           order == RangeOrder(RangeRates(r, d))
           class == RangeClassChecks(r, features, d)
<1>1. Parted(checks, limits, order, class) BY RangeChecksAt
<1>2. PICK value : parse_display_range_limits(r, features, d) = Checked(checks, value)
  BY DEF parse_display_range_limits
<1>3. \A bad, failure : /\ Refuse(bad, TRUE, failure).reported
                        /\ r <= 4 => Refuse(bad, r <= 4, failure).reported
                        /\ ~Note(bad, TRUE, failure).drops
                        /\ ~Note(bad, r <= 4, failure).drops
  BY DEF Refuse, Note
<1>4. r <= 4 => \A i \in 1..4 : limits[i].drops => limits[i].reported
  <2>1. /\ \E bad : limits[1] = Refuse(bad, r <= 4, "offset flags")
        /\ \E bad : limits[2] = Note(bad, TRUE, "offsets in 1.3")
        /\ \E bad : limits[3] = Note(bad, TRUE, "offset bits")
        /\ \E bad : limits[4] = Refuse(bad, TRUE, "reserved limits")
    BY DEF RangeLimitChecks
  <2> HIDE DEF limits
  <2>2. \A i \in 1..4 : i = 1 \/ i = 2 \/ i = 3 \/ i = 4 OBVIOUS
  <2> QED BY <1>3, <2>1, <2>2
<1>5. \A i \in 1..2 : order[i].drops => order[i].reported
  <2>1. /\ \E bad : order[1] = Refuse(bad, TRUE, "min vertical")
        /\ \E bad : order[2] = Refuse(bad, TRUE, "min horizontal")
    BY DEF RangeOrder
  <2> HIDE DEF order
  <2>2. \A i \in 1..2 : i = 1 \/ i = 2 OBVIOUS
  <2> QED BY <1>3, <2>1, <2>2
<1>6. r <= 4 => \A i \in 1..11 : class[i].drops => class[i].reported
  <2>1. /\ \E bad : class[1] = Note(bad, TRUE, "max dotclock")
        /\ \E bad : class[2] = Refuse(bad, TRUE, "range class")
        /\ \E bad : class[3] = Refuse(bad, TRUE, "continuous")
        /\ \E bad : class[4] = Note(bad, TRUE, "byte 11")
    BY DEF RangeClassChecks
  <2>2. /\ \E bad : class[5] = Note(bad, TRUE, "byte 11")
        /\ \E bad : class[6] = Note(bad, TRUE, "bytes 12-17")
        /\ \E bad : class[7] = Note(bad, r <= 4, "byte 14")
        /\ \E bad : class[8] = Refuse(bad, r <= 4, "preferred aspect")
    BY DEF RangeClassChecks
  <2>3. /\ \E bad : class[9] = Note(bad, r <= 4, "byte 15")
        /\ \E bad : class[10] = Note(bad, r <= 4, "byte 16")
        /\ \E bad : class[11] = Refuse(bad, r <= 4, "preferred refresh")
    BY DEF RangeClassChecks
  <2> HIDE DEF class
  <2>4. \A i \in 1..11 : i = 1 \/ i = 2 \/ i = 3 \/ i = 4 \/ i = 5 \/ i = 6 \/ i = 7 \/ i = 8
                         \/ i = 9 \/ i = 10 \/ i = 11
    OBVIOUS
  <2>5. ASSUME r <= 4
        PROVE  /\ ~class[1].drops /\ class[2].reported /\ class[3].reported /\ ~class[4].drops
               /\ ~class[5].drops /\ ~class[6].drops /\ ~class[7].drops /\ class[8].reported
    BY <1>3, <2>1, <2>2, <2>5, Zenon
  <2>6. ASSUME r <= 4 PROVE ~class[9].drops /\ ~class[10].drops /\ class[11].reported
    BY <1>3, <2>3, <2>6, Zenon
  <2> QED BY <2>4, <2>5, <2>6, Zenon
<1> HIDE DEF checks, limits, order, class
<1>7. r <= 4 => \A i \in 1..17 : checks[i].bad /\ checks[i].drops => checks[i].reported
  <2>1. \A i \in 1..17 : i \in 1..4 \/ (\E j \in 1..2 : i = 4 + j) \/ (\E j \in 1..11 : i = 6 + j)
    <3>1. ASSUME NEW i \in 1..17, i \notin 1..4, i \notin 5..6 PROVE \E j \in 1..11 : i = 6 + j
      <4>1. i - 6 \in 1..11 /\ i = 6 + (i - 6) BY <3>1
      <4> QED BY <4>1
    <3>2. ASSUME NEW i \in 5..6 PROVE \E j \in 1..2 : i = 4 + j
      <4>1. i - 4 \in 1..2 /\ i = 4 + (i - 4) OBVIOUS
      <4> QED BY <4>1
    <3> QED BY <3>1, <3>2
  <2> QED BY <1>1, <1>4, <1>5, <1>6, <2>1 DEF Parted
<1>8. DOMAIN checks = 1..17 /\ 17 \in Nat BY <1>1 DEF Parted
<1>9. (r <= 4) \in BOOLEAN OBVIOUS
<1>10. Settled(Checked(checks, value), r <= 4) BY <1>7, <1>8, <1>9, CheckedSettled
<1> QED BY <1>2, <1>10

(* Those of the others report in every revision.                           *)
LEMMA ChecksSettled ==
  \A d : /\ Settled(parse_vesa_dddb(d), TRUE)
         /\ Settled(parse_did_type_vii_timing(d), TRUE)
         /\ Settled(parse_type_iii_timing(d), TRUE)
<1>0. /\ \A bad, failure : Refuse(bad, TRUE, failure).reported = TRUE
      /\ \A bad, failure : Note(bad, TRUE, failure).reported = TRUE
  BY DEF Refuse, Note
<1>1. ASSUME NEW d PROVE Settled(parse_vesa_dddb(d), TRUE)
  <2> DEFINE type == get_bit_range(d[1], 7, 4)
             low == get_bit_range(d[1], 3, 0)
             interface == CASE type = 0 /\ low < 3 -> DddbAnalog[low + 1]
                            [] type \in DOMAIN DddbInterfaces -> DddbInterfaces[type]
                            [] OTHER -> "unknown"
             channels == IF type = 0 THEN 0 ELSE low
             v == DddbValue(interface, channels, d)
             checks ==
               <<Refuse(interface = "unknown", TRUE, "interface"),
                 Note(channels \notin DddbChannels(interface), TRUE, "channels"),
                 Note(d[3] \notin 0..3, TRUE, "content protection"),
                 Note(DddbClocks(d)[1] > DddbClocks(d)[2], TRUE, "clocks"),
                 Note(get_bit_range(d[11], 1, 0) = 3, TRUE, "scan direction"),
                 Note(d[12] \notin 0..12, TRUE, "subpixel layout"),
                 Note(d[15] % 8 # 0, TRUE, "misc bits"),
                 Note(d[16] % 32 # 0, TRUE, "audio bits"),
                 Note(get_bit_range(d[22], 3, 2) # 0, TRUE, "chromaticity bits")>>
  <2>1. parse_vesa_dddb(d) = IF Len(d) # 30 THEN Dropped({"length"}) ELSE Checked(checks, v)
    BY Zenon DEF parse_vesa_dddb
  <2>2. DOMAIN checks = 1..9 OBVIOUS
  <2>3. \A i \in 1..9 : checks[i].reported = TRUE
    <3>1. /\ \E bad, f : checks[1] = Refuse(bad, TRUE, f)
          /\ \E bad, f : checks[2] = Note(bad, TRUE, f)
          /\ \E bad, f : checks[3] = Note(bad, TRUE, f)
          /\ \E bad, f : checks[4] = Note(bad, TRUE, f)
          /\ \E bad, f : checks[5] = Note(bad, TRUE, f)
          /\ \E bad, f : checks[6] = Note(bad, TRUE, f)
          /\ \E bad, f : checks[7] = Note(bad, TRUE, f)
          /\ \E bad, f : checks[8] = Note(bad, TRUE, f)
          /\ \E bad, f : checks[9] = Note(bad, TRUE, f)
      OBVIOUS
    <3> HIDE DEF checks
    <3>2. \A i \in 1..9 : i = 1 \/ i = 2 \/ i = 3 \/ i = 4 \/ i = 5 \/ i = 6 \/ i = 7 \/ i = 8 \/ i = 9
      OBVIOUS
    <3>3. /\ checks[1].reported = TRUE /\ checks[2].reported = TRUE /\ checks[3].reported = TRUE
          /\ checks[4].reported = TRUE /\ checks[5].reported = TRUE /\ checks[6].reported = TRUE
          /\ checks[7].reported = TRUE /\ checks[8].reported = TRUE /\ checks[9].reported = TRUE
      <4>1. /\ \A c : (\E bad, f : c = Refuse(bad, TRUE, f)) => c.reported = TRUE
            /\ \A c : (\E bad, f : c = Note(bad, TRUE, f)) => c.reported = TRUE
        BY <1>0
      <4> QED BY <3>1, <4>1, Zenon
    <3> QED BY <3>2, <3>3, Zenon
  <2> HIDE DEF checks, v
  <2>4. Settled(Checked(checks, v), TRUE) BY <2>2, <2>3, CheckedSettled
  <2>5. Settled(Dropped({"length"}), TRUE) BY DEF Settled, Dropped
  <2> QED BY <2>1, <2>4, <2>5
<1>2. ASSUME NEW d PROVE Settled(parse_did_type_vii_timing(d), TRUE)
  <2> DEFINE timing == _di_displayid_parse_type_1_7_timing(Tail(d), 0)
             checks == <<Refuse(Len(d) # 21, TRUE, "length"),
                         Refuse(get_bit_range(d[1], 6, 4) # 0, TRUE, "T7_M"),
                         Refuse(d[1] % 8 # 2, TRUE, "revision"),
                         Note(has_bit(d[1], 3), TRUE, "DSC_PT"),
                         Note(has_bit(d[1], 7), TRUE, "bit 7")>>
             header == Checked(checks, NULL)
  <2>1. parse_did_type_vii_timing(d)
          = IF header.kept THEN Kept(timing.value, header.failures \cup timing.failures) ELSE header
    BY Zenon DEF parse_did_type_vii_timing
  <2>2. DOMAIN checks = 1..5 OBVIOUS
  <2>3. \A i \in 1..5 : checks[i].reported = TRUE
    <3>1. /\ \E bad, f : checks[1] = Refuse(bad, TRUE, f)
          /\ \E bad, f : checks[2] = Refuse(bad, TRUE, f)
          /\ \E bad, f : checks[3] = Refuse(bad, TRUE, f)
          /\ \E bad, f : checks[4] = Note(bad, TRUE, f)
          /\ \E bad, f : checks[5] = Note(bad, TRUE, f)
      OBVIOUS
    <3> HIDE DEF checks
    <3>2. \A i \in 1..5 : i = 1 \/ i = 2 \/ i = 3 \/ i = 4 \/ i = 5 OBVIOUS
    <3>3. \A i \in 1..5 : \E bad, f : checks[i] = Refuse(bad, TRUE, f) \/ checks[i] = Note(bad, TRUE, f)
      BY <3>1, <3>2, ZenonT(40)
    <3> QED BY <1>0, <3>3
  <2> HIDE DEF checks
  <2>4. Settled(header, TRUE) BY <2>2, <2>3, CheckedSettled
  <2>5. \A value, failures : Kept(value, failures).kept = TRUE BY DEF Kept
  <2> HIDE DEF header
  <2> QED BY <2>1, <2>4, <2>5 DEF Settled
<1>3. ASSUME NEW d PROVE Settled(parse_type_iii_timing(d), TRUE)
  <2> DEFINE algo == get_bit_range(d[1], 6, 4)
             aspect == get_bit_range(d[1], 3, 0)
             checks == <<Refuse(algo \notin 0..1, TRUE, "algorithm"),
                         Refuse(~timing_aspect_ratio_is_valid(aspect), TRUE, "aspect")>>
  <2>1. PICK value : parse_type_iii_timing(d) = Checked(checks, value)
    BY DEF parse_type_iii_timing
  <2>2. DOMAIN checks = 1..2 OBVIOUS
  <2>3. \A i \in 1..2 : checks[i].reported = TRUE
    <3>1. \E bad, f : checks[1] = Refuse(bad, TRUE, f) /\ \E c, g : checks[2] = Refuse(c, TRUE, g)
      OBVIOUS
    <3> HIDE DEF checks
    <3>2. \A i \in 1..2 : i = 1 \/ i = 2 OBVIOUS
    <3> QED BY <1>0, <3>1, <3>2
  <2> HIDE DEF checks
  <2> QED BY <2>1, <2>2, <2>3, CheckedSettled
<1> QED BY <1>1, <1>2, <1>3

(* What the decoder of the kind made of the input is settled, and reported *)
(* if it is dropped in a known revision and not a code for "unused".       *)
LEMMA ResultSettled ==
  ASSUME IInv, pc # "bytes"
  PROVE  result.kept = TRUE \/ (result.kept = FALSE /\ (KnownRevision /\ ~Unused => result.failures # {}))
<1> DEFINE Goal == \/ result.kept = TRUE
                   \/ result.kept = FALSE /\ (KnownRevision /\ ~Unused => result.failures # {})
<1>0. /\ kind \in Kinds /\ rev \in Nat /\ context \in ContextForm(kind) /\ data \in DataForm(kind)
      /\ Decoded
  BY DecoderKinds DEF IInv, Given
<1>1. \A r : Settled(r, TRUE) => \A known : Settled(r, known) BY DEF Settled
<1>2. CASE result.kept = TRUE BY <1>2
<1>3. CASE Settled(result, TRUE) BY <1>3 DEF Settled
<1>4. \A value, failures : Kept(value, failures).kept = TRUE BY DEF Kept
<1>5. CASE kind \in {"vendor", "basic", "chroma", "established", "dtd"}
  BY <1>0, <1>2, <1>4, <1>5, BaseKept DEF Decoded
<1>6. CASE kind \in {"color_point", "color_management", "established_iii"}
  BY <1>0, <1>2, <1>6, BaseKept DEF Decoded
<1>7. CASE kind = "range"
  <2>1. Settled(result, rev <= 4) BY <1>0, <1>7, RangeSettled DEF Decoded
  <2>2. KnownRevision => rev <= 4 BY <1>7 DEF KnownRevision
  <2> QED BY <2>1, <2>2 DEF Settled
<1>8. CASE kind = "standard"
  <2>1. result = parse_standard_timing(rev, data[1], data[2]) BY <1>0, <1>8 DEF Decoded
  <2>2. Settled(result, rev <= 4 /\ ~(data[1] = 1 /\ data[2] = 1)) BY <2>1, CodesSettled
  <2>3. KnownRevision => rev <= 4 BY <1>8 DEF KnownRevision
  <2>4. data[1] = 1 /\ data[2] = 1 => Unused
    <3>1. data \in Byte \X Byte BY <1>0, <1>8 DEF DataForm
    <3> QED BY <1>8, <3>1 DEF Unused
  <2> QED BY <2>2, <2>3, <2>4 DEF Settled
<1>9. CASE kind = "cvt"
  <2>1. result = parse_cvt_timing_code(data, context) BY <1>0, <1>9 DEF Decoded
  <2>2. Settled(result, ~(~context /\ data = <<0, 0, 0>>)) BY <2>1, CodesSettled
  <2>3. ~context /\ data = <<0, 0, 0>> => Unused BY <1>9 DEF Unused
  <2> QED BY <2>2, <2>3 DEF Settled
<1>10. CASE kind = "video" BY <1>0, <1>2, <1>10, ExtensionKept DEF Decoded
<1>11. CASE kind = "vic" BY <1>0, <1>2, <1>4, <1>11 DEF Decoded
<1>12. CASE kind = "svr"
  <2>1. data \in Byte BY <1>0, <1>12 DEF DataForm
  <2> QED BY <1>0, <1>3, <1>12, <2>1, CodesSettled DEF Decoded
<1>13. CASE kind = "sad"
  <2>1. result = parse_sad(rev, data) BY <1>0, <1>13 DEF Decoded
  <2>2. Settled(result, rev <= 3) BY <2>1, CodesSettled
  <2>3. KnownRevision => rev <= 3 BY <1>13 DEF KnownRevision
  <2> QED BY <2>2, <2>3 DEF Settled
<1>14. CASE kind = "dddb" BY <1>0, <1>3, <1>14, ChecksSettled DEF Decoded
<1>15. CASE kind = "speaker" BY <1>0, <1>3, <1>15, LengthsSettled DEF Decoded
<1>16. CASE kind = "video_cap" BY <1>0, <1>2, <1>16, ExtensionKept DEF Decoded
<1>17. CASE kind = "hdr_static" BY <1>0, <1>3, <1>17, LengthsSettled DEF Decoded
<1>18. CASE kind = "colorimetry" BY <1>0, <1>3, <1>18, LengthsSettled DEF Decoded
<1>19. CASE kind = "hdr_dynamic" BY <1>0, <1>3, <1>19, ListsSettled DEF Decoded
<1>20. CASE kind = "transfer" BY <1>0, <1>3, <1>20, LengthsSettled DEF Decoded
<1>21. CASE kind = "hdmi_audio" BY <1>0, <1>3, <1>21, LengthsSettled DEF Decoded
<1>22. CASE kind = "infoframe" BY <1>0, <1>3, <1>22, ListsSettled DEF Decoded
<1>23. CASE kind = "room" BY <1>0, <1>3, <1>23, LengthsSettled DEF Decoded
<1>24. CASE kind = "location" BY <1>0, <1>3, <1>24, ListsSettled DEF Decoded
<1>25. CASE kind = "type_i"
  <2>1. result \in parse_type_i_timing(data) BY <1>0, <1>25 DEF Decoded
  <2>2. PICK before : result = _di_displayid_parse_type_1_7_timing(data, before)
    BY <2>1 DEF parse_type_i_timing
  <2> QED BY <1>2, <2>2, ExtensionKept
<1>26. CASE kind = "type_vii" BY <1>0, <1>3, <1>26, ChecksSettled DEF Decoded
<1>27. CASE kind = "type_ii" BY <1>0, <1>2, <1>27, ExtensionKept DEF Decoded
<1>28. CASE kind = "type_iii" BY <1>0, <1>3, <1>28, ChecksSettled DEF Decoded
<1>29. CASE kind = "params" BY <1>0, <1>3, <1>29, LengthsSettled DEF Decoded
<1>30. CASE kind = "tiled" BY <1>0, <1>3, <1>30, LengthsSettled DEF Decoded
<1>31. CASE kind = "info" BY <1>0, <1>2, <1>4, <1>31 DEF Decoded
<1> QED BY <1>0, <1>5, <1>6, <1>7, <1>8, <1>9, <1>10, <1>11, <1>12, <1>13, <1>14, <1>15,
  <1>16,
           <1>17, <1>18, <1>19, <1>20, <1>21, <1>22, <1>23, <1>24, <1>25, <1>26, <1>27, <1>28,
           <1>29, <1>30, <1>31 DEF Kinds

(* A whole block or code that is dropped is reported.                      *)
LEMMA WholeDrop == IInv => WholeDropReported
<1> SUFFICES ASSUME IInv, pc = "dropped", KnownRevision, ~Unused PROVE result.failures # {}
  BY DEF WholeDropReported
<1>1. result.kept # TRUE BY DEF IInv, Control
<1> QED BY <1>1, ResultSettled

(* An impossible week is cleared.                                          *)
LEMMA WeekInRange ==
  ASSUME NEW r, NEW d \in Bytes(16, 17)
  PROVE  parse_vendor_product(r, d).value.manufacture_week \in 0..54
<1>1. d[16] \in Byte BY DEF Bytes
<1> QED BY <1>1 DEF parse_vendor_product, Kept, Byte

(* An algorithm or aspect ratio without a name drops the timing.           *)
LEMMA ShortTimingNamed ==
  ASSUME NEW d \in Byte \X Byte \X Byte, parse_type_iii_timing(d).kept = TRUE
  PROVE  /\ parse_type_iii_timing(d).value.algo \in 0..1
         /\ parse_type_iii_timing(d).value.aspect_ratio \in 0..UNDEFINED
<1> DEFINE algo == get_bit_range(d[1], 6, 4)
           aspect == get_bit_range(d[1], 3, 0)
           unknown == ~timing_aspect_ratio_is_valid(aspect)
           checks == <<Refuse(algo \notin 0..1, TRUE, "algorithm"), Refuse(unknown, TRUE, "aspect")>>
           value == [preferred |-> has_bit(d[1], 7), algo |-> algo, aspect_ratio |-> aspect,
                     horiz_active |-> 8 * (d[2] + 1), interlaced |-> has_bit(d[3], 7),
                     refresh_rate_hz |-> 1 + (d[3] % 128)]
<1>1. parse_type_iii_timing(d) = Checked(checks, value) BY Zenon DEF
  parse_type_iii_timing
<1>2. /\ checks[1] = Refuse(algo \notin 0..1, TRUE, "algorithm")
      /\ checks[2] = Refuse(unknown, TRUE, "aspect") /\ 1 \in DOMAIN checks /\ 2 \in DOMAIN checks
  OBVIOUS
<1>3. \A bad \in BOOLEAN : \A failure :
        Refuse(bad, TRUE, failure).drops /\ Refuse(bad, TRUE, failure).bad = bad
  BY DEF Refuse
<1>4. value.algo = algo /\ value.aspect_ratio = aspect OBVIOUS
<1>8. (algo \notin 0..1) \in BOOLEAN /\ unknown \in BOOLEAN OBVIOUS
<1> HIDE DEF checks, value, algo, unknown
<1>5. /\ Checked(checks, value).value = value
      /\ \A i \in DOMAIN checks : ~(checks[i].bad /\ checks[i].drops)
  BY <1>1, CheckedKept
<1>6. algo \in 0..1 /\ ~unknown BY <1>2, <1>3, <1>5, <1>8
<1>7. aspect \in 0..UNDEFINED BY <1>6 DEF unknown, timing_aspect_ratio_is_valid
<1> QED BY <1>1, <1>4, <1>5, <1>6, <1>7

(* Six bits and one more make 1 to 64 tiles.                               *)
LEMMA TilesInRange ==
  ASSUME NEW d \in Bytes(0, 24), NEW size, parse_tiled_topo_block(d, size).kept = TRUE
  PROVE  parse_tiled_topo_block(d, size).value.tiles \in [1..4 -> 1..64]
<1>1. parse_tiled_topo_block(d, size).value.tiles = TileFields(d)
  BY DEF parse_tiled_topo_block, Kept, Dropped
<1>2. \A k \in 0..24 : d[k] \in Byte BY DEF Bytes
<1>3. \A k \in 1..4 : get_bit_range(d[6], 9 - 2 * k, 8 - 2 * k) \in 0..3
  <2>1. \A b \in Byte : /\ get_bit_range(b, 7, 6) \in 0..3 /\ get_bit_range(b, 5, 4) \in 0..3
                        /\ get_bit_range(b, 3, 2) \in 0..3 /\ get_bit_range(b, 1, 0) \in 0..3
    BY Fields, Parts
  <2>2. \A k \in 1..4 : k = 1 \/ k = 2 \/ k = 3 \/ k = 4 OBVIOUS
  <2>3. /\ 9 - 2 * 1 = 7 /\ 8 - 2 * 1 = 6 /\ 9 - 2 * 2 = 5 /\ 8 - 2 * 2 = 4
        /\ 9 - 2 * 3 = 3 /\ 8 - 2 * 3 = 2 /\ 9 - 2 * 4 = 1 /\ 8 - 2 * 4 = 0
    OBVIOUS
  <2>4. 6 \in 0..24 OBVIOUS
  <2>5. ASSUME NEW k \in 1..4 PROVE get_bit_range(d[6], 9 - 2 * k, 8 - 2 * k) \in 0..3
    <3>1. d[6] \in Byte BY <1>2, <2>4
    <3>2. CASE k = 1 BY <2>1, <2>3, <3>1, <3>2
    <3>3. CASE k = 2 BY <2>1, <2>3, <3>1, <3>3
    <3>4. CASE k = 3 BY <2>1, <2>3, <3>1, <3>4
    <3>5. CASE k = 4 BY <2>1, <2>3, <3>1, <3>5
    <3> QED BY <2>2, <3>2, <3>3, <3>4, <3>5
  <2> QED BY <2>5
<1>4. \A k \in 1..4 : /\ get_bit_range(d[4 + (k - 1) \div 2], 7, 4) \in 0..15
                      /\ get_bit_range(d[4 + (k - 1) \div 2], 3, 0) \in 0..15
  <2>1. \A b \in Byte : get_bit_range(b, 7, 4) \in 0..15 /\ get_bit_range(b, 3, 0) \in 0..15
    BY Fields, Parts
  <2>2. \A k \in 1..4 : 4 + (k - 1) \div 2 \in 0..24 OBVIOUS
  <2> QED BY <1>2, <2>1, <2>2
<1>5. \A i \in 0..3, j \in 0..15 : 1 + 16 * i + j \in 1..64
  <2> SUFFICES ASSUME NEW i \in 0..3, NEW j \in 0..15 PROVE 1 + 16 * i + j \in 1..64 OBVIOUS
  <2>1. i = 0 \/ i = 1 \/ i = 2 \/ i = 3 OBVIOUS
  <2> QED BY <2>1
<1>6. ASSUME NEW k \in 1..4 PROVE TileFields(d)[k] \in 1..64
  <2> DEFINE top == get_bit_range(d[6], 9 - 2 * k, 8 - 2 * k)
             high == get_bit_range(d[4 + (k - 1) \div 2], 7, 4)
             low == get_bit_range(d[4 + (k - 1) \div 2], 3, 0)
  <2>1. TileFields(d)[k] = 1 + 16 * top + (IF k % 2 = 1 THEN high ELSE low) BY DEF
    TileFields
  <2>2. top \in 0..3 /\ high \in 0..15 /\ low \in 0..15 BY <1>3, <1>4
  <2> HIDE DEF top, high, low
  <2> QED BY <1>5, <2>1, <2>2
<1>7. TileFields(d) = [k \in 1..4 |-> TileFields(d)[k]] BY DEF TileFields
<1> QED BY <1>1, <1>6, <1>7

(* The values that are kept have their fields in range.                    *)
LEMMA ValuesInRange ==
  ASSUME IInv, Seen
  PROVE  ValueOK
<1>0. /\ context \in ContextForm(kind) /\ data \in DataForm(kind)
      /\ rev \in Nat /\ Decoded /\ result.kept = TRUE /\ pc # "bytes"
  BY DEF IInv, Given, Control, Seen
<1>1. CASE kind = "vendor"
  <2>1. data \in Bytes(16, 17) /\ result = parse_vendor_product(rev, data)
    BY <1>0, <1>1 DEF Decoded, DataForm
  <2>2. result.value.manufacture_week \in 0..54 BY <2>1, WeekInRange
  <2> QED BY <1>1, <2>2 DEF ValueOK
<1>2. CASE kind = "range"
  <2>1. data \in Bytes(4, 17) /\ result = parse_display_range_limits(rev, context, data)
    BY <1>0, <1>2 DEF Decoded, DataForm
  <2>2. result.value.type \in {"bare", "default GTF", "secondary GTF", "CVT"}
    BY <1>0, <2>1, RangeTotal
  <2> QED BY <1>2, <2>2 DEF ValueOK
<1>3. CASE kind = "svr"
  <2>1. data \in Byte /\ result = parse_svr(data) BY <1>0, <1>3 DEF Decoded, DataForm
  <2>2. result.value.type \in {"VIC", "DTD", "VTDB", "T8VTDB"} BY <1>0, <2>1, SvrKinds
  <2> QED BY <1>3, <2>2 DEF ValueOK
<1>4. CASE kind = "sad"
  <2>1. data \in Byte \X Byte \X Byte /\ result = parse_sad(rev, data)
    BY <1>0, <1>4 DEF Decoded, DataForm
  <2>2. result.value.max_channels \in 0..32 BY <1>0, <2>1, SadTotal
  <2> QED BY <1>4, <2>2 DEF ValueOK
<1>5. CASE kind = "dddb"
  <2>1. data \in Seq(Byte) /\ result = parse_vesa_dddb(data)
    BY <1>0, <1>5 DEF Decoded, DataForm, Payload
  <2>2. /\ result.value.content_protection \in 0..3 /\ result.value.scan_direction \in 0..2
        /\ result.value.subpixel_layout \in 0..12
    BY <1>0, <2>1, DddbTotal
  <2> QED BY <1>5, <2>2 DEF ValueOK
<1>6. CASE kind = "hdr_dynamic"
  <2>1. result = parse_hdr_dynamic_metadata_block(data) BY <1>0, <1>6 DEF Decoded
  <2>2. DOMAIN result.value \subseteq HdrFlagTypes \cup {3} BY <1>0, <2>1, HdrTypesKnown
  <2> QED BY <1>6, <2>2 DEF ValueOK
<1>7. CASE kind = "type_iii"
  <2>1. data \in Byte \X Byte \X Byte /\ result = parse_type_iii_timing(data)
    BY <1>0, <1>7 DEF Decoded, DataForm
  <2>2. result.value.algo \in 0..1 /\ result.value.aspect_ratio \in 0..UNDEFINED
    BY <1>0, <2>1, ShortTimingNamed
  <2> QED BY <1>7, <2>2 DEF ValueOK
<1>8. CASE kind = "tiled"
  <2>1. data \in Bytes(0, 24) /\ result = parse_tiled_topo_block(data, context)
    BY <1>0, <1>8 DEF Decoded, DataForm
  <2>2. result.value.tiles \in [1..4 -> 1..64] BY <1>0, <2>1, TilesInRange
  <2> QED BY <1>8, <2>2 DEF ValueOK
<1>9. CASE kind \notin {"vendor", "range", "svr", "sad", "dddb", "hdr_dynamic", "type_iii", "tiled"}
  BY <1>9 DEF ValueOK
<1> QED BY <1>1, <1>2, <1>3, <1>4, <1>5, <1>6, <1>7, <1>8, <1>9

(* The state has its form, and the fields of what is kept that stand for   *)
(* an enumeration of the headers are in its range, whatever the bytes.     *)
THEOREM TypeCorrect == Spec => []TypeOK
<1>1. IInv => TypeOK
  <2> SUFFICES ASSUME IInv PROVE TypeOK OBVIOUS
  <2>1. kind \in DOMAIN Inputs /\ rev \in Revisions BY DEF IInv, Given
  <2>2. pc \in {"bytes", "kept", "dropped", "printed", "aborted"} BY DEF IInv, Control
  <2>3. result.kept \in BOOLEAN
    <3>1. CASE pc = "bytes"
      <4>1. result = Dropped({}) BY <3>1 DEF IInv, Control
      <4>2. Dropped({}).kept = FALSE BY DEF Dropped
      <4> QED BY <4>1, <4>2
    <3>2. CASE pc # "bytes" BY <3>2, ResultSettled
    <3> QED BY <3>1, <3>2
  <2>4. Seen => result.kept /\ ValueOK BY ValuesInRange DEF IInv, Control
  <2>5. lines # {} => pc \in {"printed", "aborted"} BY DEF IInv, Control
  <2> QED BY <2>1, <2>2, <2>3, <2>4, <2>5 DEF TypeOK
<1> QED BY <1>1, Invariant, PTL

(* Printers that have a line for whatever they get: sets of lines of       *)
(* several words.                                                          *)
LEMMA PlainLines ==
  /\ \A a, b, c : {<<"flags", a>>, <<"polarities", b>>, <<"back porch", c>>} # Abort
  /\ \A S : {<<"DMT", row.dmt_id>> : row \in S} # Abort
  /\ \A S : {<<"CVT", line>> : line \in S} # Abort
  /\ \A a, S : {<<"YCbCr 4:2:0", k, a[k]>> : k \in S} # Abort
  /\ \A a, b : {<<"VIC", a>>} # Abort /\ {<<"VIC", a, b>>} # Abort
  /\ \A speakers : SpeakerLines(speakers) # Abort
  /\ \A v : ColorimetryLines(v) # Abort
  /\ \A v : HdrDynamicLines(v) # Abort
  /\ \A v : TransferLines(v) # Abort
  /\ \A t : ShortTimingLines(t) # Abort
<1>1. \A a, b, c : {<<"flags", a>>, <<"polarities", b>>, <<"back porch", c>>} # Abort
  BY LongLine, NotAbort
<1>2. \A S : {<<"DMT", row.dmt_id>> : row \in S} # Abort BY LongLine, NotAbort
<1>3. \A S : {<<"CVT", line>> : line \in S} # Abort BY LongLine, NotAbort
<1>4. \A a, S : {<<"YCbCr 4:2:0", k, a[k]>> : k \in S} # Abort BY LongLine, NotAbort
<1>5. \A a, b : {<<"VIC", a>>} # Abort /\ {<<"VIC", a, b>>} # Abort BY LongLine, NotAbort
<1>6. \A speakers : SpeakerLines(speakers) # Abort BY LongLine, NotAbort DEF
  SpeakerLines
<1>7. \A v : ColorimetryLines(v) # Abort BY LongLine, NotAbort DEF ColorimetryLines
<1>8. \A v : HdrDynamicLines(v) # Abort BY LongLine, NotAbort DEF HdrDynamicLines
<1>9. \A v : TransferLines(v) # Abort BY LongLine, NotAbort DEF TransferLines
<1>10. ASSUME NEW t PROVE ShortTimingLines(t) # Abort
  <2> DEFINE v_lines == (t.horiz_active * TimingAspects[t.aspect_ratio + 1][2])
                          \div TimingAspects[t.aspect_ratio + 1][1]
             line == <<"CVT", t.horiz_active, v_lines, t.preferred,
                       di_cvt_compute(t.horiz_active, v_lines, t.refresh_rate_hz,
                                      t.interlaced, t.algo = 1)>>
  <2>1. ShortTimingLines(t) = IF t.aspect_ratio = UNDEFINED THEN {} ELSE {line}
    BY Zenon DEF ShortTimingLines
  <2>2. line # <<"abort">>
    <3>1. \A a, b, c, e : <<"CVT", a, b, c, e>> # <<"abort">> OBVIOUS
    <3> HIDE DEF v_lines
    <3> QED BY <3>1, Zenon
  <2> HIDE DEF line
  <2> QED BY <2>1, <2>2, NotAbort
<1> QED BY <1>1, <1>2, <1>3, <1>4, <1>5, <1>6, <1>7, <1>8, <1>9, <1>10, Zenon

(* A timing of type I with a reserved stereo value is the only thing kept  *)
(* that a printer has no name for.                                         *)
LEMMA AbortExplained ==
  ASSUME IInv, pc = "aborted", kind # "type_i"
  PROVE  FALSE
<1>0. /\ context \in ContextForm(kind) /\ data \in DataForm(kind) /\ rev \in Nat
      /\ Decoded /\ result.kept = TRUE /\ pc # "bytes" /\ kind \in PrintedKinds
      /\ lines = Abort /\ Printed /\ pc \in {"printed", "aborted"}
  BY DEF IInv, Given, Control, Seen, Printed
<1>1. CASE kind = "vendor"
  <2>1. lines = VendorLines(result.value) BY <1>0, <1>1 DEF Printed
  <2> QED BY <1>0, <2>1, VendorTotal
<1>2. CASE kind = "basic"
  <2>1. lines = BasicLines(rev, result.value) BY <1>0, <1>2 DEF Printed
  <2>2. data \in Bytes(20, 24) /\ result = parse_basic_params_features(rev, data)
    BY <1>0, <1>2 DEF Decoded, DataForm
  <2> QED BY <1>0, <2>1, <2>2, BasicTotal
<1>3. CASE kind = "dtd" BY <1>0, <1>3, PlainLines DEF Printed
<1>4. CASE kind = "range"
  <2>1. lines = RangeLines(rev, result.value) BY <1>0, <1>4 DEF Printed
  <2>2. data \in Bytes(4, 17) /\ result = parse_display_range_limits(rev, context, data)
    BY <1>0, <1>4 DEF Decoded, DataForm
  <2> QED BY <1>0, <2>1, <2>2, RangeTotal
<1>5. CASE kind = "standard"
  <2>1. lines = {StandardLine(result.value)} BY <1>0, <1>5 DEF Printed
  <2> QED BY <1>0, <2>1, StandardTotal
<1>6. CASE kind = "established_iii" BY <1>0, <1>6, PlainLines DEF Printed
<1>7. CASE kind = "cvt" BY <1>0, <1>7, PlainLines DEF Printed
<1>8. CASE kind = "video" BY <1>0, <1>8, PlainLines, ZenonT(40) DEF Printed
<1>9. CASE kind = "vic" BY <1>0, <1>9, PlainLines DEF Printed
<1>10. CASE kind = "svr"
  <2>1. lines = {SvrLine(result.value)} BY <1>0, <1>10 DEF Printed
  <2>2. data \in Byte /\ result = parse_svr(data) BY <1>0, <1>10 DEF Decoded, DataForm
  <2>3. result.value.type \in {"VIC", "DTD", "VTDB", "T8VTDB"} BY <1>0, <2>2, SvrKinds
  <2> QED BY <1>0, <2>1, <2>3, SvrTotal
<1>11. CASE kind = "sad"
  <2>1. lines = SadLines(result.value) BY <1>0, <1>11 DEF Printed
  <2>2. data \in Byte \X Byte \X Byte /\ result = parse_sad(rev, data)
    BY <1>0, <1>11 DEF Decoded, DataForm
  <2> QED BY <1>0, <2>1, <2>2, SadTotal
<1>12. CASE kind = "dddb"
  <2>1. lines = DddbLines(result.value) BY <1>0, <1>12 DEF Printed
  <2>2. data \in Seq(Byte) /\ result = parse_vesa_dddb(data)
    BY <1>0, <1>12 DEF Decoded, DataForm, Payload
  <2> QED BY <1>0, <2>1, <2>2, DddbTotal
<1>13. CASE kind = "speaker" BY <1>0, <1>13, PlainLines DEF Printed
<1>14. CASE kind = "video_cap"
  <2>1. lines = VideoCapLines(result.value) BY <1>0, <1>14 DEF Printed
  <2>2. data \in Byte /\ result = parse_video_cap_block(rev, context, data)
    BY <1>0, <1>14 DEF Decoded, DataForm
  <2> QED BY <1>0, <2>1, <2>2, VideoCapTotal
<1>15. CASE kind = "hdr_static"
  <2>1. lines = HdrStaticLines(result.value) BY <1>0, <1>15 DEF Printed
  <2>2. result = parse_hdr_static_metadata_block(rev, data) BY <1>0, <1>15 DEF Decoded
  <2> QED BY <1>0, <2>1, <2>2, HdrStaticTotal
<1>16. CASE kind = "colorimetry" BY <1>0, <1>16, PlainLines DEF Printed
<1>17. CASE kind = "hdr_dynamic" BY <1>0, <1>17, PlainLines DEF Printed
<1>18. CASE kind = "transfer" BY <1>0, <1>18, PlainLines DEF Printed
<1>19. CASE kind = "hdmi_audio"
  <2>1. lines = HdmiAudioLines(result.value) BY <1>0, <1>19 DEF Printed
  <2>2. data \in Seq(Byte) /\ result = parse_hdmi_audio_block(rev, data)
    BY <1>0, <1>19 DEF Decoded, DataForm, Payload
  <2> QED BY <1>0, <2>1, <2>2, HdmiAudioTotal
<1>20. CASE kind = "infoframe"
  <2>1. lines = InfoFrameLines(result.value) BY <1>0, <1>20 DEF Printed
  <2>2. data \in Seq(Byte) /\ result = parse_infoframe_block(data)
    BY <1>0, <1>20 DEF Decoded, DataForm, Payload
  <2> QED BY <1>0, <2>1, <2>2, InfoFrameTotal
<1>21. CASE kind = "type_vii"
  <2>1. lines = TimingLines(result.value) BY <1>0, <1>21 DEF Printed
  <2>2. data \in Seq(Byte) /\ result = parse_did_type_vii_timing(data)
    BY <1>0, <1>21 DEF Decoded, DataForm, Payload
  <2>3. result.value = _di_displayid_parse_type_1_7_timing(Tail(data), 0).value
    BY <1>0, <2>2, TypeViiKept
  <2>4. 0 \in Stereo3d BY DEF Stereo3d
  <2>5. result.value.options.stereo_3d \in Stereo3d BY <2>3, <2>4, StereoNamed
  <2> QED BY <1>0, <2>1, <2>5, TimingTotal
<1>22. CASE kind = "type_ii"
  <2>1. lines = TimingLines(result.value) BY <1>0, <1>22 DEF Printed
  <2>2. result = parse_type_ii_timing(data) BY <1>0, <1>22 DEF Decoded
  <2>3. result.value.options.stereo_3d \in Stereo3d BY <2>2, TypeIiStereo
  <2> QED BY <1>0, <2>1, <2>3, TimingTotal
<1>23. CASE kind = "type_iii" BY <1>0, <1>23, PlainLines DEF Printed
<1>24. CASE kind = "tiled"
  <2>1. lines = TiledLines(result.value) BY <1>0, <1>24 DEF Printed
  <2>2. result = parse_tiled_topo_block(data, context) BY <1>0, <1>24 DEF Decoded
  <2> QED BY <1>0, <2>1, <2>2, TiledTotal
<1> QED BY <1>0, <1>1, <1>2, <1>3, <1>4, <1>5, <1>6, <1>7, <1>8, <1>9, <1>10, <1>11,
  <1>12, <1>13,
           <1>14, <1>15, <1>16, <1>17, <1>18, <1>19, <1>20, <1>21, <1>22, <1>23, <1>24
        DEF PrintedKinds, Kinds

(* No value that a decoder keeps makes a printer call abort() or fail an   *)
(* assertion, except the stereo value that parse_type_i_timing leaves      *)
(* uninitialized, whose failure has been reported by then.                 *)
THEOREM PrintersAreTotal == Spec => []PrintersTotal
<1>1. IInv => PrintersTotal
  <2> SUFFICES ASSUME IInv, pc = "aborted" PROVE ReservedStereo BY DEF PrintersTotal
  <2>1. kind = "type_i" BY AbortExplained
  <2>2. /\ result \in parse_type_i_timing(data) /\ lines = Abort
        /\ lines = TimingLines(result.value)
    BY <2>1 DEF IInv, Decoded, Printed
  <2>3. PICK before : result = _di_displayid_parse_type_1_7_timing(data, before)
    BY <2>2 DEF parse_type_i_timing
  <2>4. "stereo" \in result.failures
    <3>1. result.value.options.stereo_3d \notin Stereo3d BY <2>2, TimingTotal
    <3> QED BY <2>3, <3>1, StereoNamed
  <2> QED BY <2>1, <2>4 DEF ReservedStereo
<1> QED BY <1>1, Invariant, PTL

-----------------------------------------------------------------------------
(* A code that is dropped from a video block is reported.                  *)
LEMMA SvdSettled ==
  ASSUME NEW r, NEW raw \in Byte
  PROVE  Settled(parse_svd(r, raw), r <= 3)
<1> DEFINE bad == raw \in {0, 128} \/ raw >= 254
           plain == raw \in 1..127 \cup 193..253
           native == raw \in 129..192
           value == Kept([vic |-> raw, native |-> FALSE], {})
           nativeValue == Kept([vic |-> raw % 128, native |-> TRUE], {})
<1>1. parse_svd(r, raw) = CASE bad -> Dropped(Until(r, 3, TRUE, "VIC"))
                            [] plain -> value [] native -> nativeValue
  BY Zenon DEF parse_svd
<1>2. /\ bad \/ plain \/ native
      /\ ~(bad /\ plain) /\ ~(bad /\ native) /\ ~(plain /\ native)
  BY DEF Byte
<1>3. Settled(Dropped(Until(r, 3, TRUE, "VIC")), r <= 3)
  <2>1. Until(r, 3, TRUE, "VIC") = IF r <= 3 THEN {"VIC"} ELSE {} BY DEF Until, Always
  <2>2. {"VIC"} # {} OBVIOUS
  <2> QED BY <2>1, <2>2 DEF Settled, Dropped
<1>4. Settled(value, r <= 3) /\ Settled(nativeValue, r <= 3) BY DEF Settled, Kept
<1> HIDE DEF bad, plain, native, value, nativeValue
<1>5. \/ parse_svd(r, raw) = Dropped(Until(r, 3, TRUE, "VIC")) \/ parse_svd(r, raw) = value
      \/ parse_svd(r, raw) = nativeValue
  BY <1>1, <1>2
<1> QED BY <1>3, <1>4, <1>5

(* The value of a video block, none of whose codes is dropped, has one     *)
(* descriptor for every code.                                              *)
LEMMA WholeVideoBlock ==
  ASSUME NEW r, NEW d \in Seq(Byte), \A k \in 1..Len(d) : parse_svd(r, d[k]).kept = TRUE
  PROVE  parse_video_block(r, d).value = [k \in 1..Len(d) |-> parse_svd(r, d[k]).value]
<1> DEFINE raw == [k \in DOMAIN d |-> parse_svd(r, d[k])]
           svds == [k \in DOMAIN d |-> raw[k].value]
           places == {k \in DOMAIN raw : raw[k].kept}
           V == {parse_svd(r, d[k]).value : k \in 1..Len(d)}
<1>1. parse_video_block(r, d).value = Picked(svds, places) BY DEF parse_video_block,
  Kept
<1>2. DOMAIN d = 1..Len(d) /\ Len(d) \in Nat OBVIOUS
<1>3. svds = [k \in 1..Len(d) |-> parse_svd(r, d[k]).value] BY <1>2
<1>4. 1..Len(d) \subseteq places BY <1>2
<1>5. svds \in Seq(V) /\ Len(svds) = Len(d)
  <2>1. svds \in [1..Len(d) -> V] BY <1>3
  <2> HIDE DEF svds, V
  <2> QED BY <1>2, <2>1
<1> HIDE DEF svds, places, V
<1>6. Picked(svds, places) = svds BY <1>4, <1>5, PickedAll
<1> QED BY <1>1, <1>3, <1>6

(* What VideoBlocks makes of its blocks, one by one.                       *)
LEMMA BlockByBlock ==
  ASSUME NEW r, NEW blocks
  PROVE  /\ VideoBlocks(r, blocks).value = [b \in DOMAIN blocks |-> parse_video_block(r, blocks[b]).value]
         /\ \A b \in DOMAIN blocks :
              parse_video_block(r, blocks[b]).failures \subseteq VideoBlocks(r, blocks).failures
         /\ \A b \in DOMAIN blocks : \A k \in DOMAIN blocks[b] :
              parse_svd(r, blocks[b][k]).failures \subseteq VideoBlocks(r, blocks).failures
<1>1. VideoBlocks(r, blocks).value = [b \in DOMAIN blocks |-> parse_video_block(r, blocks[b]).value]
  BY DEF VideoBlocks, Kept
<1>2. VideoBlocks(r, blocks).failures
        = UNION {parse_video_block(r, blocks[b]).failures : b \in DOMAIN blocks}
  BY DEF VideoBlocks, Kept
<1>3. \A b \in DOMAIN blocks :
        parse_video_block(r, blocks[b]).failures \subseteq VideoBlocks(r, blocks).failures
  BY <1>2
<1>4. \A d : \A k \in DOMAIN d : parse_svd(r, d[k]).failures \subseteq parse_video_block(r, d).failures
  <2> SUFFICES ASSUME NEW d PROVE \A k \in DOMAIN d :
                 parse_svd(r, d[k]).failures \subseteq parse_video_block(r, d).failures
    OBVIOUS
  <2> DEFINE raw == [k \in DOMAIN d |-> parse_svd(r, d[k])]
  <2>1. parse_video_block(r, d).failures
          = Always(d = <<>>, "empty") \cup UNION {raw[k].failures : k \in DOMAIN raw}
    BY DEF parse_video_block, Kept
  <2>2. DOMAIN raw = DOMAIN d /\ \A k \in DOMAIN d : raw[k] = parse_svd(r, d[k]) OBVIOUS
  <2> HIDE DEF raw
  <2> QED BY <2>1, <2>2
<1> QED BY <1>1, <1>3, <1>4

(* The video blocks of an input are sequences of bytes.                    *)
LEMMA VideoForm ==
  ASSUME IInv, kind = "video"
  PROVE  /\ data.blocks \in Seq(Seq(Byte)) /\ data.map \in Seq(Byte) /\ Len(data.map) <= 30
         /\ \A b \in 1..Len(data.blocks) : /\ data.blocks[b] \in Seq(Byte)
                                           /\ Len(data.blocks[b]) \in Nat
<1>1. data \in [blocks : Seq(Payload), map : {m \in Payload : Len(m) <= 30}]
  BY DEF IInv, Given, DataForm
<1>2. data.blocks \in Seq(Payload) /\ data.map \in {m \in Payload : Len(m) <= 30} BY <1>1
<1>3. Payload \subseteq Seq(Byte) BY DEF Payload
<1> HIDE DEF Payload
<1>4. data.map \in Seq(Byte) /\ Len(data.map) <= 30 BY <1>2, <1>3
<1>5. data.blocks \in Seq(Seq(Byte)) BY <1>2, <1>3
<1>6. \A b \in 1..Len(data.blocks) : data.blocks[b] \in Seq(Byte) BY <1>5
<1>7. \A s \in Seq(Byte) : Len(s) \in Nat OBVIOUS
<1> QED BY <1>4, <1>5, <1>6, <1>7

(* A video block that comes out shorter has left a failure.                *)
LEMMA SvdDrop == IInv => SvdDropReported
<1> SUFFICES ASSUME IInv, kind = "video", Seen, KnownRevision, result.failures = {},
                    NEW b \in DOMAIN result.value
             PROVE  ~(Len(result.value[b]) < Len(data.blocks[b]))
  BY DEF SvdDropReported
<1>1. result = VideoBlocks(rev, data.blocks) /\ rev <= 3
  BY DEF IInv, Decoded, Seen, KnownRevision
<1> DEFINE d == data.blocks[b]
<1>2. b \in DOMAIN data.blocks /\ result.value[b] = parse_video_block(rev, d).value
  <2>1. result.value = [c \in DOMAIN data.blocks |-> parse_video_block(rev, data.blocks[c]).value]
    BY <1>1, BlockByBlock
  <2> QED BY <2>1
<1>3. b \in 1..Len(data.blocks) BY <1>2, VideoForm
<1>4. d \in Seq(Byte) /\ Len(d) \in Nat /\ DOMAIN d = 1..Len(d) BY <1>3, VideoForm
<1>5. ASSUME NEW k \in 1..Len(d) PROVE parse_svd(rev, d[k]).kept = TRUE
  <2>1. parse_svd(rev, d[k]).failures \subseteq result.failures BY <1>1, <1>2, <1>4, BlockByBlock
  <2>2. d[k] \in Byte BY <1>4
  <2> HIDE DEF d
  <2> QED BY <1>1, <2>1, <2>2, SvdSettled DEF Settled
<1> HIDE DEF d
<1>6. parse_video_block(rev, d).value = [k \in 1..Len(d) |-> parse_svd(rev, d[k]).value]
  BY <1>4, <1>5, WholeVideoBlock, ZenonT(40)
<1>7. Len(parse_video_block(rev, d).value) = Len(d) BY <1>4, <1>6
<1>8. ~(Len(d) < Len(d)) BY <1>4
<1> QED BY <1>2, <1>7, <1>8 DEF d

(* The test of the capability map, in terms of the bytes of the map.       *)
LEMMA SupportedBit ==
  ASSUME NEW map \in Seq(Byte), Len(map) <= 30, NEW j \in Nat \ {0}
  PROVE  di_cta_ycbcr420_cap_map_supported(map, j - 1) <=>
           \/ map = <<>>
           \/ \E b \in DOMAIN map : (j - 1) \div 8 = b - 1 /\ has_bit(map[b], (j - 1) % 8)
<1> DEFINE q == (j - 1) \div 8
<1>1. q \in Nat /\ (q + 1) - 1 = q /\ \A b \in Nat : q = b - 1 => b = q + 1 OBVIOUS
<1>2. DOMAIN map = 1..Len(map) /\ Len(map) \in Nat OBVIOUS
<1> HIDE DEF q
<1>3. q < cap_map_bytes /\ q < Len(map) <=> q + 1 \in DOMAIN map BY <1>1, <1>2 DEF
  cap_map_bytes
<1>4. (\E b \in DOMAIN map : q = b - 1 /\ has_bit(map[b], (j - 1) % 8))
        <=> q + 1 \in DOMAIN map /\ has_bit(map[q + 1], (j - 1) % 8)
  <2>1. ASSUME NEW b \in DOMAIN map, q = b - 1 PROVE b = q + 1 BY <1>1, <1>2, <2>1
  <2>2. ASSUME q + 1 \in DOMAIN map, has_bit(map[q + 1], (j - 1) % 8)
        PROVE  \E b \in DOMAIN map : q = b - 1 /\ has_bit(map[b], (j - 1) % 8)
    BY <1>1, <2>2
  <2>3. ASSUME NEW b \in DOMAIN map, q = b - 1, has_bit(map[b], (j - 1) % 8)
        PROVE  q + 1 \in DOMAIN map /\ has_bit(map[q + 1], (j - 1) % 8)
    BY <2>1, <2>3
  <2> QED BY <2>2, <2>3
<1>5. di_cta_ycbcr420_cap_map_supported(map, j - 1) <=>
        \/ map = <<>>
        \/ (q < cap_map_bytes /\ q < Len(map)) /\ has_bit(map[q + 1], (j - 1) % 8)
  BY Zenon DEF di_cta_ycbcr420_cap_map_supported, q
<1>6. di_cta_ycbcr420_cap_map_supported(map, j - 1) <=>
        \/ map = <<>>
        \/ \E b \in DOMAIN map : q = b - 1 /\ has_bit(map[b], (j - 1) % 8)
  BY <1>3, <1>4, <1>5, Zenon
<1> QED BY <1>6 DEF q

(* The descriptors of all video blocks, in one list, are what the codes of *)
(* all video blocks stand for, as long as none was dropped.                *)
LEMMA CodesInOrder ==
  ASSUME IInv, kind = "video", Seen,
         \A j \in DOMAIN FlattenSeq(data.blocks) : parse_svd(rev, FlattenSeq(data.blocks)[j]).kept
  PROVE  LET codes == FlattenSeq(data.blocks)
             svds == FlattenSeq(result.value)
         IN  /\ codes \in Seq(Byte)
             /\ \E B : svds \in Seq(B)
             /\ Len(svds) = Len(codes)
             /\ \A j \in 1..Len(codes) : svds[j] = parse_svd(rev, codes[j]).value
<1> DEFINE s == data.blocks
           t == result.value
           g == [raw \in Byte |-> parse_svd(rev, raw).value]
           B == {g[raw] : raw \in Byte}
<1>1. result = VideoBlocks(rev, s) BY DEF IInv, Decoded, Seen
<1>2. t = [b \in DOMAIN s |-> parse_video_block(rev, s[b]).value] BY <1>1, BlockByBlock
<1>3. /\ s \in Seq(Seq(Byte)) /\ DOMAIN s = 1..Len(s) /\ Len(s) \in Nat
      /\ \A b \in 1..Len(s) : s[b] \in Seq(Byte) /\ Len(s[b]) \in Nat
  BY VideoForm
<1>4. FlattenSeq(s) \in Seq(Byte)
      /\ \A b \in 1..Len(s) : \A k \in 1..Len(s[b]) :
           \E j \in 1..Len(FlattenSeq(s)) : FlattenSeq(s)[j] = s[b][k]
  BY <1>3, FlattenElements, ZenonT(40)
<1>5. ASSUME NEW b \in 1..Len(s)
      PROVE  t[b] = [k \in 1..Len(s[b]) |-> g[s[b][k]]]
  <2> DEFINE d == s[b]
  <2>1. d \in Seq(Byte) /\ \A k \in 1..Len(d) : d[k] \in Byte BY <1>3
  <2>2. ASSUME NEW k \in 1..Len(d) PROVE parse_svd(rev, d[k]).kept = TRUE
    <3>1. PICK j \in 1..Len(FlattenSeq(s)) : FlattenSeq(s)[j] = d[k] BY <1>4
    <3>2. j \in DOMAIN FlattenSeq(s) BY <1>4
    <3>3. parse_svd(rev, d[k]).kept BY <3>1, <3>2
    <3>4. parse_svd(rev, d[k]).kept = TRUE \/ parse_svd(rev, d[k]).kept = FALSE
      BY <2>1, SvdSettled DEF Settled
    <3> QED BY <3>3, <3>4
  <2>3. t[b] = parse_video_block(rev, d).value BY <1>2, <1>3
  <2> HIDE DEF d
  <2>4. t[b] = [k \in 1..Len(d) |-> parse_svd(rev, d[k]).value]
    BY <2>1, <2>2, <2>3, WholeVideoBlock
  <2>5. \A k \in 1..Len(d) : parse_svd(rev, d[k]).value = g[d[k]] BY <2>1
  <2> HIDE DEF g
  <2>6. t[b] = [k \in 1..Len(d) |-> g[d[k]]] BY <2>4, <2>5
  <2> QED BY <2>6 DEF d
<1>6. g \in [Byte -> B] OBVIOUS
<1>11. \A A, f : \A n \in Nat : f \in [1..n -> A] => f \in Seq(A) /\ Len(f) = n OBVIOUS
<1>7. t \in Seq(Seq(B)) /\ Len(t) = Len(s)
  <2>1. DOMAIN t = 1..Len(s) BY <1>2, <1>3
  <2>2. ASSUME NEW b \in 1..Len(s) PROVE t[b] \in Seq(B)
    <3> HIDE DEF g, B
    <3>1. \A k \in 1..Len(s[b]) : s[b][k] \in Byte BY <1>3
    <3>2. [k \in 1..Len(s[b]) |-> g[s[b][k]]] \in [1..Len(s[b]) -> B] BY <1>6, <3>1
    <3>3. t[b] \in [1..Len(s[b]) -> B] BY <1>5, <3>2
    <3> QED BY <1>3, <1>11, <3>3
  <2>3. t = [b \in 1..Len(s) |-> t[b]] BY <1>2, <1>3
  <2> HIDE DEF t, B
  <2>4. t \in [1..Len(s) -> Seq(B)] BY <2>2, <2>3
  <2> QED BY <1>3, <1>11, <2>4
<1>8. /\ Len(FlattenSeq(t)) = Len(FlattenSeq(s))
      /\ \A j \in 1..Len(FlattenSeq(s)) : FlattenSeq(t)[j] = g[FlattenSeq(s)[j]]
  <2>1. /\ s \in Seq(Seq(Byte)) /\ t \in Seq(Seq(B)) /\ Len(t) = Len(s) /\ g \in [Byte -> B]
        /\ \A b \in 1..Len(s) : t[b] = [k \in 1..Len(s[b]) |-> g[s[b][k]]]
    BY <1>3, <1>5, <1>6, <1>7
  <2> HIDE DEF g, B, t, s
  <2>2. Mapped(t, s, g) BY <2>1 DEF Mapped
  <2>3. Renders(FlattenSeq(t), FlattenSeq(s), g) BY <2>1, <2>2, FlattenMapped
  <2> QED BY <2>3 DEF Renders
<1>9. FlattenSeq(t) \in Seq(B)
  <2> HIDE DEF B, t
  <2> QED BY <1>7, FlattenElements
<1>10. ASSUME NEW j \in 1..Len(FlattenSeq(s))
       PROVE  FlattenSeq(t)[j] = parse_svd(rev, FlattenSeq(s)[j]).value
  <2>1. FlattenSeq(s)[j] \in Byte BY <1>4
  <2> QED BY <1>8, <2>1
<1> QED BY <1>4, <1>8, <1>9, <1>10

(* The lines of the capability map name the formats whose bits are set in  *)
(* it, counted over all video blocks together, and no others.              *)
THEOREM CapabilityMap == Spec => []CapMapNames
<1>1. IInv => CapMapNames
  <2> DEFINE codes == FlattenSeq(data.blocks)
             svds == FlattenSeq(result.value)
             named == {j \in DOMAIN codes :
                         data.map = <<>> \/ \E b \in DOMAIN data.map :
                           (j - 1) \div 8 = b - 1 /\ has_bit(data.map[b], (j - 1) % 8)}
             places == {k \in DOMAIN svds : di_cta_ycbcr420_cap_map_supported(data.map, k - 1)}
             shown == CapMapLines(result.value, data.map)
  <2> SUFFICES ASSUME IInv, kind = "video", pc = "printed",
                      \A j \in DOMAIN codes : parse_svd(rev, codes[j]).kept
               PROVE  {l[3] : l \in lines} = {parse_svd(rev, codes[j]).value : j \in named}
    BY DEF CapMapNames
  <2>1. Seen BY DEF Seen
  <2>2. /\ codes \in Seq(Byte) /\ Len(svds) = Len(codes)
        /\ \A j \in 1..Len(codes) : svds[j] = parse_svd(rev, codes[j]).value
    BY <2>1, CodesInOrder
  <2>3. PICK B : svds \in Seq(B) BY <2>1, CodesInOrder
  <2>4. DOMAIN codes = 1..Len(codes) /\ DOMAIN svds = 1..Len(codes) /\ Len(codes) \in Nat
    BY <2>2, <2>3
  <2>5. lines = {<<"YCbCr 4:2:0", k, shown[k]>> : k \in DOMAIN shown} BY DEF IInv,
    Printed
  <2>6. shown = Picked(svds, places) BY DEF CapMapLines
  <2>7. data.map \in Seq(Byte) /\ Len(data.map) <= 30 BY VideoForm
  <2>8. places = named
    <3>1. \A j \in 1..Len(codes) : j \in Nat \ {0} BY <2>4
    <3> QED BY <2>4, <2>7, <3>1, SupportedBit
  <2> HIDE DEF codes, svds, named, places, shown
  <2>9. {l[3] : l \in lines} = {shown[k] : k \in DOMAIN shown}
    <3>1. \A a, b, c : <<a, b, c>>[3] = c OBVIOUS
    <3>2. ASSUME NEW l \in lines PROVE l[3] \in {shown[k] : k \in DOMAIN shown}
      <4>1. PICK k \in DOMAIN shown : l = <<"YCbCr 4:2:0", k, shown[k]>> BY <2>5
      <4> QED BY <3>1, <4>1
    <3>3. ASSUME NEW k \in DOMAIN shown PROVE shown[k] \in {l[3] : l \in lines}
      <4>1. <<"YCbCr 4:2:0", k, shown[k]>> \in lines BY <2>5
      <4>2. <<"YCbCr 4:2:0", k, shown[k]>>[3] = shown[k] BY <3>1
      <4> QED BY <4>1, <4>2
    <3> QED BY <3>2, <3>3
  <2>10. /\ \A k \in DOMAIN shown : \E i \in (1..Len(svds)) \cap places : shown[k] = svds[i]
         /\ \A i \in (1..Len(svds)) \cap places : \E k \in DOMAIN shown : shown[k] = svds[i]
    <3>1. /\ \A k \in DOMAIN Picked(svds, places) :
               \E i \in (1..Len(svds)) \cap places : Picked(svds, places)[k] = svds[i]
          /\ \A i \in (1..Len(svds)) \cap places :
               \E k \in DOMAIN Picked(svds, places) : Picked(svds, places)[k] = svds[i]
      BY <2>3, PickedElements
    <3> QED BY <2>6, <3>1
  <2>11. named \subseteq 1..Len(codes) BY <2>4 DEF named
  <2>12. {shown[k] : k \in DOMAIN shown} = {svds[j] : j \in named}
    BY <2>2, <2>8, <2>10, <2>11
  <2>13. {svds[j] : j \in named} = {parse_svd(rev, codes[j]).value : j \in named}
    BY <2>2, <2>11
  <2> QED BY <2>9, <2>12, <2>13
<1> QED BY <1>1, Invariant, PTL

-----------------------------------------------------------------------------
(* Entries of the sizes they state, from the first one on, with no room    *)
(* for another one behind.                                                 *)
Cut(S, first, least, size, L) ==
  /\ \A k \in S : k = first \/ \E j \in S : j + size[j] = k
  /\ first <= L + 1
  /\ first \in S \/ first + least > L + 1
  /\ \A k \in S : k + size[k] <= L + 1
  /\ \A k \in S : k + size[k] \in S \/ k + size[k] + least > L + 1

(* A walk that ends where too little is left cuts the payload.             *)
LEMMA WalkCuts ==
  ASSUME NEW L \in Nat, NEW first \in Nat \ {0}, NEW least \in Nat \ {0},
         NEW size \in [1..L -> Nat \ {0}], NEW s, Walk(s, first, least, size, L),
         StopOf(s, first, size) + least > L + 1, StopOf(s, first, size) <= L + 1
  PROVE  Cut(Range(s), first, least, size, L) /\ Range(s) \subseteq 1..(L + 1 - least)
<1>1. /\ s \in Seq(1..L) /\ Len(s) \in Nat /\ DOMAIN s = 1..Len(s)
      /\ \A i \in 1..Len(s) : s[i] \in 1..L /\ s[i] \in Range(s)
      /\ \A k \in Range(s) : \E i \in 1..Len(s) : s[i] = k
  BY DEF Walk, Range
<1>2. \A i \in 1..Len(s) : s[i] + least <= L + 1 /\ s[i] + size[s[i]] <= L + 1 BY DEF
  Walk
<1>3. /\ \A i \in 1..Len(s) : i = 1 => s[i] = first
      /\ \A i \in 1..Len(s) : i # 1 => s[i] = s[i - 1] + size[s[i - 1]]
  BY DEF Walk
<1>4. ASSUME NEW k \in Range(s) PROVE k = first \/ \E j \in Range(s) : j + size[j] = k
  <2>1. PICK i \in 1..Len(s) : s[i] = k BY <1>1
  <2>2. CASE i = 1 BY <1>3, <2>1, <2>2
  <2>3. CASE i # 1
    <3>1. i - 1 \in 1..Len(s) BY <1>1, <2>3
    <3>2. s[i - 1] \in Range(s) /\ s[i - 1] + size[s[i - 1]] = k BY <1>1, <1>3, <2>1, <2>3, <3>1
    <3> QED BY <3>2
  <2> QED BY <2>2, <2>3
<1>5. first <= L + 1 /\ (first \in Range(s) \/ first + least > L + 1)
  <2>1. CASE s = <<>> BY <2>1 DEF StopOf
  <2>2. CASE s # <<>>
    <3>1. 1 \in 1..Len(s) BY <1>1, <2>2
    <3>2. s[1] = first BY <1>3, <3>1
    <3>3. first \in 1..L /\ first \in Range(s) BY <1>1, <3>1, <3>2
    <3> QED BY <3>3
  <2> QED BY <2>1, <2>2
<1>6. ASSUME NEW k \in Range(s)
      PROVE  k + size[k] <= L + 1 /\ (k + size[k] \in Range(s) \/ k + size[k] + least > L + 1)
  <2>1. PICK i \in 1..Len(s) : s[i] = k BY <1>1
  <2>2. CASE i = Len(s)
    <3>1. s # <<>> BY <1>1, <2>1
    <3>2. StopOf(s, first, size) = k + size[k] BY <2>1, <2>2, <3>1 DEF StopOf
    <3> QED BY <3>2
  <2>3. CASE i # Len(s)
    <3>0. \A n \in Nat : \A m \in 1..n : m # n => m + 1 \in 1..n /\ m + 1 # 1 /\ m + 1 - 1 = m
      OBVIOUS
    <3>1. i + 1 \in 1..Len(s) /\ i + 1 # 1 /\ i + 1 - 1 = i BY <1>1, <2>3, <3>0, Zenon
    <3>2. s[i + 1] = k + size[k] BY <1>3, <2>1, <3>1
    <3>3. s[i + 1] \in Range(s) BY <1>1, <3>1
    <3> QED BY <1>2, <2>1, <3>2, <3>3
  <2> QED BY <2>2, <2>3
<1>7. ASSUME NEW k \in Range(s) PROVE k \in 1..(L + 1 - least)
  <2>1. PICK i \in 1..Len(s) : s[i] = k BY <1>1
  <2>2. k \in 1..L /\ k + least <= L + 1 BY <1>1, <1>2, <2>1
  <2> QED BY <2>2
<1> QED BY <1>4, <1>5, <1>6, <1>7 DEF Cut

(* There are as many places in P as there are entries that start there.    *)
OnePlaceEach(s, P) ==
  Cardinality({k \in Range(s) : k \in P}) = Cardinality({i \in 1..Len(s) : s[i] \in P})

(* The entries of a walk start at different places, so that there are as   *)
(* many places of a kind as there are entries of it.                       *)
LEMMA WalkPlaces ==
  ASSUME NEW L \in Nat, NEW first, NEW least, NEW size, NEW s, Walk(s, first, least, size, L), NEW P
  PROVE  OnePlaceEach(s, P)
<1> DEFINE I == {i \in 1..Len(s) : s[i] \in P}
           K == {k \in Range(s) : k \in P}
           f == [i \in I |-> s[i]]
<1>1. /\ s \in Seq(1..L) /\ Len(s) \in Nat /\ DOMAIN s = 1..Len(s)
      /\ \A i, j \in 1..Len(s) : i < j => s[i] < s[j]
  BY DEF Walk
<1>2. f \in [I -> K] BY <1>1 DEF Range
<1>3. ASSUME NEW i \in I, NEW j \in I, f[i] = f[j] PROVE i = j
  <2>1. \A n \in 1..Len(s) : s[n] \in Nat BY <1>1
  <2>2. s[i] = s[j] BY <1>3
  <2>3. ~(i < j) /\ ~(j < i) BY <1>1, <2>1, <2>2
  <2> QED BY <1>1, <2>3
<1>4. ASSUME NEW k \in K PROVE \E i \in I : f[i] = k
  <2>1. PICK i \in 1..Len(s) : s[i] = k BY <1>1 DEF Range
  <2> QED BY <2>1
<1>5. IsFiniteSet(I)
  <2>1. IsFiniteSet(1..Len(s)) BY <1>1, FS_Interval
  <2> QED BY <2>1, FS_Subset
<1> HIDE DEF I, K, f
<1>6. f \in Bijection(I, K) BY <1>2, <1>3, <1>4 DEF Bijection, Injection, Surjection,
  IsInjective
<1>7. Cardinality(K) = Cardinality(I) BY <1>5, <1>6, FS_Bijection DEF ExistsBijection
<1> QED BY <1>7 DEF I, K, OnePlaceEach

(* An entry of HDR dynamic metadata that is dropped is reported.           *)
LEMMA HdrEntrySettled ==
  ASSUME NEW d, NEW k
  PROVE  Settled(HdrDynamicEntry(d, k), TRUE)
<1> DEFINE type == HdrType(d, k)
           flags == IF d[k] >= 3 THEN d[k + 3] ELSE 0
           high == IF type = 2 THEN has_bit(flags, 7) ELSE flags >= 16
           known == <<Refuse(d[k] < 3, TRUE, "no flags"), Note(d[k] # 3, TRUE, "type length"),
                      Refuse(type = 2 /\ flags % 16 = 0, TRUE, "spec version"),
                      Note(high, TRUE, "support flags")>>
           plain == <<Note(d[k] # 2, TRUE, "type length")>>
           unknown == <<Refuse(TRUE, TRUE, "unknown type")>>
           checks == CASE type \in HdrFlagTypes -> known [] type = 3 -> plain [] OTHER -> unknown
           value == [type |-> type, flags |-> flags]
           reported(c) == c.reported = TRUE
<1>1. HdrDynamicEntry(d, k) = Checked(checks, value) BY Zenon DEF HdrDynamicEntry
<1>2. /\ DOMAIN known = 1..4 /\ \A i \in 1..4 : reported(known[i])
  <2>1. \A a, b, c, e : /\ DOMAIN <<a, b, c, e>> = 1..4
                        /\ reported(a) /\ reported(b) /\ reported(c) /\ reported(e) =>
                             \A i \in 1..4 : reported(<<a, b, c, e>>[i])
    <3> HIDE DEF reported
    <3> QED OBVIOUS
  <2>2. /\ \A bad, f : reported(Refuse(bad, TRUE, f))
        /\ \A bad, f : reported(Note(bad, TRUE, f))
    BY DEF Refuse, Note
  <2> HIDE DEF reported
  <2> QED BY <2>1, <2>2, ZenonT(40)
<1>3. /\ DOMAIN plain = 1..1 /\ \A i \in 1..1 : reported(plain[i])
      /\ DOMAIN unknown = 1..1 /\ \A i \in 1..1 : reported(unknown[i])
  <2>1. \A a : /\ DOMAIN <<a>> = 1..1
               /\ reported(a) => \A i \in 1..1 : reported(<<a>>[i])
    <3> HIDE DEF reported
    <3> QED OBVIOUS
  <2>2. /\ \A bad, f : reported(Refuse(bad, TRUE, f))
        /\ \A bad, f : reported(Note(bad, TRUE, f))
    BY DEF Refuse, Note
  <2> HIDE DEF reported
  <2> QED BY <2>1, <2>2, Zenon
<1>4. checks = known \/ checks = plain \/ checks = unknown
  <2> HIDE DEF known, plain, unknown
  <2> QED OBVIOUS
<1> HIDE DEF checks, known, plain, unknown, value, type, flags
<1>5. PICK N \in {1, 4} : DOMAIN checks = 1..N /\ \A i \in 1..N : checks[i].reported = TRUE
  BY <1>2, <1>3, <1>4
<1>6. N \in Nat /\ TRUE \in BOOLEAN OBVIOUS
<1>7. TRUE => \A i \in 1..N : checks[i].bad /\ checks[i].drops => checks[i].reported BY <1>5
<1>8. Settled(Checked(checks, value), TRUE) BY <1>5, <1>6, <1>7, CheckedSettled
<1> QED BY <1>1, <1>8

(* The entries of a list that leaves nothing over, and does not run past   *)
(* its end, cut the payload.                                               *)
LEMMA StartsCut ==
  ASSUME NEW d \in Payload, NEW first \in Nat \ {0}, NEW least \in Nat \ {0},
         NEW size \in [1..Len(d) -> Nat \ {0}],
         ~LeftOver(d, Stop(Starts(d, first, least, size), first, size), least),
         first <= Len(d) + 1
  PROVE  LET starts == Starts(d, first, least, size)
         IN  /\ Walk(starts, first, least, size, Len(d))
             /\ Cut(Range(starts), first, least, size, Len(d))
             /\ Range(starts) \subseteq 1..(Len(d) + 1 - least)
<1> DEFINE starts == Starts(d, first, least, size)
           stop == Stop(starts, first, size)
<1>1. d \in Seq(Byte) /\ Len(d) \in Nat BY DEF Payload
<1>2. Walk(starts, first, least, size, Len(d)) BY <1>1, StartsWalk
<1>3. stop = StopOf(starts, first, size) BY DEF Stop, StopOf, Last
<1>4. starts \in Seq(1..Len(d)) /\ DOMAIN starts = 1..Len(starts) /\ Len(starts) \in Nat
  BY <1>2 DEF Walk
<1> HIDE DEF starts
<1>5. stop \in Nat /\ stop <= Len(d) + 1
  <2>1. CASE starts = <<>> BY <1>1, <1>3, <2>1 DEF StopOf
  <2>2. CASE starts # <<>>
    <3>1. Len(starts) \in 1..Len(starts) BY <1>4, <2>2
    <3>2. starts[Len(starts)] \in 1..Len(d) BY <1>4, <3>1
    <3>3. starts[Len(starts)] + size[starts[Len(starts)]] <= Len(d) + 1 BY <1>2, <3>1
      DEF Walk
    <3> QED BY <1>1, <1>3, <2>2, <3>2, <3>3 DEF StopOf
  <2> QED BY <2>1, <2>2
<1>6. stop + least > Len(d) + 1
  <2>1. ~LeftOver(d, stop, least) BY DEF starts
  <2> HIDE DEF stop
  <2> QED BY <1>1, <1>5, <2>1 DEF LeftOver
<1>7. Cut(Range(starts), first, least, size, Len(d)) /\ Range(starts) \subseteq 1..(Len(d) + 1 - least)
  BY <1>1, <1>2, <1>3, <1>5, <1>6, WalkCuts
<1> QED BY <1>2, <1>7 DEF starts

(* A block of HDR dynamic metadata without a failure is cut into entries,  *)
(* and every type among them is kept.                                      *)
LEMMA HdrEntries ==
  ASSUME NEW d \in Payload, parse_hdr_dynamic_metadata_block(d).kept = TRUE,
         parse_hdr_dynamic_metadata_block(d).failures = {}
  PROVE  \E S \in SUBSET (1..(Len(d) + 1 - 3)) :
           /\ Cut(S, 1, 3, HdrEntrySizes(d), Len(d))
           /\ {HdrType(d, k) : k \in S} = DOMAIN parse_hdr_dynamic_metadata_block(d).value
<1> DEFINE size == HdrEntrySizes(d)
           starts == Starts(d, 1, 3, size)
           entries == [i \in DOMAIN starts |-> HdrDynamicEntry(d, starts[i])]
           failures == UNION {entries[i].failures : i \in DOMAIN entries}
           kept == {i \in DOMAIN entries : entries[i].kept}
           stop == Stop(starts, 1, size)
<1>0. d \in Seq(Byte) /\ Len(d) \in Nat BY DEF Payload
<1>1. /\ ~LeftOver(d, stop, 3)
      /\ failures = {}
      /\ DOMAIN parse_hdr_dynamic_metadata_block(d).value = {entries[i].value.type : i \in kept}
  BY DEF parse_hdr_dynamic_metadata_block, Kept, Dropped
<1>2. size \in [1..Len(d) -> Nat \ {0}] /\ 1 \in Nat \ {0} /\ 3 \in Nat \ {0}
  BY <1>0, EntrySizes
<1>7. Cut(Range(starts), 1, 3, size, Len(d)) /\ Range(starts) \subseteq 1..(Len(d) + 1 - 3)
  <2> HIDE DEF size
  <2> QED BY <1>0, <1>1, <1>2, StartsCut
<1>8. ASSUME NEW i \in DOMAIN starts
      PROVE  i \in kept /\ entries[i].value.type = HdrType(d, starts[i])
  <2> DEFINE k == starts[i]
  <2>1. entries[i] = HdrDynamicEntry(d, k) /\ i \in DOMAIN entries OBVIOUS
  <2>2. entries[i].failures = {} BY <1>1
  <2> HIDE DEF entries, k
  <2>3. HdrDynamicEntry(d, k).kept = TRUE BY <2>1, <2>2, HdrEntrySettled DEF Settled
  <2>4. HdrDynamicEntry(d, k).value.type = HdrType(d, k) BY <2>3, HdrEntryKnown
  <2> QED BY <2>1, <2>3, <2>4 DEF k
<1>9. {HdrType(d, k) : k \in Range(starts)} = {entries[i].value.type : i \in kept}
  <2>1. kept \subseteq DOMAIN starts OBVIOUS
  <2> HIDE DEF entries, kept, starts
  <2> QED BY <1>8, <2>1 DEF Range
<1> HIDE DEF starts, size, entries, kept
<1> QED BY <1>1, <1>7, <1>9 DEF size

(* A block of speaker locations that is kept is cut into entries, and      *)
(* every entry is kept.                                                    *)
LEMMA LocationEntries ==
  ASSUME NEW d \in Payload, parse_speaker_location_block(d).kept = TRUE
  PROVE  \E S \in SUBSET (1..(Len(d) + 1 - 2)) :
           /\ Cut(S, 1, 2, LocationSizes(d), Len(d))
           /\ Len(parse_speaker_location_block(d).value) = Cardinality(S)
<1> DEFINE size == LocationSizes(d)
           starts == Starts(d, 1, 2, size)
           stop == Stop(starts, 1, size)
<1>0. d \in Seq(Byte) /\ Len(d) \in Nat BY DEF Payload
<1>1. /\ ~LeftOver(d, stop, 2)
      /\ parse_speaker_location_block(d).value = [i \in DOMAIN starts |-> Location(d, starts[i])]
  BY DEF parse_speaker_location_block, Kept, Dropped
<1>2. size \in [1..Len(d) -> Nat \ {0}] /\ 1 \in Nat \ {0} /\ 2 \in Nat \ {0}
  BY <1>0, EntrySizes
<1>3. /\ Walk(starts, 1, 2, size, Len(d))
      /\ Cut(Range(starts), 1, 2, size, Len(d)) /\ Range(starts) \subseteq 1..(Len(d) + 1 - 2)
  <2> HIDE DEF size
  <2> QED BY <1>0, <1>1, <1>2, StartsCut
<1> HIDE DEF size, starts
<1>4. starts \in Seq(1..Len(d)) /\ DOMAIN starts = 1..Len(starts) /\ Len(starts) \in Nat
  BY <1>3 DEF Walk
<1>5. Len(parse_speaker_location_block(d).value) = Len(starts)
  <2>1. \A n \in Nat : \A A : \A f \in [1..n -> A] : Len(f) = n OBVIOUS
  <2> DEFINE V == {Location(d, starts[i]) : i \in DOMAIN starts}
  <2>2. parse_speaker_location_block(d).value \in [1..Len(starts) -> V] BY <1>1, <1>4
  <2> HIDE DEF V
  <2> QED BY <1>4, <2>1, <2>2
<1>6. Cardinality(Range(starts)) = Len(starts)
  <2> DEFINE P == Range(starts)
  <2>1. Cardinality({k \in Range(starts) : k \in P}) = Cardinality({i \in 1..Len(starts) : starts[i] \in P})
    <3> HIDE DEF P
    <3>1. OnePlaceEach(starts, P) BY <1>0, <1>3, WalkPlaces
    <3> QED BY <3>1 DEF OnePlaceEach
  <2>2. {k \in Range(starts) : k \in P} = Range(starts) OBVIOUS
  <2>3. {i \in 1..Len(starts) : starts[i] \in P} = 1..Len(starts) BY <1>4 DEF Range
  <2>4. Cardinality(1..Len(starts)) = Len(starts)
    <3>1. 1 \in Int /\ Len(starts) \in Int BY <1>4
    <3>2. Cardinality(1..Len(starts)) = IF 1 > Len(starts) THEN 0 ELSE Len(starts) - 1 + 1
      BY <3>1, FS_Interval
    <3> QED BY <1>4, <3>2
  <2> QED BY <2>1, <2>2, <2>3, <2>4
<1> QED BY <1>3, <1>5, <1>6 DEF size

(* A block of InfoFrames without a failure is cut into entries, and every  *)
(* one is kept that is not vendor-specific.                                *)
LEMMA InfoFrameEntries ==
  ASSUME NEW d \in Payload, parse_infoframe_block(d).kept = TRUE,
         parse_infoframe_block(d).failures = {}
  PROVE  \E S \in SUBSET (1..(Len(d) + 1 - 1)) :
           /\ Cut(S, 3 + d[1] \div 32, 1, InfoFrameSizes(d), Len(d))
           /\ Len(parse_infoframe_block(d).value.infoframes)
                = Cardinality({k \in S : d[k] % 32 # 1})
<1> DEFINE v == parse_infoframe_block(d).value
           first == get_bit_range(d[1], 7, 5) + 3
           size == InfoFrameSizes(d)
           starts == Starts(d, first, 1, size)
           stop == Stop(starts, first, size)
           types == [i \in DOMAIN starts |-> InfoFrameType(d, starts[i])]
           listed == {i \in DOMAIN types : types[i] \in 2..7}
           V == {types[i] : i \in DOMAIN types}
<1>0. d \in Seq(Byte) /\ Len(d) \in Nat /\ Len(d) <= 31 BY DEF Payload
<1>1. /\ Len(d) >= 2 /\ v.infoframes = Picked(types, listed)
      /\ ~LeftOver(d, stop, 1) /\ ~(stop > Len(d) + 1)
  <2> DEFINE failures == Always(get_bit_range(d[1], 4, 0) # 0, "F14-F10")
                           \cup Always(\E i \in DOMAIN types : types[i] >= 8, "reserved type")
             whole == [num_simultaneous_vsifs |-> d[2] + 1, infoframes |-> Picked(types, listed)]
             left == LeftOver(d, stop, 1) \/ stop > Len(d) + 1
  <2>1. parse_infoframe_block(d) =
          IF Len(d) < 2 THEN Dropped({"length"})
          ELSE IF left THEN Dropped(failures \cup {"entry"})
          ELSE Kept(whole, failures)
    BY Zenon DEF parse_infoframe_block
  <2>2. whole.infoframes = Picked(types, listed) OBVIOUS
  <2> HIDE DEF failures, left, whole
  <2>3. \A f : Dropped(f).kept # TRUE BY DEF Dropped
  <2>4. ~(Len(d) < 2) /\ ~left BY <2>1, <2>3
  <2>5. v = whole BY <2>1, <2>4 DEF Kept
  <2> QED BY <1>0, <2>2, <2>4, <2>5 DEF left
<1>2. \A i \in DOMAIN types : ~(types[i] >= 8)
  <2> DEFINE reserved == \E i \in DOMAIN types : types[i] >= 8
             failures == Always(get_bit_range(d[1], 4, 0) # 0, "F14-F10")
                           \cup Always(reserved, "reserved type")
  <2>1. parse_infoframe_block(d).failures = failures
    BY <1>1 DEF parse_infoframe_block, Kept, Dropped
  <2> HIDE DEF reserved
  <2>2. Always(reserved, "reserved type") = {} BY <2>1
  <2>3. ~reserved BY <2>2 DEF Always
  <2> QED BY <2>3 DEF reserved
<1>3. first \in Nat \ {0} /\ first = 3 + d[1] \div 32
  <2>1. 1 \in 1..Len(d) BY <1>0, <1>1
  <2>2. d[1] \in Byte BY <1>0, <2>1
  <2>3. get_bit_range(d[1], 7, 5) = d[1] \div 32 /\ d[1] \div 32 \in 0..7 BY <2>2, MoreFields
  <2> QED BY <2>3
<1>4. size \in [1..Len(d) -> Nat \ {0}] /\ 1 \in Nat \ {0} BY <1>0, EntrySizes
<1>5. first <= Len(d) + 1
  <2> HIDE DEF first, size
  <2>1. Walk(starts, first, 1, size, Len(d)) BY <1>0, <1>3, <1>4, StartsWalk
  <2>2. CASE starts = <<>>
    <3>1. stop = first BY <2>2 DEF Stop
    <3> QED BY <1>0, <1>1, <1>3, <3>1
  <2>3. CASE starts # <<>>
    <3> HIDE DEF starts
    <3>1. starts \in Seq(1..Len(d)) BY <2>1 DEF Walk
    <3>2. 1 \in 1..Len(starts) BY <2>3, <3>1
    <3>3. starts[1] \in 1..Len(d) /\ starts[1] = first BY <2>1, <3>1, <3>2 DEF Walk
    <3> QED BY <1>0, <3>3
  <2> QED BY <2>2, <2>3
<1>6. /\ Walk(starts, first, 1, size, Len(d))
      /\ Cut(Range(starts), first, 1, size, Len(d)) /\ Range(starts) \subseteq 1..(Len(d) + 1 - 1)
  <2> HIDE DEF size, first
  <2> QED BY <1>0, <1>1, <1>3, <1>4, <1>5, StartsCut
<1>7. /\ starts \in Seq(1..Len(d)) /\ DOMAIN starts = 1..Len(starts) /\ Len(starts) \in Nat
      /\ \A i \in 1..Len(starts) : starts[i] \in 1..Len(d)
  <2> HIDE DEF starts
  <2> QED BY <1>6 DEF Walk
<1>8. ASSUME NEW i \in 1..Len(starts) PROVE types[i] = d[starts[i]] % 32 /\ types[i] \in 1..7
  <2> DEFINE k == starts[i]
  <2>1. i \in DOMAIN types /\ types[i] = InfoFrameType(d, k) BY <1>7
  <2>2. k \in 1..Len(d) /\ d[k] \in Byte BY <1>0, <1>7
  <2>3. ~(types[i] >= 8) BY <1>2, <2>1
  <2>4. k + size[k] <= Len(d) + 1
    <3> HIDE DEF starts, size
    <3> QED BY <1>6 DEF Walk
  <2>5. InfoFrameType(d, k) # 0
    <3>1. InfoFrameType(d, k) = 0 => size[k] = 256 BY <1>0, <2>2 DEF InfoFrameSizes,
      Misfit
    <3> HIDE DEF k, size
    <3> QED BY <1>0, <2>2, <2>4, <3>1
  <2> HIDE DEF types, k
  <2>6. InfoFrameType(d, k) = d[k] % 32 /\ d[k] % 32 \in 0..31 BY <2>2, MoreFields DEF
    InfoFrameType
  <2>7. \A n \in 0..31 : n # 0 /\ ~(n >= 8) => n \in 1..7 OBVIOUS
  <2> QED BY <2>1, <2>3, <2>5, <2>6, <2>7 DEF k
<1>9. types \in Seq(V) /\ Len(types) = Len(starts) /\ DOMAIN types = 1..Len(starts)
  <2> HIDE DEF starts
  <2>1. DOMAIN types = 1..Len(starts) BY <1>7
  <2>2. types \in [1..Len(starts) -> V] BY <2>1
  <2> HIDE DEF types, V
  <2>3. \A A, f : \A n \in Nat : f \in [1..n -> A] => f \in Seq(A) /\ Len(f) = n OBVIOUS
  <2> QED BY <1>7, <2>1, <2>2, <2>3
<1>10. Len(v.infoframes) = Cardinality((1..Len(types)) \cap listed)
  <2> HIDE DEF types, listed, V, v
  <2> QED BY <1>1, <1>9, PickedLength
<1> DEFINE P == {k \in 1..Len(d) : d[k] % 32 # 1}
<1>11. (1..Len(types)) \cap listed = {i \in 1..Len(starts) : starts[i] \in P}
  <2>1. \A n \in 1..7 : n \in 2..7 <=> n # 1 OBVIOUS
  <2>2. \A i \in 1..Len(starts) : i \in listed <=> types[i] # 1 BY <1>8, <1>9, <2>1
  <2>3. \A i \in 1..Len(starts) : starts[i] \in P <=> types[i] # 1 BY <1>7, <1>8
  <2> HIDE DEF listed, P, starts, types
  <2> QED BY <1>9, <2>2, <2>3
<1>12. Cardinality({k \in Range(starts) : k \in P}) = Cardinality({i \in 1..Len(starts) : starts[i] \in P})
  <2> HIDE DEF P, starts, first, size
  <2>1. OnePlaceEach(starts, P) BY <1>0, <1>6, WalkPlaces
  <2> QED BY <2>1 DEF OnePlaceEach
<1>13. {k \in Range(starts) : k \in P} = {k \in Range(starts) : d[k] % 32 # 1}
  <2> HIDE DEF starts
  <2> QED BY <1>0, <1>6
<1> HIDE DEF starts, size, first, types, listed, P, v
<1> QED BY <1>3, <1>6, <1>10, <1>11, <1>12, <1>13 DEF v, size

(* A descriptor of 3D audio that is dropped is reported, in the revisions  *)
(* whose formats the parser knows.                                         *)
LEMMA Sad3dSettled ==
  ASSUME NEW r, NEW s
  PROVE  Settled(parse_hdmi_audio_3d_descriptor(r, s), r <= 3)
<1> DEFINE format == parse_sad_format(get_bit_range(s[1], 3, 0), 0)
           value == [format |-> format, max_channels |-> 1 + get_bit_range(s[2], 4, 0),
                     rates |-> {k \in 0..6 : has_bit(s[3], k)},
                     detail |-> IF format = "LPCM" THEN {k \in 0..2 : has_bit(s[4], k)} ELSE "none"]
           unknown == Dropped(Until(r, 3, TRUE, "audio format"))
           other == Dropped({"3D format"})
           whole == Kept(value, {})
<1>1. parse_hdmi_audio_3d_descriptor(r, s) =
        IF format = "reserved" THEN unknown
        ELSE IF format \notin {"LPCM", "ONE_BIT_AUDIO"} THEN other ELSE whole
  BY Zenon DEF parse_hdmi_audio_3d_descriptor
<1>2. Settled(unknown, r <= 3)
  <2>1. Until(r, 3, TRUE, "audio format") = IF r <= 3 THEN {"audio format"} ELSE {}
    BY DEF Until, Always
  <2>2. {"audio format"} # {} OBVIOUS
  <2> QED BY <2>1, <2>2 DEF Settled, Dropped
<1>3. Settled(other, r <= 3) BY DEF Settled, Dropped
<1>4. Settled(whole, r <= 3) BY DEF Settled, Kept
<1> HIDE DEF format, unknown, other, whole
<1> QED BY <1>1, <1>2, <1>3, <1>4

(* Where none is, each of the descriptors before the last is kept.         *)
LEMMA Sads3dWhole ==
  ASSUME NEW r \in Nat, r <= 3, NEW n \in Nat, NEW slots, Len(slots) = n + 1,
         HdmiAudio3d(r, slots).failures = {}
  PROVE  Len(HdmiAudio3d(r, slots).value.sads) = n
<1> DEFINE parsed == [j \in 1..(Len(slots) - 1) |-> parse_hdmi_audio_3d_descriptor(r,
  slots[j])]
           kept == {j \in DOMAIN parsed : parsed[j].kept}
           values == [j \in DOMAIN parsed |-> parsed[j].value]
           V == {parsed[j].value : j \in DOMAIN parsed}
<1>1. HdmiAudio3d(r, slots).value.sads = Picked(values, kept) BY DEF HdmiAudio3d, Kept
<1>2. UNION {parsed[j].failures : j \in DOMAIN parsed} = {} BY DEF HdmiAudio3d, Kept
<1>3. DOMAIN parsed = 1..n
  <2>1. n + 1 - 1 = n OBVIOUS
  <2> QED BY <2>1
<1>4. ASSUME NEW j \in 1..n PROVE j \in kept
  <2>1. parsed[j].failures = {} BY <1>2, <1>3
  <2>2. parsed[j] = parse_hdmi_audio_3d_descriptor(r, slots[j]) BY <1>3
  <2> HIDE DEF parsed
  <2>3. Settled(parsed[j], r <= 3) BY <2>2, Sad3dSettled
  <2>4. parsed[j].kept = TRUE BY <2>1, <2>3 DEF Settled
  <2> QED BY <1>3, <2>4 DEF parsed
<1>5. values \in [1..n -> V] BY <1>3
<1>6. values \in Seq(V) /\ Len(values) = n
  <2>1. \A A, f : \A m \in Nat : f \in [1..m -> A] => f \in Seq(A) /\ Len(f) = m OBVIOUS
  <2> HIDE DEF values, V
  <2> QED BY <1>5, <2>1
<1>7. 1..Len(values) \subseteq kept BY <1>4, <1>6
<1> HIDE DEF values, kept, V
<1>8. Picked(values, kept) = values BY <1>6, <1>7, PickedAll
<1> QED BY <1>1, <1>6, <1>8

(* HDMI audio without a failure has as many descriptors of 3D audio as its *)
(* second byte announces.                                                  *)
LEMMA HdmiDescriptors ==
  ASSUME NEW r \in Nat, r <= 3, NEW d \in Payload, Len(d) >= 2, d[2] % 8 # 0,
         parse_hdmi_audio_block(r, d).failures = {}
  PROVE  LET audio_3d == parse_hdmi_audio_block(r, d).value.audio_3d
         IN  audio_3d # NULL /\ Len(audio_3d.sads) = d[2] % 8
<1> DEFINE streams == get_bit_range(d[1], 1, 0)
           non_mixed == has_bit(d[1], 2)
           multi == Always(streams = 0 /\ non_mixed, "non-mixed")
           ms == IF streams = 0 THEN <<>> ELSE <<streams + 1, non_mixed>>
           descs == IF Len(d) < 2 THEN 0 ELSE get_bit_range(d[2], 2, 0)
           slots == [j \in 1..(descs + 1) |-> SubSeq(d, 4 * j - 1, 4 * j + 2)]
           audio_3d == HdmiAudio3d(r, slots)
           without == [multi_stream |-> ms, audio_3d |-> NULL]
           few == descs + 1 > (Len(d) - 2) \div 4
           whole == [without EXCEPT !.audio_3d = audio_3d.value]
<1>0. d \in Seq(Byte) /\ Len(d) \in Nat BY DEF Payload
<1>1. parse_hdmi_audio_block(r, d) =
        IF Len(d) < 1 THEN Dropped({"length"})
        ELSE IF descs = 0 THEN Kept(without, multi)
        ELSE IF few THEN Kept(without, multi \cup {"descriptors"})
        ELSE Kept(whole, multi \cup audio_3d.failures)
  BY Zenon DEF parse_hdmi_audio_block
<1>2. descs = d[2] % 8 /\ descs \in 0..7 /\ descs # 0
  <2>1. 2 \in 1..Len(d) BY <1>0
  <2>2. d[2] \in Byte BY <1>0, <2>1
  <2>3. get_bit_range(d[2], 2, 0) = d[2] % 8 /\ d[2] % 8 \in 0..7 BY <2>2, MoreFields
  <2>4. ~(Len(d) < 2) BY <1>0
  <2> QED BY <2>3, <2>4
<1>3. whole.audio_3d = audio_3d.value OBVIOUS
<1>4. Len(slots) = descs + 1
  <2> DEFINE V == {slots[j] : j \in 1..(descs + 1)}
  <2> HIDE DEF descs
  <2>1. slots \in [1..(descs + 1) -> V] OBVIOUS
  <2>2. \A m \in Nat : \A A, f : f \in [1..m -> A] => Len(f) = m OBVIOUS
  <2>3. descs + 1 \in Nat BY <1>2
  <2> HIDE DEF slots, V
  <2> QED BY <2>1, <2>2, <2>3
<1> HIDE DEF descs, slots, without, few, whole, multi
<1>5. ~(Len(d) < 1) BY <1>0
<1>6. ~few BY <1>1, <1>2, <1>5 DEF Kept
<1>7. parse_hdmi_audio_block(r, d) = Kept(whole, multi \cup audio_3d.failures)
  BY <1>1, <1>2, <1>5, <1>6
<1>8. audio_3d.failures = {} /\ parse_hdmi_audio_block(r, d).value.audio_3d = audio_3d.value
  BY <1>3, <1>7 DEF Kept
<1>9. descs \in Nat BY <1>2
<1>10. Len(audio_3d.value.sads) = descs BY <1>4, <1>8, <1>9, Sads3dWhole
<1>11. audio_3d.value # NULL
  <2>1. "sads" \in DOMAIN audio_3d.value BY DEF HdmiAudio3d, Kept
  <2>2. "sads" \notin DOMAIN NULL BY DEF NULL
  <2> QED BY <2>1, <2>2
<1> QED BY <1>2, <1>8, <1>10, <1>11

(* The cut of a payload, as the property states it.                        *)
LEMMA CutAsStated ==
  ASSUME kind \in {"hdr_dynamic", "infoframe", "location"}, NEW S, NEW size,
         Cut(S, FirstEntry, LeastEntry, size, Len(data)),
         \A k \in S : size[k] = EntrySize(k)
  PROVE  IsCut(S)
<1>1. ASSUME NEW k \in S PROVE k = FirstEntry \/ \E j \in S : j + EntrySize(j) = k
  BY DEF Cut
<1>2. ASSUME NEW next \in {FirstEntry} \cup {k + EntrySize(k) : k \in S}
      PROVE  next <= Len(data) + 1 /\ (next \in S \/ next + LeastEntry > Len(data) + 1)
  <2>1. CASE next = FirstEntry BY <2>1 DEF Cut
  <2>2. CASE next \in {k + EntrySize(k) : k \in S} BY <2>2 DEF Cut
  <2> QED BY <2>1, <2>2
<1> QED BY <1>1, <1>2 DEF IsCut

(* Entries dropped from a list are reported.                               *)
LEMMA EntryDrop == IInv => EntryDropReported
<1> SUFFICES ASSUME IInv, Seen, result.failures = {} PROVE EntryDropReported
  BY DEF EntryDropReported
<1>0. pc # "bytes" /\ result.kept = TRUE /\ data \in DataForm(kind) /\ rev \in Nat
  BY DEF IInv, Control, Seen, Given
<1>1. kind \in {"hdr_dynamic", "infoframe", "location", "hdmi_audio"} => data \in Payload
  BY <1>0 DEF DataForm
<1>2. CASE kind = "hdr_dynamic"
  <2>1. data \in Seq(Byte) /\ Len(data) \in Nat /\ Len(data) <= 31
    BY <1>1, <1>2 DEF Payload
  <2>2. result = parse_hdr_dynamic_metadata_block(data) BY <1>0, <1>2 DEF IInv, Decoded
  <2>3. PICK S \in SUBSET (1..(Len(data) + 1 - 3)) :
           /\ Cut(S, 1, 3, HdrEntrySizes(data), Len(data))
           /\ {HdrType(data, k) : k \in S} = DOMAIN result.value
    BY <1>0, <1>1, <1>2, <2>2, HdrEntries
  <2>4. ASSUME NEW k \in S PROVE HdrEntrySizes(data)[k] = EntrySize(k)
    <3>1. k \in 1..Len(data) /\ data[k] \in Byte BY <2>1
    <3>2. HdrEntrySizes(data)[k] = IF data[k] < 2 THEN 256 ELSE data[k] + 1
      BY <2>1, <3>1 DEF HdrEntrySizes, Misfit
    <3>3. k + HdrEntrySizes(data)[k] <= Len(data) + 1 BY <2>3 DEF Cut
    <3>4. EntrySize(k) = 1 + data[k] BY <1>2 DEF EntrySize
    <3>7. Byte \subseteq Nat BY DEF Byte
    <3>5. data[k] \in Nat BY <3>1, <3>7
    <3>6. ~(data[k] < 2) BY <2>1, <3>1, <3>2, <3>3
    <3> QED BY <3>2, <3>4, <3>5, <3>6
  <2>5. FirstEntry = 1 /\ LeastEntry = 3 BY <1>2 DEF FirstEntry, LeastEntry
  <2>6. IsCut(S) BY <1>2, <2>3, <2>4, <2>5, CutAsStated
  <2>7. EntriesKept(S) BY <1>2, <2>3 DEF EntriesKept, HdrType
  <2>8. \E T \in SUBSET (1..(Len(data) + 1 - LeastEntry)) : IsCut(T) /\ EntriesKept(T)
    BY <2>5, <2>6, <2>7
  <2> QED BY <1>2, <2>8 DEF EntryDropReported
<1>3. CASE kind = "infoframe"
  <2>1. data \in Seq(Byte) /\ Len(data) \in Nat /\ Len(data) <= 31
    BY <1>1, <1>3 DEF Payload
  <2>2. result = parse_infoframe_block(data) BY <1>0, <1>3 DEF IInv, Decoded
  <2>3. PICK S \in SUBSET (1..(Len(data) + 1 - 1)) :
           /\ Cut(S, 3 + data[1] \div 32, 1, InfoFrameSizes(data), Len(data))
           /\ Len(result.value.infoframes) = Cardinality({k \in S : data[k] % 32 # 1})
    BY <1>0, <1>1, <1>3, <2>2, InfoFrameEntries
  <2>4. ASSUME NEW k \in S PROVE InfoFrameSizes(data)[k] = EntrySize(k)
    <3>1. k \in 1..Len(data) /\ data[k] \in Byte BY <2>1
    <3> DEFINE length == get_bit_range(data[k], 7, 5)
               type == InfoFrameType(data, k)
    <3>2. length = data[k] \div 32 /\ length \in 0..7 /\ type = data[k] % 32
      BY <3>1, MoreFields DEF InfoFrameType
    <3>3. InfoFrameSizes(data)[k] = CASE type = 0 -> 256 [] type = 1 -> length + 4
                                      [] OTHER -> length + 1
      BY <2>1, <3>1 DEF InfoFrameSizes, Misfit
    <3>4. k + InfoFrameSizes(data)[k] <= Len(data) + 1 BY <2>3 DEF Cut
    <3>5. EntrySize(k) = (IF data[k] % 32 = 1 THEN 4 ELSE 1) + data[k] \div 32
      BY <1>3 DEF EntrySize
    <3> HIDE DEF length, type
    <3>6. type # 0
      <4>1. type = 0 => InfoFrameSizes(data)[k] = 256 BY <3>3
      <4> QED BY <2>1, <3>1, <3>4, <4>1
    <3>7. InfoFrameSizes(data)[k] = IF type = 1 THEN length + 4 ELSE length + 1
      <4>1. CASE type = 1 BY <3>3, <4>1
      <4>2. CASE type # 1 BY <3>3, <3>6, <4>2
      <4> QED BY <4>1, <4>2
    <3> QED BY <3>2, <3>5, <3>7
  <2>5. FirstEntry = 3 + data[1] \div 32 /\ LeastEntry = 1
    BY <1>3 DEF FirstEntry, LeastEntry
  <2>6. IsCut(S) BY <1>3, <2>3, <2>4, <2>5, CutAsStated
  <2>7. EntriesKept(S) BY <1>3, <2>3 DEF EntriesKept
  <2>8. \E T \in SUBSET (1..(Len(data) + 1 - LeastEntry)) : IsCut(T) /\ EntriesKept(T)
    BY <2>5, <2>6, <2>7
  <2> QED BY <1>3, <2>8 DEF EntryDropReported
<1>4. CASE kind = "location"
  <2>1. data \in Seq(Byte) /\ Len(data) \in Nat
    BY <1>1, <1>4 DEF Payload
  <2>2. result = parse_speaker_location_block(data) BY <1>0, <1>4 DEF IInv, Decoded
  <2>3. PICK S \in SUBSET (1..(Len(data) + 1 - 2)) :
           /\ Cut(S, 1, 2, LocationSizes(data), Len(data))
           /\ Len(result.value) = Cardinality(S)
    BY <1>0, <1>1, <1>4, <2>2, LocationEntries
  <2>4. ASSUME NEW k \in S PROVE LocationSizes(data)[k] = EntrySize(k)
    <3>1. k \in 1..Len(data) /\ data[k] \in Byte BY <2>1
    <3>2. LocationSizes(data)[k] = IF has_bit(data[k], 6) THEN 5 ELSE 2
      BY <2>1, <3>1 DEF LocationSizes
    <3>3. EntrySize(k) = IF data[k] \in 64..127 \cup 192..255 THEN 5 ELSE 2
      BY <1>4 DEF EntrySize
    <3> QED BY <3>1, <3>2, <3>3, MoreFields
  <2>5. FirstEntry = 1 /\ LeastEntry = 2 BY <1>4 DEF FirstEntry, LeastEntry
  <2>6. IsCut(S) BY <1>4, <2>3, <2>4, <2>5, CutAsStated
  <2>7. EntriesKept(S) BY <1>4, <2>3 DEF EntriesKept
  <2>8. \E T \in SUBSET (1..(Len(data) + 1 - LeastEntry)) : IsCut(T) /\ EntriesKept(T)
    BY <2>5, <2>6, <2>7
  <2> QED BY <1>4, <2>8 DEF EntryDropReported
<1>5. CASE kind = "hdmi_audio"
  <2>1. KnownRevision /\ Len(data) >= 2 /\ data[2] % 8 # 0 =>
          result.value.audio_3d # NULL /\ Len(result.value.audio_3d.sads) = data[2] % 8
    <3>1. result = parse_hdmi_audio_block(rev, data) BY <1>0, <1>5 DEF IInv, Decoded
    <3>2. KnownRevision => rev <= 3 BY <1>5 DEF KnownRevision
    <3> QED BY <1>0, <1>1, <1>5, <3>1, <3>2, HdmiDescriptors
  <2> QED BY <1>5, <2>1 DEF EntryDropReported
<1> QED BY <1>2, <1>3, <1>4, <1>5 DEF EntryDropReported

(* What is dropped is reported: a whole block or code, one of the codes of *)
(* a video block, one entry of a list.                                     *)
THEOREM DropsAreReported == Spec => []DropIsReported
<1>1. IInv => DropIsReported BY WholeDrop, SvdDrop, EntryDrop DEF DropIsReported
<1> QED BY <1>1, Invariant, PTL
=============================================================================
