----------------------------- MODULE EdidDecode -----------------------------
(***************************************************************************)
(* What edid.c makes of the bytes of the base section and of its display   *)
(* descriptors, and what di-edid-decode/edid.c prints of it.  Pure         *)
(* operators: a decoder maps bytes to                                      *)
(*    [kept |-> is there a value, value |-> the value, failures |-> the    *)
(*     names of the failures it reports]                                   *)
(* and a printer maps a value to a set of lines, or to "abort" where a     *)
(* switch or an assertion does not expect the value.  Fractions keep their *)
(* numerator: a gamma is in hundredths, a coordinate in 1/1024.            *)
(*                                                                         *)
(* A definition named X_Something is X with a plausible mistake in it.     *)
(***************************************************************************)
EXTENDS Timings

Always(bad, failure) == IF bad THEN {failure} ELSE {}
\* Above revision n the rule is unknown, so breaking it is not a failure.
Until(rev, n, bad, failure) == Always(bad /\ rev <= n, failure)

Kept(value, failures) == [kept |-> TRUE, value |-> value, failures |-> failures]
Dropped(failures) == [kept |-> FALSE, value |-> NULL, failures |-> failures]

\* The checks of a decoder with early returns, in its order: each may report
\* its failure (reported is FALSE past the last revision that knows the rule),
\* and the first bad one that drops ends it.
Note(bad, reported, failure) ==
  [bad |-> bad, reported |-> reported, drops |-> FALSE, failure |-> failure]
Refuse(bad, reported, failure) ==
  [bad |-> bad, reported |-> reported, drops |-> TRUE, failure |-> failure]
Checked(checks, value) ==
  LET stops == {i \in DOMAIN checks : checks[i].bad /\ checks[i].drops}
      reached == {i \in DOMAIN checks : \A j \in stops : i <= j}
      failures == {checks[i].failure : i \in {i \in reached : checks[i].bad /\ checks[i].reported}}
  IN  IF stops = {} THEN Kept(value, failures) ELSE Dropped(failures)

Abort == {<<"abort">>}
If(condition, line) == IF condition THEN {line} ELSE {}

-----------------------------------------------------------------------------
(* Vendor and product.                                                     *)
parse_vendor_product(rev, d) ==
  LET known == d[17] >= 16 \/ rev < 4
      year == IF known THEN d[17] + 1990 ELSE 0
      model == d[16] = 255
      badWeek == ~model /\ d[16] > 54
  IN  Kept([model_year |-> IF model THEN year ELSE 0,
            manufacture_year |-> IF model THEN 0 ELSE year,
            manufacture_week |-> IF model \/ badWeek THEN 0 ELSE d[16]],
           Always(~known /\ rev = 4, "year") \cup Until(rev, 4, badWeek, "week"))

VendorLines(v) ==
  IF v.model_year # 0 THEN {<<"Model year", v.model_year>>}
  ELSE IF v.manufacture_week # 0
       THEN {<<"Made in week", v.manufacture_week, v.manufacture_year>>}
       ELSE {<<"Made in", v.manufacture_year>>}

-----------------------------------------------------------------------------
(* Basic display parameters and features.                                  *)
Interfaces == 0..5      \* undefined, DVI, HDMI-a, HDMI-b, MDDI, DisplayPort

parse_video_input_digital(rev, byte) ==
  LET depth == get_bit_range(byte, 6, 4)
      interface == get_bit_range(byte, 3, 0)
      value == [dfp1 |-> FALSE, color_bit_depth |-> 0, interface |-> 0]
  IN  CASE rev < 2 ->
             Kept(value, Always(get_bit_range(byte, 6, 0) # 0, "interface"))
        [] rev \in 2..3 ->
             Kept([value EXCEPT !.dfp1 = has_bit(byte, 0)],
                  Always(get_bit_range(byte, 6, 1) # 0, "interface"))
        [] rev >= 4 ->
             Kept([dfp1 |-> FALSE,
                   color_bit_depth |-> IF depth \in {0, 7} THEN 0 ELSE 2 * depth + 4,
                   interface |-> IF interface \in Interfaces THEN interface ELSE 0],
                  Until(rev, 4, depth = 7, "depth")
                    \cup Until(rev, 4, interface \notin Interfaces, "interface"))

parse_video_input_analog(byte) ==
  [signal_level_std |-> get_bit_range(byte, 6, 5), setup |-> has_bit(byte, 4),
   sync |-> {k \in 0..3 : has_bit(byte, k)}]

ScreenSize(rev, width, height) ==
  CASE width > 0 /\ height > 0 -> <<"cm", width, height>>
    [] rev >= 4 /\ width > 0 /\ height = 0 -> <<"landscape", width + 99>>
    [] rev >= 4 /\ width = 0 /\ height > 0 -> <<"portrait", height + 99>>
    [] OTHER -> <<"variable">>

MiscFeatures_OneMeaning(rev, byte) ==
  [has_preferred_timing |-> has_bit(byte, 1),
   continuous_freq |-> has_bit(byte, 0) /\ rev >= 4,
   preferred_timing_is_native |-> has_bit(byte, 1) /\ rev >= 4,
   default_gtf |-> has_bit(byte, 0) /\ rev < 4,
   srgb_is_primary |-> has_bit(byte, 2)]
MiscFeatures(rev, byte) ==
  [has_preferred_timing |-> rev >= 4 \/ has_bit(byte, 1),
   continuous_freq |-> rev >= 4 /\ has_bit(byte, 0),
   preferred_timing_is_native |-> rev >= 4 /\ has_bit(byte, 1),
   default_gtf |-> rev < 4 /\ has_bit(byte, 0),
   srgb_is_primary |-> has_bit(byte, 2)]

parse_basic_params_features(rev, d) ==
  LET digital == has_bit(d[20], 7)
      input == IF digital THEN parse_video_input_digital(rev, d[20])
                          ELSE Kept(parse_video_input_analog(d[20]), {})
      encodings == digital /\ rev >= 4
  IN  Kept([is_digital |-> digital, video_input |-> input.value,
            screen_size |-> ScreenSize(rev, d[21], d[22]),
            gamma |-> IF d[23] = 255 THEN 0 ELSE d[23] + 100,
            dpms |-> {k \in 5..7 : has_bit(d[24], k)},
            rgb444 |-> encodings,
            ycrcb |-> IF encodings THEN {k \in 3..4 : has_bit(d[24], k)} ELSE {},
            \* 3 is "undefined"
            display_color_type |-> IF encodings THEN 3 ELSE get_bit_range(d[24], 4, 3),
            misc_features |-> MiscFeatures(rev, d[24])],
           input.failures)

(* The lines of print_edid about them; the color type is not one of them   *)
(* where color encodings replace it.                                       *)
BasicLines(rev, v) ==
  LET misc == v.misc_features
  IN  IF \/ v.is_digital /\ v.video_input.interface \notin Interfaces
         \/ rev >= 4 /\ ~misc.has_preferred_timing
      THEN Abort
      ELSE If(v.is_digital, <<"Digital display">>)
        \cup If(~v.is_digital, <<"Analog display">>)
        \cup If(v.is_digital /\ rev >= 4, <<"Color depth", v.video_input.color_bit_depth>>)
        \cup If(v.is_digital /\ v.video_input.dfp1, <<"DFP 1.x">>)
        \cup {v.screen_size, <<"Gamma", v.gamma>>}
        \cup If(v.dpms # {}, <<"DPMS", v.dpms>>)
        \cup If(~v.is_digital \/ rev < 4, <<"Color type", v.display_color_type>>)
        \cup If(v.rgb444, <<"Color formats", v.ycrcb>>)
        \cup If(misc.srgb_is_primary, <<"sRGB">>)
        \cup If(rev >= 4, <<"Native", misc.preferred_timing_is_native>>)
        \cup If(rev < 4 /\ misc.has_preferred_timing, <<"Preferred">>)
        \cup If(misc.continuous_freq, <<"Continuous">>)
        \cup If(misc.default_gtf, <<"Default GTF">>)

-----------------------------------------------------------------------------
(* Chromaticity: eight coordinates of 10 bits, the low bits apart.         *)
decode_chromaticity_coord(hi, lo) == 4 * hi + lo

\* red, green, blue and white, x before y
Chromaticity(d) ==
  [k \in 1..8 |-> decode_chromaticity_coord(d[26 + k],
                    LET low == 7 - 2 * ((k - 1) % 4)
                    IN  get_bit_range(d[25 + (k - 1) \div 4], low, low - 1))]

parse_chromaticity_coords(d) ==
  LET coords == Chromaticity(d)
      unset == {k \in 1..6 : coords[k] = 0}
  IN  Kept(coords, Always(unset # {} /\ unset # 1..6, "primaries")
                     \cup Always(coords[7] = 0 \/ coords[8] = 0, "white"))

(* Established timings I and II, as bits of bytes 0x23 to 0x25.            *)
parse_established_timings_i_ii(d) ==
  Kept({k \in 0..16 : has_bit(d[35 + k \div 8], 7 - (k % 8))}, {})

-----------------------------------------------------------------------------
(* Detailed timings.                                                       *)
Stereo == <<"right sequential", "right interleaved", "left sequential",
            "left interleaved", "4-way", "side by side">>
\* Both digital kinds carry bits 2 and 1 as sync flags, only one as polarities.
Signals == <<"analog", "bipolar analog", "digital composite", "digital separate">>

DtdStereo(flags) ==
  LET high == get_bit_range(flags, 6, 5)
  IN  IF high = 0 THEN "none" ELSE Stereo[2 * high - 1 + (flags % 2)]

ImageSize(d) ==
  LET mm == <<256 * get_bit_range(d[14], 7, 4) + d[12],
              256 * get_bit_range(d[14], 3, 0) + d[13]>>
  IN  IF mm \in {<<16, 9>>, <<4, 3>>} THEN <<0, 0>> ELSE mm

_di_edid_parse_detailed_timing_def(d) ==
  [pixel_clock_khz |-> 10 * Word(d[1], d[0]),
   horiz_video |-> Word(get_bit_range(d[4], 7, 4), d[2]),
   horiz_blank |-> Word(get_bit_range(d[4], 3, 0), d[3]),
   vert_video |-> Word(get_bit_range(d[7], 7, 4), d[5]),
   vert_blank |-> Word(get_bit_range(d[7], 3, 0), d[6]),
   horiz_front_porch |-> Word(get_bit_range(d[11], 7, 6), d[8]),
   horiz_sync_pulse |-> Word(get_bit_range(d[11], 5, 4), d[9]),
   vert_front_porch |-> 16 * get_bit_range(d[11], 3, 2) + get_bit_range(d[10], 7, 4),
   vert_sync_pulse |-> 16 * get_bit_range(d[11], 1, 0) + get_bit_range(d[10], 3, 0),
   image_mm |-> ImageSize(d),
   horiz_border |-> d[15], vert_border |-> d[16],
   interlaced |-> has_bit(d[17], 7), stereo |-> DtdStereo(d[17]),
   signal_type |-> Signals[1 + get_bit_range(d[17], 4, 3)],
   sync |-> {k \in 1..2 : has_bit(d[17], k)}]

(* What print_detailed_timing_def prints of it besides its sizes.          *)
DtdFlags(t) ==
  LET analog == t.signal_type \in {"analog", "bipolar analog"}
      serrate == 2 \in t.sync /\ t.signal_type # "digital separate"
  IN  If(t.signal_type # "digital separate", t.signal_type)
        \cup If(serrate, "serrate")
        \cup If(analog /\ 1 \notin t.sync, "sync-on-green")
        \cup If(t.stereo # "none", t.stereo)
        \cup If(t.image_mm # <<0, 0>>, "size")
DtdPolarities(t) ==
  If(t.signal_type \in {"digital composite", "digital separate"},
     <<"Hpol", IF 1 \in t.sync THEN "P" ELSE "N">>)
    \cup If(t.signal_type = "digital separate", <<"Vpol", IF 2 \in t.sync THEN "P" ELSE "N">>)
DtdBackPorch(t) ==
  <<t.horiz_blank - 2 * t.horiz_border - t.horiz_sync_pulse - t.horiz_front_porch,
    t.vert_blank - 2 * t.vert_border - t.vert_sync_pulse - t.vert_front_porch>>

-----------------------------------------------------------------------------
(* Display range limits.                                                   *)
\* The offsets of the maximum and of the minimum, from a two-bit flag.
RangeOffsets(rev, flags) ==
  <<IF rev >= 4 /\ flags \in 2..3 THEN 255 ELSE 0,
    IF rev >= 4 /\ flags = 3 THEN 255 ELSE 0>>

RangeRates(rev, d) ==     \* in Hz and kHz
  LET vert == RangeOffsets(rev, get_bit_range(d[4], 1, 0))
      horiz == RangeOffsets(rev, get_bit_range(d[4], 3, 2))
  IN  [min_vert |-> d[5] + vert[2], max_vert |-> d[6] + vert[1],
       min_horiz |-> d[7] + horiz[2], max_horiz |-> d[8] + horiz[1]]

\* What the range class says, or "refused".
RangeType(rev, features, class) ==
  CASE class = 0 -> IF rev >= 4 \/ features.default_gtf THEN "default GTF" ELSE "bare"
    [] class = 1 -> IF rev < 4 THEN "refused" ELSE "bare"
    [] class = 2 -> "secondary GTF"
    [] class = 4 -> IF rev < 4 THEN "refused" ELSE "CVT"
    [] OTHER -> IF rev <= 4 THEN "refused" ELSE "bare"

RangeAspects == <<"4:3", "16:9", "16:10", "5:4", "15:9">>

\* Pixel clocks are in units of 250 kHz here: the high bits of byte 12 of a CVT
\* descriptor lower what byte 9 says in units of 10 MHz.
RangeDetail(type, d) ==
  CASE type = "CVT" ->
         [pixel_clock |-> 40 * d[9] - get_bit_range(d[12], 7, 2),
          version |-> <<get_bit_range(d[11], 7, 4), get_bit_range(d[11], 3, 0)>>,
          max_horiz_px |-> 8 * Word(get_bit_range(d[12], 1, 0), d[13]),
          aspects |-> {k \in 3..7 : has_bit(d[14], k)},
          preferred_aspect_ratio |-> get_bit_range(d[15], 7, 5),
          blanking |-> {k \in 3..4 : has_bit(d[15], k)},
          scaling |-> {k \in 4..7 : has_bit(d[16], k)},
          preferred_vert_refresh_hz |-> d[17]]
    [] type = "secondary GTF" ->
         [pixel_clock |-> 40 * d[9], start_freq_khz |-> 2 * d[12], c2 |-> d[13],
          m |-> Word(d[15], d[14]), k |-> d[16], j2 |-> d[17]]
    [] OTHER -> [pixel_clock |-> 40 * d[9]]

RangeOrder_Reported(rates) ==
  << Note(rates.min_vert > rates.max_vert, TRUE, "min vertical"),
     Note(rates.min_horiz > rates.max_horiz, TRUE, "min horizontal") >>
RangeOrder(rates) ==
  << Refuse(rates.min_vert > rates.max_vert, TRUE, "min vertical"),
     Refuse(rates.min_horiz > rates.max_horiz, TRUE, "min horizontal") >>

RangeLimitChecks(rev, d) ==
  LET known == rev <= 4
  IN  << Refuse(rev >= 4 /\ 1 \in {get_bit_range(d[4], 1, 0), get_bit_range(d[4], 3, 2)},
                known, "offset flags"),
         Note(rev < 4 /\ d[4] # 0, TRUE, "offsets in 1.3"),
         Note(rev = 4 /\ get_bit_range(d[4], 7, 4) # 0, TRUE, "offset bits"),
         Refuse(known /\ 0 \in {d[5], d[6], d[7], d[8]}, TRUE, "reserved limits") >>
RangeClassChecks(rev, features, d) ==
  LET known == rev <= 4
      type == RangeType(rev, features, d[10])
      plain == type \in {"bare", "default GTF"}
  IN  << Note(rev = 4 /\ d[9] = 0, TRUE, "max dotclock"),
         Refuse(type = "refused", TRUE, "range class"),
         Refuse(rev >= 4 /\ ~features.continuous_freq /\ type # "bare", TRUE, "continuous"),
         Note(type = "secondary GTF" /\ d[11] # 0, TRUE, "byte 11"),
         Note(plain /\ d[11] # 10, TRUE, "byte 11"),
         Note(plain /\ \E k \in 12..17 : d[k] # 32, TRUE, "bytes 12-17"),
         Note(type = "CVT" /\ get_bit_range(d[14], 2, 0) # 0, known, "byte 14"),
         Refuse(type = "CVT" /\ get_bit_range(d[15], 7, 5) > 4, known, "preferred aspect"),
         Note(type = "CVT" /\ get_bit_range(d[15], 2, 0) # 0, known, "byte 15"),
         Note(type = "CVT" /\ get_bit_range(d[16], 3, 0) # 0, known, "byte 16"),
         Refuse(type = "CVT" /\ d[17] = 0, known, "preferred refresh") >>
RangeChecks(rev, features, d) ==
  RangeLimitChecks(rev, d) \o RangeOrder(RangeRates(rev, d)) \o RangeClassChecks(rev, features, d)

parse_display_range_limits(rev, features, d) ==
  LET type == RangeType(rev, features, d[10])
  IN  Checked(RangeChecks(rev, features, d),
              [rates |-> RangeRates(rev, d), type |-> type, detail |-> RangeDetail(type, d)])

(* print_display_desc calls bare limits before 1.4 "GTF".                  *)
RangeLines(rev, v) ==
  LET type == IF rev < 4 /\ v.type = "bare" THEN "default GTF" ELSE v.type
  IN  IF type = "CVT" /\ v.detail.preferred_aspect_ratio + 1 \notin DOMAIN RangeAspects
      THEN Abort
      ELSE {<<"Monitor ranges", type, v.rates>>}
        \cup If(v.detail.pixel_clock # 0, <<"max dotclock", v.detail.pixel_clock \div 4>>)
        \cup If(type = "secondary GTF", <<"GTF Secondary Curve Block">>)
        \cup If(type = "CVT", <<"CVT version", v.detail>>)

-----------------------------------------------------------------------------
(* The other descriptors.                                                  *)
parse_standard_timing(rev, b0, b1) ==
  IF b0 = 1 /\ b1 = 1 THEN Dropped({})
  ELSE IF b0 = 0 THEN Dropped(Until(rev, 4, TRUE, "standard timing code"))
  ELSE Kept(StandardTiming(b0, b1), {})

\* A color point starts at byte k: index, low bits, x, y, gamma.
ColorPoint(d, k) ==
  [index |-> d[k],
   white_x |-> decode_chromaticity_coord(d[k + 2], get_bit_range(d[k + 1], 3, 2)),
   white_y |-> decode_chromaticity_coord(d[k + 3], get_bit_range(d[k + 1], 1, 0)),
   gamma |-> IF d[k + 4] = 255 THEN 0 ELSE d[k + 4] + 100]
parse_color_point_descriptor(d) ==
  Kept(IF d[10] = 0 THEN <<ColorPoint(d, 5)>> ELSE <<ColorPoint(d, 5), ColorPoint(d, 10)>>,
       Always(d[5] = 0, "index 0"))

\* Version, and the a3 and a2 of red, green and blue in hundredths.
parse_color_management_data_descriptor(rev, d) ==
  Kept([version |-> d[5], a |-> [k \in 1..6 |-> Word(d[2 * k + 5], d[2 * k + 4])]],
       Until(rev, 4, d[5] # 3, "DCM version"))

parse_established_timings_iii_descriptor(rev, d) ==
  Kept(EstablishedIii(d),
       Always(rev < 4, "established III in 1.3")
         \cup Until(rev, 4, get_bit_range(d[11], 3, 0) # 0 \/ \E k \in 12..17 : d[k] # 0,
                    "established III reserved"))

\* The code of three bytes b; only the first of a descriptor may be all zero.
parse_cvt_timing_code(b, first) ==
  IF ~first /\ b = <<0, 0, 0>> THEN Dropped({})
  ELSE Kept(CvtTimingCode(b),
            Always(b[1] = 0, "CVT byte 0")
              \cup Always(get_bit_range(b[2], 1, 0) # 0, "CVT byte 1")
              \cup Always(get_bit_range(b[3], 4, 0) = 0, "CVT no rate")
              \cup Always(has_bit(b[3], 7), "CVT byte 2")
              \cup Always(~is_preferred_vrate_supported(CvtTimingCode(b)), "CVT preferred"))

(* print_cvt_timing_code: a line for every rate, standard blanking first,  *)
(* marked as preferred or not.                                             *)
CvtLine(code, hz, reduced, preferred) ==
  [hz |-> hz, reduced |-> reduced, preferred |-> preferred,
   timing |-> di_cvt_compute(CvtWidth(code), code.addressable_lines, hz, FALSE, reduced)]
CvtLines_BothSixties(code) ==
  {CvtLine(code, hz, FALSE, code.preferred = hz) : hz \in code.standard}
    \cup If(code.reduced_60hz, CvtLine(code, 60, TRUE, code.preferred = 60))
CvtLines(code) ==
  {CvtLine(code, hz, FALSE,
           code.preferred = hz /\ ~(hz = 60 /\ code.reduced_60hz)) : hz \in code.standard}
    \cup If(code.reduced_60hz, CvtLine(code, 60, TRUE, code.preferred = 60))

(* The refresh rate print_dmt_timing shows, in 0.01 Hz: both borders are   *)
(* taken off the blanking of the table, which does not hold them.          *)
DmtRate(row) ==
  LET horiz_total == row.horiz_video + row.horiz_blank - 2 * row.horiz_border
      vert_total == row.vert_video + row.vert_blank - 2 * row.vert_border
  IN  (row.pixel_clock_khz * 1000) \div ((horiz_total * vert_total) \div 100)

(* print_standard_timing: the DMT row, or a GTF timing without one.        *)
StandardLine(t) ==
  LET row == get_dmt(t)
  IN  IF row = NULL THEN <<"GTF", di_gtf_compute(t.horiz_video, get_vert_video(t), t.refresh_rate_hz)>>
                    ELSE <<"DMT", row.dmt_id, DmtRate(row)>>
=============================================================================
