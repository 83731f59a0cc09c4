--------------------------- MODULE DisplayIdDecode ---------------------------
(***************************************************************************)
(* What displayid.c makes of the payload of the DisplayID data blocks, and *)
(* what di-edid-decode/displayid.c prints of it.  Pure operators, with the *)
(* results of EdidDecode.  The timings are sequences of bytes, so that     *)
(* d[1] is data[0]; the other blocks are functions on 0-based indices, as  *)
(* in the code, where 0 to 2 are the header.                               *)
(*                                                                         *)
(* A definition named X_Something is X with a plausible mistake in it.     *)
(***************************************************************************)
EXTENDS EdidDecode

check_data_block_revision(d, max_revision) ==
  Always(get_bit_range(d[1], 2, 0) > max_revision, "revision")
    \cup Always(get_bit_range(d[1], 7, 3) # 0, "flags")

-----------------------------------------------------------------------------
(* Timings of type I, II and VII.                                          *)
UNDEFINED == 8
TimingAspects == <<<<1, 1>>, <<5, 4>>, <<4, 3>>, <<15, 9>>, <<16, 9>>, <<16, 10>>,
                   <<64, 27>>, <<256, 135>>, <<0, 0>>>>

timing_aspect_ratio_is_valid(raw) == raw \in 0..UNDEFINED

Stereo3d == 0..2        \* never, always, user

\* With a reserved stereo value the field keeps what the caller had in it.
TimingOptions(d, stereo_before) ==
  LET stereo == get_bit_range(d[4], 6, 5)
      aspect == get_bit_range(d[4], 3, 0)
  IN  [preferred |-> has_bit(d[4], 7), interlaced |-> has_bit(d[4], 4),
       stereo_3d |-> IF stereo \in Stereo3d THEN stereo ELSE stereo_before,
       aspect_ratio |-> IF timing_aspect_ratio_is_valid(aspect) THEN aspect ELSE UNDEFINED]

\* The eight 16-bit fields from byte 4 on; the offsets give up their top bit.
TimingSizes_WholeOffset(d) ==
  [k \in 1..8 |-> 1 + Word(d[2 * k + 4], d[2 * k + 3])]
TimingSizes(d) ==
  [k \in 1..8 |-> 1 + Word(IF k \in {3, 7} THEN get_bit_range(d[2 * k + 4], 6, 0)
                                           ELSE d[2 * k + 4], d[2 * k + 3])]

_di_displayid_parse_type_1_7_timing(d, stereo_before) ==
  Kept([clock |-> 1 + d[1] + 256 * Word(d[3], d[2]),
        options |-> TimingOptions(d, stereo_before), sizes |-> TimingSizes(d),
        horiz_sync_polarity |-> has_bit(d[10], 7), vert_sync_polarity |-> has_bit(d[18], 7)],
       Always(get_bit_range(d[4], 6, 5) \notin Stereo3d, "stereo")
         \cup Always(~timing_aspect_ratio_is_valid(get_bit_range(d[4], 3, 0)), "aspect"))

(* The timing of parse_type_i_timing is an uninitialized local, so the     *)
(* field may hold anything: Garbage stands for what no name fits.          *)
Garbage == 3
parse_type_i_timing(d) ==
  {_di_displayid_parse_type_1_7_timing(d, s) : s \in Stereo3d \cup {Garbage}}

(* In a CTA block: a revision byte comes first, and the timing is calloc'd. *)
parse_did_type_vii_timing(d) ==
  LET timing == _di_displayid_parse_type_1_7_timing(Tail(d), 0)
      header == Checked(<<Refuse(Len(d) # 21, TRUE, "length"),
                          Refuse(get_bit_range(d[1], 6, 4) # 0, TRUE, "T7_M"),
                          Refuse(d[1] % 8 # 2, TRUE, "revision"),
                          Note(has_bit(d[1], 3), TRUE, "DSC_PT"),
                          Note(has_bit(d[1], 7), TRUE, "bit 7")>>, NULL)
  IN  IF header.kept THEN Kept(timing.value, header.failures \cup timing.failures)
                     ELSE header

(* Eleven bytes.  The vertical offset and sync width are taken from byte 9, *)
(* the byte of the vertical blanking; byte 10 is not read.                 *)
parse_type_ii_timing(d) ==
  LET stereo == get_bit_range(d[4], 6, 5)
  IN  Kept([clock |-> 1 + d[1] + 256 * Word(d[3], d[2]),
            options |-> [preferred |-> has_bit(d[4], 7), interlaced |-> has_bit(d[4], 4),
                         stereo_3d |-> IF stereo \in Stereo3d THEN stereo ELSE 0,
                         aspect_ratio |-> UNDEFINED],
            sizes |-> <<8 + 8 * Word(d[6] % 2, d[5]), 8 + 8 * get_bit_range(d[6], 7, 1),
                        8 + 8 * get_bit_range(d[7], 7, 4), 8 + 8 * get_bit_range(d[7], 3, 0),
                        1 + Word(get_bit_range(d[9], 3, 0), d[8]), 1 + d[10],
                        1 + get_bit_range(d[10], 7, 4), 1 + get_bit_range(d[10], 3, 0)>>,
            horiz_sync_polarity |-> has_bit(d[4], 3), vert_sync_polarity |-> has_bit(d[4], 2)],
           Always(stereo \notin Stereo3d, "stereo")
             \cup Always(get_bit_range(d[4], 1, 0) # 0, "options")
             \cup Always(get_bit_range(d[9], 7, 4) # 0, "vertical active"))

(* print_displayid_type_i_ii_vii_timing: active size, porches, names.      *)
TimingLines(t) ==
  IF t.options.stereo_3d \notin Stereo3d THEN Abort
  ELSE {<<"DTD", t.sizes[1], t.sizes[5]>>,
        <<"aspect", TimingAspects[t.options.aspect_ratio + 1]>>,
        <<"back", t.sizes[2] - t.sizes[4] - t.sizes[3], t.sizes[6] - t.sizes[8] - t.sizes[7]>>}
         \cup If(t.options.preferred, <<"preferred">>)

-----------------------------------------------------------------------------
(* Short timings of type III: a width, an aspect ratio and a rate for CVT. *)
parse_type_iii_timing(d) ==
  LET algo == get_bit_range(d[1], 6, 4)
      aspect == get_bit_range(d[1], 3, 0)
  IN  Checked(<<Refuse(algo \notin 0..1, TRUE, "algorithm"),
                Refuse(~timing_aspect_ratio_is_valid(aspect), TRUE, "aspect")>>,
              [preferred |-> has_bit(d[1], 7), algo |-> algo, aspect_ratio |-> aspect,
               horiz_active |-> 8 * (d[2] + 1), interlaced |-> has_bit(d[3], 7),
               refresh_rate_hz |-> 1 + (d[3] % 128)])

(* print_displayid_type_iii_timing prints nothing for an undefined aspect. *)
ShortTimingLines(t) ==
  LET ratio == TimingAspects[t.aspect_ratio + 1]
      v_lines == (t.horiz_active * ratio[2]) \div ratio[1]
  IN  IF t.aspect_ratio = UNDEFINED THEN {}
      ELSE {<<"CVT", t.horiz_active, v_lines, t.preferred,
              di_cvt_compute(t.horiz_active, v_lines, t.refresh_rate_hz,
                             t.interlaced, t.algo = 1)>>}

-----------------------------------------------------------------------------
(* Display parameters: sizes in 0.1 mm, gamma and aspect ratio in 1/100.   *)
parse_display_params_block(d, size) ==
  LET revision == check_data_block_revision(d, 0)
  IN  IF size # 15 THEN Dropped(revision \cup {"length"})
      ELSE Kept([image |-> <<Word(d[4], d[3]), Word(d[6], d[5])>>,
                 pixels |-> <<Word(d[8], d[7]), Word(d[10], d[9])>>,
                 features |-> {k \in 0..7 : has_bit(d[11], k)},
                 gamma |-> IF d[12] = 255 THEN 0 ELSE d[12] + 100,
                 aspect_ratio |-> d[13] + 100,
                 bits_per_color_overall |-> get_bit_range(d[14], 7, 4) + 1,
                 bits_per_color_native |-> get_bit_range(d[14], 3, 0) + 1], revision)

(* Tiled display topology.  The counts and locations of tiles are six bits *)
(* long, with the top two in byte 6.                                       *)
TileFields(d) ==
  [k \in 1..4 |-> 1 + 16 * get_bit_range(d[6], 9 - 2 * k, 8 - 2 * k)
                    + (IF k % 2 = 1 THEN get_bit_range(d[4 + (k - 1) \div 2], 7, 4)
                                    ELSE get_bit_range(d[4 + (k - 1) \div 2], 3, 0))]

\* The bezel counts only with a pixel multiplier.
HasBezel(d) == has_bit(d[3], 6) /\ d[11] # 0

parse_tiled_topo_block(d, size) ==
  LET revision == check_data_block_revision(d, 0)
      missing == get_bit_range(d[3], 4, 3)
      single == get_bit_range(d[3], 2, 0)
  IN  IF size # 25 THEN Dropped(revision \cup {"length"})
      ELSE Kept([single_enclosure |-> has_bit(d[3], 7),
                 missing_recv_behavior |-> IF missing \in 0..1 THEN missing ELSE 0,
                 single_recv_behavior |-> IF single \in 0..3 THEN single ELSE 0,
                 tiles |-> TileFields(d),
                 pixels |-> <<1 + Word(d[8], d[7]), 1 + Word(d[10], d[9])>>,
                 bezel |-> IF HasBezel(d) THEN [k \in 1..4 |-> d[11] * d[11 + k]] ELSE <<>>],
                revision \cup Always(has_bit(d[3], 5), "bit 5")
                  \cup Always(missing \notin 0..1, "missing tile")
                  \cup Always(single \notin 0..3, "single tile")
                  \cup Always(has_bit(d[3], 6) /\ d[11] = 0, "multiplier zero")
                  \cup Always(~has_bit(d[3], 6) /\ d[11] # 0, "multiplier without bezel")
                  \cup Always(~HasBezel(d) /\ \E k \in 12..15 : d[k] # 0, "bezel size"))

TiledLines(t) ==
  IF t.missing_recv_behavior \notin 0..1 \/ t.single_recv_behavior \notin 0..3 THEN Abort
  ELSE {<<"Num", t.tiles[1], t.tiles[2]>>,
        <<"Tile location", t.tiles[3] - 1, t.tiles[4] - 1>>,
        <<"Tile resolution", t.pixels[1], t.pixels[2]>>}
         \cup If(t.bezel # <<>>, <<"bevel", t.bezel>>)
=============================================================================
