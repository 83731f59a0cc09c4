------------------------------ MODULE Timings -------------------------------
(***************************************************************************)
(* The timings an EDID names instead of spelling out: standard timings and *)
(* established timings III refer to the DMT table, and CVT timing codes to *)
(* the formula of cvt.c; gtf.c has the formula for the standard timings    *)
(* the table does not know.  Pure operators, no state.                     *)
(*                                                                         *)
(* cvt.c and gtf.c compute with doubles; here their quotients are exact    *)
(* and rounded as they round.  Of their options, these are the ones the    *)
(* callers use: standard and version 1 reduced blanking, interlaced or     *)
(* not; GTF by frame rate, with the default blanking curve; no margins.    *)
(*                                                                         *)
(* A definition named X_Something is X with a plausible mistake in it.     *)
(***************************************************************************)
EXTENDS SequencesExt, Lists, Bits, DmtTable

NULL == [null |-> TRUE]

get_dmt_timing(id) ==
  FirstOf(DmtTimings, {k \in DOMAIN DmtTimings : DmtTimings[k].dmt_id = id}, NULL)

(* The DMT id of every bit, most significant bit of byte 6 first.          *)
established_timings_iii == <<
   1,  2,  3,  7, 14, 12, 19, 21,     22, 23, 24, 25, 32, 33, 35, 37,
  39, 46, 47, 48, 49, 41, 42, 43,     44, 57, 58, 59, 60, 51, 52, 53,
  54, 55, 62, 63, 65, 66, 68, 69,     70, 71, 73, 74>>

(* The timings of the bits set in bytes 6 to 11, in bit order.             *)
EstablishedIii(data) ==
  LET set == {i \in 1..44 : has_bit(data[6 + (i - 1) \div 8], 7 - ((i - 1) % 8))}
  IN  Picked([i \in 1..44 |-> get_dmt_timing(established_timings_iii[i])], set)

-----------------------------------------------------------------------------
(* Standard timings: two bytes, the second with aspect ratio and rate.     *)
StandardAspects == <<"16:10", "4:3", "5:4", "16:9">>

StandardTiming(b0, b1) ==
  [horiz_video |-> (b0 + 31) * 8,
   aspect_ratio |-> StandardAspects[1 + get_bit_range(b1, 7, 6)],
   refresh_rate_hz |-> get_bit_range(b1, 5, 0) + 60]

get_vert_video(t) ==
  CASE t.aspect_ratio = "16:10" -> (t.horiz_video * 10) \div 16
    [] t.aspect_ratio = "4:3"   -> (t.horiz_video * 3) \div 4
    [] t.aspect_ratio = "5:4"   -> (t.horiz_video * 4) \div 5
    [] t.aspect_ratio = "16:9"  -> (t.horiz_video * 9) \div 16

get_dmt(t) ==
  LET Fits(d) == /\ d.horiz_video = t.horiz_video
                 /\ d.vert_video = get_vert_video(t)
                 /\ d.refresh_rate_hz = t.refresh_rate_hz
                 /\ d.edid_std_id # 0
  IN  FirstOf(DmtTimings, {k \in DOMAIN DmtTimings : Fits(DmtTimings[k])}, NULL)

-----------------------------------------------------------------------------
(* a * b \div d for products beyond TLC's integers, by halving a.          *)
MulDiv(a, b, d) ==
  LET bits == 20
      step[n \in 0..bits] ==     \* quotient and rest of the top n bits of a
        IF n = 0 THEN <<0, 0>>
        ELSE LET p == step[n - 1]
                 r == 2 * p[2] + (IF has_bit(a, bits - n) THEN b ELSE 0)
             IN  <<2 * p[1] + r \div d, r % d>>
  IN  step[bits][1]

(* VSync tells the aspect ratio.                                           *)
CvtVsync_No15By9(h, v) ==
  IF (v * 4) \div 3 = h THEN 4
  ELSE IF (v * 16) \div 9 = h THEN 5
  ELSE IF (v * 16) \div 10 = h THEN 6
  ELSE IF v % 4 = 0 /\ (v * 5) \div 4 = h THEN 7
  ELSE 10
CvtVsync(h, v) ==
  IF (v * 4) \div 3 = h THEN 4
  ELSE IF (v * 16) \div 9 = h THEN 5
  ELSE IF (v * 16) \div 10 = h THEN 6
  ELSE IF (v % 4 = 0 /\ (v * 5) \div 4 = h) \/ (v * 15) \div 9 = h THEN 7
  ELSE 10

Larger(a, b) == IF a > b THEN a ELSE b

(* What di_cvt_compute and its caller make of the lengths of a line's and  *)
(* of a field's parts; half the interlace line is left to the total.       *)
Cvt(hp, lines, hb, hs, vb, vs, vfront, quarters) ==
  [total_active_pixels |-> hp, v_lines_rnd |-> lines,
   h_blank |-> hb, h_front_porch |-> hb \div 2 - hs, h_sync |-> hs,
   v_blank |-> vb, v_front_porch |-> vfront, v_sync |-> vs,
   pixel_freq_khz |-> 250 * quarters]

(* Standard blanking.  The estimated line period is                        *)
(* 100 * period / (lines2 * rate) microseconds, lines2 and period doubled  *)
(* for the half line of an interlaced field.                               *)
CvtStandard(h_pixels, v_lines, hz, interlaced) ==
  LET hp == (h_pixels \div 8) * 8
      lines == IF interlaced THEN v_lines \div 2 ELSE v_lines
      half == IF interlaced THEN 1 ELSE 0
      rate == IF interlaced THEN 2 * hz ELSE hz
      vs == CvtVsync(h_pixels, v_lines)
      lines2 == 2 * (lines + 3) + half
      period == 20000 - 11 * rate
      bp == Larger(MulDiv(11 * rate, lines2, 2 * period) + 1, vs + 7)
      \* the duty cycle is 10 * duty / (rate * lines2) percent, 20 at least
      duty == Larger(3 * rate * lines2 - 3 * period, 2 * rate * lines2)
      hb == (MulDiv(hp, duty, 10 * rate * lines2 - duty) \div 16) * 16
      hs == ((hp + hb) \div 100) * 8
  IN  Cvt(hp, lines, hb, hs, bp + 3, vs, 3,
          MulDiv(hp + hb, rate * lines2, 25 * period))

(* Reduced blanking, version 1.                                            *)
CvtReduced(h_pixels, v_lines, hz, interlaced) ==
  LET hp == (h_pixels \div 8) * 8
      lines == IF interlaced THEN v_lines \div 2 ELSE v_lines
      half == IF interlaced THEN 1 ELSE 0
      rate == IF interlaced THEN 2 * hz ELSE hz
      vs == CvtVsync(h_pixels, v_lines)
      vbi == MulDiv(460 * rate, lines, 1000000 - 460 * rate) + 1
      vb == Larger(3 + vs + 7, vbi)
  IN  Cvt(hp, lines, 160, 32, vb, vs, 3,
          MulDiv(hp + 160, rate * (2 * (vb + lines) + half), 500000))

di_cvt_compute(h_pixels, v_lines, hz, interlaced, reduced) ==
  IF reduced THEN CvtReduced(h_pixels, v_lines, hz, interlaced)
             ELSE CvtStandard(h_pixels, v_lines, hz, interlaced)

-----------------------------------------------------------------------------
(* GTF.  The line period is 1000000 / (hz * total) microseconds, and the   *)
(* duty cycle 30 - 300000 / (hz * total) percent: negative for a picture   *)
(* of few lines, which then has a negative blanking.                       *)
Round(a, b) ==     \* halves away from zero
  LET Up(n) == n \div b + (IF 2 * (n % b) >= b THEN 1 ELSE 0)
  IN  IF a >= 0 THEN Up(a) ELSE -Up(-a)

GtfVBack(v_lines, hz) == Round(11 * hz * (v_lines + 1), 20000 - 11 * hz)

GtfTiming(hp, hb, v_lines, v_sync_bp, khz) ==
  LET hs == 8 * Round(hp + hb, 100)
  IN  [h_pixels |-> hp, v_lines |-> v_lines,
       h_sync |-> hs, h_front_porch |-> hb \div 2 - hs, h_back_porch |-> hb \div 2,
       v_sync |-> 3, v_front_porch |-> 1, v_back_porch |-> v_sync_bp - 3,
       pixel_freq_khz |-> khz]

di_gtf_compute(h_pixels, v_lines, hz) ==
  LET hp == 8 * Round(h_pixels, 8)
      v_sync_bp == GtfVBack(v_lines, hz)
      lines == hz * (v_lines + v_sync_bp + 1)     \* a second
      hb == 16 * Round(hp * (3 * lines - 30000), 16 * (7 * lines + 30000))
  IN  GtfTiming(hp, hb, v_lines, v_sync_bp, Round((hp + hb) * lines, 1000))

-----------------------------------------------------------------------------
(* Three-byte CVT timing codes.                                            *)
CvtAspects == <<<<4, 3>>, <<16, 9>>, <<16, 10>>, <<15, 9>>>>
CvtRates == <<50, 60, 75, 85>>

CvtTimingCode(b) ==
  [addressable_lines |-> (b[1] + 256 * get_bit_range(b[2], 7, 4) + 1) * 2,
   aspect_ratio |-> CvtAspects[1 + get_bit_range(b[2], 3, 2)],
   standard |-> {CvtRates[k] : k \in {k \in 1..4 : has_bit(b[3], 5 - k)}},
   reduced_60hz |-> has_bit(b[3], 0),
   preferred |-> CvtRates[1 + get_bit_range(b[3], 6, 5)]]

(* The width print_cvt_timing_code computes.                               *)
CvtWidth(code) ==
  8 * (((code.addressable_lines * code.aspect_ratio[1]) \div code.aspect_ratio[2]) \div 8)

is_preferred_vrate_supported(code) ==
  \/ code.preferred \in code.standard
  \/ code.preferred = 60 /\ code.reduced_60hz
=============================================================================
