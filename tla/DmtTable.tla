------------------------------- MODULE DmtTable ------------------------------
(***************************************************************************)
(* The VESA display monitor timings of dmt-table.c, one line per timing    *)
(* with its numbers in the order of struct di_dmt_timing (dmt.h).  Pixel   *)
(* clocks are multiples of 1 kHz, and are given in kHz because the largest *)
(* of them do not leave TLC's integers room to be computed with.           *)
(***************************************************************************)
EXTENDS Naturals, Sequences

(* Size and clock of a timing, then blanking, front porch, sync pulse and  *)
(* border of a line and of a frame, as struct di_dmt_timing has them.      *)
Dmt(id, std, cvt, horiz, vert, rate, khz, h, v, rb) ==
  [dmt_id |-> id, edid_std_id |-> std, cvt_id |-> cvt,
   horiz_video |-> horiz, vert_video |-> vert,
   refresh_rate_hz |-> rate, pixel_clock_khz |-> khz,
   horiz_blank |-> h[1], horiz_front_porch |-> h[2], horiz_sync_pulse |-> h[3], horiz_border |-> h[4],
   vert_blank |-> v[1], vert_front_porch |-> v[2], vert_sync_pulse |-> v[3], vert_border |-> v[4],
   reduced_blanking |-> rb]

Dmt01 == <<
  Dmt(1, 0, 0, 640, 350, 85, 31500, <<192, 32, 64, 0>>, <<95, 32, 3, 0>>, FALSE),
  Dmt(2, 12569, 0, 640, 400, 85, 31500, <<192, 32, 64, 0>>, <<45, 1, 3, 0>>, FALSE),
  Dmt(3, 0, 0, 720, 400, 85, 35500, <<216, 36, 72, 0>>, <<46, 1, 3, 0>>, FALSE),
  Dmt(4, 12608, 0, 640, 480, 60, 25175, <<144, 8, 96, 8>>, <<29, 2, 2, 8>>, FALSE),
  Dmt(5, 12620, 0, 640, 480, 72, 31500, <<176, 16, 40, 8>>, <<24, 1, 3, 8>>, FALSE),
  Dmt(6, 12623, 0, 640, 480, 75, 31500, <<200, 16, 64, 0>>, <<20, 1, 3, 0>>, FALSE),
  Dmt(7, 12633, 0, 640, 480, 85, 36000, <<192, 56, 56, 0>>, <<29, 1, 3, 0>>, FALSE),
  Dmt(8, 0, 0, 800, 600, 56, 36000, <<224, 24, 72, 0>>, <<25, 1, 2, 0>>, FALSE)>>

Dmt09 == <<
  Dmt(9, 17728, 0, 800, 600, 60, 40000, <<256, 40, 128, 0>>, <<28, 1, 4, 0>>, FALSE),
  Dmt(10, 17740, 0, 800, 600, 72, 50000, <<240, 56, 120, 0>>, <<66, 37, 6, 0>>, FALSE),
  Dmt(11, 17743, 0, 800, 600, 75, 49500, <<256, 16, 80, 0>>, <<25, 1, 3, 0>>, FALSE),
  Dmt(12, 17753, 0, 800, 600, 85, 56250, <<248, 32, 64, 0>>, <<31, 1, 3, 0>>, FALSE),
  Dmt(13, 0, 0, 800, 600, 120, 73250, <<160, 48, 32, 0>>, <<36, 3, 4, 0>>, TRUE),
  Dmt(14, 0, 0, 848, 480, 60, 33750, <<240, 16, 112, 0>>, <<37, 6, 8, 0>>, FALSE),
  Dmt(15, 0, 0, 1024, 768, 43, 44900, <<240, 8, 176, 0>>, <<24, 0, 4, 0>>, FALSE),
  Dmt(16, 24896, 0, 1024, 768, 60, 65000, <<320, 24, 136, 0>>, <<38, 3, 6, 0>>, FALSE)>>

Dmt11 == <<
  Dmt(17, 24906, 0, 1024, 768, 70, 75000, <<304, 24, 136, 0>>, <<38, 3, 6, 0>>, FALSE),
  Dmt(18, 24911, 0, 1024, 768, 75, 78750, <<288, 16, 96, 0>>, <<32, 1, 3, 0>>, FALSE),
  Dmt(19, 24921, 0, 1024, 768, 85, 94500, <<352, 48, 96, 0>>, <<40, 1, 3, 0>>, FALSE),
  Dmt(20, 0, 0, 1024, 768, 120, 115500, <<160, 48, 32, 0>>, <<45, 3, 4, 0>>, TRUE),
  Dmt(21, 29007, 0, 1152, 864, 75, 108000, <<448, 64, 128, 0>>, <<36, 1, 3, 0>>, FALSE),
  Dmt(85, 33216, 0, 1280, 720, 60, 74250, <<370, 110, 40, 0>>, <<30, 5, 5, 0>>, FALSE),
  Dmt(22, 0, 8330273, 1280, 768, 60, 68250, <<160, 48, 32, 0>>, <<22, 3, 7, 0>>, TRUE),
  Dmt(23, 0, 8330280, 1280, 768, 60, 79500, <<384, 64, 128, 0>>, <<30, 3, 7, 0>>, FALSE)>>

Dmt18 == <<
  Dmt(24, 0, 8330308, 1280, 768, 75, 102250, <<416, 80, 128, 0>>, <<37, 3, 7, 0>>, FALSE),
  Dmt(25, 0, 8330338, 1280, 768, 85, 117500, <<432, 80, 136, 0>>, <<41, 3, 7, 0>>, FALSE),
  Dmt(26, 0, 0, 1280, 768, 120, 140250, <<160, 48, 32, 0>>, <<45, 3, 7, 0>>, TRUE),
  Dmt(27, 0, 9377825, 1280, 800, 60, 71000, <<160, 48, 32, 0>>, <<23, 3, 6, 0>>, TRUE),
  Dmt(28, 33024, 9377832, 1280, 800, 60, 83500, <<400, 72, 128, 0>>, <<31, 3, 6, 0>>, FALSE),
  Dmt(29, 33039, 9377860, 1280, 800, 75, 106500, <<416, 80, 128, 0>>, <<38, 3, 6, 0>>, FALSE),
  Dmt(30, 33049, 9377890, 1280, 800, 85, 122500, <<432, 80, 136, 0>>, <<43, 3, 6, 0>>, FALSE),
  Dmt(31, 0, 0, 1280, 800, 120, 146250, <<160, 48, 32, 0>>, <<47, 3, 6, 0>>, TRUE)>>

Dmt20 == <<
  Dmt(32, 33088, 0, 1280, 960, 60, 108000, <<520, 96, 112, 0>>, <<40, 1, 3, 0>>, FALSE),
  Dmt(33, 33113, 0, 1280, 960, 85, 148500, <<448, 64, 160, 0>>, <<51, 1, 3, 0>>, FALSE),
  Dmt(34, 0, 0, 1280, 960, 120, 175500, <<160, 48, 32, 0>>, <<57, 3, 4, 0>>, TRUE),
  Dmt(35, 33152, 0, 1280, 1024, 60, 108000, <<408, 48, 112, 0>>, <<42, 1, 3, 0>>, FALSE),
  Dmt(36, 33167, 0, 1280, 1024, 75, 135000, <<408, 16, 144, 0>>, <<42, 1, 3, 0>>, FALSE),
  Dmt(37, 33177, 0, 1280, 1024, 85, 157500, <<448, 64, 160, 0>>, <<48, 1, 3, 0>>, FALSE),
  Dmt(38, 0, 0, 1280, 1024, 120, 187250, <<160, 48, 32, 0>>, <<60, 3, 7, 0>>, TRUE),
  Dmt(39, 0, 0, 1360, 768, 60, 85500, <<432, 64, 112, 0>>, <<27, 3, 6, 0>>, FALSE)>>

Dmt28 == <<
  Dmt(40, 0, 0, 1360, 768, 120, 148250, <<160, 48, 32, 0>>, <<45, 3, 5, 0>>, TRUE),
  Dmt(81, 0, 0, 1366, 768, 60, 85500, <<426, 70, 143, 0>>, <<30, 3, 3, 0>>, FALSE),
  Dmt(86, 0, 0, 1366, 768, 60, 72000, <<134, 14, 56, 0>>, <<32, 1, 3, 0>>, TRUE),
  Dmt(41, 0, 794657, 1400, 1050, 60, 101000, <<160, 48, 32, 0>>, <<30, 3, 4, 0>>, TRUE),
  Dmt(42, 36928, 794664, 1400, 1050, 60, 121750, <<464, 88, 144, 0>>, <<39, 3, 4, 0>>, FALSE),
  Dmt(43, 36943, 794692, 1400, 1050, 75, 156000, <<496, 104, 144, 0>>, <<49, 3, 4, 0>>, FALSE),
  Dmt(44, 36953, 794722, 1400, 1050, 85, 179500, <<512, 104, 152, 0>>, <<55, 3, 4, 0>>, FALSE),
  Dmt(45, 0, 0, 1400, 1050, 120, 208000, <<160, 48, 32, 0>>, <<62, 3, 4, 0>>, TRUE)>>

Dmt2E == <<
  Dmt(46, 0, 12654625, 1440, 900, 60, 88750, <<160, 48, 32, 0>>, <<26, 3, 6, 0>>, TRUE),
  Dmt(47, 38144, 12654632, 1440, 900, 60, 106500, <<464, 80, 152, 0>>, <<34, 3, 6, 0>>, FALSE),
  Dmt(48, 38159, 12654660, 1440, 900, 75, 136750, <<496, 96, 152, 0>>, <<42, 3, 6, 0>>, FALSE),
  Dmt(49, 38169, 12654696, 1440, 900, 85, 157000, <<512, 104, 152, 0>>, <<48, 3, 6, 0>>, FALSE),
  Dmt(50, 0, 0, 1440, 900, 120, 182750, <<160, 48, 32, 0>>, <<53, 3, 6, 0>>, TRUE),
  Dmt(83, 43456, 0, 1600, 900, 60, 108000, <<200, 24, 80, 0>>, <<100, 1, 3, 0>>, TRUE),
  Dmt(51, 43328, 0, 1600, 1200, 60, 162000, <<560, 64, 192, 0>>, <<50, 1, 3, 0>>, FALSE),
  Dmt(52, 43333, 0, 1600, 1200, 65, 175500, <<560, 64, 192, 0>>, <<50, 1, 3, 0>>, FALSE)>>

Dmt35 == <<
  Dmt(53, 43338, 0, 1600, 1200, 70, 189000, <<560, 64, 192, 0>>, <<50, 1, 3, 0>>, FALSE),
  Dmt(54, 43343, 0, 1600, 1200, 75, 202500, <<560, 64, 192, 0>>, <<50, 1, 3, 0>>, FALSE),
  Dmt(55, 43353, 0, 1600, 1200, 85, 229500, <<560, 64, 192, 0>>, <<50, 1, 3, 0>>, FALSE),
  Dmt(56, 0, 0, 1600, 1200, 120, 268250, <<160, 48, 32, 0>>, <<71, 3, 4, 0>>, TRUE),
  Dmt(57, 0, 796705, 1680, 1050, 60, 119000, <<160, 48, 32, 0>>, <<30, 3, 6, 0>>, TRUE),
  Dmt(58, 45824, 796712, 1680, 1050, 60, 146250, <<560, 104, 176, 0>>, <<39, 3, 6, 0>>, FALSE),
  Dmt(59, 45839, 796740, 1680, 1050, 75, 187000, <<592, 120, 176, 0>>, <<49, 3, 6, 0>>, FALSE),
  Dmt(60, 45849, 796776, 1680, 1050, 85, 214750, <<608, 128, 176, 0>>, <<55, 3, 6, 0>>, FALSE)>>

Dmt3D == <<
  Dmt(61, 0, 0, 1680, 1050, 120, 245500, <<160, 48, 32, 0>>, <<62, 3, 6, 0>>, TRUE),
  Dmt(62, 49472, 0, 1792, 1344, 60, 204750, <<656, 128, 200, 0>>, <<50, 1, 3, 0>>, FALSE),
  Dmt(63, 49487, 0, 1792, 1344, 75, 261000, <<664, 96, 216, 0>>, <<73, 1, 3, 0>>, FALSE),
  Dmt(64, 0, 0, 1792, 1344, 120, 333250, <<160, 48, 32, 0>>, <<79, 3, 4, 0>>, TRUE),
  Dmt(65, 51520, 0, 1856, 1392, 60, 218250, <<672, 96, 224, 0>>, <<47, 1, 3, 0>>, FALSE),
  Dmt(66, 51535, 0, 1856, 1392, 75, 288000, <<704, 128, 224, 0>>, <<108, 1, 3, 0>>, FALSE),
  Dmt(67, 0, 0, 1856, 1392, 120, 356500, <<160, 48, 32, 0>>, <<82, 3, 4, 0>>, TRUE),
  Dmt(82, 53696, 0, 1920, 1080, 60, 148500, <<280, 88, 44, 0>>, <<45, 4, 5, 0>>, FALSE)>>

Dmt44 == <<
  Dmt(68, 0, 5711905, 1920, 1200, 60, 154000, <<160, 48, 32, 0>>, <<35, 3, 6, 0>>, TRUE),
  Dmt(69, 53504, 5711912, 1920, 1200, 60, 193250, <<672, 136, 200, 0>>, <<45, 3, 6, 0>>, FALSE),
  Dmt(70, 53519, 5711940, 1920, 1200, 75, 245250, <<688, 136, 208, 0>>, <<55, 3, 6, 0>>, FALSE),
  Dmt(71, 53529, 5711970, 1920, 1200, 85, 281250, <<704, 144, 208, 0>>, <<62, 3, 6, 0>>, FALSE),
  Dmt(72, 0, 0, 1920, 1200, 120, 317000, <<160, 48, 32, 0>>, <<71, 3, 6, 0>>, TRUE),
  Dmt(73, 53568, 0, 1920, 1440, 60, 234000, <<680, 128, 208, 0>>, <<60, 1, 3, 0>>, FALSE),
  Dmt(74, 53583, 0, 1920, 1440, 75, 297000, <<720, 144, 224, 0>>, <<60, 1, 3, 0>>, FALSE),
  Dmt(75, 0, 0, 1920, 1440, 120, 380500, <<160, 48, 32, 0>>, <<85, 3, 4, 0>>, TRUE)>>

Dmt54 == <<
  Dmt(84, 57792, 0, 2048, 1152, 60, 162000, <<202, 26, 80, 0>>, <<48, 1, 3, 0>>, TRUE),
  Dmt(76, 0, 2045985, 2560, 1600, 60, 268500, <<160, 48, 32, 0>>, <<46, 3, 6, 0>>, TRUE),
  Dmt(77, 0, 2045992, 2560, 1600, 60, 348500, <<944, 192, 280, 0>>, <<58, 3, 6, 0>>, FALSE),
  Dmt(78, 0, 2046020, 2560, 1600, 75, 443250, <<976, 208, 280, 0>>, <<72, 3, 6, 0>>, FALSE),
  Dmt(79, 0, 2046050, 2560, 1600, 85, 505250, <<976, 208, 280, 0>>, <<82, 3, 6, 0>>, FALSE),
  Dmt(80, 0, 0, 2560, 1600, 120, 552750, <<160, 48, 32, 0>>, <<94, 3, 6, 0>>, TRUE)>>

(* _di_dmt_timings[], in its order. *)
DmtTimings ==
  Dmt01 \o Dmt09 \o Dmt11 \o Dmt18 \o Dmt20 \o Dmt28 \o
  Dmt2E \o Dmt35 \o Dmt3D \o Dmt44 \o Dmt54
=============================================================================
