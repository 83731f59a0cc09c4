------------------------------- MODULE VicTable ------------------------------
(***************************************************************************)
(* The video formats of CTA-861 in cta-vic-table.c, one line per format    *)
(* with its numbers in the order of struct di_cta_video_format (cta.h),    *)
(* pixel clocks in kHz.                                                    *)
(***************************************************************************)
EXTENDS SequencesExt

(* Front porch, sync and back porch of a line and of a frame; polarities  *)
(* and picture aspect ratio of struct di_cta_video_format.                 *)
Vic(vic, h_active, v_active, interlaced, khz, h, h_pol, v, v_pol, ratio) ==
  [vic |-> vic, h_active |-> h_active, v_active |-> v_active,
   interlaced |-> interlaced, pixel_clock_khz |-> khz,
   h_front |-> h[1], h_sync |-> h[2], h_back |-> h[3], h_sync_polarity |-> h_pol,
   v_front |-> v[1], v_sync |-> v[2], v_back |-> v[3], v_sync_polarity |-> v_pol,
   picture_aspect_ratio |-> ratio]

Vic60 == <<
  Vic(60, 1280, 720, FALSE, 59400, <<1760, 40, 220>>, "+", <<5, 5, 20>>, "+", "16:9"),
  Vic(65, 1280, 720, FALSE, 59400, <<1760, 40, 220>>, "+", <<5, 5, 20>>, "+", "64:27"),
  Vic(61, 1280, 720, FALSE, 74250, <<2420, 40, 220>>, "+", <<5, 5, 20>>, "+", "16:9"),
  Vic(66, 1280, 720, FALSE, 74250, <<2420, 40, 220>>, "+", <<5, 5, 20>>, "+", "64:27"),
  Vic(62, 1280, 720, FALSE, 74250, <<1760, 40, 220>>, "+", <<5, 5, 20>>, "+", "16:9"),
  Vic(67, 1280, 720, FALSE, 74250, <<1760, 40, 220>>, "+", <<5, 5, 20>>, "+", "64:27"),
  Vic(108, 1280, 720, FALSE, 90000, <<960, 40, 220>>, "+", <<5, 5, 20>>, "+", "16:9"),
  Vic(109, 1280, 720, FALSE, 90000, <<960, 40, 220>>, "+", <<5, 5, 20>>, "+", "64:27"),
  Vic(32, 1920, 1080, FALSE, 74250, <<638, 44, 148>>, "+", <<4, 5, 36>>, "+", "16:9")>>

Vic72 == <<
  Vic(72, 1920, 1080, FALSE, 74250, <<638, 44, 148>>, "+", <<4, 5, 36>>, "+", "64:27"),
  Vic(33, 1920, 1080, FALSE, 74250, <<528, 44, 148>>, "+", <<4, 5, 36>>, "+", "16:9"),
  Vic(73, 1920, 1080, FALSE, 74250, <<528, 44, 148>>, "+", <<4, 5, 36>>, "+", "64:27"),
  Vic(34, 1920, 1080, FALSE, 74250, <<88, 44, 148>>, "+", <<4, 5, 36>>, "+", "16:9"),
  Vic(74, 1920, 1080, FALSE, 74250, <<88, 44, 148>>, "+", <<4, 5, 36>>, "+", "64:27"),
  Vic(111, 1920, 1080, FALSE, 148500, <<638, 44, 148>>, "+", <<4, 5, 36>>, "+", "16:9"),
  Vic(112, 1920, 1080, FALSE, 148500, <<638, 44, 148>>, "+", <<4, 5, 36>>, "+", "64:27"),
  Vic(79, 1680, 720, FALSE, 59400, <<1360, 40, 220>>, "+", <<5, 5, 20>>, "+", "64:27"),
  Vic(80, 1680, 720, FALSE, 59400, <<1228, 40, 220>>, "+", <<5, 5, 20>>, "+", "64:27")>>

Vic81 == <<
  Vic(81, 1680, 720, FALSE, 59400, <<700, 40, 220>>, "+", <<5, 5, 20>>, "+", "64:27"),
  Vic(110, 1680, 720, FALSE, 99000, <<810, 40, 220>>, "+", <<5, 5, 20>>, "+", "64:27"),
  Vic(86, 2560, 1080, FALSE, 99000, <<998, 44, 148>>, "+", <<4, 5, 11>>, "+", "64:27"),
  Vic(87, 2560, 1080, FALSE, 90000, <<448, 44, 148>>, "+", <<4, 5, 36>>, "+", "64:27"),
  Vic(88, 2560, 1080, FALSE, 118800, <<768, 44, 148>>, "+", <<4, 5, 36>>, "+", "64:27"),
  Vic(113, 2560, 1080, FALSE, 198000, <<998, 44, 148>>, "+", <<4, 5, 11>>, "+", "64:27"),
  Vic(93, 3840, 2160, FALSE, 297000, <<1276, 88, 296>>, "+", <<8, 10, 72>>, "+", "16:9"),
  Vic(103, 3840, 2160, FALSE, 297000, <<1276, 88, 296>>, "+", <<8, 10, 72>>, "+", "64:27"),
  Vic(94, 3840, 2160, FALSE, 297000, <<1056, 88, 296>>, "+", <<8, 10, 72>>, "+", "16:9")>>

Vic104 == <<
  Vic(104, 3840, 2160, FALSE, 297000, <<1056, 88, 296>>, "+", <<8, 10, 72>>, "+", "64:27"),
  Vic(95, 3840, 2160, FALSE, 297000, <<176, 88, 296>>, "+", <<8, 10, 72>>, "+", "16:9"),
  Vic(105, 3840, 2160, FALSE, 297000, <<176, 88, 296>>, "+", <<8, 10, 72>>, "+", "64:27"),
  Vic(114, 3840, 2160, FALSE, 594000, <<1276, 88, 296>>, "+", <<8, 10, 72>>, "+", "16:9"),
  Vic(116, 3840, 2160, FALSE, 594000, <<1276, 88, 296>>, "+", <<8, 10, 72>>, "+", "64:27"),
  Vic(98, 4096, 2160, FALSE, 297000, <<1020, 88, 296>>, "+", <<8, 10, 72>>, "+", "256:135"),
  Vic(99, 4096, 2160, FALSE, 297000, <<968, 88, 128>>, "+", <<8, 10, 72>>, "+", "256:135"),
  Vic(100, 4096, 2160, FALSE, 297000, <<88, 88, 128>>, "+", <<8, 10, 72>>, "+", "256:135"),
  Vic(115, 4096, 2160, FALSE, 594000, <<1020, 88, 296>>, "+", <<8, 10, 72>>, "+", "256:135")>>

Vic121 == <<
  Vic(121, 5120, 2160, FALSE, 396000, <<1996, 88, 296>>, "+", <<8, 10, 22>>, "+", "64:27"),
  Vic(122, 5120, 2160, FALSE, 396000, <<1696, 88, 296>>, "+", <<8, 10, 22>>, "+", "64:27"),
  Vic(123, 5120, 2160, FALSE, 396000, <<664, 88, 128>>, "+", <<8, 10, 22>>, "+", "64:27"),
  Vic(124, 5120, 2160, FALSE, 742500, <<746, 88, 296>>, "+", <<8, 10, 297>>, "+", "64:27"),
  Vic(194, 7680, 4320, FALSE, 1188000, <<2552, 176, 592>>, "+", <<16, 20, 144>>, "+", "16:9"),
  Vic(202, 7680, 4320, FALSE, 1188000, <<2552, 176, 592>>, "+", <<16, 20, 144>>, "+", "64:27"),
  Vic(195, 7680, 4320, FALSE, 1188000, <<2352, 176, 592>>, "+", <<16, 20, 44>>, "+", "16:9"),
  Vic(203, 7680, 4320, FALSE, 1188000, <<2352, 176, 592>>, "+", <<16, 20, 44>>, "+", "64:27"),
  Vic(196, 7680, 4320, FALSE, 1188000, <<552, 176, 592>>, "+", <<16, 20, 44>>, "+", "16:9")>>

Vic204 == <<
  Vic(204, 7680, 4320, FALSE, 1188000, <<552, 176, 592>>, "+", <<16, 20, 44>>, "+", "64:27"),
  Vic(197, 7680, 4320, FALSE, 2376000, <<2552, 176, 592>>, "+", <<16, 20, 144>>, "+", "16:9"),
  Vic(205, 7680, 4320, FALSE, 2376000, <<2552, 176, 592>>, "+", <<16, 20, 144>>, "+", "64:27"),
  Vic(210, 10240, 4320, FALSE, 1485000, <<1492, 176, 592>>, "+", <<16, 20, 594>>, "+", "64:27"),
  Vic(211, 10240, 4320, FALSE, 1485000, <<2492, 176, 592>>, "+", <<16, 20, 44>>, "+", "64:27"),
  Vic(212, 10240, 4320, FALSE, 1485000, <<288, 176, 296>>, "+", <<16, 20, 144>>, "+", "64:27"),
  Vic(213, 10240, 4320, FALSE, 2970000, <<1492, 176, 592>>, "+", <<16, 20, 594>>, "+", "64:27"),
  Vic(17, 720, 576, FALSE, 27000, <<12, 64, 68>>, "-", <<5, 5, 39>>, "-", "4:3"),
  Vic(18, 720, 576, FALSE, 27000, <<12, 64, 68>>, "-", <<5, 5, 39>>, "-", "16:9")>>

Vic19 == <<
  Vic(19, 1280, 720, FALSE, 74250, <<440, 40, 220>>, "+", <<5, 5, 20>>, "+", "16:9"),
  Vic(68, 1280, 720, FALSE, 74250, <<440, 40, 220>>, "+", <<5, 5, 20>>, "+", "64:27"),
  Vic(20, 1920, 1080, TRUE, 74250, <<528, 44, 148>>, "+", <<2, 5, 15>>, "+", "16:9"),
  Vic(21, 1440, 576, TRUE, 27000, <<24, 126, 138>>, "-", <<2, 3, 19>>, "-", "4:3"),
  Vic(22, 1440, 576, TRUE, 27000, <<24, 126, 138>>, "-", <<2, 3, 19>>, "-", "16:9"),
  Vic(23, 1440, 288, FALSE, 27000, <<24, 126, 138>>, "-", <<424, 3, 19>>, "-", "4:3"),
  Vic(24, 1440, 288, FALSE, 27000, <<24, 126, 138>>, "-", <<424, 3, 19>>, "-", "16:9"),
  Vic(25, 2880, 576, TRUE, 54000, <<48, 252, 276>>, "-", <<2, 3, 19>>, "-", "4:3"),
  Vic(26, 2880, 576, TRUE, 54000, <<48, 252, 276>>, "-", <<2, 3, 19>>, "-", "16:9")>>

Vic27 == <<
  Vic(27, 2880, 288, FALSE, 54000, <<48, 252, 276>>, "-", <<424, 3, 19>>, "-", "4:3"),
  Vic(28, 2880, 288, FALSE, 54000, <<48, 252, 276>>, "-", <<424, 3, 19>>, "-", "16:9"),
  Vic(29, 1440, 576, FALSE, 54000, <<24, 128, 136>>, "-", <<5, 5, 39>>, "-", "4:3"),
  Vic(30, 1440, 576, FALSE, 54000, <<24, 128, 136>>, "-", <<5, 5, 39>>, "-", "16:9"),
  Vic(31, 1920, 1080, FALSE, 148500, <<528, 44, 148>>, "+", <<4, 5, 36>>, "+", "16:9"),
  Vic(75, 1920, 1080, FALSE, 148500, <<528, 44, 148>>, "+", <<4, 5, 36>>, "+", "64:27"),
  Vic(37, 2880, 576, FALSE, 108000, <<48, 256, 272>>, "-", <<5, 5, 39>>, "-", "4:3"),
  Vic(38, 2880, 576, FALSE, 108000, <<48, 256, 272>>, "-", <<5, 5, 39>>, "-", "16:9"),
  Vic(39, 1920, 1080, TRUE, 72000, <<32, 168, 184>>, "+", <<23, 5, 57>>, "-", "16:9")>>

Vic82 == <<
  Vic(82, 1680, 720, FALSE, 82500, <<260, 40, 220>>, "+", <<5, 5, 20>>, "+", "64:27"),
  Vic(89, 2560, 1080, FALSE, 185625, <<548, 44, 148>>, "+", <<4, 5, 36>>, "+", "64:27"),
  Vic(96, 3840, 2160, FALSE, 594000, <<1056, 88, 296>>, "+", <<8, 10, 72>>, "+", "16:9"),
  Vic(106, 3840, 2160, FALSE, 594000, <<1056, 88, 296>>, "+", <<8, 10, 72>>, "+", "64:27"),
  Vic(101, 4096, 2160, FALSE, 594000, <<968, 88, 128>>, "+", <<8, 10, 72>>, "+", "256:135"),
  Vic(125, 5120, 2160, FALSE, 742500, <<1096, 88, 296>>, "+", <<8, 10, 72>>, "+", "64:27"),
  Vic(198, 7680, 4320, FALSE, 2376000, <<2352, 176, 592>>, "+", <<16, 20, 44>>, "+", "16:9"),
  Vic(206, 7680, 4320, FALSE, 2376000, <<2352, 176, 592>>, "+", <<16, 20, 44>>, "+", "64:27"),
  Vic(214, 10240, 4320, FALSE, 2970000, <<2492, 176, 592>>, "+", <<16, 20, 44>>, "+", "64:27")>>

Vic1 == <<
  Vic(1, 640, 480, FALSE, 25175, <<16, 96, 48>>, "-", <<10, 2, 33>>, "-", "4:3"),
  Vic(2, 720, 480, FALSE, 27000, <<16, 62, 60>>, "-", <<9, 6, 30>>, "-", "4:3"),
  Vic(3, 720, 480, FALSE, 27000, <<16, 62, 60>>, "-", <<9, 6, 30>>, "-", "16:9"),
  Vic(4, 1280, 720, FALSE, 74250, <<110, 40, 220>>, "+", <<5, 5, 20>>, "+", "16:9"),
  Vic(69, 1280, 720, FALSE, 74250, <<110, 40, 220>>, "+", <<5, 5, 20>>, "+", "64:27"),
  Vic(5, 1920, 1080, TRUE, 74250, <<88, 44, 148>>, "+", <<2, 5, 15>>, "+", "16:9"),
  Vic(6, 1440, 480, TRUE, 27000, <<38, 124, 114>>, "-", <<4, 3, 15>>, "-", "4:3"),
  Vic(7, 1440, 480, TRUE, 27000, <<38, 124, 114>>, "-", <<4, 3, 15>>, "-", "16:9"),
  Vic(8, 1440, 240, FALSE, 27000, <<38, 124, 114>>, "-", <<521, 3, 15>>, "-", "4:3")>>

Vic9 == <<
  Vic(9, 1440, 240, FALSE, 27000, <<38, 124, 114>>, "-", <<521, 3, 15>>, "-", "16:9"),
  Vic(10, 2880, 480, TRUE, 54000, <<76, 248, 228>>, "-", <<4, 3, 15>>, "-", "4:3"),
  Vic(11, 2880, 480, TRUE, 54000, <<76, 248, 228>>, "-", <<4, 3, 15>>, "-", "16:9"),
  Vic(12, 2880, 240, FALSE, 54000, <<76, 248, 228>>, "-", <<521, 3, 15>>, "-", "4:3"),
  Vic(13, 2880, 240, FALSE, 54000, <<76, 248, 228>>, "-", <<521, 3, 15>>, "-", "16:9"),
  Vic(14, 1440, 480, FALSE, 54000, <<32, 124, 120>>, "-", <<9, 6, 30>>, "-", "4:3"),
  Vic(15, 1440, 480, FALSE, 54000, <<32, 124, 120>>, "-", <<9, 6, 30>>, "-", "16:9"),
  Vic(16, 1920, 1080, FALSE, 148500, <<88, 44, 148>>, "+", <<4, 5, 36>>, "+", "16:9"),
  Vic(76, 1920, 1080, FALSE, 148500, <<88, 44, 148>>, "+", <<4, 5, 36>>, "+", "64:27")>>

Vic35 == <<
  Vic(35, 2880, 480, FALSE, 108000, <<64, 248, 240>>, "-", <<9, 6, 30>>, "-", "4:3"),
  Vic(36, 2880, 480, FALSE, 108000, <<64, 248, 240>>, "-", <<9, 6, 30>>, "-", "16:9"),
  Vic(83, 1680, 720, FALSE, 99000, <<260, 40, 220>>, "+", <<5, 5, 20>>, "+", "64:27"),
  Vic(90, 2560, 1080, FALSE, 198000, <<248, 44, 148>>, "+", <<4, 5, 11>>, "+", "64:27"),
  Vic(97, 3840, 2160, FALSE, 594000, <<176, 88, 296>>, "+", <<8, 10, 72>>, "+", "16:9"),
  Vic(107, 3840, 2160, FALSE, 594000, <<176, 88, 296>>, "+", <<8, 10, 72>>, "+", "64:27"),
  Vic(102, 4096, 2160, FALSE, 594000, <<88, 88, 128>>, "+", <<8, 10, 72>>, "+", "256:135"),
  Vic(126, 5120, 2160, FALSE, 742500, <<164, 88, 128>>, "+", <<8, 10, 72>>, "+", "64:27"),
  Vic(199, 7680, 4320, FALSE, 2376000, <<552, 176, 592>>, "+", <<16, 20, 44>>, "+", "16:9")>>

Vic207 == <<
  Vic(207, 7680, 4320, FALSE, 2376000, <<552, 176, 592>>, "+", <<16, 20, 44>>, "+", "64:27"),
  Vic(215, 10240, 4320, FALSE, 2970000, <<288, 176, 296>>, "+", <<16, 20, 144>>, "+", "64:27"),
  Vic(40, 1920, 1080, TRUE, 148500, <<528, 44, 148>>, "+", <<2, 5, 15>>, "+", "16:9"),
  Vic(41, 1280, 720, FALSE, 148500, <<440, 40, 220>>, "+", <<5, 5, 20>>, "+", "16:9"),
  Vic(70, 1280, 720, FALSE, 148500, <<440, 40, 220>>, "+", <<5, 5, 20>>, "+", "64:27"),
  Vic(42, 720, 576, FALSE, 54000, <<12, 64, 68>>, "-", <<5, 5, 39>>, "-", "4:3"),
  Vic(43, 720, 576, FALSE, 54000, <<12, 64, 68>>, "-", <<5, 5, 39>>, "-", "16:9"),
  Vic(44, 1440, 576, TRUE, 54000, <<24, 126, 138>>, "-", <<2, 3, 19>>, "-", "4:3"),
  Vic(45, 1440, 576, TRUE, 54000, <<24, 126, 138>>, "-", <<2, 3, 19>>, "-", "16:9")>>

Vic64 == <<
  Vic(64, 1920, 1080, FALSE, 297000, <<528, 44, 148>>, "+", <<4, 5, 36>>, "+", "16:9"),
  Vic(77, 1920, 1080, FALSE, 297000, <<528, 44, 148>>, "+", <<4, 5, 36>>, "+", "64:27"),
  Vic(84, 1680, 720, FALSE, 165000, <<60, 40, 220>>, "+", <<5, 5, 95>>, "+", "64:27"),
  Vic(91, 2560, 1080, FALSE, 371250, <<218, 44, 148>>, "+", <<4, 5, 161>>, "+", "64:27"),
  Vic(117, 3840, 2160, FALSE, 1188000, <<1056, 88, 296>>, "+", <<8, 10, 72>>, "+", "16:9"),
  Vic(119, 3840, 2160, FALSE, 1188000, <<1056, 88, 296>>, "+", <<8, 10, 72>>, "+", "64:27"),
  Vic(127, 5120, 2160, FALSE, 1485000, <<1096, 88, 296>>, "+", <<8, 10, 72>>, "+", "64:27"),
  Vic(200, 7680, 4320, FALSE, 4752000, <<2112, 176, 592>>, "+", <<16, 20, 144>>, "+", "16:9"),
  Vic(208, 7680, 4320, FALSE, 4752000, <<2112, 176, 592>>, "+", <<16, 20, 144>>, "+", "64:27")>>

Vic216 == <<
  Vic(216, 10240, 4320, FALSE, 5940000, <<2192, 176, 592>>, "+", <<16, 20, 144>>, "+", "64:27"),
  Vic(218, 4096, 2160, FALSE, 1188000, <<800, 88, 296>>, "+", <<8, 10, 72>>, "+", "256:135"),
  Vic(46, 1920, 1080, TRUE, 148500, <<88, 44, 148>>, "+", <<2, 5, 15>>, "+", "16:9"),
  Vic(47, 1280, 720, FALSE, 148500, <<110, 40, 220>>, "+", <<5, 5, 20>>, "+", "16:9"),
  Vic(71, 1280, 720, FALSE, 148500, <<110, 40, 220>>, "+", <<5, 5, 20>>, "+", "64:27"),
  Vic(48, 720, 480, FALSE, 54000, <<16, 62, 60>>, "-", <<9, 6, 30>>, "-", "4:3"),
  Vic(49, 720, 480, FALSE, 54000, <<16, 62, 60>>, "-", <<9, 6, 30>>, "-", "16:9"),
  Vic(50, 1440, 480, TRUE, 54000, <<38, 124, 114>>, "-", <<4, 3, 15>>, "-", "4:3"),
  Vic(51, 1440, 480, TRUE, 54000, <<38, 124, 114>>, "-", <<4, 3, 15>>, "-", "16:9")>>

Vic63 == <<
  Vic(63, 1920, 1080, FALSE, 297000, <<88, 44, 148>>, "+", <<4, 5, 36>>, "+", "16:9"),
  Vic(78, 1920, 1080, FALSE, 297000, <<88, 44, 148>>, "+", <<4, 5, 36>>, "+", "64:27"),
  Vic(85, 1680, 720, FALSE, 198000, <<60, 40, 220>>, "+", <<5, 5, 95>>, "+", "64:27"),
  Vic(92, 2560, 1080, FALSE, 495000, <<548, 44, 148>>, "+", <<4, 5, 161>>, "+", "64:27"),
  Vic(118, 3840, 2160, FALSE, 1188000, <<176, 88, 296>>, "+", <<8, 10, 72>>, "+", "16:9"),
  Vic(120, 3840, 2160, FALSE, 1188000, <<176, 88, 296>>, "+", <<8, 10, 72>>, "+", "64:27"),
  Vic(193, 5120, 2160, FALSE, 1485000, <<164, 88, 128>>, "+", <<8, 10, 72>>, "+", "64:27"),
  Vic(201, 7680, 4320, FALSE, 4752000, <<352, 176, 592>>, "+", <<16, 20, 144>>, "+", "16:9"),
  Vic(209, 7680, 4320, FALSE, 4752000, <<352, 176, 592>>, "+", <<16, 20, 144>>, "+", "64:27")>>

Vic217 == <<
  Vic(217, 10240, 4320, FALSE, 5940000, <<288, 176, 296>>, "+", <<16, 20, 144>>, "+", "64:27"),
  Vic(219, 4096, 2160, FALSE, 1188000, <<88, 88, 128>>, "+", <<8, 10, 72>>, "+", "256:135"),
  Vic(52, 720, 576, FALSE, 108000, <<12, 64, 68>>, "-", <<5, 5, 39>>, "-", "4:3"),
  Vic(53, 720, 576, FALSE, 108000, <<12, 64, 68>>, "-", <<5, 5, 39>>, "-", "16:9"),
  Vic(54, 1440, 576, TRUE, 108000, <<24, 126, 138>>, "-", <<2, 3, 19>>, "-", "4:3"),
  Vic(55, 1440, 576, TRUE, 108000, <<24, 126, 138>>, "-", <<2, 3, 19>>, "-", "16:9"),
  Vic(56, 720, 480, FALSE, 108000, <<16, 62, 60>>, "-", <<9, 6, 30>>, "-", "4:3"),
  Vic(57, 720, 480, FALSE, 108000, <<16, 62, 60>>, "-", <<9, 6, 30>>, "-", "16:9"),
  Vic(58, 1440, 480, TRUE, 108000, <<38, 124, 114>>, "-", <<4, 3, 15>>, "-", "4:3")>>

Vic59 == <<
  Vic(59, 1440, 480, TRUE, 108000, <<38, 124, 114>>, "-", <<4, 3, 15>>, "-", "16:9")>>

(* The initialisers of _di_cta_video_formats[], in their order. *)
VideoFormatRows ==
  Vic60 \o Vic72 \o Vic81 \o Vic104 \o Vic121 \o Vic204 \o
  Vic19 \o Vic27 \o Vic82 \o Vic1 \o Vic9 \o Vic35 \o
  Vic207 \o Vic64 \o Vic216 \o Vic63 \o Vic217 \o Vic59

(* _di_cta_video_formats_len.  The slots without an initialiser are zero,  *)
(* their field vic included.                                               *)
video_formats_len == 220
VideoFormats ==
  LET rows(vic) == {k \in DOMAIN VideoFormatRows : VideoFormatRows[k].vic = vic}
  IN  [vic \in 0..(video_formats_len - 1) |->
         IF rows(vic) # {} THEN VideoFormatRows[Max(rows(vic))] ELSE [vic |-> 0]]
=============================================================================
