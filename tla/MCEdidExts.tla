----------------------------- MODULE MCEdidExts -----------------------------
(* Values for the run of EdidExts: a few blocks of eight bytes with every    *)
(* kind of extension.                                                        *)
EXTENDS EdidExts

SmallSizes == {7, 8, 23, 24, 32, 33}
SmallCounts == 0..3
AllTags == {"cta", "displayid", "opaque", "unknown"}
=============================================================================
