------------------------------ MODULE MCDiInfo ------------------------------
(* Values for the runs of DiInfo: blocks of eight bytes and at most four of  *)
(* them, sizes and counts that agree, disagree either way, and exceed it.    *)
EXTENDS DiInfo

FewSizes == {7, 8, 24, 25, 32, 40}
FewCounts == {0, 1, 3}
AllTags == {"cta", "displayid", "opaque", "unknown"}
Eras == {4, 5}
=============================================================================
