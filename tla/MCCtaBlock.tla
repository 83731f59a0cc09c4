----------------------------- MODULE MCCtaBlock -----------------------------
(* Values for the runs of CtaBlock: blocks scaled down to 19 bytes with      *)
(* timings of six.                                                           *)
EXTENDS CtaTermination

ShortPayloads == {0, 2, 3, 7, 11}
ShortDtdStarts == {0, 3, 4, 12, 17, 19}
ShortRevisions == {1, 4}
ShortErrnos == {"0", "EINVAL"}
=============================================================================
