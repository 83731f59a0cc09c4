----------------------------- MODULE MCEdidBase -----------------------------
(* Values for the run of EdidBase: the numbers of the EDID standard.       *)
EXTENDS EdidBase

RealMaxEntries == [std_ids |-> 6, color_point |-> 2, cvt_codes |-> 4]
EachEra == {2, 4, 5}
=============================================================================
