---------------------------- MODULE MCDisplayId ----------------------------
(* Values for the runs of DisplayIdSection: a section scaled down to at most *)
(* 19 bytes with timings of 5, 4 and 2 bytes; like the real section, too     *)
(* short for one more data block or timing than the arrays hold.             *)
EXTENDS DisplayIdSection

SmallTimingSize == [type_i |-> 5, type_ii |-> 4, type_iii |-> 2]
SmallMaxTimings == [type_i |-> 2, type_ii |-> 2, type_iii |-> 5]
SmallPayloads == {0, 2, 3, 5, 8, 10, 12, 13, 14}
SmallSectionSizes == {0, 2, 3, 8, 14, 15, 16}
SmallErrnos == {"0", "EINVAL", "ENOMEM"}
=============================================================================
