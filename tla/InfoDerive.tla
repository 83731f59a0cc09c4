----------------------------- MODULE InfoDerive ------------------------------
(***************************************************************************)
(* What info.c derives from a parsed EDID, when several extensions, blocks *)
(* or descriptors may say the same thing.  Pure operators; exts is         *)
(* edid->exts, each with the data blocks of its CTA-861 or DisplayID       *)
(* structure, [tag, value]; descriptors is the display descriptors,        *)
(* [tag, string], a string being "" or a model value.                      *)
(*                                                                         *)
(* A definition named X_Something is X with a plausible mistake in it.     *)
(***************************************************************************)
EXTENDS EdidDecode

\* The value of the first with the tag, or NULL.
FirstWithTag(blocks, tag) ==
  FirstOf([k \in DOMAIN blocks |-> blocks[k].value],
          {k \in DOMAIN blocks : blocks[k].tag = tag}, NULL)

\* Whether the extension is of the kind and has a block with the tag.
Has(ext, kind, tag) == ext.tag = kind /\ \E b \in DOMAIN ext.blocks : ext.blocks[b].tag = tag

\* Of the CTA-861 extensions, in order.
di_edid_get_cta_data_block(exts, tag) ==
  FirstOf([k \in DOMAIN exts |-> FirstWithTag(exts[k].blocks, tag)],
          {k \in DOMAIN exts : Has(exts[k], "cta", tag)}, NULL)

\* An EDID that says nothing supports only traditional gamma (EOTF 0).
derive_edid_hdr_static_metadata(exts) ==
  LET found == di_edid_get_cta_data_block(exts, "hdr_static_metadata")
  IN  IF found = NULL THEN [eotfs |-> {0}, type1 |-> FALSE, max |-> 0, min |-> 0] ELSE found

derive_edid_supported_signal_colorimetry(exts) ==
  LET found == di_edid_get_cta_data_block(exts, "colorimetry")
  IN  IF found = NULL THEN {} ELSE found.supported

sRGB == <<"sRGB">>
\* The primaries all or none; the flag outranks the coordinates.
derive_edid_color_primaries(srgb_is_primary, coords) ==
  [primary |-> IF srgb_is_primary THEN sRGB
               ELSE IF \A k \in 1..6 : coords[k] > 0 THEN SubSeq(coords, 1, 6) ELSE <<>>,
   default_white |-> IF srgb_is_primary THEN sRGB
                     ELSE IF coords[7] > 0 /\ coords[8] > 0 THEN SubSeq(coords, 7, 8) ELSE <<>>]

(* The first DisplayID extension decides, if it has display parameters at  *)
(* all; then the sRGB flag, then byte 0x17.  In 1/100.                     *)
di_info_get_default_gamma_AnyExt(exts, srgb_is_primary, basic_gamma) ==
  LET params == FirstOf([k \in DOMAIN exts |-> FirstWithTag(exts[k].blocks, "display_params")],
                        {k \in DOMAIN exts : Has(exts[k], "displayid", "display_params")}, NULL)
  IN  IF params # NULL THEN params.gamma
      ELSE IF srgb_is_primary THEN 220 ELSE basic_gamma
di_info_get_default_gamma(exts, srgb_is_primary, basic_gamma) ==
  LET params == FirstOf([k \in DOMAIN exts |-> FirstWithTag(exts[k].blocks, "display_params")],
                        {k \in DOMAIN exts : exts[k].tag = "displayid"}, NULL)
  IN  IF params # NULL THEN params.gamma
      ELSE IF srgb_is_primary THEN 220 ELSE basic_gamma

\* The first descriptor of the tag with a string that is not empty, or "".
FirstString(descriptors, tag) ==
  FirstOf([k \in DOMAIN descriptors |-> descriptors[k].string],
          {k \in DOMAIN descriptors : descriptors[k].tag = tag /\ descriptors[k].string # ""}, "")

di_info_get_model(descriptors, product) ==
  LET name == FirstString(descriptors, "product_name")
  IN  IF name # "" THEN <<"name", name>> ELSE <<"code", product>>

di_info_get_serial(descriptors, serial) ==
  LET string == FirstString(descriptors, "product_serial")
  IN  IF string # "" THEN <<"string", string>>
      ELSE IF serial # 0 THEN <<"number", serial>> ELSE <<>>
=============================================================================
