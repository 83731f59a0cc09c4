----------------------------- MODULE MCDecoders ------------------------------
(* Inputs for the runs of Decoders.  A block of bytes is varied from a base  *)
(* by one or two bytes at a time, with the values at which a field or a      *)
(* check changes; codes of one, two or three bytes are all of those that a   *)
(* table knows, and the edges of the ranges the code distinguishes.          *)
EXTENDS Decoders

EachRevision == {1, 2, 3, 4, 5}
Eras == {2, 3, 4, 5}
OnlyRevision == {3}

Plain(set) == [context : {FALSE}, data : set]
With(contexts, set) == [context : contexts, data : set]

One(base, values) == {[base EXCEPT ![k] = v] : k \in DOMAIN base, v \in values}
Two(base, values) ==
  UNION {{[base EXCEPT ![j] = v, ![k] = w] : v \in values, w \in values} :
           j \in DOMAIN base, k \in DOMAIN base}
Zeros(first, last) == [k \in first..last |-> 0]
Bit == {2^k : k \in 0..7}
Edges == {1, 127, 128, 255}
Some == 0..16 \cup Bit \cup Edges

Vendor == Plain([16..17 -> {0, 1, 15, 16, 54, 55, 254, 255}])
Basic == Plain({(20 :> video) @@ (21 :> width) @@ (22 :> height) @@ (23 :> gamma) @@ (24 :> features) :
                  video \in {0, 31, 127, 128, 129, 191, 246}, width \in {0, 60}, height \in {0, 1},
                  gamma \in {120, 255}, features \in {0, 1, 2, 3, 4, 31, 231, 255}})
Chroma == Plain(One(Zeros(25, 34), {1, 192, 255}) \cup One([k \in 25..34 |-> 255], {0}))
Established == Plain(One(Zeros(35, 37), Bit))
Dtd == Plain(One(Zeros(0, 17), Some) \cup Two(Zeros(0, 17), Edges)
             \cup {[Zeros(0, 17) EXCEPT ![12] = 16, ![13] = 9]})

(* A monitor of 50 to 75 Hz and 30 to 80 kHz; its rates and flags vary, and  *)
(* the rest by what each class looks at.                                     *)
Monitor == [k \in 4..17 |-> CASE k = 5 -> 50 [] k = 6 -> 75 [] k = 7 -> 30 [] k = 8 -> 80
                              [] k = 9 -> 17 [] k = 10 -> 0 [] k = 11 -> 10 [] k = 4 -> 0 [] OTHER -> 32]
Features == [default_gtf : BOOLEAN, continuous_freq : BOOLEAN]
Rates == {[Monitor EXCEPT ![4] = flags, ![5] = low, ![6] = high, ![10] = 1] :
            flags \in 0..16, low \in {0, 1, 50, 254, 255}, high \in {0, 1, 50, 255}}
Classes == {[Monitor EXCEPT ![10] = class, ![k] = v] :
              class \in {0, 1, 2, 3, 4, 255}, k \in 7..17 \ {10}, v \in {0, 10, 32, 64, 255}}
RangeInputs == With(Features, Rates \cup Classes)

StdIds == {row.edid_std_id : row \in Range(DmtTimings)}
Standard == Plain({<<id \div 256, id % 256>> : id \in StdIds}
                  \cup {0, 1, 49, 255} \X (0..255))
ColorPoints == Plain(One(Zeros(5, 17), Edges))
ColorManagement == Plain(One(Zeros(5, 17), {1, 3, 255}))
EstablishedThree == Plain(Two(Zeros(6, 17), Bit))

CvtIds == {row.cvt_id : row \in Range(DmtTimings)}
Cvt3 == With(BOOLEAN, {<<id \div 65536, (id \div 256) % 256, id % 256>> : id \in CvtIds}
                      \cup {<<0, 0, 0>>} \cup ({127} \X {17, 40} \X (0..255)))

Svds == {0, 1, 16, 128, 129, 193, 254}
VideoInputs == Plain([blocks : {<<>>} \cup {<<b>> : b \in UNION {[1..n -> Svds] : n \in 0..2}}
                                \cup {<<<<a>>, <<b, c>>>> : a \in Svds, b \in Svds, c \in {16, 254}},
                      map : {<<>>, <<0>>, <<1>>, <<2>>, <<6>>, <<255>>}])
Vics == Plain(0..255)

Sads == Plain({<<8 * code + channels, rates, last>> :
                 code \in 0..15, channels \in {0, 6, 7, 129}, rates \in {0, 31, 127, 128},
                 last \in {1} \cup {8 * e + 5 : e \in {0, 3, 4, 6, 9, 10, 11, 12, 13, 31}}})
Dddb30 == Plain(One(Zeros(1, 30), Some)
                \cup {[Zeros(1, 30) EXCEPT ![1] = 16 * type + n] : type \in 0..15, n \in {0, 1, 2, 3, 4}}
                \cup {Zeros(1, 29)})
Speakers == Plain(One(Zeros(1, 3), Bit))
VideoCaps == With(BOOLEAN, 0..255)
HdrStatic == Plain(UNION {[1..n -> {0, 1, 16, 255}] : n \in 1..5})

Speakers2 == Speakers \cup Plain({<<>>, <<255, 255>>})

(* Payloads that are lists: the entries of every type, their lengths right   *)
(* and wrong, one behind the other, and a rest.                              *)
Strings(bytes, n) == UNION {[1..k -> bytes] : k \in 0..n}
Colorimetries == Plain(Strings({0, 1, 32, 64, 128, 255}, 2))
HdrEntries == {<<2, type, 0>> : type \in {1, 3, 9}}
              \cup {<<3, type, 0, flags>> : type \in 1..4, flags \in {1, 2, 16, 128}}
              \cup {<<3, 0, 1, 5>>, <<4, 1, 0, 1, 0>>, <<1, 2, 0>>}
HdrDynamics == Plain({e \o f \o rest : e \in HdrEntries, f \in {<<>>} \cup HdrEntries,
                                        rest \in {<<>>, <<0>>, <<9, 9>>, <<9, 1, 0>>}}
                     \cup Strings({3}, 2))
Transfers == Plain(UNION {One([k \in 1..n |-> 0], Edges) : n \in {1, 7, 8, 15, 31}})
Audio3d == {<<code, 31, rates, 7>> : code \in {0, 1, 9, 15, 17}, rates \in {255}}
           \cup {<<64, 0, 8, 16>>, <<2, 0, 0, 240>>}
HdmiAudios == Plain({<<>>} \cup {<<flags, n>> \o rest :
                 flags \in {0, 4, 5}, n \in {0, 1, 2, 7},
                 rest \in {<<>>, <<1, 2, 3>>} \cup {FlattenSeq(descs) : descs \in Strings(Audio3d, 3)}})
InfoFrameInputs ==
  Plain({<<header, 0>> \o rest : header \in {0, 1, 32}, rest \in Strings({1, 2, 8, 34, 224}, 4)}
        \cup {<<0, 255, 1, 0, 0, 0>> \o rest : rest \in Strings({0, 7, 33, 34}, 2)} \cup Strings({32}, 1))
Rooms == Plain({[k \in 1..n |-> CASE k = 1 -> flags [] k = at -> v [] OTHER -> 0] :
                  n \in {3, 4, 6, 7, 9, 10}, flags \in {0, 1, 32, 64, 95, 128},
                  at \in 2..10, v \in {0, 8, 64, 127, 128, 255}})
Locations == Plain(Strings({0, 64, 160, 33}, 6))

Clear(n) == [k \in 1..n |-> 0]
Timings20 == One(Clear(20), Some) \cup Two(Clear(20), Edges)
TypeI == Plain(Timings20)
TypeVii == Plain({<<header>> \o [k \in 1..20 |-> IF k = 3 THEN 7 ELSE 0] : header \in 0..255}
                 \cup {<<2>> \o t : t \in One(Clear(20), Edges)} \cup {Clear(20)})
TypeIi == Plain(One(Clear(11), Some))
TypeIii == Plain({<<options, width, rate>> :
                    options \in 0..255, width \in {39, 239}, rate \in {59, 187}})
Params == With({14, 15}, One(Zeros(0, 14), Edges))
Tiled == With({24, 25}, One(Zeros(0, 24), Some)
                        \cup {[Zeros(0, 24) EXCEPT ![3] = 64, ![11] = m, ![13] = b] : m \in 0..1, b \in 0..1})

(* Up to three extensions of one or two blocks; two names for everything.    *)
Hdr(n) == [tag |-> "hdr_static_metadata", value |-> [eotfs |-> {2}, type1 |-> TRUE, max |-> n, min |-> 0]]
Colorimetry(n) == [tag |-> "colorimetry", value |-> [supported |-> {<<1, n>>}]]
DisplayParams(n) == [tag |-> "display_params", value |-> [gamma |-> n]]
CtaExts == {[tag |-> "cta", blocks |-> b] :
              b \in {<<>>, <<Colorimetry(1)>>, <<Hdr(1), Hdr(2)>>, <<Colorimetry(2), Hdr(3)>>}}
DidExts == {[tag |-> "displayid", blocks |-> b] :
              b \in {<<>>, <<DisplayParams(220), DisplayParams(0)>>, <<DisplayParams(180)>>}}
SomeExts == UNION {[1..n -> CtaExts \cup DidExts \cup {[tag |-> "opaque", blocks |-> <<>>]}] : n \in 0..3}
Name(tag, s) == [tag |-> tag, string |-> s]
Asked == [exts |-> <<>>, srgb |-> FALSE, gamma |-> 120, coords |-> <<1, 1, 1, 1, 1, 1, 1, 1>>,
          descriptors |-> <<>>, product |-> 7, serial |-> 0]
Names == {Name("product_name", ""), Name("product_name", "a"), Name("product_serial", "b"),
          Name("product_serial", "")}
Info == Plain({[Asked EXCEPT !.exts = e] : e \in SomeExts}
              \cup {[Asked EXCEPT !.srgb = s, !.coords[k] = 0] : s \in BOOLEAN, k \in 1..8}
              \cup {[Asked EXCEPT !.descriptors = d, !.serial = n] :
                      d \in UNION {[1..n -> Names] : n \in 0..3}, n \in {0, 9}})

AllInputs == [vendor |-> Vendor, basic |-> Basic, chroma |-> Chroma, established |-> Established,
  dtd |-> Dtd, range |-> RangeInputs, standard |-> Standard, color_point |-> ColorPoints,
  color_management |-> ColorManagement, established_iii |-> EstablishedThree, cvt |-> Cvt3,
  video |-> VideoInputs, vic |-> Vics, svr |-> Vics, sad |-> Sads,
  dddb |-> Dddb30, speaker |-> Speakers2, video_cap |-> VideoCaps, hdr_static |-> HdrStatic,
  colorimetry |-> Colorimetries, hdr_dynamic |-> HdrDynamics, transfer |-> Transfers,
  hdmi_audio |-> HdmiAudios, infoframe |-> InfoFrameInputs, room |-> Rooms, location |-> Locations,
  type_i |-> TypeI, type_vii |-> TypeVii, type_ii |-> TypeIi, type_iii |-> TypeIii,
  params |-> Params, tiled |-> Tiled, info |-> Info]
VicInputs == [vic |-> Vics]
StandardInputs == [standard |-> Standard]
SadInputs == [sad |-> Sads]
=============================================================================
