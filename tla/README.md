# A TLA+ model of libdisplay-info

libdisplay-info decodes EDID and DisplayID blobs: bytes a display sends to describe itself.
The library is sequential C without threads or I/O of its own; what is hard in it is
different. Its input is arbitrary, every length in it can lie, every `calloc` can fail, a
failure deep inside one block must not lose or corrupt what other blocks said, and three
channels carry the outcome at once: the return value, `errno`, and a failure report. Below
that control flow lie some hundred small decoders that pack and unpack bit fields, index
generated tables and redo the arithmetic of two timing standards.

The modules here model both: the control flow as state machines, which TLC explores for
every choice of bytes and every failed allocation on small instances and about which TLAPS
proves the main results for all sizes; the decoders as operators, which TLC checks against
independent definitions on the bytes where a field or a check changes, and about which TLAPS
proves the same for every input of the form their callers pass. Every invariant and every
refinement that TLC checks below is also a theorem; only that the parsers return is not.

## The system

| Part | Source | State | Operations | Makes it correct |
|---|---|---|---|---|
| EDID parser | `edid.c` | `struct di_edid`: timings, descriptors, `exts[]` and their lengths; the logger | `_di_edid_parse`, `parse_ext`, `_di_edid_destroy` | reads stay in the input; every extension is looked at once, in order; a NULL result frees everything and sets `errno` |
| Base section | `edid.c` | `standard_timings[]`, `detailed_timing_defs[]`, `display_descriptors[]` | `parse_byte_descriptor` and the descriptor decoders | descriptor order; fixed arrays; entries freed with their descriptor; fields decoded without loss |
| CTA-861 block | `cta.c` | `struct di_edid_cta`: `data_blocks[]`, `detailed_timing_defs[]`, flags | `_di_edid_cta_parse`, `parse_data_block`, the block parsers, `_di_edid_cta_finish` | both loops end and stay in the block; arrays never overflow; no double free, no leak; what is dropped is reported |
| DisplayID section | `displayid.c` | `struct di_displayid`: `data_blocks[]` | `_di_displayid_parse`, `parse_data_block`, timing parsers, `_di_displayid_finish` | as for CTA; filler is what remains of the section |
| High-level API | `info.c` | `struct di_info`: the EDID, the failure message, derived values | `di_info_parse_edid`, getters, `di_info_destroy` | a message exactly when something was reported; the first matching block answers |
| Failure logger | `log.c` | `initialized` per section, one stream | `_di_logger_va_add_failure` | one header per section, before its first failure |
| Memory stream | `memory-stream.c` | the stream and its string | open, close, cleanup | the string is freed once |
| CVT, GTF | `cvt.c`, `gtf.c` | none | `di_cvt_compute`, `di_gtf_compute` | the timing named is the timing computed |
| Tables | `cta-vic-table.c`, `dmt-table.c` | constant | lookups | bounds of the lookups; rows that agree with the formulas |
| Bit fields | `include/bits.h` | none | `has_bit`, `get_bit_range` | |
| di-edid-decode | `di-edid-decode/*.c` | a 32 KiB input buffer | `main` and printers | block numbering; the exit status; no printer aborts on a value the library gives |
| Tests, generators | `test/`, `tool/` | | | not modelled |

They interact by nested calls on one thread. `main` of di-edid-decode reads the input and
calls `di_info_parse_edid`, which opens a memory stream and calls `_di_edid_parse`; that one
parses the base section and then calls `parse_ext` once per extension block; `parse_ext`
allocates an extension, calls the CTA or DisplayID parser with a logger that lives on its
stack, and from the return value *and `errno`* decides whether to keep the extension, to
drop it and carry on, or to give the EDID up. A CTA block may hold a DisplayID timing, and
both reuse the detailed timing decoder of `edid.c`. All loggers write to the one stream;
`memory_stream_close` turns it into the failure message, and whether there is one decides
the exit status of `main`.

Behaviour that is hard to test here:

* every allocation may fail, at any depth (partial failure). Three parsers swallow such a
  failure, three leak the entries they had, one error label runs before the tag it depends
  on is set;
* `errno` is the only channel between a nested parser and `parse_ext`, and not every
  rejection sets it, so the verdict can depend on what an earlier block, or the caller, left
  there;
* lengths that disagree: byte 2 of a CTA block against its data block headers, a payload
  against its own entries, the blob size against byte 0x7E;
* fixed arrays without a count in the input, sized so that they are only just large enough,
  and walked by readers up to a NULL;
* three numberings of the same blocks: by position, by kept extension, by printed extension;
  and two of the same video descriptors, once some are dropped;
* fields split over bytes, offsets and flags that change a field's meaning, and tables with
  hundreds of rows nobody reads.

Nothing is persisted, nothing runs concurrently, no messages are exchanged: there are no
such hazards to list. The hazards, each with its line and its properties, are in
`PROJECT.json`.

## Modules

| Module | Models |
|---|---|
| `CtaBlock` | `_di_edid_cta_parse`, the control flow of the data block parsers, `_di_edid_cta_finish` |
| `CtaTermination` | `CtaBlock` with a clock: that its loops end |
| `DisplayIdSection` | `_di_displayid_parse`, the control flow of the data block parsers, `_di_displayid_finish` |
| `EdidBase` | the loops over standard timings and byte descriptors of `_di_edid_parse`, with what they allocate and report |
| `EdidExts` | `_di_edid_parse` (base section as one step), `parse_ext`, `_di_edid_destroy` |
| `DiInfo` | `EdidExts` inside `di_info_parse_edid`, the loggers, the memory stream, and `main` |
| `TlvWalk` | abstract: what a walk over tag-length-value elements promises |
| `ExtParser` | abstract: what a caller may rely on when a nested parser returns |
| `Bits` | `has_bit`, `get_bit_range` |
| `EdidDecode` | the decoders of the base section and their printers |
| `CtaDecode`, `CtaPayloads` | the decoders of CTA data blocks of fixed layout, and of those that are lists or bitmaps of many flags, and their printers |
| `DisplayIdDecode` | the decoders of DisplayID data blocks and their printers |
| `Lists` | the loops that walk an array and append what they keep, or stop at the first hit |
| `Timings` | standard timings, established timings III, CVT codes; the formulas of CVT and GTF |
| `DmtTable`, `VicTable` | the two generated tables and their lookups |
| `InfoDerive` | the answers of `info.c` |
| `Decoders` | all of these at work: bytes, decoder, printer |
| `CtaBlockProofs`, `DisplayIdProofs`, `EdidBaseProofs`, `EdidExtsProofs`, `DiInfoProofs` | the theorems about the five state machines |
| `DecodersProofs`, `TablesProofs` | the theorems about `Decoders`: decoders and printers; tables and formulas |
| `ListsProofs` | lemmas about `Lists` and about functions defined by recursion |
| `MC...` | values of the constants for TLC |

How they fit together: `DiInfo` extends `EdidExts` and its specification implements that of
`EdidExts`. In `EdidExts` the base section and the nested parsers appear only as what
`ExtParser` allows of them; `EdidBase`, `CtaBlock` and `DisplayIdSection` implement
`ExtParser`. `CtaBlock` and `DisplayIdSection` also implement `TlvWalk`. `Decoders` has what
those three leave out: the values. A definition `X_Something` is `X` with a plausible
mistake; such definitions are part of no specification.

### CtaBlock

A step is one iteration of the data block loop or of the timing loop (or the header, or the
padding scan). A data block header is 3 bits of tag and 5 of length: the tag is the choice
of an action, the length is `\E len \in Payloads`, and the payload bytes are further `\E`s
over what the parser's control flow can tell apart. What a block decodes to is not kept,
only how many entries it allocates.

| Variable | Code |
|---|---|
| `hdr` | bytes 1, 2 and 3 of the block: `cta->revision`, `dtd_start`, `flags != 0` |
| `pc` | where `_di_edid_cta_parse` is; `done` is `return true`, `failed` is `return false` |
| `i` | the local `i` of both loops and of the padding scan |
| `elem` | the bytes the last call of `parse_data_block` was given, header included |
| `data_blocks_len`, `dtds_len` | `cta->data_blocks_len`, `cta->detailed_timing_defs_len` |
| `children` | entries reachable from the kept blocks that `destroy_data_block` frees |
| `live`, `errno` | allocations not freed yet; `errno` |
| `reported` | `add_failure` has been called on this block |
| `oom`, `torn`, `timings` | history: a calloc failed; a list of entries was given up half-way; slots whose first two bytes are not both zero |

`Element(len)` is what every iteration that calls `parse_data_block` shares, and `Kept`,
`Skipped`, `Rejected` are the three ways that function ends: the append, the label `skip`
and the label `error` (after which the caller finishes the block). Each block parser is one
action (`VideoBlock`, `AudioBlock`, `InfoFrameBlock`, ...); each has as disjuncts its
successful end, its early returns and its failed allocations. `Freed` is
`destroy_data_block`: with an unset tag it frees no entries.

### DisplayIdSection

As `CtaBlock`: a step is the header, one iteration of the loop, or the filler check. `hdr`
is what the header checks read (version, byte 1, whether the checksum and the product type
are right), `End` the offset of the checksum. `Keep`, `Skip` and `Fail` are the three ways
`parse_data_block` ends; unlike in `cta.c`, the caller does not finish a section that
failed, so `Owned` is 0 from then on and `live` keeps what is lost. `OverlongBlock` moves
the cursor past the checksum, after which only `NoFiller` is possible. `last` is the tag and
number of timings of the block kept last, which is what the array bounds are about.

The bytes are chosen as the loop comes to them, but for one fact that is chosen at the start:
`zeros`, the offset from where on all bytes before the checksum are zero. `NonZero(at, size)`
is the set of answers that `!is_all_zeroes(&data[at], size)` can give, as far as `zeros`
decides it. The loop ends at a header for which it may be false (`Filler`), an iteration needs
one for which it may be true, and `CheckFiller(size)` is the check behind the loop.
`max_data_block_size` is a variable because that check reads it: `Filler` has refreshed it,
`NoFiller` has not, and from a cursor at or behind the checksum `NonZero` may give either
answer.

### EdidBase

A step is one standard timing, one of the four byte descriptors, or the end of a loop.

| Variable | Code |
|---|---|
| `revision` | byte 0x13 |
| `pc`, `i` | the loop and its index; `exts` is where the extension loop begins, `null` is `return NULL` |
| `standard_timings_len`, `detailed_timing_defs_len`, `display_descriptors_len` | the fields of those names |
| `children` | entries of kept descriptors that `destroy_display_descriptor` frees |
| `reports` | the rules `add_failure` was called for: unknown and reserved contents, the order of descriptors, the first descriptor |
| `live`, `errno` | allocations not freed yet; `errno` |
| `seen`, `oom` | history: what became of each descriptor (`dtd`, `kept`, `dropped`); which calloc failed |

`Keep` and `Drop` are the two ways a display descriptor ends, `GiveUp` is a failed calloc
and `_di_edid_destroy`. The three kinds of descriptors that are lists choose how many
entries they allocate; `ListAllocFails` is the calloc that fails after some of them, which
the descriptor's own `free` does not undo.

### EdidExts

The base section is one step that keeps some allocations or fails for lack of memory. After
it, one step is one call of `parse_ext`. The nested parsers appear as what `ExtParser`
allows of them: they keep some allocations, may leave others behind, and on `return false`
set `errno` to one of the values they assign, or not at all. `blob.size` and `blob.count`
(byte 0x7E) are independent. `exts` keeps, for each entry of `edid->exts[]`, the block it
came from; `owned` is what `_di_edid_destroy` frees, `lost` what nested parsers left behind.

### DiInfo

`stage` is where the client is: reading the input, `di_info_parse_edid` before, in and after
the parser, printing, destroying. `heap` is the stream's `FILE`, its buffer and `struct
di_info`. `log` is the contents of the stream as a sequence of headers and failures, each
with the block it is about, so that the order of sections is visible; `AddFailures` is
`_di_logger_va_add_failure`, `initialized` the field of the logger that outlives a block.
While the stage is `parse`, the steps are those of `EdidExts` with what they add to the log;
a nested parser adds any number of `Failures`. `SizeFailures` are the three messages about
the size of the blob. A client is `main`, which has an `exit` status and a `RawSize` limit
on its input, or another user of the library.

### Decoders

The decoders are pure operators of bytes. Each returns what the code keeps and the names of
the failures it adds, or drops the input with its failures (`Kept` and `Dropped` of
`EdidDecode`). The printers return the set of lines they choose, or `Abort` where the code
calls `abort()`. Units are those of the code scaled to integers (hundredths of a Hz, kHz),
and strings are model values.

The state machine of `Decoders` picks an input of some `kind` with its `context` (what the
decoder needs beside its bytes), runs the decoder (`Decode...`) and, if the result was kept,
the printer (`Print...`). `pc` says what became of the input: `kept`, `dropped`, `printed`,
`aborted`. What an input is, of each kind, is said by `DataForm` and `ContextForm`: bytes at
the indices that the caller has checked to be there, a payload of at most 31 bytes (its length
has five bits), a capability map of at most 30 (one byte of the payload is the extended tag).
The assumption `InputForms` is that the inputs are of that form; the decoders rely on it and
nothing else.

`EdidDecode` has vendor, basic parameters, chromaticity, established timings, detailed
timings, range limits, standard timings, color points, color management; `CtaDecode` SVDs,
SVRs, SADs, the YCbCr 4:2:0 capability map, VESA DDDB, speaker allocation, video capability,
HDR static metadata; `CtaPayloads` colorimetry, HDR dynamic metadata, VESA transfer
characteristics, HDMI audio, InfoFrames, room configuration, speaker locations. Those that
are lists share `Starts`, the offsets at which their entries start, and `LeftOver`, what is
behind the last. `DisplayIdDecode` has display parameters, tiled topology and the timings of
types I, II, III and VII. `InfoDerive` has the questions a client of `info.c` can ask when
several extensions, blocks or descriptors answer them.

`Timings` computes with exact rationals where `cvt.c` and `gtf.c` compute with doubles, and
rounds where they round. Of the 65,280 standard-timing codes two come out differently in
GTF, of 81,920 CVT codes 49, of about a million type III codes five: the quotient is a whole
number there and the double is just below it.

### The two abstract specifications

`TlvWalk` hands out consecutive elements of at least `HeaderLen` bytes below an end and may
stop at any time. `ExtParser` says that memory owned is memory live, that a parser that
returned false owns nothing, and that `errno` is one of the documented values, `ENOMEM` as
soon as a `calloc` has failed, or unchanged. `CtaBlock` and `DisplayIdSection` implement
both (`IsTlvWalk`, `KeepsContract`), `EdidBase` the second with no rejections of its own:
all checked by TLC and proved. `EdidExts` builds on the second.

## Runs

| Run | Question | Distinct states |
|---|---|---|
| `cta_block` | Whatever a CTA block holds and whichever calloc fails: does the parser end, stay in the block and in its arrays, own only live memory, leave none behind, and explain what it drops? | 290,203 |
| `displayid` | Whatever a DisplayID section holds and whichever calloc fails: are the data blocks consecutive and before the checksum, do they fit the arrays, is what is dropped freed and what is kept owned until the section is rejected, does `parse_ext` get the `errno` it relies on, and is what the blocks leave over reported exactly when it is not zero? | 91,188 |
| `edid_base` | Whatever the standard timings and descriptors are and whichever calloc fails: can everything allocated be reached or was it freed, and are the two rules on the order of descriptors reported exactly when they should be? | 459,024 |
| `di_info` | With every mix of extensions, verdicts, `errno` values and failing system calls: is every block looked at once, in order and in bounds, do message and output call it by the same number, is all memory released, does the exit status tell conformity? | 317,104 |
| `decoders` | Do bytes, decoded values, printed lines, the tables and the formulas agree? | 455,070 |
| `cta_lost_timing`, `edid_errno`, `displayid_filler`, `vic_unknown`, `vic_porch`, `dmt_border`, `audio_bits` | Seven statements of the repository the code does not meet; each run finds a counterexample. | |

### What the properties say

In `cta_block` or `displayid` (`OwnedIsLive`, `DtdIndexIsSlot`, `NoSilentGap`,
`RejectionExplained` and `Terminates` are about CTA blocks only, `TailReportedIff` about
sections only):

* `CapacityHolds`: an append never writes past its array.
* `OwnedIsLive`: what finishing the block frees is still allocated.
* `HeapClean`: in CTA, without a failed calloc and a list given up half-way, memory is owned
  or freed; in DisplayID it is, until the section is rejected.
* `DtdIndexIsSlot`: the k-th timing is the k-th slot.
* `NoSilentGap`: data blocks that do not reach `dtd_start` are reported.
* `RejectionExplained`: a rejected block shows in `errno` or in the report.
* `TailReportedIff`: when the data blocks do not reach the checksum, what is behind the last
  one is reported, as filler or as a block that is too long, if and only if a byte of it is
  not zero.
* `Terminates`: the parser returns.
* `IsTlvWalk`, `KeepsContract`: the refinements.

In `edid_base`:

* `HeapClean` as above.
* `PreferredReportedIff`: in revisions 3 and 4 the first descriptor is reported if and only
  if it is not a timing, whatever follows and whatever is dropped.
* `OrderReported`: a timing after a display descriptor that was kept is reported.
* `KeepsContract`: NULL means `ENOMEM`.

In `di_info`:

* `BlocksInOrder`: kept and skipped blocks together are each block once, in order.
* `ExtsInBounds`: `parse_ext` reads within the input, and `exts[]` keeps its NULL.
* `HeapExact`: on every path what is live is what is owned and what nested parsers lost.
* `OomIsFinal`: a failed calloc in a nested parser fails the EDID.
* `HeadersOnce`: each section has one header, before its lines, and those of an extension
  follow it directly.
* `SectionsAgree`: a header of the message and the printed EDID give an extension the same
  number.
* `ExitTellsConformity`: 0 only if nothing was reported, 254 only if something was, 1 when
  no EDID came out.
* `NothingLeft`: everything is released, whatever failed.

In `decoders`:

* `DropIsReported`: what is left out of the result, be it a block, a code, or an entry of a
  list, is reported, in the revisions the parser knows; for lists, the payload is cut into
  entries by a second definition (`IsCut`) that looks only at their stated sizes.
* `RangeLimitsOrdered`: range limits are ranges and none is zero.
* `TimingLossless`: a detailed timing and a type I or VII timing can be written back to the
  bytes they came from.
* `NamedTimingsAgree`: a standard timing, an established timing III bit and a CVT code that
  the DMT table lists come out as that row, CVT's formula included, and a GTF timing
  refreshes at the rate that was named.
* `PreferredMarkedOnce`: one line of a CVT code is marked preferred.
* `CapMapNames`: the capability map names the SVDs its bits stand for, across blocks.
* `VicLookupExact`: a VIC finds its own row, and only known ones do.
* `FirstExtensionWins`: a later extension never changes an answer an earlier one gave.
* `PrintersTotal`: no printer aborts on a value a decoder keeps, except for the reserved
  stereo value below.

### Bounds

`cta_block`: blocks of 19 bytes, timings of 6, so two of them; `data_blocks[]` of 14, which
is again one for each byte between header and checksum. Payloads of 0, 2, 3, 7 and 11 bytes,
byte 2 of 0, 3, 4, 12, 17 and 19, revisions 1 and 4, two initial values of `errno`. A block
has up to 13 one-byte data blocks, or one of 12 bytes next to others, or two timings and
padding: enough for any two parsers to follow each other, for a failure after blocks were
kept, for an overlap, and for both arrays to be used. Revision 1 and 4 lie on each side of
every comparison (`>= 2`, `> 3`). 12 and 17 are ordinary offsets, 0, 3 and 19 the three that
leave early, 4 the one without data blocks. A VESA DDDB (30) and a DisplayID VII timing (21)
do not fit and are only ever rejected here; being kept is a step like that of any other
decoded block, and the proofs cover it. They also cover a payload of one byte, which can be
an extended tag with nothing behind it: here that is left out for the number of states.

`displayid`: 19 bytes given, data blocks of at least three, timings of 5, 4 and 2 bytes with
arrays of 2, 2 and 5, four data blocks: as in the real section the arrays can be filled, and
one more entry in any of them would not fit. A payload of 2 is a display parameters block, 3
a tiled topology block, 8 and 10 fill the arrays of timings, 12, 13 and 14 never fit, and
the section sizes reach what the caller gives (14) and up to two bytes above. The nonzero
bytes may end anywhere in the section: before, in and behind each header.

`edid_base`: the real numbers, eight standard timings, four descriptors, lists of six, two
and four entries; revisions 2, 4 and 5 lie on each side of both comparisons (`3..4`, `<=
4`).

`di_info`: blocks of 8 bytes, at most four of them (three extensions suffice for a kept, a
skipped and a fatal one in any order), sizes 7, 25 and 40 below a block, off a multiple and
too many; byte 0x7E agrees or disagrees either way; 32 bytes are also what `main` refuses,
as 32,768 is for real blocks. A section may report nothing or two failures, a nested parser
may lose an allocation.

`decoders`: revisions 2 to 5. For fixed layouts, each byte, or each pair of bytes, goes over
0, the powers of two and the values where a field or a check changes, the others staying at
a base value. Codes of one byte take all 256 values, codes of two or three those of the DMT
table and whole ranges of their last byte. Lists are built from entries of every type with
right and wrong lengths, up to three behind each other, and a rest. The tables are complete.
A fault that needs three bytes of a block at once, none of them at such a value, would be
missed by TLC, as would one that needs a list longer than those; the theorems about
`Decoders` leave no such gap, as they are about every input of the form above.

CHECK_DEADLOCK is FALSE everywhere: a parser that has returned takes no further step.

Fairness. `Terminates` is about `CtaTermination`, where every step also flips the bit `odd`,
and assumes `WF_ticking(Tick)`, nothing more: one function runs on one thread and nothing can
block it. The clock is there because an iteration that changes no variable would otherwise be
a stutter, and fairness would be held to make the parser do something else; with it, a parser
that comes back to the same data block for ever is a behaviour, and a counterexample. (A data
block without payload that advances by its payload is one.) No fairness is put on a
particular outcome. The other machines have no such property: they count up a bounded index,
or, in `displayid`, move a cursor by at least a header in every iteration that goes on, which
is part of `IsTlvWalk`.

### Where the code and the repository's statements differ

Found by the runs:

* `EveryTimingKept`: the timing loop of a CTA block stops at a slot whose first byte is zero
  (`cta.c:1901`); a detailed timing with a pixel clock that is a multiple of 2.56 MHz is
  dropped, where `edid.c:1035` keeps it.
* `NullSetsErrno`: a Speaker Allocation, VESA transfer or DisplayID display parameters block
  of the wrong length makes its parser return false without setting `errno`, and `parse_ext`
  decides by `errno` (`edid.c:1156`): the EDID is refused with "Success", or the block is
  skipped, depending on what `errno` was.
* `FillerReportIsTrue`: `max_data_block_size` is stale after a loop that ended by its
  condition (`displayid.c:689`), so a conforming section without filler is reported for its
  checksum.
* `VicUnknownIsNull`: the lookup compares with `>` (`cta.c:34`), so VIC 220 reads the slot
  behind the table.
* `VicRates`: eight rows of the VIC table have a footnote mark as a digit of a front porch
  (`cta-vic-table.c:1440`).
* `PrintedRateIsNamed`: the printer of standard timings takes borders off a blanking that
  does not include them (`di-edid-decode/edid.c:47`): 31h 4Ch, the 72 Hz mode DMT 05h, is
  printed with 80.68 Hz, 31h 40h, DMT 04h, with 66.49 Hz.
* `AudioBitsAreNamed`: the reserved bits of MPEG-4 audio are looked for in the wrong byte
  (`cta.c:480`).

Modelled as the code has it, seen while modelling, and not the subject of a run:

* A CTA block whose byte 2 is out of range is dropped without any failure (`cta.c:1869`), so
  the message can be NULL for a blob that does not conform, against `info.h:53`.
  `RejectionExplained` allows it, as `errno` is `EINVAL`.
* The entries of a malformed InfoFrame or Speaker Location block are never freed
  (`cta.c:1830`): the exception `torn` in `HeapClean`. A DisplayID section that fails after
  blocks were kept is never finished (`displayid.c:685`): `HeapClean` holds until then. A
  CTA extension with byte 2 zero keeps a pointer to a logger on the stack of `parse_ext`
  (`cta.c:1867`), which nothing reads.
* A failed calloc in the parsers of SVDs and InfoFrames drops the entry and nothing else
  (`cta.c:88`, `cta.c:1356`); one in the entries of a display descriptor loses those before
  it (`edid.c:1084`). `KeepsContract` and `HeapClean` leave room for both.
* Where the data blocks of a section reach the checksum or run past it, the filler check reads
  as many bytes as the last iteration had left, from a cursor at or behind the checksum, which
  after an overlong block may be far behind it (`displayid.c:689`). The model says of that read
  that it may find anything; no property is about how far it goes.
* A type I timing with the reserved stereo value keeps whatever is in its uninitialised
  field (`displayid.c:211`), a nondeterministic choice here; the printer aborts on it.
* A type II timing takes vertical offset and sync from byte 9, where the vertical blank is
  (`displayid.c:311`).
* The section name and the printed block number count kept extensions (`edid.c:1148`), so
  both are off after a skipped one, in the same way; the checksum `main` prints below is
  that of the position, so of another block. "Unknown Extension Block" is a line of the base
  section's logger, and appears under whichever header was written last if the base section
  already has one.
* A timing after a display descriptor that was *dropped* is not reported (`edid.c:1036`).
* Reserved SVDs are dropped and the capability map counts what is left (`cta.h:861`), so its
  bits name others than meant; `CapMapNames` is stated for blocks without any.
* The reference to a VTDB is kept in `dtd_index` (`cta.c:1137`, against `cta.h:1139`).
* The maximum pixel clock of CVT range limits may come out negative (`edid.c:648`, against
  `edid.h:606`).
* Of HDR dynamic metadata one or two bytes behind the last entry, and of speaker locations
  one, are ignored; a second HDR type 2 entry with version 0 is refused but has overwritten
  the version of the first; vendor-specific InfoFrames are passed over; a wrong length of
  the HDMI audio speaker allocation is reported under "Room Configuration" (`cta.c:1303`);
  two messages print a length where they name a tag (`cta.c:1812`, `cta.c:1819`).
* GTF makes a negative horizontal front porch of 1,959 of the 65,280 standard-timing codes,
  and a negative blanking of one.

## Proofs

Eight modules prove what follows for every value of the constants that satisfies the named
assumptions; TLC evaluates those for the instances above.

`CtaBlockProofs`: `TypeCorrect`, `NoOverflow`, `NoDoubleFree`, `CleanHeap`, `GapsReported`,
`RejectionsVisible`, `DtdsAreSlots`, `LoopsAdvance`, `ImplementsWalk` and
`ImplementsContract`, from
`CtaGeometry`, `CtaBytes` and `CtaErrnos`. The assumptions are facts of the header files: a
block is one byte longer than the end of its timings, the header fits, `data_blocks[]` has
one entry for each byte between header and checksum (`DtdEnd <= HeaderSize +
MaxDataBlocks`), and one more timing than `detailed_timing_defs[]` holds would not fit
(`DtdEnd < HeaderSize + (MaxDtds + 1) * DtdSize`). The last two are the reasons the array
bounds of `cta.h` are right: 127 <= 4 + 123 and 127 < 4 + 7 * 18.

The inductive invariant `IInv` is the properties themselves and `CursorInv`. Capacity is not
inductive: that the 124th block cannot be appended follows only from the cursor. `CursorInv`
therefore ties the number of kept blocks to the bytes consumed (`data_blocks_len +
HeaderSize <= i <= dtd_start` during the first loop, since each block takes at least its
header) and the number of timings to the slot (`i = dtd_start + dtds_len * DtdSize` during
the second). It also says that `elem.next = i` between iterations, which is what the
refinement of `TlvWalk` needs, and that nothing is allocated before the header was read. The
proof first reduces the data block parsers to four kinds of steps (`BlockSteps`: a step
keeps a block, drops it, rejects it, or fails to allocate it, with what is then true of
entries, `errno` and the report), so that each conjunct of the invariant is shown once per
kind and once per remaining action.

`LoopsAdvance` is the safe half of termination: an iteration that stays in its loop moves the
cursor forward, and `TypeCorrect` bounds the cursor.

`DisplayIdProofs`: `TypeCorrect`, `Capacity`, `Clean`, `TailReported`, `ImplementsWalk`,
`ImplementsContract`, from `SectionGeometry`, which says of each array that one more entry
would need more than `MaxSize` bytes: 256 < 5 + 84 * 3 for data blocks, and likewise by kind
of timing. `CursorInv` ties kept blocks to bytes consumed as before; here a product bounds
the arrays, and `SmallerFactor` (from `a * d < b * d` to `a < b`) turns bytes into entries.
`TailInv` is what `TailReportedIff` needs of the loop: the cursor is at the end of the last
data block unless an overlong one moved it, which is then out of the section and had a header
that is not all zeroes; `TailSeen` concludes that the check, when it has a rest to look at,
looks at all of it. `BlockSteps` reduces the parsers to `KeptStep`, `SkippedStep`,
`FailedStep` and `OverlongBlock`.

`EdidBaseProofs`: `TypeCorrect`, `Clean`, `PreferredExact`, `OrderExact`,
`ImplementsContract`, for any numbers of timings, descriptors and entries. `LoopInv` bounds
the arrays by the index of the loop; `OrderInv` ties the two lengths the code looks at to
the history they stand for, without which neither report could be shown to be made exactly
when it should; `FailInv` says that the first failed calloc ends it. `DescriptorSteps`
reduces the descriptor parsers to keeping, dropping and giving up.

`EdidExtsProofs`: `TypeCorrect`, `InBounds`, `OrderKept`, `ExactHeap`, `OomFinal`, for any
block size and any input size. `ParsedInv` keeps what the size checks established
(`exts_len` is at most what the size and byte 0x7E say), from which `LoopFits` derives that
the block at hand ends within the input: the arithmetic of `\div` is in `WholeBlocks` and
`FewerBlocks`. Each step of the loop keeps a block, skips it or gives up.

`DiInfoProofs`: `RunsTheParser` shows that each step of the composition is a step of
`EdidExts` or leaves it alone (`InfoSpec => Spec`), so every theorem about the parser holds
of the parser in its client (`ParserInClient`). Its own results are `ExitStatus` and
`AllReleased` (by `StageInv`, which says what is allocated at each stage), `OneHeader` (by
`LogInv`: no line is about a block not yet looked at, so a new header is the first of its
block; the facts about appending to a log are `Added` and `AddedWellFormed`), `SameNumbers`
(the numbers in the headers are indices of `exts`, and so are those printed) and
`InfoTypeCorrect`.

`DecodersProofs`: `TypeCorrect`, `DropsAreReported`, `Ranges`, `LosslessTimings`, `OneMark`,
`CapabilityMap`, `FirstWins` and `PrintersAreTotal`, from `DecoderKinds` and `InputForms`, so
for all bytes of a fixed layout, all payloads up to 31 bytes and any number of video blocks
and extensions. The properties relate a result or a set of lines to the bytes, and a later
state holds only the outcome; `IInv` therefore says that the input still has its form
(`Given`), that the result is what the decoder of its kind makes of it (`Decoded`), that a
dropped input is not printed (`Control`), and that the lines are what the printer makes of the
value (`Printed`). After `Invariant`, each theorem is a fact about operators:

* `Ranges` and `LosslessTimings` are arithmetic of bit fields: `Fields`, `Halves`, `Nibbles`
  and `Pairs` say what a byte is, given its fields.
* `DropsAreReported` is shown in three parts. A result that was not kept has a failure, by
  kind (`ResultSettled`; `Checked` is the form that chains of checks share). SVDs that were
  not kept have one (`SvdDrop`). Of a list, the walk over its entries, which advances by the
  sizes they state, is a cut in the sense of `IsCut` (`WalkCuts`, `StartsCut`), and entries
  that are left out, or a rest behind the last, are reported (`EntryDrop`).
* `CapabilityMap` counts bits of the map in the order of the blocks: `CodesInOrder` says that
  the printer's enumeration of SVDs is the concatenation of the blocks, entry by entry.
* `PrintersAreTotal` lists, for each printer, the values it aborts on (`SadTotal`,
  `DddbTotal`, ...), and shows that no decoder keeps one, the stereo value apart.

`ListsProofs`: what those proofs need about lists, where the operators of the model are
recursive functions over `0..n`. The library's induction and recursion theorems cannot be
instantiated by the provers, so `UpTo` and `DownTo` state induction as inclusion of sets, from
`NatMin` (a set of numbers that is not empty has a least one), and `Recursion` and `Downward`
show that a function exists that meets its defining equation at every place, from where the
`CHOOSE` behind the definition can be reasoned about. `PickedElements`, `PickedLength` and
`FlattenMapped` are what follows for filtering and joining lists.

`TablesProofs`: `VicExact`, `TimingsAgree` and `GtfRate`. The tables are written as chunks of
some ten rows that are appended (`Appended`), and what is said of a table is computed chunk by
chunk. `VicExact` needs only the set of codes of all rows (`VideoFormatCodes`) and that the
slot of a code holds a row with that code (`FormatSlot`). `TimingsAgree` has four parts:

* `StdIds`: every standard timing code of the DMT table decodes to the size and rate of its
  row, and no two rows with such a code share them (`DmtNamed`), so that the lookup, which
  takes the first that fits, finds that row (`DmtByTiming`).
* `CvtIds`: each mode of the table that CVT computes is computed (`Cvt1280x768`, ...), and
  agrees with its row; a printed line of a code is one of them (`CvtLineTiming`). `MulDivExact`
  shows that the long division by which the model stays within 32 bits is exact.
* `EstablishedKnown`: each of the 44 bits has a row, and no two bits have the same.
* `GtfRates`: by `GtfRate`, which holds for any size and rate. It is an identity once the
  blanking has been chosen; only the rounding of the clock to kHz is lost (`RoundNear`).

Only model-checked: `Terminates`, since liveness is out of the prover's reach (`LoopsAdvance`
is its safe half). That the seven
statements of the runs that find a counterexample do not hold is also TLC's result alone.

## Not modelled, and why

* Of CVT, reduced blanking versions 2 and 3 and margins; of GTF, interlace, margins, other
  curves and the parameters by horizontal frequency and by pixel clock: nothing in the
  library or in di-edid-decode asks for them.
* Rounding of doubles: exact arithmetic instead, with the differences given above.
* The letters of a PnP id, the escaping of strings, the wording and number formats of
  messages and output: formatting, about which nothing here is claimed.
* The list of uncommon features and the command line of di-edid-decode.
* The tests and the generators of the tables. The tables they generate are modelled row by
  row.

## Plan

What is left, in this order:

1. For `di_cvt_compute` what `GtfRate` is for `di_gtf_compute`: that for any size and rate the
   pixel clock is the greatest multiple of its step that does not exceed the one named.
2. Theorems about values that no run asks for yet: that the fields of a video timing block, a
   SAD and a chromaticity point can be written back to their bytes.
3. The version of HDR dynamic metadata type 2 as a property of its own, once a document of
   the repository states it.
4. The remaining options of CVT and GTF, should the library come to use them.
