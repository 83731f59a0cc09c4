------------------------------- MODULE DiInfo -------------------------------
(***************************************************************************)
(* di_info_parse_edid and di_info_destroy (info.c) around the parser of    *)
(* module EdidExts, with the loggers (log.c) and the memory stream         *)
(* (memory-stream.c) the failure message is collected in, and the main     *)
(* function of di-edid-decode, which reads the input, asks for the message *)
(* and turns it into an exit status.                                       *)
(*                                                                         *)
(* A failure line is the block it is about; what it says is left to the    *)
(* modules of the parsers.  The stream is its FILE and its buffer.         *)
(*                                                                         *)
(* A definition named X_Something is X with a plausible mistake in it; it  *)
(* takes part in no specification.                                         *)
(***************************************************************************)
EXTENDS EdidExts, Integers, FiniteSets, SequencesExt

CONSTANTS
  RawSize,     \* the size of raw[] in main.c, 32 * 1024
  Revisions,   \* EDID revisions
  Failures     \* numbers of failures a section may have of its own

ASSUME InfoInput == RawSize \in Nat /\ Revisions \subseteq Nat /\ Failures \subseteq Nat

VARIABLES
  client,        \* "main" of di-edid-decode, or another user of the "library"
  stage,         \* "input", "open", "parse", "close", "print", "destroy", "over"
  revision,
  log,           \* what was written to the stream: headers and failures
  initialized,   \* the field of the base section's logger
  heap,          \* subset of {"FILE", "buffer", "info"}
  message,       \* info->failure_msg is not NULL
  closed,        \* ghost: whether fclose succeeded
  printed,       \* the blocks of the printed extensions
  exit           \* status of main, -1 while it has none

own == <<client, stage, revision, log, initialized, heap, message, closed, printed, exit>>
infoVars == <<vars, own>>

Stages == {"input", "open", "parse", "close", "print", "destroy", "over"}

InfoTypeOK ==
  /\ TypeOK
  /\ client \in {"main", "library"} /\ stage \in Stages /\ revision \in Revisions
  /\ \A k \in 1..Len(log) : log[k].block \in 0..exts_len
  /\ initialized \in BOOLEAN /\ message \in BOOLEAN /\ closed \in BOOLEAN
  /\ heap \subseteq {"FILE", "buffer", "info"}
  /\ message => {"buffer", "info"} \subseteq heap
  /\ "info" \in heap => pc = "done"
  /\ printed \in Seq(Nat) /\ exit \in {-1, 0, 1, 254}

InfoInit ==
  /\ Init
  /\ client \in {"main", "library"} /\ revision \in Revisions
  /\ stage = IF client = "main" THEN "input" ELSE "open"
  /\ log = <<>> /\ initialized = FALSE
  /\ heap = {} /\ message = FALSE /\ closed = FALSE
  /\ printed = <<>> /\ exit = -1

-----------------------------------------------------------------------------
(* _di_logger_va_add_failure, n times, for the logger of a block that is   *)
(* named "Block <number>": the header comes first, once, and a blank line  *)
(* before it unless the stream is empty.                                   *)
Header(block, number) == [type |-> "header", block |-> block, number |-> number, blank |-> log # <<>>]
Failure(block) == [type |-> "failure", block |-> block]
AddFailures_AlwaysHeader(block, number, done, n) ==
  log \o FlattenSeq([k \in 1..n |-> <<Header(block, number), Failure(block)>>])
AddFailures(block, number, done, n) ==
  IF n = 0 THEN log
  ELSE log \o (IF done THEN <<>> ELSE <<Header(block, number)>>) \o [k \in 1..n |-> Failure(block)]

Silent == UNCHANGED <<log, initialized>>
BaseFails(n) ==
  /\ log' = AddFailures(0, 0, initialized, n)
  /\ initialized' = (initialized \/ n > 0)

(* The number counts the extensions kept so far.                           *)
SectionNumber_OfBlock == NextBlock
SectionNumber == Len(exts) + 1
ExtFails(n) == log' = AddFailures(NextBlock, SectionNumber, FALSE, n) /\ UNCHANGED initialized

(* The failures about the size, in any revision.                           *)
SizeRules == {"multiple", "count", "maximum"}
BrokenRules == {rule \in SizeRules :
  \/ rule = "multiple" /\ blob.size % BlockSize # 0
  \/ rule = "count"    /\ BlocksInSize # blob.count
  \/ rule = "maximum"  /\ blob.size > MaxBlocks * BlockSize}
SizeFailures == Cardinality(BrokenRules)

Parsing == stage = "parse" /\ UNCHANGED <<client, stage, revision, heap, message, closed, printed, exit>>
LoggedHead == Parsing /\ RejectHead /\ Silent
(* The calloc of the EDID comes before its first failure, others after.    *)
LoggedAllocFails == \E n \in {0} \cup {SizeFailures + m : m \in Failures} :
  Parsing /\ BaseAllocFails /\ BaseFails(n)
LoggedBase == \E m \in Failures : Parsing /\ ParseBase /\ BaseFails(SizeFailures + m)
LoggedUnknown == Parsing /\ ExtUnknown /\ BaseFails(IF revision <= 4 THEN 1 ELSE 0)
LoggedExt == \E n \in Failures : Parsing /\ (ExtParsed \/ ExtRejected) /\ ExtFails(n)
SilentExt == Parsing /\ (ExtBadChecksum \/ ExtAllocFails \/ ExtOpaque \/ ExtsParsed) /\ Silent

-----------------------------------------------------------------------------
(* main, until it has the whole input.                                     *)
Exit(status) == exit' = IF client = "main" THEN status ELSE -1
InputFails ==
  /\ stage = "input"
  /\ stage' = "over" /\ Exit(1)
  /\ UNCHANGED <<vars, client, revision, log, initialized, heap, message, closed, printed>>
InputRead ==
  /\ stage = "input" /\ blob.size < RawSize
  /\ stage' = "open"
  /\ UNCHANGED <<vars, client, revision, log, initialized, heap, message, closed, printed, exit>>

(* di_info_parse_edid.                                                     *)
OpenFails ==
  /\ stage = "open"
  /\ stage' = "over" /\ Exit(1)
  /\ UNCHANGED <<vars, client, revision, log, initialized, heap, message, closed, printed>>
Open ==
  /\ stage = "open"
  /\ heap' = {"FILE", "buffer"}
  /\ stage' = "parse"
  /\ UNCHANGED <<vars, client, revision, log, initialized, message, closed, printed, exit>>

(* memory_stream_cleanup and NULL: the message goes with the stream.       *)
Cleanup ==
  /\ heap' = heap \ {"FILE", "buffer"}
  /\ stage' = "over" /\ Exit(1)
  /\ UNCHANGED <<client, revision, log, initialized, message, closed, printed>>
ParseFailed == stage = "parse" /\ pc = "null" /\ Cleanup /\ UNCHANGED vars
InfoAllocFails_KeepsEdid == stage = "parse" /\ pc = "done" /\ Cleanup /\ UNCHANGED vars
InfoAllocFails == stage = "parse" /\ Destroy /\ Cleanup

InfoAllocated ==
  /\ stage = "parse" /\ pc = "done"
  /\ heap' = heap \cup {"info"}
  /\ stage' = "close"
  /\ UNCHANGED <<vars, client, revision, log, initialized, message, closed, printed, exit>>

(* memory_stream_close gives the buffer away, unless fclose fails, and an  *)
(* empty message is freed.                                                 *)
Message_EvenEmpty(flushed) == flushed
Message(flushed) == flushed /\ log # <<>>
Close == \E flushed \in BOOLEAN :
  /\ stage = "close"
  /\ closed' = flushed
  /\ message' = Message(flushed)
  /\ heap' = (heap \ {"FILE"}) \ IF Message(flushed) THEN {} ELSE {"buffer"}
  /\ stage' = "print"
  /\ UNCHANGED <<vars, client, revision, log, initialized, printed, exit>>

(* main prints "Block <index + 1>" for every extension, or another client  *)
(* reads what it likes.                                                    *)
PrintExts ==
  /\ stage = "print"
  /\ printed' = [k \in 1..Len(exts) |-> exts[k].block]
  /\ stage' = "destroy"
  /\ UNCHANGED <<vars, client, revision, log, initialized, heap, message, closed, exit>>

(* di_info_destroy, and the exit status of main.                           *)
DestroyInfo ==
  /\ stage = "destroy" /\ Destroy
  /\ heap' = heap \ {"info", "buffer"} /\ message' = FALSE
  /\ stage' = "over" /\ Exit(IF message THEN 254 ELSE 0)
  /\ UNCHANGED <<client, revision, log, initialized, closed, printed>>

InfoNext ==
  \/ InputFails \/ InputRead \/ OpenFails \/ Open
  \/ LoggedHead \/ LoggedAllocFails \/ LoggedBase
  \/ LoggedUnknown \/ LoggedExt \/ SilentExt
  \/ ParseFailed \/ InfoAllocFails \/ InfoAllocated \/ Close \/ PrintExts \/ DestroyInfo

InfoSpec == InfoInit /\ [][InfoNext]_infoVars

-----------------------------------------------------------------------------
Headers == {k \in 1..Len(log) : log[k].type = "header"}
Lines(block) == {k \in 1..Len(log) \ Headers : log[k].block = block}

(* However the sections of the blocks interleave on the one stream, every  *)
(* block with a failure has one header, before its failures; those of an   *)
(* extension follow it without a line of another block in between; and a   *)
(* blank line separates a section from what came before.                   *)
HeadersOnce ==
  /\ \A h, k \in Headers : log[h].block = log[k].block => h = k
  /\ \A block \in 0..exts_len : Lines(block) # {} =>
       \E h \in Headers :
         /\ log[h].block = block
         /\ \A k \in Lines(block) :
              h < k /\ (block > 0 => \A j \in h..k : log[j].block = block)
  /\ \A h \in Headers : log[h].blank <=> h > 1

(* The failure message and the printed EDID call an extension by the same  *)
(* number, whatever was skipped before it: both count what was kept.       *)
SectionsAgree ==
  stage = "destroy" =>
    \A h \in Headers :
      log[h].block \in Blocks(exts) =>
        log[h].number <= Len(printed) /\ printed[log[h].number] = log[h].block

(* Exit status 0 says that the EDID was parsed and nothing was reported    *)
(* about it, 254 that something was; a message is only lost with a stream  *)
(* that cannot be closed, and a failure of the system is never a verdict.  *)
ExitTellsConformity ==
  /\ exit = 0 => pc = "destroyed" /\ (closed => log = <<>>)
  /\ exit = 254 => pc = "destroyed" /\ log # <<>> /\ closed
  /\ exit = 1 => ~closed

(* Whichever step fails, the client ends up with nothing allocated except  *)
(* what a parser lost, and di_info_destroy takes the message along.        *)
NothingLeft == stage = "over" => heap = {} /\ live = lost
=============================================================================
