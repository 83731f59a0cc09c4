---------------------------- MODULE DiInfoProofs ----------------------------
(***************************************************************************)
(* Proofs about DiInfo, for every geometry, every set of inputs and every  *)
(* number of failures a section may have: on one side the resources and    *)
(* the exit status, on the other the lines of the failure message.         *)
(***************************************************************************)
EXTENDS DiInfo, EdidExtsProofs, FiniteSetTheorems

-----------------------------------------------------------------------------
(* Everything around the parser leaves it alone, or lets it take one step  *)
(* of its own.                                                             *)
LEMMA ParserSteps == ASSUME InfoNext PROVE [Next]_vars
<1>1. CASE LoggedHead \/ LoggedAllocFails \/ LoggedBase \/ LoggedUnknown \/ LoggedExt \/ SilentExt
  BY <1>1 DEF LoggedHead, LoggedAllocFails, LoggedBase, LoggedUnknown, LoggedExt, SilentExt, Next
<1>2. CASE InfoAllocFails \/ DestroyInfo
  BY <1>2 DEF InfoAllocFails, DestroyInfo, Next
<1>3. CASE InputFails \/ InputRead \/ OpenFails \/ Open \/ ParseFailed \/ InfoAllocated \/ Close \/ PrintExts
  BY <1>3 DEF InputFails, InputRead, OpenFails, Open, ParseFailed, InfoAllocated, Close, PrintExts
<1> QED BY <1>1, <1>2, <1>3 DEF InfoNext

(* So what holds of the parser by itself holds of it in a client.          *)
THEOREM RunsTheParser == InfoSpec => Spec
<1>1. InfoInit => Init
  BY DEF InfoInit
<1>2. [InfoNext]_infoVars => [Next]_vars
  BY ParserSteps DEF infoVars
<1> QED BY <1>1, <1>2, PTL DEF InfoSpec, Spec

-----------------------------------------------------------------------------
(* What is allocated at each stage, where the parser is, and which of the  *)
(* outcomes is still open.                                                 *)
StageInv ==
  /\ stage \in Stages /\ client \in {"main", "library"}
  /\ message \in BOOLEAN /\ closed \in BOOLEAN
  /\ stage \in {"input", "open"} => pc = "start" /\ heap = {}
  /\ stage = "parse" => heap = {"FILE", "buffer"}
  /\ stage = "close" => pc = "done" /\ heap = {"FILE", "buffer", "info"}
  /\ stage \in {"print", "destroy"} =>
       /\ pc = "done"
       /\ heap = IF message THEN {"buffer", "info"} ELSE {"info"}
       /\ message <=> closed /\ log # <<>>
  /\ stage \in {"input", "open", "parse", "close"} => ~message /\ ~closed
  /\ stage = "over" => heap = {} /\ ~message /\ pc \in {"start", "null", "destroyed"}
  /\ stage # "over" => exit = -1
  /\ exit \in {-1, 0, 1, 254}

OutcomeInv == StageInv /\ ExitTellsConformity

LEMMA OutcomeInit == ASSUME InfoInit PROVE OutcomeInv
<1>1. /\ pc = "start" /\ stage \in {"input", "open"} /\ client \in {"main", "library"}
      /\ heap = {} /\ ~message /\ message \in BOOLEAN /\ ~closed /\ closed \in BOOLEAN /\ exit = -1
  BY DEF InfoInit, Init
<1> QED BY <1>1 DEF OutcomeInv, StageInv, Stages, ExitTellsConformity

LEMMA OutcomeParsing ==
  ASSUME OutcomeInv, Parsing PROVE OutcomeInv'
BY DEF Parsing, OutcomeInv, StageInv, Stages, ExitTellsConformity

LEMMA OutcomeNext == ASSUME OutcomeInv, [InfoNext]_infoVars PROVE OutcomeInv'
<1> USE DEF OutcomeInv, StageInv, Stages, ExitTellsConformity
<1>1. CASE LoggedHead \/ LoggedAllocFails \/ LoggedBase \/ LoggedUnknown \/ LoggedExt \/ SilentExt
  <2> Parsing
    BY <1>1 DEF LoggedHead, LoggedAllocFails, LoggedBase, LoggedUnknown, LoggedExt, SilentExt
  <2> QED BY OutcomeParsing
<1>2. CASE InputFails
  BY <1>2 DEF InputFails, Exit, vars
<1>3. CASE InputRead
  BY <1>3 DEF InputRead, vars
<1>4. CASE OpenFails
  BY <1>4 DEF OpenFails, Exit, vars
<1>5. CASE Open
  BY <1>5 DEF Open, vars
<1>6. CASE ParseFailed
  BY <1>6 DEF ParseFailed, Cleanup, Exit, vars
<1>7. CASE InfoAllocFails
  BY <1>7 DEF InfoAllocFails, Destroy, Cleanup, Exit
<1>8. CASE InfoAllocated
  BY <1>8 DEF InfoAllocated, vars
<1>9. CASE Close
  <2> PICK flushed \in BOOLEAN :
        /\ stage = "close" /\ stage' = "print"
        /\ closed' = flushed /\ message' = Message(flushed)
        /\ heap' = (heap \ {"FILE"}) \ IF Message(flushed) THEN {} ELSE {"buffer"}
        /\ UNCHANGED <<pc, client, log, exit>>
    BY <1>9 DEF Close, vars
  <2>1. message' \in BOOLEAN /\ (message' <=> closed' /\ log' # <<>>)
    BY Zenon DEF Message
  <2>2. heap' = IF message' THEN {"buffer", "info"} ELSE {"info"}
    <3>1. heap = {"FILE", "buffer", "info"} /\ (message' <=> Message(flushed))
      BY Zenon
    <3>2. CASE Message(flushed)
      BY <3>1, <3>2
    <3>3. CASE ~Message(flushed)
      BY <3>1, <3>3
    <3> QED BY <3>2, <3>3
  <2>3. pc' = "done" /\ exit' = -1
    OBVIOUS
  <2> HIDE DEF ExitTellsConformity
  <2>4. ExitTellsConformity'
    BY <2>3 DEF ExitTellsConformity
  <2>5. stage' = "print" /\ client' \in {"main", "library"} /\ closed' \in BOOLEAN
    OBVIOUS
  <2>6. StageInv'
    BY Zenon, <2>1, <2>2, <2>3, <2>5 DEF StageInv, Stages
  <2> QED BY <2>4, <2>6
<1>10. CASE PrintExts
  BY <1>10 DEF PrintExts, vars
<1>11. CASE DestroyInfo
  <2>1. /\ heap = (IF message THEN {"buffer", "info"} ELSE {"info"}) /\ heap' = heap \ {"info", "buffer"}
        /\ message <=> closed /\ log # <<>>
        /\ pc' = "destroyed" /\ stage' = "over" /\ client \in {"main", "library"} /\ client' = client
        /\ log' = log /\ closed' = closed /\ closed \in BOOLEAN /\ message' = FALSE
        /\ exit' = IF client = "main" THEN (IF message THEN 254 ELSE 0) ELSE -1
    BY Zenon, <1>11 DEF DestroyInfo, Destroy, Exit
  <2>2. heap' = {}
    BY <2>1
  <2> HIDE DEF ExitTellsConformity, StageInv
  <2>3. CASE message
    <3>1. log # <<>> /\ closed /\ exit' \in {254, -1}
      BY <2>1, <2>3
    <3>2. StageInv'
      BY Zenon, <2>1, <2>2, <3>1 DEF StageInv, Stages
    <3>3. ExitTellsConformity'
      BY <2>1, <3>1 DEF ExitTellsConformity
    <3> QED BY <3>2, <3>3
  <2>4. CASE ~message
    <3>1. (closed => log = <<>>) /\ exit' \in {0, -1}
      BY <2>1, <2>4
    <3>2. StageInv'
      BY Zenon, <2>1, <2>2, <3>1 DEF StageInv, Stages
    <3>3. ExitTellsConformity'
      BY <2>1, <3>1 DEF ExitTellsConformity
    <3> QED BY <3>2, <3>3
  <2> QED BY <2>3, <2>4
<1>12. CASE UNCHANGED infoVars
  BY <1>12 DEF infoVars, vars, own
<1> QED BY <1>1, <1>2, <1>3, <1>4, <1>5, <1>6, <1>7, <1>8, <1>9, <1>10, <1>11, <1>12 DEF InfoNext

(* Exit status 0 is given to no blob with a failure, 254 to none without,  *)
(* and neither to one the library could not handle.                        *)
THEOREM ExitStatus == InfoSpec => []ExitTellsConformity
<1>1. OutcomeInv => ExitTellsConformity
  BY DEF OutcomeInv
<1> QED BY OutcomeInit, OutcomeNext, <1>1, PTL DEF InfoSpec

(* Whatever failed on the way, at the end the stream, the message, the     *)
(* info and the EDID have all been released, once.                         *)
THEOREM AllReleased == InfoSpec => []NothingLeft
<1>1. ASSUME OutcomeInv, IInv PROVE NothingLeft
  <2>1. live = owned + lost /\ owned \in Nat /\ lost \in Nat
    BY <1>1 DEF IInv, TypeOK, HeapExact
  <2>2. pc \in {"start", "null", "destroyed"} => owned = 0
    BY <1>1 DEF IInv, ParsedInv
  <2> QED BY <1>1, <2>1, <2>2 DEF OutcomeInv, StageInv, NothingLeft
<1> QED BY OutcomeInit, OutcomeNext, RunsTheParser, Invariance, <1>1, PTL DEF InfoSpec

-----------------------------------------------------------------------------
(* The lines of a stream: a failure comes after a header of its block, for *)
(* an extension with nothing of another block in between; a block has one  *)
(* header at most; a blank line is before all but the first.               *)
LogEntry == [type : {"header"}, block : Nat, number : Nat, blank : BOOLEAN]
            \cup [type : {"failure"}, block : Nat]
IsHeader(e) == e.type = "header"
Named(l) == \A k \in 1..Len(l) : ~IsHeader(l[k]) =>
  \E h \in 1..Len(l) :
    /\ IsHeader(l[h]) /\ l[h].block = l[k].block /\ h < k
    /\ l[k].block > 0 => \A j \in h..k : l[j].block = l[k].block
Unique(l) == \A h, k \in 1..Len(l) :
  IsHeader(l[h]) /\ IsHeader(l[k]) /\ l[h].block = l[k].block => h = k
Blanks(l) == \A h \in 1..Len(l) : IsHeader(l[h]) => (l[h].blank <=> h > 1)
Has(l, b) == \E h \in 1..Len(l) : IsHeader(l[h]) /\ l[h].block = b
WellFormed(l) == Named(l) /\ Unique(l) /\ Blanks(l)

LEMMA Concatenation ==
  ASSUME NEW S, NEW s \in Seq(S), NEW t \in Seq(S)
  PROVE  /\ s \o t \in Seq(S) /\ Len(s \o t) = Len(s) + Len(t)
         /\ Len(s) \in Nat /\ Len(t) \in Nat
         /\ \A k \in 1..Len(s) : (s \o t)[k] = s[k]
         /\ \A k \in (Len(s) + 1)..Len(s \o t) : (s \o t)[k] = t[k - Len(s)]
OBVIOUS

(* What n failures of one logger add to the stream.                        *)
LEMMA Added ==
  ASSUME log \in Seq(LogEntry), NEW b \in Nat, NEW number \in Nat,
         NEW done \in BOOLEAN, NEW n \in Nat,
         NEW l, l = AddFailures(b, number, done, n)
  PROVE  /\ l \in Seq(LogEntry) /\ Len(l) \in Nat /\ Len(log) \in Nat
         /\ Len(l) >= Len(log)
         /\ \A k \in 1..Len(log) : l[k] = log[k]
         /\ \A k \in (Len(log) + 1)..Len(l) :
              l[k] = IF ~done /\ k = Len(log) + 1 THEN Header(b, number) ELSE Failure(b)
         /\ n > 0 => Len(l) > Len(log)
         /\ n = 0 => l = log
<1> DEFINE fs == [k \in 1..n |-> Failure(b)]
           hs == IF done THEN <<>> ELSE <<Header(b, number)>>
<1>1. Failure(b) \in LogEntry /\ Header(b, number) \in LogEntry
  <2>1. (log # <<>>) \in BOOLEAN
    OBVIOUS
  <2> QED BY <2>1 DEF Failure, Header, LogEntry
<1>2. fs \in Seq(LogEntry) /\ Len(fs) = n /\ \A k \in 1..n : fs[k] = Failure(b)
  BY <1>1
<1>3. hs \in Seq(LogEntry) /\ Len(hs) = (IF done THEN 0 ELSE 1) /\ (~done => hs[1] = Header(b, number))
  BY <1>1
<1>4. CASE n = 0
  BY <1>4 DEF AddFailures
<1>5. CASE n # 0
  <2>1. l = (log \o hs) \o fs
    BY <1>5, <1>2, <1>3 DEF AddFailures
  <2> HIDE DEF fs, hs
  <2> DEFINE m == log \o hs
  <2>2. /\ m \in Seq(LogEntry) /\ Len(m) = Len(log) + Len(hs)
        /\ \A k \in 1..Len(log) : m[k] = log[k]
        /\ ~done => m[Len(log) + 1] = Header(b, number)
    <3>1. /\ m \in Seq(LogEntry) /\ Len(m) = Len(log) + Len(hs) /\ Len(log) \in Nat
          /\ \A k \in 1..Len(log) : m[k] = log[k]
          /\ \A k \in (Len(log) + 1)..Len(m) : m[k] = hs[k - Len(log)]
      BY <1>3, Concatenation
    <3>2. ~done => Len(log) + 1 \in (Len(log) + 1)..Len(m) /\ (Len(log) + 1) - Len(log) = 1
      BY <1>3, <3>1
    <3> QED BY <1>3, <3>1, <3>2
  <2> HIDE DEF m
  <2>3. /\ l \in Seq(LogEntry) /\ Len(l) = Len(m) + n
        /\ \A k \in 1..Len(m) : l[k] = m[k]
        /\ \A k \in (Len(m) + 1)..Len(l) : l[k] = fs[k - Len(m)]
    <3>1. l = m \o fs
      BY <2>1 DEF m
    <3>2. fs \in Seq(LogEntry) /\ m \in Seq(LogEntry) /\ Len(fs) = n
      BY <1>2, <2>2
    <3>3. /\ m \o fs \in Seq(LogEntry) /\ Len(m \o fs) = Len(m) + Len(fs)
          /\ \A k \in 1..Len(m) : (m \o fs)[k] = m[k]
          /\ \A k \in (Len(m) + 1)..Len(m \o fs) : (m \o fs)[k] = fs[k - Len(m)]
      BY <3>2, Concatenation
    <3> QED BY <3>1, <3>2, <3>3
  <2>4. ASSUME NEW k \in (Len(log) + 1)..Len(l)
        PROVE  l[k] = IF ~done /\ k = Len(log) + 1 THEN Header(b, number) ELSE Failure(b)
    <3>1. CASE ~done /\ k = Len(log) + 1
      BY <1>3, <2>2, <2>3, <3>1
    <3>2. CASE ~(~done /\ k = Len(log) + 1)
      <4>1. k \in (Len(m) + 1)..Len(l) /\ k - Len(m) \in 1..n
        BY <1>3, <2>2, <2>3, <3>2
      <4> QED BY <1>2, <2>3, <3>2, <4>1
    <3> QED BY <3>1, <3>2
  <2> QED BY <1>3, <1>5, <2>2, <2>3, <2>4
<1> QED BY <1>4, <1>5

(* A section that has no header yet and comes after all others, or that of *)
(* the base block with its header where it is due, stays well formed.      *)
LEMMA AddedWellFormed ==
  ASSUME log \in Seq(LogEntry), WellFormed(log),
         NEW b \in Nat, NEW number \in Nat, NEW done \in BOOLEAN, NEW n \in Nat,
         done <=> Has(log, b),
         b = 0 \/ \A k \in 1..Len(log) : log[k].block < b,
         NEW l, l = AddFailures(b, number, done, n)
  PROVE  WellFormed(l) /\ (Has(l, b) <=> done \/ n > 0)
         /\ \A c \in Nat : c # b => (Has(l, c) <=> Has(log, c))
<1>1. /\ l \in Seq(LogEntry) /\ Len(l) \in Nat /\ Len(log) \in Nat /\ Len(l) >= Len(log)
      /\ \A k \in 1..Len(log) : l[k] = log[k]
      /\ \A k \in (Len(log) + 1)..Len(l) :
           l[k] = IF ~done /\ k = Len(log) + 1 THEN Header(b, number) ELSE Failure(b)
      /\ n > 0 => Len(l) > Len(log)
      /\ n = 0 => l = log
  BY Added
<1>2. ASSUME NEW k \in (Len(log) + 1)..Len(l)
      PROVE  /\ l[k].block = b /\ (IsHeader(l[k]) <=> ~done /\ k = Len(log) + 1)
             /\ IsHeader(l[k]) => l[k].blank = (log # <<>>)
  <2>1. Header(b, number).type = "header" /\ Header(b, number).block = b
        /\ Header(b, number).blank = (log # <<>>)
    BY DEF Header
  <2>2. Failure(b).type = "failure" /\ Failure(b).block = b
    BY DEF Failure
  <2>3. CASE ~done /\ k = Len(log) + 1
    BY <1>1, <2>1, <2>3 DEF IsHeader
  <2>4. CASE ~(~done /\ k = Len(log) + 1)
    BY <1>1, <2>2, <2>4 DEF IsHeader
  <2> QED BY <2>3, <2>4
<1>3. \A k \in 1..Len(log) : k \in 1..Len(l) /\ l[k] = log[k]
  BY <1>1
<1>4. \A k \in 1..Len(l) : k \in 1..Len(log) \/ k \in (Len(log) + 1)..Len(l)
  BY <1>1
<1>5. Named(l)
  <2> SUFFICES ASSUME NEW k \in 1..Len(l), ~IsHeader(l[k])
               PROVE  \E h \in 1..Len(l) :
                        /\ IsHeader(l[h]) /\ l[h].block = l[k].block /\ h < k
                        /\ l[k].block > 0 => \A j \in h..k : l[j].block = l[k].block
    BY DEF Named
  <2>1. CASE k \in 1..Len(log)
    <3>1. PICK h \in 1..Len(log) :
            /\ IsHeader(log[h]) /\ log[h].block = log[k].block /\ h < k
            /\ log[k].block > 0 => \A j \in h..k : log[j].block = log[k].block
      BY <1>3, <2>1 DEF WellFormed, Named
    <3>2. \A j \in h..k : j \in 1..Len(log)
      BY <1>1, <2>1
    <3> QED BY <1>3, <2>1, <3>1, <3>2
  <2>2. CASE k \in (Len(log) + 1)..Len(l)
    <3>1. l[k].block = b
      BY <1>2, <2>2
    <3>2. CASE done
      <4>1. PICK h \in 1..Len(log) : IsHeader(log[h]) /\ log[h].block = b
        BY <3>2 DEF Has
      <4>2. b = 0
        BY <1>1, <4>1
      <4> QED BY <1>1, <1>3, <2>2, <3>1, <4>1, <4>2
    <3>3. CASE ~done
      <4> DEFINE h == Len(log) + 1
      <4>1. h \in 1..Len(l) /\ h \in (Len(log) + 1)..Len(l) /\ k \in h..Len(l)
        BY <1>1, <2>2
      <4>2. IsHeader(l[h]) /\ l[h].block = b
        BY <1>2, <3>3, <4>1
      <4>3. h < k
        BY <1>1, <2>2, <4>2
      <4>4. \A j \in h..k : l[j].block = b
        BY <1>1, <1>2, <4>1
      <4> HIDE DEF h
      <4> QED BY <3>1, <4>1, <4>2, <4>3, <4>4
    <3> QED BY <3>2, <3>3
  <2> QED BY <1>4, <2>1, <2>2
<1>6. Unique(l)
  <2> SUFFICES ASSUME NEW h \in 1..Len(l), NEW k \in 1..Len(l), IsHeader(l[h]), IsHeader(l[k]),
                      l[h].block = l[k].block
               PROVE  h = k
    BY DEF Unique
  <2>1. CASE h \in 1..Len(log) /\ k \in 1..Len(log)
    BY <1>3, <2>1 DEF WellFormed, Unique
  <2>2. CASE h \in 1..Len(log) /\ k \in (Len(log) + 1)..Len(l)
    BY <1>2, <1>3, <2>2 DEF Has
  <2>3. CASE h \in (Len(log) + 1)..Len(l) /\ k \in 1..Len(log)
    BY <1>2, <1>3, <2>3 DEF Has
  <2>4. CASE h \in (Len(log) + 1)..Len(l) /\ k \in (Len(log) + 1)..Len(l)
    BY <1>2, <2>4
  <2> QED BY <1>4, <2>1, <2>2, <2>3, <2>4
<1>7. Blanks(l)
  <2> SUFFICES ASSUME NEW h \in 1..Len(l), IsHeader(l[h])
               PROVE  l[h].blank <=> h > 1
    BY DEF Blanks
  <2>1. CASE h \in 1..Len(log)
    BY <1>3, <2>1 DEF WellFormed, Blanks
  <2>2. CASE h \in (Len(log) + 1)..Len(l)
    <3>1. h = Len(log) + 1 /\ l[h].blank = (log # <<>>)
      BY <1>2, <2>2
    <3>2. log # <<>> <=> Len(log) > 0
      BY <1>1
    <3>3. log # <<>> <=> h > 1
      BY <1>1, <3>1, <3>2
    <3> QED BY Zenon, <3>1, <3>3
  <2> QED BY <1>4, <2>1, <2>2
<1>8. Has(l, b) <=> done \/ n > 0
  <2>1. ASSUME Has(l, b) PROVE done \/ n > 0
    <3>1. CASE n = 0
      BY <1>1, <2>1, <3>1
    <3> QED BY <3>1
  <2>2. ASSUME done PROVE Has(l, b)
    BY <1>3, <2>2 DEF Has
  <2>3. ASSUME ~done, n > 0 PROVE Has(l, b)
    <3>1. Len(log) + 1 \in (Len(log) + 1)..Len(l) /\ Len(log) + 1 \in 1..Len(l)
      BY <1>1, <2>3
    <3> QED BY <1>2, <2>3, <3>1 DEF Has
  <2> QED BY <2>1, <2>2, <2>3
<1>9. ASSUME NEW c \in Nat, c # b PROVE Has(l, c) <=> Has(log, c)
  BY <1>2, <1>3, <1>4, <1>9 DEF Has
<1> QED BY <1>5, <1>6, <1>7, <1>8, <1>9 DEF WellFormed

-----------------------------------------------------------------------------
(* The stream while the parser runs: no line is about a block that has not *)
(* been looked at, the base section knows whether it has its header, and a *)
(* header with the block of a kept extension has that extension's number.  *)
NumbersInv ==
  pc \in {"exts", "done"} =>
    \A h \in 1..Len(log), k \in 1..Len(exts) :
      IsHeader(log[h]) /\ log[h].block = exts[k].block => log[h].number = k
BlocksInv ==
  /\ \A k \in 1..Len(log) : log[k].block <= exts_len
  /\ pc \in {"exts", "done"} => \A k \in 1..Len(log) : log[k].block <= i
LogInv ==
  /\ log \in Seq(LogEntry) /\ initialized \in BOOLEAN
  /\ pc = "start" => log = <<>>
  /\ initialized <=> Has(log, 0)
  /\ WellFormed(log)
  /\ BlocksInv /\ NumbersInv

LEMMA LogInit == ASSUME InfoInit PROVE LogInv
<1>1. log = <<>> /\ initialized = FALSE /\ Len(log) = 0 /\ log \in Seq(LogEntry)
  BY DEF InfoInit
<1>2. WellFormed(log) /\ ~Has(log, 0)
  BY <1>1 DEF WellFormed, Named, Unique, Blanks, Has
<1>3. BlocksInv /\ NumbersInv
  BY <1>1 DEF BlocksInv, NumbersInv
<1> QED BY <1>1, <1>2, <1>3 DEF LogInv

(* The section of the base block goes on, in a step that starts the loop   *)
(* over the extensions, ends the parse, or skips a block.                  *)
LEMMA BaseFailsInv ==
  ASSUME IInv, IInv', LogInv, NEW n \in Nat, BaseFails(n),
         exts' = exts, exts_len' \in Nat, i' >= i,
         pc = "start" \/ (pc \in {"exts", "done"} /\ exts_len' = exts_len),
         pc' # "start"
  PROVE  LogInv'
<1>1. /\ log \in Seq(LogEntry) /\ initialized \in BOOLEAN /\ WellFormed(log)
      /\ (initialized <=> Has(log, 0)) /\ log' = AddFailures(0, 0, initialized, n)
      /\ initialized' = (initialized \/ n > 0) /\ i \in Nat /\ i' \in Nat /\ exts_len \in Nat
      /\ pc = "start" => log = <<>> /\ Len(log) = 0
  BY DEF LogInv, BaseFails, IInv, TypeOK
<1>2. /\ log' \in Seq(LogEntry) /\ Len(log') \in Nat /\ Len(log) \in Nat
      /\ \A k \in 1..Len(log) : log'[k] = log[k]
      /\ \A k \in (Len(log) + 1)..Len(log') :
           log'[k] = IF ~initialized /\ k = Len(log) + 1 THEN Header(0, 0) ELSE Failure(0)
  BY <1>1, Added
<1>3. WellFormed(log') /\ (Has(log', 0) <=> initialized \/ n > 0)
  BY <1>1, AddedWellFormed
<1>4. \A k \in (Len(log) + 1)..Len(log') : log'[k].block = 0
  BY <1>2 DEF Header, Failure
<1>5. \A k \in 1..Len(log') : k \in 1..Len(log) \/ k \in (Len(log) + 1)..Len(log')
  BY <1>2
<1>6. BlocksInv'
  <2>1. \A k \in 1..Len(log) : log[k].block <= exts_len' /\ (pc' \in {"exts", "done"} => log[k].block <= i)
    <3>1. CASE pc = "start"
      BY <1>1, <3>1
    <3>2. CASE pc \in {"exts", "done"} /\ exts_len' = exts_len
      BY <3>2 DEF LogInv, BlocksInv
    <3> QED BY <3>1, <3>2
  <2>2. \A k \in 1..Len(log) : log[k].block \in Nat
    BY <1>1 DEF LogEntry
  <2>3. ASSUME NEW k \in 1..Len(log')
        PROVE  log'[k].block <= exts_len' /\ (pc' \in {"exts", "done"} => log'[k].block <= i')
    <3>1. CASE k \in 1..Len(log)
      BY <1>1, <1>2, <2>1, <2>2, <3>1
    <3>2. CASE k \in (Len(log) + 1)..Len(log')
      BY <1>1, <1>4, <3>2
    <3> QED BY <1>5, <3>1, <3>2
  <2> QED BY <2>3 DEF BlocksInv
<1>7. NumbersInv'
  <2> SUFFICES ASSUME pc' \in {"exts", "done"}, NEW h \in 1..Len(log'), NEW k \in 1..Len(exts'),
                      IsHeader(log'[h]), log'[h].block = exts'[k].block
               PROVE  log'[h].number = k
    BY DEF NumbersInv
  <2>1. pc # "start"
    BY DEF IInv, ParsedInv
  <2>2. exts[k].block # 0
    <3>1. Blocks(exts) \subseteq 1..i /\ exts[k].block \in Blocks(exts)
      BY <2>1 DEF IInv, BlocksInOrder, Blocks
    <3> QED BY <1>1, <3>1
  <2>3. h \in 1..Len(log)
    BY <1>4, <1>5, <2>2
  <2> QED BY <1>2, <2>1, <2>3 DEF LogInv, NumbersInv
<1> QED BY <1>1, <1>2, <1>3, <1>6, <1>7 DEF LogInv

(* The section of an extension: it has no line yet, and no other block's   *)
(* section follows as long as the extension is being parsed.               *)
LEMMA ExtFailsInv ==
  ASSUME IInv, IInv', LogInv, InLoop, NEW n \in Nat, ExtFails(n), exts_len' = exts_len,
         \/ \E tag \in ExtTags \ {"unknown"}, m \in Nat, l \in Nat : Keep(tag, m, l)
         \/ \E l \in Nat : Skip(FALSE, l)
         \/ \E l \in Nat : GiveUp(l)
  PROVE  LogInv'
<1> PICK done \in BOOLEAN : done = FALSE
  OBVIOUS
<1>1. /\ log \in Seq(LogEntry) /\ initialized \in BOOLEAN /\ WellFormed(log)
      /\ (initialized <=> Has(log, 0)) /\ initialized' = initialized
      /\ log' = AddFailures(NextBlock, SectionNumber, done, n)
      /\ exts \in Seq([block : Nat, tag : ExtTags \ {"unknown"}])
      /\ \A k \in 1..Len(log) : log[k].block <= i
  BY DEF LogInv, BlocksInv, ExtFails, IInv, TypeOK, InLoop
<1>13. /\ i \in Nat /\ i' \in Nat /\ exts_len \in Nat
      /\ NextBlock = i + 1 /\ NextBlock \in Nat /\ NextBlock <= exts_len /\ pc = "exts"
      /\ SectionNumber = Len(exts) + 1 /\ SectionNumber \in Nat /\ Len(exts) \in Nat
  BY DEF IInv, TypeOK, InLoop, NextBlock, SectionNumber
<1>2. \A k \in 1..Len(log) : log[k].block \in Nat /\ log[k].block < NextBlock
  BY <1>1, <1>13 DEF LogEntry
<1>3. ~Has(log, NextBlock)
  BY <1>1, <1>2 DEF Has
<1>4. /\ log' \in Seq(LogEntry) /\ Len(log') \in Nat /\ Len(log) \in Nat
      /\ \A k \in 1..Len(log) : log'[k] = log[k]
      /\ \A k \in (Len(log) + 1)..Len(log') :
           log'[k] = IF ~done /\ k = Len(log) + 1 THEN Header(NextBlock, SectionNumber) ELSE Failure(NextBlock)
  <2> PICK b \in Nat, number \in Nat : b = NextBlock /\ number = SectionNumber
    BY <1>13
  <2>1. log \in Seq(LogEntry) /\ log' = AddFailures(b, number, done, n)
    BY <1>1
  <2> QED BY <2>1, Added
<1>5. WellFormed(log') /\ \A c \in Nat : c # NextBlock => (Has(log', c) <=> Has(log, c))
  <2>1. done <=> Has(log, NextBlock)
    BY <1>3
  <2> PICK b \in Nat, number \in Nat : b = NextBlock /\ number = SectionNumber
    BY <1>13
  <2>2. /\ log \in Seq(LogEntry) /\ WellFormed(log) /\ log' = AddFailures(b, number, done, n)
        /\ \A k \in 1..Len(log) : log[k].block < b
        /\ done <=> Has(log, b)
    BY <1>1, <1>2, <2>1
  <2> QED BY <2>2, AddedWellFormed
<1>6. initialized' <=> Has(log', 0)
  <2>1. 0 \in Nat /\ 0 # NextBlock
    BY <1>13
  <2> QED BY Zenon, <1>1, <1>5, <2>1
<1>7. \A k \in (Len(log) + 1)..Len(log') :
        /\ log'[k].block = NextBlock
        /\ IsHeader(log'[k]) => log'[k].number = SectionNumber
  <2>1. Header(NextBlock, SectionNumber).block = NextBlock /\ Header(NextBlock, SectionNumber).number = SectionNumber
    BY DEF Header
  <2>2. Failure(NextBlock).block = NextBlock /\ Failure(NextBlock).type = "failure"
    BY DEF Failure
  <2> QED BY <1>4, <2>1, <2>2 DEF IsHeader
<1>8. \A k \in 1..Len(log') : k \in 1..Len(log) \/ k \in (Len(log) + 1)..Len(log')
  BY <1>4
<1>9. pc' = "null" \/ (pc' = "exts" /\ i' = i + 1)
  BY <1>13 DEF Keep, Skip, GiveUp
<1>10. BlocksInv'
  <2>1. ASSUME NEW k \in 1..Len(log')
        PROVE  log'[k].block <= exts_len' /\ (pc' \in {"exts", "done"} => log'[k].block <= i')
    <3>1. log'[k].block \in Nat /\ log'[k].block <= NextBlock
      <4>1. CASE k \in 1..Len(log)
        <5>1. log'[k] = log[k] /\ log[k].block \in Nat /\ log[k].block < NextBlock
          BY <1>2, <1>4, <4>1
        <5> QED BY <1>13, <5>1
      <4>2. CASE k \in (Len(log) + 1)..Len(log')
        <5>1. log'[k].block = NextBlock
          BY <1>7, <4>2
        <5> QED BY <1>13, <5>1
      <4> QED BY <1>8, <4>1, <4>2
    <3> QED BY <1>13, <1>9, <3>1
  <2> QED BY <2>1 DEF BlocksInv
<1>11. NumbersInv'
  <2> SUFFICES ASSUME pc' \in {"exts", "done"}, NEW h \in 1..Len(log'), NEW k \in 1..Len(exts'),
                      IsHeader(log'[h]), log'[h].block = exts'[k].block
               PROVE  log'[h].number = k
    BY DEF NumbersInv
  <2>1. \/ exts' = exts
        \/ Len(exts') = Len(exts) + 1 /\ exts'[Len(exts) + 1].block = NextBlock
           /\ \A a \in 1..Len(exts) : exts'[a] = exts[a]
    <3>1. CASE \E tag \in ExtTags \ {"unknown"}, m \in Nat, l \in Nat : Keep(tag, m, l)
      BY <1>1, <1>13, <3>1 DEF Keep
    <3>2. CASE \E l \in Nat : Skip(FALSE, l)
      BY <3>2 DEF Skip
    <3>3. CASE \E l \in Nat : GiveUp(l)
      BY <3>3 DEF GiveUp
    <3> QED BY <3>1, <3>2, <3>3
  <2>2. \A a \in 1..Len(exts) : exts[a].block < NextBlock
    BY <1>13, BlocksBefore DEF IInv
  <2>3. CASE k \in 1..Len(exts)
    <3>1. exts'[k] = exts[k] /\ exts[k].block \in Nat
      <4>1. exts[k] \in [block : Nat, tag : ExtTags \ {"unknown"}]
        <5> DEFINE S == [block : Nat, tag : ExtTags \ {"unknown"}]
        <5>1. exts \in Seq(S)
          BY <1>1
        <5> HIDE DEF S
        <5>2. exts[k] \in S
          BY <2>3, <5>1
        <5> QED BY <5>2 DEF S
      <4> QED BY <2>1, <2>3, <4>1
    <3>2. h \in 1..Len(log)
      <4>1. log'[h].block # NextBlock
        BY <1>13, <2>2, <2>3, <3>1
      <4> QED BY <1>7, <1>8, <4>1
    <3>3. log'[h] = log[h]
      BY <1>4, <3>2
    <3> QED BY <1>13, <2>3, <3>1, <3>2, <3>3 DEF LogInv, NumbersInv
  <2>4. CASE k \notin 1..Len(exts)
    <3>1. k = Len(exts) + 1 /\ exts'[k].block = NextBlock
      BY <1>13, <2>1, <2>4
    <3>2. h \in (Len(log) + 1)..Len(log')
      <4>1. ASSUME h \in 1..Len(log) PROVE FALSE
        <5>1. log'[h] = log[h] /\ log[h].block < NextBlock /\ log[h].block \in Nat
          BY <1>2, <1>4, <4>1
        <5> QED BY <1>13, <3>1, <5>1
      <4> QED BY <1>8, <4>1
    <3> QED BY <1>13, <1>7, <3>1, <3>2
  <2> QED BY <2>3, <2>4
<1>12. pc' # "start"
  BY <1>9
<1> QED BY <1>1, <1>4, <1>5, <1>6, <1>10, <1>11, <1>12 DEF LogInv

(* A number of failures is a number.                                       *)
LEMMA SizeFailuresNat == SizeFailures \in Nat
<1>1. IsFiniteSet(SizeRules)
  <2>1. SizeRules = (({} \cup {"multiple"}) \cup {"count"}) \cup {"maximum"}
    BY DEF SizeRules
  <2> QED BY <2>1, FS_EmptySet, FS_AddElement
<1>2. BrokenRules \subseteq SizeRules
  BY DEF BrokenRules
<1> QED BY <1>1, <1>2, FS_Subset, FS_CardinalityType DEF SizeFailures

(* A step that leaves the stream alone and does not touch exts[], unless   *)
(* to let go of all of them.                                               *)
LEMMA LogUntouched ==
  ASSUME LogInv, UNCHANGED <<log, initialized, exts_len, i>>, pc' = pc \/ pc' # "start",
         pc' \in {"exts", "done"} => pc \in {"exts", "done"} /\ exts' = exts
  PROVE  LogInv'
<1>1. BlocksInv'
  BY DEF LogInv, BlocksInv
<1>2. NumbersInv'
  BY DEF LogInv, NumbersInv
<1>3. WellFormed(log') /\ (initialized' <=> Has(log', 0)) /\ log' \in Seq(LogEntry) /\ initialized' \in BOOLEAN
  BY DEF LogInv
<1> QED BY <1>1, <1>2, <1>3 DEF LogInv

LEMMA LogNext == ASSUME IInv, LogInv, [InfoNext]_infoVars PROVE LogInv'
<1>1. IInv' /\ TypeOK /\ TypeOK'
  <2>1. [Next]_vars
    BY ParserSteps DEF infoVars
  <2>2. IInv'
    BY <2>1, NextInv
  <2> QED BY <2>2 DEF IInv
<1>2. i \in Nat /\ i' \in Nat /\ exts_len' \in Nat
  BY <1>1 DEF TypeOK
<1> USE InfoInput
<1>3. CASE \/ InputFails \/ InputRead \/ OpenFails \/ Open \/ ParseFailed \/ InfoAllocated
           \/ Close \/ PrintExts \/ UNCHANGED infoVars
  <2>1. UNCHANGED <<vars, log, initialized>>
    BY <1>3 DEF InputFails, InputRead, OpenFails, Open, ParseFailed, Cleanup, InfoAllocated,
                Close, PrintExts, infoVars, own
  <2> QED BY <2>1, LogUntouched DEF vars
<1>4. CASE InfoAllocFails \/ DestroyInfo
  <2>1. Destroy /\ UNCHANGED <<log, initialized>>
    BY <1>4 DEF InfoAllocFails, Cleanup, DestroyInfo
  <2> QED BY <2>1, LogUntouched DEF Destroy
<1>5. CASE LoggedHead
  BY <1>5, LogUntouched DEF LoggedHead, Silent, RejectHead
<1>6. CASE LoggedAllocFails
  <2>1. PICK n \in {0} \cup {SizeFailures + m : m \in Failures} : BaseAllocFails /\ BaseFails(n)
    BY <1>6 DEF LoggedAllocFails
  <2>2. n \in Nat
    BY SizeFailuresNat
  <2>3. exts' = exts /\ i' = i /\ pc = "start" /\ pc' # "start"
    BY <2>1 DEF BaseAllocFails
  <2> QED BY <1>1, <1>2, <2>1, <2>2, <2>3, BaseFailsInv
<1>7. CASE LoggedBase
  <2>1. PICK m \in Failures : ParseBase /\ BaseFails(SizeFailures + m)
    BY <1>7 DEF LoggedBase
  <2>2. SizeFailures + m \in Nat
    BY SizeFailuresNat
  <2>3. exts' = exts /\ i' = i /\ pc = "start" /\ pc' # "start"
    BY <2>1 DEF ParseBase
  <2> QED BY <1>1, <1>2, <2>1, <2>2, <2>3, BaseFailsInv
<1>8. CASE LoggedUnknown
  <2>1. PICK n \in {0, 1} : ExtUnknown /\ BaseFails(n)
    BY <1>8 DEF LoggedUnknown
  <2>2. exts' = exts /\ i' = i + 1 /\ pc = "exts" /\ pc' = "exts" /\ exts_len' = exts_len
    BY <2>1 DEF ExtUnknown, Skip, InLoop
  <2> QED BY <1>1, <1>2, <2>1, <2>2, BaseFailsInv
<1>9. ASSUME NEW n \in Nat, ExtFails(n),
             ExtBadChecksum \/ ExtAllocFails \/ ExtOpaque \/ ExtParsed \/ ExtRejected
      PROVE  LogInv'
  <2>1. /\ InLoop
        /\ \/ \E tag \in ExtTags \ {"unknown"}, m \in Nat, l \in Nat : Keep(tag, m, l)
           \/ \E l \in Nat : Skip(FALSE, l)
           \/ \E l \in Nat : GiveUp(l)
    BY <1>1, <1>9, LoopSteps
  <2>2. exts_len' = exts_len
    BY <2>1 DEF Keep, Skip, GiveUp
  <2> QED BY <1>1, <1>9, <2>1, <2>2, ExtFailsInv
<1>10. CASE LoggedExt
  BY <1>9, <1>10 DEF LoggedExt
<1>11. CASE SilentExt
  <2>1. CASE ExtsParsed
    BY <1>11, <2>1, LogUntouched DEF SilentExt, Silent, ExtsParsed
  <2>2. CASE ExtBadChecksum \/ ExtAllocFails \/ ExtOpaque
    <3>1. ExtFails(0)
      BY <1>11 DEF SilentExt, Silent, ExtFails, AddFailures
    <3> QED BY <1>9, <2>2, <3>1
  <2> QED BY <1>11, <2>1, <2>2 DEF SilentExt
<1> QED BY <1>3, <1>4, <1>5, <1>6, <1>7, <1>8, <1>10, <1>11 DEF InfoNext

(* The lines of the failure message stay well formed while blocks are kept,*)
(* skipped and refused and any of them adds failures.                      *)
THEOREM LogInvariance == InfoSpec => [](IInv /\ LogInv)
<1>1. IInv /\ LogInv /\ [InfoNext]_infoVars => LogInv'
  BY LogNext
<1>2. InfoInit => LogInv
  BY LogInit
<1> QED BY <1>1, <1>2, RunsTheParser, Invariance, PTL DEF InfoSpec

(* Each section of the failure message has one header, before its lines,   *)
(* and nothing of another block between those of an extension.             *)
THEOREM OneHeader == InfoSpec => []HeadersOnce
<1>1. ASSUME IInv, LogInv PROVE HeadersOnce
  <2>1. log \in Seq(LogEntry) /\ Len(log) \in Nat /\ Named(log) /\ Unique(log) /\ Blanks(log)
    BY <1>1 DEF LogInv, WellFormed
  <2>2. \A k \in 1..Len(log) : log[k].block \in Nat
    BY <2>1 DEF LogEntry
  <2>3. \A h, k \in Headers : log[h].block = log[k].block => h = k
    BY <2>1 DEF Unique, Headers, IsHeader
  <2>4. \A h \in Headers : log[h].blank <=> h > 1
    BY <2>1 DEF Blanks, Headers, IsHeader
  <2>5. ASSUME NEW block \in 0..exts_len, Lines(block) # {}
        PROVE  \E h \in Headers :
                 /\ log[h].block = block
                 /\ \A k \in Lines(block) :
                      h < k /\ (block > 0 => \A j \in h..k : log[j].block = block)
    <3>1. \A k \in Lines(block) :
            \E h \in Headers : log[h].block = block /\ h < k
                             /\ (block > 0 => \A j \in h..k : log[j].block = block)
      BY <2>1 DEF Named, Lines, Headers, IsHeader
    <3>2. PICK k \in Lines(block) : TRUE
      BY <2>5
    <3>3. PICK h \in Headers : log[h].block = block
      BY <3>1, <3>2
    <3> QED BY <2>3, <3>1, <3>3
  <2> QED BY <2>3, <2>4, <2>5 DEF HeadersOnce
<1> QED BY <1>1, LogInvariance, PTL

-----------------------------------------------------------------------------
(* What main printed is what the EDID holds, until it is destroyed.        *)
PrintInv ==
  /\ revision \in Revisions /\ printed \in Seq(Nat)
  /\ stage = "destroy" => Len(printed) = Len(exts) /\ \A k \in 1..Len(exts) : printed[k] = exts[k].block

LEMMA PrintNext == ASSUME IInv, PrintInv, [InfoNext]_infoVars PROVE PrintInv'
<1>1. CASE LoggedHead \/ LoggedAllocFails \/ LoggedBase \/ LoggedUnknown \/ LoggedExt \/ SilentExt
  BY <1>1 DEF PrintInv, Parsing, LoggedHead, LoggedAllocFails, LoggedBase, LoggedUnknown, LoggedExt, SilentExt
<1>2. CASE InputFails \/ InputRead \/ OpenFails \/ Open \/ ParseFailed \/ InfoAllocFails \/ InfoAllocated
           \/ Close \/ DestroyInfo
  BY <1>2 DEF PrintInv, InputFails, InputRead, OpenFails, Open, ParseFailed, InfoAllocFails, Cleanup,
              InfoAllocated, Close, DestroyInfo
<1>3. CASE PrintExts
  <2>1. printed' = [k \in 1..Len(exts) |-> exts[k].block] /\ exts' = exts /\ revision' = revision
    BY <1>3 DEF PrintExts, vars
  <2>2. Len(exts) \in Nat /\ \A k \in 1..Len(exts) : exts[k].block \in Nat
    <3> DEFINE S == [block : Nat, tag : ExtTags \ {"unknown"}]
    <3>1. exts \in Seq(S)
      BY DEF IInv, TypeOK
    <3>2. ASSUME NEW e \in S PROVE e.block \in Nat
      OBVIOUS
    <3> HIDE DEF S
    <3> QED BY <3>1, <3>2
  <2>3. printed' \in Seq(Nat) /\ Len(printed') = Len(exts) /\ \A k \in 1..Len(exts) : printed'[k] = exts[k].block
    BY <2>1, <2>2
  <2> QED BY <2>1, <2>3 DEF PrintInv
<1>4. CASE UNCHANGED infoVars
  BY <1>4 DEF PrintInv, infoVars, vars, own
<1> QED BY <1>1, <1>2, <1>3, <1>4 DEF InfoNext

(* The invariants of the parser, the log, the outcome and the printer hold *)
(* together; the theorems below follow from them.                          *)
THEOREM AllInvariants == InfoSpec => [](IInv /\ LogInv /\ OutcomeInv /\ PrintInv)
<1>1. IInv /\ PrintInv /\ [InfoNext]_infoVars => PrintInv'
  BY PrintNext
<1>2. InfoInit => PrintInv
  BY DEF InfoInit, PrintInv
<1> QED BY <1>1, <1>2, LogInvariance, OutcomeInit, OutcomeNext, PTL DEF InfoSpec

(* A header of the failure message and the printed EDID number an          *)
(* extension alike, whatever was skipped before it.                        *)
THEOREM SameNumbers == InfoSpec => []SectionsAgree
<1>1. ASSUME IInv, LogInv, OutcomeInv, PrintInv PROVE SectionsAgree
  <2> SUFFICES ASSUME stage = "destroy", NEW h \in Headers, log[h].block \in Blocks(exts)
               PROVE  log[h].number <= Len(printed) /\ printed[log[h].number] = log[h].block
    BY DEF SectionsAgree
  <2>1. PICK k \in 1..Len(exts) : log[h].block = exts[k].block
    BY DEF Blocks
  <2>2. pc = "done"
    BY <1>1 DEF OutcomeInv, StageInv
  <2>3. h \in 1..Len(log) /\ IsHeader(log[h])
    BY DEF Headers, IsHeader
  <2>4. log[h].number = k
    BY <1>1, <2>1, <2>2, <2>3 DEF LogInv, NumbersInv
  <2>5. Len(exts) \in Nat
    BY <1>1 DEF IInv, TypeOK
  <2> QED BY <1>1, <2>1, <2>4, <2>5 DEF PrintInv
<1> QED BY <1>1, AllInvariants, PTL

(* Every variable of the parser, di_info and di-edid-decode keeps its type.*)
THEOREM InfoTypeCorrect == InfoSpec => []InfoTypeOK
<1>1. ASSUME IInv, LogInv, OutcomeInv, PrintInv PROVE InfoTypeOK
  <2>1. TypeOK /\ initialized \in BOOLEAN /\ revision \in Revisions /\ printed \in Seq(Nat)
    BY <1>1 DEF IInv, LogInv, PrintInv
  <2>2. /\ client \in {"main", "library"} /\ stage \in Stages /\ message \in BOOLEAN /\ closed \in BOOLEAN
        /\ heap \subseteq {"FILE", "buffer", "info"} /\ exit \in {-1, 0, 1, 254}
        /\ (message => {"buffer", "info"} \subseteq heap)
        /\ ("info" \in heap => pc = "done")
    BY <1>1 DEF OutcomeInv, StageInv, Stages
  <2>3. \A k \in 1..Len(log) : log[k].block \in 0..exts_len
    BY <1>1, <2>1 DEF LogInv, LogEntry, BlocksInv, TypeOK
  <2> QED BY Zenon, <2>1, <2>2, <2>3 DEF InfoTypeOK
<1> QED BY <1>1, AllInvariants, PTL

(* The invariants of the parser, of the parser in its client.              *)
THEOREM ParserInClient ==
  InfoSpec => [](BlocksInOrder /\ ExtsInBounds /\ HeapExact /\ OomIsFinal)
<1>1. IInv => BlocksInOrder /\ ExtsInBounds /\ HeapExact /\ OomIsFinal
  BY InvInBounds DEF IInv
<1> QED BY <1>1, AllInvariants, PTL
=============================================================================
