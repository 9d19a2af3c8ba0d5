------------------------------ MODULE XkitProofs ------------------------------
(***************************************************************************)
(* Proofs about replacing and starting firmware, about the applications    *)
(* and about the tools.  Each part of Xboot, Xapps and Xtools proved here  *)
(* has an inductive invariant of its own; a step of one part never         *)
(* disturbs another, as boot, app and tool are one of them for good.       *)
(***************************************************************************)
EXTENDS Xtools, Xapps, Xboot, SequenceTheorems, FiniteSetTheorems, WellFoundedInduction, TLAPS

-----------------------------------------------------------------------------
(* The start on AM243x.                                                    *)

StartStates ==
    [kind : {"start"}, pc : {"reset", "port", "give up", "policy", "over", "wait"}, ctors : BOOLEAN, st : {"OK", "FAILURE", "INVALID_STATE"},
     dpl : BOOLEAN, pm : {"raw", "kept", "set"}, irq : BOOLEAN, walls : {"closed", "open"},
     uart : {"off", "initialised", "started"}, ready : BOOLEAN, recovery : BOOLEAN, ran : {"no", "OK"}, refused : BOOLEAN]

Opened(s) == s.pm # "raw" /\ s.walls = "open" /\ s.irq /\ s.uart = "started"

\* The policy is reached over an opened port or past a reset that was refused.
StartInv(s) ==
    /\ s \in StartStates
    /\ s.pc \in {"policy", "over", "wait"} /\ ~s.refused => Opened(s)
    /\ s.ran # "no" => s.pc \in {"over", "wait"}
    /\ s.pc = "wait" => s.refused

StartMoves == StartCode \/ MainOpensPort \/ MainGivesUp \/ MainRuns \/ MainResets

(***************************************************************************)
(* The device starts with nothing set up, from power on and after a reset  *)
(* that was not refused.                                                   *)
(***************************************************************************)
LEMMA StartBegins ==
    ASSUME NEW c \in BOOLEAN
    PROVE  StartInv(StartInit(c))
BY DEF StartInit, StartInv, StartStates, Opened

(***************************************************************************)
(* Setting the port up: only what is answered OK leads to the policy.      *)
(***************************************************************************)
LEMMA PortOpens ==
    ASSUME NEW s \in StartStates, NEW isolated \in BOOLEAN, NEW broken
    PROVE  LET p == PortInit(s, isolated, broken) IN
           /\ p \in StartStates
           /\ p.ran = s.ran /\ p.refused = s.refused /\ p.pc = s.pc
           /\ IsOk(p) => Opened(p)
<1> DEFINE p == PortInit(s, isolated, broken)
<1>1. CASE ~isolated /\ broken \in {"pm", "rm"}
  <2>1. p = [s EXCEPT !.st = "INVALID_STATE"]
    BY <1>1 DEF PortInit, Failed
  <2> QED BY <2>1 DEF StartStates, IsOk
<1>2. CASE ~(~isolated /\ broken \in {"pm", "rm"})
  <2> DEFINE k == IF isolated THEN "kept" ELSE "set"
  <2>1. PICK q : q = [SystemInit(s) EXCEPT !.pm = k, !.walls = "open"]
    OBVIOUS
  <2>2. q = [s EXCEPT !.irq = TRUE, !.pm = k, !.walls = "open"]
    BY <2>1 DEF SystemInit, StartStates
  <2>3. q \in StartStates /\ q.pm = k /\ q.walls = "open" /\ q.irq = TRUE
        /\ q.ran = s.ran /\ q.refused = s.refused /\ q.pc = s.pc
    BY <2>2 DEF StartStates
  <2>4. PICK d : d = DriversOpen(q, broken)
    OBVIOUS
  <2>5. p = IF IsOk(d) THEN d ELSE Failed(d, "INVALID_STATE")
    BY <1>2, <2>1, <2>4 DEF PortInit
  <2>6. CASE broken = "uart init"
    <3>1. d = [q EXCEPT !.st = "FAILURE"]
      BY <2>4, <2>6 DEF DriversOpen, Failed
    <3>2. p = [q EXCEPT !.st = "INVALID_STATE"]
      BY <2>3, <2>5, <3>1 DEF IsOk, Failed, StartStates
    <3>3. p \in StartStates /\ p.ran = q.ran /\ p.refused = q.refused /\ p.pc = q.pc /\ p.st # "OK"
      BY <2>3, <3>2 DEF StartStates
    <3> QED BY <2>3, <3>3 DEF IsOk
  <2>7. CASE broken = "uart start"
    <3>1. d = [q EXCEPT !.uart = "initialised", !.st = "FAILURE"]
      BY <2>3, <2>4, <2>7 DEF DriversOpen, Failed, StartStates
    <3>2. p = [q EXCEPT !.uart = "initialised", !.st = "INVALID_STATE"]
      BY <2>3, <2>5, <3>1 DEF IsOk, Failed, StartStates
    <3>3. p \in StartStates /\ p.ran = q.ran /\ p.refused = q.refused /\ p.pc = q.pc /\ p.st # "OK"
      BY <2>3, <3>2, ZenonT(60) DEF StartStates
    <3> QED BY <2>3, <3>3 DEF IsOk
  <2>8. CASE broken \notin {"uart init", "uart start"}
    <3>1. d = [q EXCEPT !.uart = "started", !.st = "OK"]
      BY <2>3, <2>4, <2>8 DEF DriversOpen, Ok, StartStates
    <3>2. p = [q EXCEPT !.uart = "started", !.st = "OK"]
      BY <2>3, <2>5, <3>1 DEF IsOk, StartStates
    <3>3. /\ p \in StartStates /\ p.ran = q.ran /\ p.refused = q.refused /\ p.pc = q.pc
          /\ p.pm = q.pm /\ p.walls = q.walls /\ p.irq = q.irq /\ p.uart = "started"
      BY <2>3, <3>2, ZenonT(60) DEF StartStates
    <3>4. k # "raw"
      OBVIOUS
    <3> QED BY <2>3, <3>3, <3>4 DEF Opened
  <2> QED BY <2>6, <2>7, <2>8
<1> QED BY <1>1, <1>2

(***************************************************************************)
(* Asking for a reset: it happens, or it is refused.                       *)
(***************************************************************************)
LEMMA ResetAsked ==
    ASSUME NEW s, StartInv(s), NEW refuses \in BOOLEAN, NEW next \in {"policy", "wait"},
           next = "policy" => s.ran = "no"
    PROVE  StartInv(DeviceReset(s, refuses, next))
<1>0. s \in StartStates /\ s.ctors \in BOOLEAN /\ s.refused \in BOOLEAN
  BY DEF StartInv, StartStates
<1>1. CASE refuses
  <2>1. PICK e : e = [s EXCEPT !.pc = next, !.refused = TRUE]
    OBVIOUS
  <2>2. e \in StartStates
    BY <1>0, <2>1 DEF StartStates
  <2>3. e.pc = next /\ e.refused = TRUE /\ e.ran = s.ran
    BY <1>0, <2>1 DEF StartStates
  <2>4. e = DeviceReset(s, refuses, next)
    BY <1>1, <2>1 DEF DeviceReset
  <2> QED BY <2>2, <2>3, <2>4 DEF StartInv
<1>2. CASE ~refuses
  <2>1. PICK q : q = StartInit(s.ctors)
    OBVIOUS
  <2>2. q \in StartStates
    BY <1>0, <2>1, StartBegins DEF StartInv
  <2>3. q.pc = "reset" /\ q.ran = "no"
    BY <2>1 DEF StartInit
  <2>4. PICK e : e = [q EXCEPT !.refused = s.refused]
    OBVIOUS
  <2>5. e \in StartStates
    BY <1>0, <2>2, <2>4 DEF StartStates
  <2>6. e.pc = "reset" /\ e.ran = "no"
    BY <2>2, <2>3, <2>4 DEF StartStates
  <2>7. e = DeviceReset(s, refuses, next)
    BY <1>2, <2>1, <2>4 DEF DeviceReset
  <2> QED BY <2>5, <2>6, <2>7 DEF StartInv
<1> QED BY <1>1, <1>2

LEMMA StartKept ==
    ASSUME StartInv(boot), StartMoves
    PROVE  StartInv(boot')
<1>1. CASE StartCode
  BY <1>1 DEF StartCode, Starting, DplInit, StartInv, StartStates, Opened
<1>2. CASE MainOpensPort
  <2>1. PICK isolated \in BOOLEAN, broken \in {"nothing", "pm", "rm", "uart init", "uart start"} :
            LET s == PortInit(boot, isolated, broken)
            IN  boot' = [s EXCEPT !.pc = IF IsOk(s) THEN "policy" ELSE "give up"]
    BY <1>2 DEF MainOpensPort
  <2>2. PICK s : s = PortInit(boot, isolated, broken)
    OBVIOUS
  <2>3. /\ s \in StartStates /\ s.ran = boot.ran /\ s.refused = boot.refused
        /\ IsOk(s) => Opened(s)
    BY <2>2, PortOpens DEF StartInv
  <2>4. boot.ran = "no"
    BY <1>2 DEF MainOpensPort, Starting, StartInv
  <2>5. boot' = [s EXCEPT !.pc = IF IsOk(s) THEN "policy" ELSE "give up"]
    BY <2>1, <2>2
  <2>6. CASE IsOk(s)
    BY <2>3, <2>4, <2>5, <2>6 DEF StartInv, StartStates, Opened
  <2>7. CASE ~IsOk(s)
    BY <2>3, <2>4, <2>5, <2>7 DEF StartInv, StartStates, Opened
  <2> QED BY <2>6, <2>7
<1>3. CASE MainGivesUp
  <2>1. boot.ran = "no"
    BY <1>3 DEF MainGivesUp, Starting, StartInv
  <2> QED BY <1>3, <2>1, ResetAsked DEF MainGivesUp
<1>4. CASE MainRuns
  <2>1. PICK s : s = BootRun(BootInit(boot, FALSE))
    OBVIOUS
  <2>2. BootInit(boot, FALSE) = [boot EXCEPT !.ready = TRUE, !.recovery = FALSE, !.st = "OK"]
    BY DEF BootInit, Ok, StartInv, StartStates
  <2>3. s = [boot EXCEPT !.ready = TRUE, !.recovery = FALSE, !.st = "OK"]
    BY <2>1, <2>2 DEF BootRun, Ok, StartInv, StartStates
  <2>4. boot' = [s EXCEPT !.ran = "OK", !.pc = "over"]
    BY <1>4, <2>1, <2>3, ZenonT(60) DEF MainRuns, StartInv, StartStates
  <2>5. boot.pc = "policy"
    BY <1>4 DEF MainRuns, Starting
  <2> QED BY <2>3, <2>4, <2>5 DEF StartInv, StartStates, Opened
<1>5. CASE MainResets
  BY <1>5, ResetAsked DEF MainResets
<1> QED BY <1>1, <1>2, <1>3, <1>4, <1>5 DEF StartMoves

-----------------------------------------------------------------------------
(* Choosing and starting an image.                                         *)

EntryTypes == {"INVALID", "PRIMARY_APP", "SECONDARY_APP"}
Entries == [type : EntryTypes, offset : Addresses32, size : Addresses32]
Images == [load : Addresses32, size : Addresses32, entry : Addresses32]
Ports == [prepared : BOOLEAN, jumped : BOOLEAN, reset : BOOLEAN, entry : Addresses32 \cup {None}]
Places == {"start", "header", "entries", "image", "prepare", "jump", "refused", "gone"}
Answers == {"OK", "INVALID_STATE", "NO_BOOTABLE_IMAGE", "INVALID_PARTITION", "CRC_MISMATCH", "INVALID_ARGUMENT",
            "INVALID_IMAGE", "HANDOFF"}

LoaderStates ==
    [kind : {"loader"}, pc : Places, st : Answers, storage : StorageSizes, mem : MemoryStarts \X {MemorySize},
     where : {"fake", "am243x"}, ready : BOOLEAN, recovery : BOOLEAN, out : [n : Nat, entries : Seq(Entries)],
     found : Entries, image : Images, port : Ports]

EndOfEntry(e) == e.offset + e.size
Apart(d, e) == EndOfEntry(d) <= e.offset \/ EndOfEntry(e) <= d.offset

\* The entries of a table that was accepted so far: each in the storage, any two disjoint.
TableInOrder(t, storage) ==
    /\ \A i \in 1..Len(t) : EndOfEntry(t[i]) <= storage
    /\ \A i, j \in 1..Len(t) : i < j => Apart(t[i], t[j])

ImageFits(i, mem) ==
    /\ mem[1] <= i.load /\ i.load + i.size <= mem[1] + mem[2]
    /\ i.entry \in i.load..i.load + i.size - 1

LoaderInv(l) ==
    /\ l \in LoaderStates
    /\ 2 * l.storage < Word => TableInOrder(l.out.entries, l.storage) /\ EndOfEntry(l.found) <= l.storage
    /\ l.image # NoImage => ImageFits(l.image, l.mem)
    /\ l.port.jumped => l.pc = "gone"
    /\ l.port.jumped /\ l.where = "fake" => l.port.entry = l.image.entry

LoaderMoves == \/ LoaderStarts \/ LoaderReadsHeader \/ LoaderReadsEntry \/ LoaderLooksUp
               \/ LoaderReadsImage \/ LoaderPrepares \/ LoaderJumps \/ LoaderResets

(***************************************************************************)
(* The remainder of the sum of two words.                                  *)
(***************************************************************************)
LEMMA SumWraps ==
    ASSUME NEW a \in Nat, NEW b \in Nat, a <= Word, b <= Word
    PROVE  /\ Sum32(a, b) \in 0..Word - 1
           /\ a + b < Word => Sum32(a, b) = a + b
           /\ a + b >= Word /\ a + b < 2 * Word => Sum32(a, b) = a + b - Word
<1>1. Word \in Nat \ {0}
  BY BootAssumption
<1>2. PICK n \in Nat : n = a + b
  OBVIOUS
<1>3. /\ n % Word \in 0..Word - 1
      /\ n < Word => n % Word = n
      /\ n >= Word /\ n < 2 * Word => n % Word = n - Word
  BY <1>1
<1>4. Sum32(a, b) = n % Word
  BY <1>2 DEF Sum32
<1> QED BY <1>1, <1>2, <1>3, <1>4

(***************************************************************************)
(* xBOOT_Image_Validate_Bounds: an image whose end or whose memory passes  *)
(* the last address is refused, so the sums that it compares are true.     *)
(***************************************************************************)
LEMMA BoundsHold ==
    ASSUME NEW i \in Images, NEW mem \in MemoryStarts \X {MemorySize}, ValidateBounds(i, mem)
    PROVE  ImageFits(i, mem)
<1>1. PICK a, n, e \in Addresses32 : a = i.load /\ n = i.size /\ e = i.entry
  BY DEF Images
<1>2. PICK s \in MemoryStarts : s = mem[1] /\ mem[2] = MemorySize
  OBVIOUS
<1>3. /\ Word \in Nat \ {0} /\ MemorySize \in Nat \ {0} /\ MemorySize < Word
      /\ s \in 0..Word - 1
  BY <1>2, BootAssumption
<1>4. /\ a >= s /\ n <= MemorySize /\ Sum32(a, n) >= a /\ Sum32(a, n) <= Sum32(s, MemorySize)
      /\ e >= a /\ e < Sum32(a, n)
  BY <1>1, <1>2 DEF ValidateBounds
<1>5. a \in 0..Word - 1 /\ n \in 0..Word - 1 /\ e \in 0..Word - 1
  BY <1>1 DEF Addresses32
<1>6. /\ Sum32(a, n) = a + n \/ Sum32(a, n) = a + n - Word
      /\ Sum32(s, MemorySize) = s + MemorySize \/ Sum32(s, MemorySize) = s + MemorySize - Word
  <2>1. a \in Nat /\ n \in Nat /\ s \in Nat /\ a < Word /\ n < Word /\ s < Word
    BY <1>3, <1>5
  <2>2. a + n < 2 * Word /\ s + MemorySize < 2 * Word
    BY <1>3, <2>1
  <2>3. Sum32(a, n) = a + n \/ Sum32(a, n) = a + n - Word
    BY <1>3, <2>1, <2>2, SumWraps
  <2>4. Sum32(s, MemorySize) = s + MemorySize \/ Sum32(s, MemorySize) = s + MemorySize - Word
    BY <1>3, <2>1, <2>2, SumWraps
  <2> QED BY <2>3, <2>4
<1>7. Sum32(a, n) = a + n
  BY <1>3, <1>4, <1>5, <1>6
<1>8. Sum32(s, MemorySize) = s + MemorySize
  BY <1>3, <1>4, <1>5, <1>6, <1>7
<1> QED BY <1>1, <1>2, <1>3, <1>4, <1>5, <1>7, <1>8 DEF ImageFits

(***************************************************************************)
(* An entry that parses without an error lies in the storage and apart     *)
(* from those before it, where no sum of the table passes a word.          *)
(***************************************************************************)
LEMMA EntryAccepted ==
    ASSUME NEW storage \in StorageSizes, 2 * storage < Word, NEW t \in Seq(Entries), TableInOrder(t, storage),
           NEW e \in Entries, ValidateEntry(e, storage), ~CheckOverlap(e, t)
    PROVE  TableInOrder(Append(t, e), storage)
<1>1. Word \in Nat \ {0} /\ storage \in 1..Word - 1
  BY BootAssumption
<1>2. e.offset \in 0..Word - 1 /\ e.size \in 0..Word - 1
  BY DEF Entries, Addresses32
<1>3. e.offset <= storage /\ e.size <= storage /\ Sum32(e.offset, e.size) <= storage
  BY DEF ValidateEntry
<1>4. Sum32(e.offset, e.size) = EndOfEntry(e) /\ EndOfEntry(e) <= storage
  <2>1. PICK a, n \in Nat : a = e.offset /\ n = e.size
    BY <1>2
  <2>2. a <= Word /\ n <= Word /\ a + n < Word
    BY <1>1, <1>2, <1>3, <2>1
  <2>3. Sum32(a, n) = a + n
    BY <2>2, SumWraps
  <2> QED BY <1>3, <2>1, <2>3 DEF EndOfEntry
<1>5. ASSUME NEW i \in 1..Len(t) PROVE Apart(t[i], e)
  <2>1. PICK d \in Entries : d = t[i]
    OBVIOUS
  <2>2. d.offset \in 0..Word - 1 /\ d.size \in 0..Word - 1 /\ EndOfEntry(d) <= storage
    BY <2>1 DEF Entries, Addresses32, TableInOrder
  <2>3. Sum32(d.offset, d.size) = EndOfEntry(d)
    <3>1. PICK a, n \in Nat : a = d.offset /\ n = d.size
      BY <2>2
    <3>2. a <= Word /\ n <= Word /\ a + n < Word
      BY <1>1, <2>2, <3>1 DEF EndOfEntry
    <3>3. Sum32(a, n) = a + n
      BY <3>2, SumWraps
    <3> QED BY <3>1, <3>3 DEF EndOfEntry
  <2>4. ~(e.offset < Sum32(d.offset, d.size) /\ d.offset < Sum32(e.offset, e.size))
    BY <2>1 DEF CheckOverlap
  <2> QED BY <1>2, <1>4, <2>1, <2>2, <2>3, <2>4 DEF Apart, EndOfEntry
<1>6. PICK r : r = Append(t, e)
  OBVIOUS
<1>7. /\ Len(r) = Len(t) + 1 /\ r[Len(t) + 1] = e
      /\ \A i \in 1..Len(t) : r[i] = t[i]
  BY <1>6
<1>8. PICK n \in Nat : n = Len(t)
  OBVIOUS
<1>9. \A i \in 1..n + 1 : i \in 1..n \/ i = n + 1
  OBVIOUS
<1>10. \A i \in 1..n + 1 : EndOfEntry(r[i]) <= storage
  BY <1>4, <1>7, <1>8, <1>9 DEF TableInOrder
<1>11. ASSUME NEW i \in 1..n + 1, NEW j \in 1..n + 1, i < j PROVE Apart(r[i], r[j])
  <2>1. i \in 1..n
    BY <1>11
  <2>2. CASE j \in 1..n
    BY <1>7, <1>8, <1>11, <2>1, <2>2 DEF TableInOrder
  <2>3. CASE j = n + 1
    BY <1>5, <1>7, <1>8, <2>1, <2>3
  <2> QED BY <1>9, <2>2, <2>3
<1> QED BY <1>6, <1>7, <1>8, <1>10, <1>11 DEF TableInOrder

(***************************************************************************)
(* A set of numbers that has members has a least one (First).              *)
(***************************************************************************)
LEMMA FirstIsMember ==
    ASSUME NEW S \in SUBSET Nat, S # {}
    PROVE  First(S) \in S
<1>1. PICK x \in S : \A y \in S : ~ (<<y, x>> \in OpToRel(<, Nat))
  BY NatLessThanWellFounded, WFMin
<1>2. ASSUME NEW y \in S PROVE x <= y
  <2>1. <<y, x>> \in Nat \X Nat /\ ~ (<<y, x>> \in OpToRel(<, Nat))
    BY <1>1
  <2>2. ~ (y < x)
    BY <2>1 DEF OpToRel
  <2> QED BY <2>2
<1> QED BY <1>2 DEF First

(***************************************************************************)
(* Going on or giving up keeps the invariant: a caller that gives up       *)
(* forgets its table.                                                      *)
(***************************************************************************)
LEMMA OnwardKeeps ==
    ASSUME NEW l, LoaderInv(l), ~l.port.jumped, NEW pc \in Places \ {"refused"}
    PROVE  LoaderInv(Onward(l, pc))
<1>1. CASE IsOk(l)
  <2>1. Onward(l, pc) = [l EXCEPT !.pc = pc]
    BY <1>1 DEF Onward
  <2> QED BY <2>1 DEF LoaderInv, LoaderStates
<1>2. CASE ~IsOk(l)
  <2>1. Onward(l, pc) = [l EXCEPT !.pc = "refused", !.out = NoTable]
    BY <1>2 DEF Onward
  <2>2. PICK t : t = NoTable.entries
    OBVIOUS
  <2>3. NoTable \in [n : Nat, entries : Seq(Entries)] /\ Len(t) = 0
    BY <2>2 DEF NoTable
  <2>4. TableInOrder(t, l.storage)
    BY <2>3 DEF TableInOrder
  <2> QED BY <2>1, <2>2, <2>3, <2>4, ZenonT(60) DEF LoaderInv, LoaderStates, Places
<1> QED BY <1>1, <1>2

(***************************************************************************)
(* An answer changes nothing else.                                         *)
(***************************************************************************)
LEMMA AnswerKeeps ==
    ASSUME NEW l, LoaderInv(l), NEW st \in Answers
    PROVE  /\ LoaderInv(Failed(l, st)) /\ (Failed(l, st)).port = l.port
           /\ LoaderInv(Ok(l)) /\ (Ok(l)).port = l.port
BY SMTT(60) DEF LoaderInv, LoaderStates, Failed, Ok, Answers

LEMMA LoaderBegins ==
    ASSUME NEW storage \in StorageSizes, NEW start \in MemoryStarts, NEW where \in {"fake", "am243x"}
    PROVE  LoaderInv(LoaderInit(storage, start, where))
<1>1. PICK l : l = LoaderInit(storage, start, where)
  OBVIOUS
<1>2. Word \in Nat \ {0} /\ storage \in 1..Word - 1
  BY BootAssumption
<1>3. NoEntry \in Entries /\ NoImage \in Images
  BY <1>2 DEF NoEntry, NoImage, Entries, Images, EntryTypes, Addresses32
<1>4. <<>> \in Seq(Entries)
  OBVIOUS
<1>5. /\ l.kind = "loader" /\ l.storage = storage /\ l.out.entries = <<>> /\ l.found = NoEntry /\ l.image = NoImage
      /\ l.port.jumped = FALSE
  BY <1>1 DEF LoaderInit
<1>6. l \in LoaderStates
  BY <1>1, <1>3, <1>4 DEF LoaderInit, LoaderStates, Places, Answers, Ports, None
<1>7. TableInOrder(<<>>, storage)
  BY DEF TableInOrder
<1>8. EndOfEntry(NoEntry) <= storage
  BY <1>2 DEF EndOfEntry, NoEntry
<1> QED BY <1>1, <1>5, <1>6, <1>7, <1>8 DEF LoaderInv

(***************************************************************************)
(* The table: a header starts it, an entry that is answered OK extends it, *)
(* a look-up takes one of its entries out of it.                           *)
(***************************************************************************)
LEMMA TableKept ==
    ASSUME LoaderInv(boot), LoaderReadsHeader \/ LoaderReadsEntry \/ LoaderLooksUp
    PROVE  LoaderInv(boot')
<1>0. PICK g : g = boot
  OBVIOUS
<1>1. ~g.port.jumped
  BY <1>0 DEF LoaderReadsHeader, LoaderReadsEntry, LoaderLooksUp, LoaderAt, LoaderInv
<1>2. LoaderInv(g) /\ g \in LoaderStates
  BY <1>0 DEF LoaderInv
<1>3. CASE LoaderReadsHeader
  <2>1. PICK wrong \in {"nothing", "magic", "version", "crc"}, n \in 0..MaxPartitions + 1 :
               boot' = Onward(ParseHeader(g, wrong, n), "entries")
    BY <1>0, <1>3 DEF LoaderReadsHeader
  <2>2. PICK st : st = ValidateHeader(wrong, n)
    OBVIOUS
  <2>3. st \in Answers
    BY <2>2 DEF ValidateHeader, Answers
  <2>4. CASE st = "OK"
    <3>1. ParseHeader(g, wrong, n) = Ok([g EXCEPT !.out = [n |-> n, entries |-> <<>>]])
      BY <2>2, <2>4 DEF ParseHeader
    <3>2. PICK q : q = [g EXCEPT !.out = [n |-> n, entries |-> <<>>]]
      OBVIOUS
    <3>3. n \in Nat
      BY BootAssumption
    <3>4. [n |-> n, entries |-> <<>>] \in [n : Nat, entries : Seq(Entries)]
      BY <3>3
    <3>5. TableInOrder(<<>>, g.storage)
      BY DEF TableInOrder
    <3>6. LoaderInv(q) /\ q.port = g.port
      BY <1>2, <3>2, <3>4, <3>5 DEF LoaderInv, LoaderStates
    <3> QED BY <1>1, <2>1, <3>1, <3>2, <3>6, AnswerKeeps, OnwardKeeps DEF Answers, Places
  <2>5. CASE st # "OK"
    <3>1. ParseHeader(g, wrong, n) = Failed(g, st)
      BY <2>2, <2>5 DEF ParseHeader
    <3> QED BY <1>1, <1>2, <2>1, <2>3, <3>1, AnswerKeeps, OnwardKeeps DEF Places
  <2> QED BY <2>4, <2>5
<1>4. CASE LoaderReadsEntry
  <2>1. PICK e \in Entries : boot' = Onward(ParseEntry(g, e), "entries")
    BY <1>0, <1>4 DEF LoaderReadsEntry, Entries, EntryTypes
  <2>2. PICK t \in Seq(Entries), n \in Nat : g.out = [n |-> n, entries |-> t]
    BY <1>2 DEF LoaderStates
  <2>3. PICK u \in Seq(Entries) : u = Append(t, e)
    <3>1. Append(t, e) \in Seq(Entries)
      OBVIOUS
    <3> QED BY <3>1
  <2>4. PICK s : s = [g EXCEPT !.out = [n |-> n, entries |-> u]]
    OBVIOUS
  <2>5. s = [g EXCEPT !.out.entries = Append(@, e)]
    <3>1. g.out.entries = t
      BY <2>2
    <3>2. PICK o : o = [g.out EXCEPT !.entries = u]
      OBVIOUS
    <3>3. o = [n |-> n, entries |-> u]
      BY <2>2, <3>2
    <3>4. [g EXCEPT !.out.entries = Append(@, e)] = [g EXCEPT !.out = o]
      BY <1>2, <2>3, <3>1, <3>2 DEF LoaderStates
    <3> QED BY <2>4, <3>3, <3>4
  <2>6. s \in LoaderStates
    BY <1>2, <2>3, <2>4 DEF LoaderStates
  <2>7. /\ s.out.entries = u /\ s.storage = g.storage /\ s.found = g.found /\ s.image = g.image /\ s.mem = g.mem
        /\ s.port = g.port /\ s.where = g.where /\ s.pc = g.pc
    BY <1>2, <2>4 DEF LoaderStates
  <2>8. CASE ~ValidateEntry(e, g.storage) \/ CheckOverlap(e, t)
    <3>1. PICK r : r = Onward(ParseEntry(g, e), "entries")
      OBVIOUS
    <3>2. ParseEntry(g, e) = Failed(s, "INVALID_PARTITION")
      BY <2>2, <2>5, <2>8 DEF ParseEntry
    <3>3. (Failed(s, "INVALID_PARTITION")).st = "INVALID_PARTITION"
      BY <2>6 DEF Failed, LoaderStates
    <3>4. r = [Failed(s, "INVALID_PARTITION") EXCEPT !.pc = "refused", !.out = NoTable]
      BY <3>1, <3>2, <3>3 DEF Onward, IsOk
    <3>5. r = [g EXCEPT !.st = "INVALID_PARTITION", !.pc = "refused", !.out = NoTable]
      BY <1>2, <2>4, <3>4 DEF Failed, LoaderStates
    <3>6. PICK q : q = Onward(Failed(g, "INVALID_PARTITION"), "entries")
      OBVIOUS
    <3>7. (Failed(g, "INVALID_PARTITION")).st = "INVALID_PARTITION"
      BY <1>2 DEF Failed, LoaderStates
    <3>8. q = [Failed(g, "INVALID_PARTITION") EXCEPT !.pc = "refused", !.out = NoTable]
      BY <3>6, <3>7 DEF Onward, IsOk
    <3>9. q = r
      BY <1>2, <3>5, <3>8 DEF Failed, LoaderStates
    <3> QED BY <1>1, <1>2, <2>1, <3>1, <3>6, <3>9, AnswerKeeps, OnwardKeeps DEF Answers, Places
  <2>9. CASE ValidateEntry(e, g.storage) /\ ~CheckOverlap(e, t)
    <3>1. ParseEntry(g, e) = Ok(s)
      BY <2>2, <2>5, <2>9 DEF ParseEntry
    <3>2. ASSUME 2 * g.storage < Word PROVE TableInOrder(u, g.storage)
      <4>1. g.storage \in StorageSizes
        BY <1>2 DEF LoaderStates
      <4>2. TableInOrder(t, g.storage)
        BY <1>2, <2>2, <3>2 DEF LoaderInv
      <4> QED BY <2>3, <2>9, <3>2, <4>1, <4>2, EntryAccepted
    <3>3. LoaderInv(s)
      BY <1>2, <2>6, <2>7, <3>2 DEF LoaderInv
    <3> QED BY <1>1, <2>1, <2>7, <3>1, <3>3, AnswerKeeps, OnwardKeeps DEF Answers, Places
  <2> QED BY <2>8, <2>9
<1>5. CASE LoaderLooksUp
  <2>1. PICK slot \in 0..2 : boot' = [Onward(LookupSlot(g, slot), "image") EXCEPT !.out = NoTable]
    BY <1>0, <1>5 DEF LoaderLooksUp
  <2>2. PICK l : l = LookupSlot(g, slot)
    OBVIOUS
  <2>3. ASSUME NEW type \in EntryTypes
        PROVE  LoaderInv(LookupType(g, type)) /\ (LookupType(g, type)).port = g.port
    <3> DEFINE Of == {i \in DOMAIN g.out.entries : g.out.entries[i].type = type}
    <3>1. CASE Of = {}
      BY <1>2, <3>1, AnswerKeeps DEF LookupType, Answers
    <3>2. CASE Of # {}
      <4>1. PICK t \in Seq(Entries) : t = g.out.entries
        BY <1>2 DEF LoaderStates
      <4>2. Of \in SUBSET Nat
        BY <4>1
      <4>3. PICK i : i = First(Of)
        OBVIOUS
      <4>4. i \in 1..Len(t)
        <5>1. First(Of) \in Of
          BY <3>2, <4>2, FirstIsMember
        <5> QED BY <4>1, <4>3, <5>1
      <4>5. PICK e \in Entries : e = t[i]
        BY <4>1, <4>4
      <4>6. LookupType(g, type) = Ok([g EXCEPT !.found = e])
        BY <3>2, <4>1, <4>3, <4>5 DEF LookupType
      <4>7. 2 * g.storage < Word => EndOfEntry(e) <= g.storage
        BY <1>2, <4>1, <4>4, <4>5 DEF LoaderInv, TableInOrder
      <4>8. PICK q : q = [g EXCEPT !.found = e]
        OBVIOUS
      <4>9. LoaderInv(q) /\ q.port = g.port
        BY <1>2, <4>7, <4>8 DEF LoaderInv, LoaderStates
      <4> QED BY <4>6, <4>8, <4>9, AnswerKeeps DEF Answers
    <3> QED BY <3>1, <3>2
  <2>4. LoaderInv(l) /\ l.port = g.port
    <3>1. CASE slot = 0
      BY <2>2, <2>3, <3>1 DEF LookupSlot, EntryTypes
    <3>2. CASE slot = 1
      BY <2>2, <2>3, <3>2 DEF LookupSlot, EntryTypes
    <3>3. CASE slot = 2
      BY <1>2, <2>2, <3>3, AnswerKeeps DEF LookupSlot, Answers
    <3> QED BY <3>1, <3>2, <3>3
  <2>5. PICK q : q = Onward(l, "image")
    OBVIOUS
  <2>6. LoaderInv(q)
    BY <1>1, <2>4, <2>5, OnwardKeeps DEF Places
  <2>7. boot' = [q EXCEPT !.out = NoTable]
    BY <2>1, <2>2, <2>5
  <2>8. PICK t : t = NoTable.entries
    OBVIOUS
  <2>9. NoTable \in [n : Nat, entries : Seq(Entries)] /\ Len(t) = 0
    BY <2>8 DEF NoTable
  <2>10. TableInOrder(t, q.storage)
    BY <2>9 DEF TableInOrder
  <2> QED BY <2>6, <2>7, <2>8, <2>9, <2>10 DEF LoaderInv, LoaderStates
<1> QED BY <1>3, <1>4, <1>5

(***************************************************************************)
(* The image and its start.                                                *)
(***************************************************************************)
LEMMA ImageKept ==
    ASSUME LoaderInv(boot), LoaderStarts \/ LoaderReadsImage \/ LoaderPrepares \/ LoaderJumps \/ LoaderResets
    PROVE  LoaderInv(boot')
<1>0. PICK g : g = boot
  OBVIOUS
<1>1. ~g.port.jumped
  BY <1>0 DEF LoaderStarts, LoaderReadsImage, LoaderPrepares, LoaderJumps, LoaderResets, LoaderAt, LoaderInv
<1>2. LoaderInv(g) /\ g \in LoaderStates
  BY <1>0 DEF LoaderInv
<1>3. CASE LoaderStarts
  <2>1. PICK recovery \in BOOLEAN : boot' = Onward(BootRun(BootInit(g, recovery)), "header")
    BY <1>0, <1>3 DEF LoaderStarts
  <2>2. PICK q : q = [g EXCEPT !.ready = TRUE, !.recovery = recovery]
    OBVIOUS
  <2>3. LoaderInv(q) /\ q.port = g.port
    BY <1>2, <2>2 DEF LoaderInv, LoaderStates
  <2>4. PICK l : l = BootInit(g, recovery)
    OBVIOUS
  <2>5. LoaderInv(l) /\ l.port = g.port
    BY <2>2, <2>3, <2>4, AnswerKeeps DEF BootInit, Answers
  <2>6. BootRun(l) = Ok(l) \/ \E st \in Answers : BootRun(l) = Failed(l, st)
    BY DEF BootRun, Answers
  <2>7. LoaderInv(BootRun(l)) /\ (BootRun(l)).port = g.port
    BY <2>5, <2>6, AnswerKeeps DEF Answers
  <2> QED BY <1>1, <2>1, <2>4, <2>7, OnwardKeeps DEF Places
<1>4. CASE LoaderReadsImage
  <2>1. \/ \E i \in Images :
              LET l == HeaderParse(g, "nothing", i)
              IN  boot' = Onward(IF ValidateBounds(l.image, l.mem) THEN l
                                 ELSE Failed([l EXCEPT !.image = NoImage], "INVALID_IMAGE"), "prepare")
        \/ \E wrong \in {"magic", "version", "size", "crc"} : boot' = Onward(HeaderParse(g, wrong, NoImage), "prepare")
    BY <1>0, <1>4 DEF LoaderReadsImage, Images
  <2>2. ASSUME NEW wrong \in {"magic", "version", "size", "crc"},
               boot' = Onward(HeaderParse(g, wrong, NoImage), "prepare")
        PROVE  LoaderInv(boot')
    <3>1. \E st \in Answers : HeaderParse(g, wrong, NoImage) = Failed(g, st)
      BY DEF HeaderParse, Answers
    <3> QED BY <1>1, <1>2, <2>2, <3>1, AnswerKeeps, OnwardKeeps DEF Places
  <2>3. ASSUME NEW i \in Images,
               LET l == HeaderParse(g, "nothing", i)
               IN  boot' = Onward(IF ValidateBounds(l.image, l.mem) THEN l
                                  ELSE Failed([l EXCEPT !.image = NoImage], "INVALID_IMAGE"), "prepare")
        PROVE  LoaderInv(boot')
    <3>1. PICK l : l = HeaderParse(g, "nothing", i)
      OBVIOUS
    <3>2. l = [g EXCEPT !.image = i, !.st = "OK"]
      BY <1>2, <3>1 DEF HeaderParse, Ok, LoaderStates
    <3>3. l \in LoaderStates /\ l.image = i /\ l.mem = g.mem /\ l.port = g.port
      BY <1>2, <3>2 DEF LoaderStates, Answers
    <3>4. CASE ValidateBounds(i, g.mem)
      <4>1. boot' = Onward(l, "prepare")
        BY <2>3, <3>1, <3>3, <3>4
      <4>2. ImageFits(i, g.mem)
        BY <1>2, <3>4, BoundsHold DEF LoaderStates
      <4>3. LoaderInv(l)
        BY <1>1, <1>2, <3>2, <3>3, <4>2 DEF LoaderInv, LoaderStates
      <4> QED BY <1>1, <3>3, <4>1, <4>3, OnwardKeeps DEF Places
    <3>5. CASE ~ValidateBounds(i, g.mem)
      <4>1. PICK q : q = [l EXCEPT !.image = NoImage]
        OBVIOUS
      <4>2. boot' = Onward(Failed(q, "INVALID_IMAGE"), "prepare")
        BY <2>3, <3>1, <3>3, <3>5, <4>1
      <4>3. NoImage \in Images
        BY BootAssumption DEF NoImage, Images, Addresses32
      <4>4. LoaderInv(q) /\ q.port = g.port
        BY <1>1, <1>2, <3>2, <3>3, <4>1, <4>3 DEF LoaderInv, LoaderStates
      <4> QED BY <1>1, <4>2, <4>4, AnswerKeeps, OnwardKeeps DEF Answers, Places
    <3> QED BY <3>4, <3>5
  <2> QED BY <2>1, <2>2, <2>3
<1>5. PICK e \in Addresses32 : e = g.image.entry
  BY <1>2 DEF LoaderStates, Images
<1>6. PICK p \in Ports : p = g.port
  BY <1>2 DEF LoaderStates
<1>7. CASE LoaderPrepares
  <2>1. PICK fails \in BOOLEAN : boot' = Onward(HandoffPrepare(g, e, fails), "jump")
    BY <1>0, <1>5, <1>7 DEF LoaderPrepares
  <2>2. ASSUME NEW q, NEW r \in Ports, q = [g EXCEPT !.port = r], ~r.jumped
        PROVE  LoaderInv(q) /\ ~q.port.jumped
    BY <1>2, <2>2 DEF LoaderInv, LoaderStates
  <2>3. CASE g.where = "fake"
    <3>1. PICK r : r = [p EXCEPT !.prepared = TRUE, !.entry = e]
      OBVIOUS
    <3>2. r \in Ports /\ r.jumped = p.jumped
      BY <3>1 DEF Ports
    <3>3. PICK s : s = [g EXCEPT !.port = r]
      OBVIOUS
    <3>4. s = [g EXCEPT !.port.prepared = TRUE, !.port.entry = e]
      BY <1>2, <1>6, <3>1, <3>3 DEF LoaderStates, Ports
    <3>5. HandoffPrepare(g, e, fails) = IF fails THEN Failed(s, "HANDOFF") ELSE Ok(s)
      BY <2>3, <3>4 DEF HandoffPrepare, FakePrepare
    <3>6. LoaderInv(s) /\ ~s.port.jumped
      BY <1>1, <1>6, <2>2, <3>2, <3>3
    <3> QED BY <2>1, <3>5, <3>6, AnswerKeeps, OnwardKeeps DEF Answers, Places
  <2>4. CASE g.where # "fake"
    <3>1. PICK r : r = [p EXCEPT !.prepared = TRUE]
      OBVIOUS
    <3>2. r \in Ports /\ r.jumped = p.jumped
      BY <3>1 DEF Ports
    <3>3. PICK s : s = [g EXCEPT !.port = r]
      OBVIOUS
    <3>4. s = [g EXCEPT !.port.prepared = TRUE]
      BY <1>2, <1>6, <3>1, <3>3 DEF LoaderStates, Ports
    <3>5. HandoffPrepare(g, e, fails) = Ok(s)
      BY <2>4, <3>4 DEF HandoffPrepare, Am243xPrepare
    <3>6. LoaderInv(s) /\ ~s.port.jumped
      BY <1>1, <1>6, <2>2, <3>2, <3>3
    <3> QED BY <2>1, <3>5, <3>6, AnswerKeeps, OnwardKeeps DEF Answers, Places
  <2> QED BY <2>3, <2>4
<1>8. CASE LoaderJumps
  <2>1. boot' = [HandoffJump(g, e) EXCEPT !.pc = "gone"]
    BY <1>0, <1>5, <1>8 DEF LoaderJumps
  <2>2. CASE g.where = "fake"
    <3>1. PICK r : r = [p EXCEPT !.jumped = TRUE, !.entry = e]
      OBVIOUS
    <3>2. r \in Ports /\ r.entry = e
      BY <3>1 DEF Ports
    <3>3. HandoffJump(g, e) = [g EXCEPT !.port = r]
      BY <1>2, <1>6, <2>2, <3>1 DEF HandoffJump, FakeJump, LoaderStates, Ports
    <3>4. boot' = [g EXCEPT !.port = r, !.pc = "gone"]
      BY <1>2, <2>1, <3>3 DEF LoaderStates
    <3> QED BY <1>2, <1>5, <3>2, <3>4 DEF LoaderInv, LoaderStates, Places
  <2>3. CASE g.where # "fake"
    <3>1. PICK r : r = [p EXCEPT !.jumped = TRUE]
      OBVIOUS
    <3>2. r \in Ports
      BY <3>1 DEF Ports
    <3>3. HandoffJump(g, e) = [g EXCEPT !.port = r]
      BY <1>2, <1>6, <2>3, <3>1 DEF HandoffJump, Am243xJump, LoaderStates, Ports
    <3>4. boot' = [g EXCEPT !.port = r, !.pc = "gone"]
      BY <1>2, <2>1, <3>3 DEF LoaderStates
    <3> QED BY <1>2, <2>3, <3>2, <3>4 DEF LoaderInv, LoaderStates, Places
  <2> QED BY <2>2, <2>3
<1>9. CASE LoaderResets
  <2>1. PICK r : r = [p EXCEPT !.reset = TRUE]
    OBVIOUS
  <2>2. r \in Ports /\ r.jumped = p.jumped
    BY <2>1 DEF Ports
  <2>3. HandoffReset(g) = [g EXCEPT !.port = r]
    BY <1>2, <1>6, <2>1 DEF HandoffReset, FakeReset, LoaderStates, Ports
  <2>4. boot' = [g EXCEPT !.port = r, !.pc = "gone"]
    BY <1>0, <1>2, <1>9, <2>3 DEF LoaderResets, LoaderStates
  <2> QED BY <1>1, <1>2, <1>6, <2>2, <2>4 DEF LoaderInv, LoaderStates, Places
<1> QED BY <1>3, <1>4, <1>7, <1>8, <1>9

LEMMA LoaderKept ==
    ASSUME LoaderInv(boot), LoaderMoves
    PROVE  LoaderInv(boot')
BY TableKept, ImageKept DEF LoaderMoves

-----------------------------------------------------------------------------
(* The storage interface over the fake flash.                              *)

CellNumbers == 0..2 * SectorBytes - 1
Memory == [CellNumbers -> SUBSET Bits]

FlashStates ==
    [kind : {"flash"}, size : {2 * SectorBytes}, ops : SUBSET {"read", "write", "erase"},
     st : {"OK", "INVALID_ARGUMENT", "UNSUPPORTED", "STORAGE_READ", "STORAGE_WRITE", "STORAGE_ERASE"},
     fail : SUBSET {"read", "write", "erase"}, cell : Memory, want : Memory, got : Seq(SUBSET Bits), stray : BOOLEAN,
     end : Nat]

FlashInv(f) == f \in FlashStates /\ FlashTruth(f)

FlashMoves == FlashReads \/ FlashWrites \/ FlashErases \/ FlashFlushes \/ FlashBreaks

LEMMA FlashBegins ==
    ASSUME NEW ops \in {{"read"}, {"read", "write", "erase"}}
    PROVE  FlashInv(FlashInit(2 * SectorBytes, ops))
<1>1. PICK f : f = FlashInit(2 * SectorBytes, ops)
  OBVIOUS
<1>2. SectorBytes \in Nat \ {0}
  BY BootAssumption
<1>3. PICK m \in Memory : m = [i \in 0..2 * SectorBytes - 1 |-> Bits]
  BY DEF Memory, CellNumbers
<1>4. PICK st \in {"OK", "INVALID_ARGUMENT"} : st = IF OnSector(2 * SectorBytes) THEN "OK" ELSE "INVALID_ARGUMENT"
  OBVIOUS
<1>5. <<>> \in Seq(SUBSET Bits)
  OBVIOUS
<1>6. f = [kind |-> "flash", size |-> 2 * SectorBytes, ops |-> ops, st |-> st, fail |-> {}, cell |-> m, want |-> m,
           got |-> <<>>, stray |-> FALSE, end |-> 0]
  BY <1>1, <1>3, <1>4 DEF FlashInit
<1>7. f \in FlashStates
  BY <1>4, <1>5, <1>6 DEF FlashStates
<1>8. f.cell = f.want /\ f.stray = FALSE
  BY <1>6
<1> QED BY <1>1, <1>7, <1>8 DEF FlashInv, FlashTruth

(***************************************************************************)
(* A range that is let through although it leaves the buffer ends beyond   *)
(* the last address.                                                       *)
(***************************************************************************)
LEMMA StrayPassesTheTop ==
    ASSUME NEW f \in FlashStates, NEW offset \in Addresses32, NEW n \in Nat, n <= 4,
           Fits(f, offset, n), Straying(f, offset, n)
    PROVE  offset + n \in Nat /\ offset + n >= Word
<1>1. Word \in Nat \ {0} /\ SectorBytes \in Nat \ {0} /\ f.size = 2 * SectorBytes /\ offset \in 0..Word - 1
  BY BootAssumption DEF FlashStates, Addresses32
<1>2. PICK k \in offset..offset + n - 1 : k \notin 0..f.size - 1
  BY DEF Straying, Stretch, Cells
<1>3. PICK e \in Nat : e = offset + n
  BY <1>1
<1>4. e > f.size
  BY <1>1, <1>2, <1>3
<1>5. e < Word => e % Word = e
  BY <1>1, <1>3
<1>6. e % Word <= f.size
  BY <1>3 DEF Fits, Sum32
<1> QED BY <1>1, <1>3, <1>4, <1>5, <1>6

(***************************************************************************)
(* A call leaves the cells alone, or leaves the buffer, or is answered OK  *)
(* with its cells changed as told.                                         *)
(***************************************************************************)
Refusal(f, g) == \E st \in {"INVALID_ARGUMENT", "UNSUPPORTED", "STORAGE_READ", "STORAGE_WRITE", "STORAGE_ERASE"} :
                     g = Failed(f, st)
GoesAstray(f, g, offset, n) ==
    /\ Fits(f, offset, n) /\ Straying(f, offset, n)
    /\ g = Ok([f EXCEPT !.stray = TRUE, !.end = offset + n])
Stores(f, g, offset, data) ==
    /\ ~Straying(f, offset, Len(data))
    /\ g = Ok([f EXCEPT !.cell = [i \in Cells(f) |-> IF i \in Stretch(offset, Len(data)) THEN data[i - offset + 1]
                                                     ELSE f.cell[i]]])

LEMMA RefusalKeeps ==
    ASSUME NEW f, FlashInv(f), NEW g, Refusal(f, g)
    PROVE  FlashInv(g) /\ ~IsOk(g)
BY DEF FlashInv, FlashStates, FlashTruth, Refusal, Failed, IsOk

LEMMA AstrayKeeps ==
    ASSUME NEW f, FlashInv(f), NEW offset \in Addresses32, NEW n \in Nat, n <= 4, NEW g, GoesAstray(f, g, offset, n)
    PROVE  FlashInv(g) /\ g.stray
<1>1. offset + n \in Nat /\ offset + n >= Word
  BY StrayPassesTheTop DEF FlashInv, GoesAstray
<1>2. PICK e \in Nat : e = offset + n
  BY <1>1
<1>3. g = [f EXCEPT !.stray = TRUE, !.end = e, !.st = "OK"]
  BY <1>2 DEF GoesAstray, Ok, FlashInv, FlashStates
<1>4. g \in FlashStates
  BY <1>3 DEF FlashInv, FlashStates
<1>5. g.cell = f.cell /\ g.want = f.want /\ g.end = e /\ g.stray = TRUE
  BY <1>3 DEF FlashInv, FlashStates
<1> QED BY <1>1, <1>2, <1>4, <1>5 DEF FlashInv, FlashTruth

(***************************************************************************)
(* What a read brings is not part of what is compared.                     *)
(***************************************************************************)
LEMMA GotForgotten ==
    ASSUME NEW f, FlashInv(f), NEW got \in Seq(SUBSET Bits)
    PROVE  /\ FlashInv([f EXCEPT !.got = got])
           /\ ([f EXCEPT !.got = got]).st = f.st /\ ([f EXCEPT !.got = got]).stray = f.stray
BY DEF FlashInv, FlashStates, FlashTruth

(***************************************************************************)
(* A write or an erase, with what the caller expects of it.                *)
(***************************************************************************)
LEMMA ChangeKeeps ==
    ASSUME NEW f, FlashInv(f), ~f.stray, NEW offset \in Addresses32,
           NEW n \in 1..4, NEW data \in [1..n -> SUBSET Bits], NEW g,
           Refusal(f, g) \/ GoesAstray(f, g, offset, n) \/ Stores(f, g, offset, data)
    PROVE  FlashInv(Wanting([g EXCEPT !.got = <<>>], offset, data))
<1>1. <<>> \in Seq(SUBSET Bits) /\ Len(data) = n /\ n \in Nat /\ n <= 4
  OBVIOUS
<1>2. PICK h : h = [g EXCEPT !.got = <<>>]
  OBVIOUS
<1>3. CASE Refusal(f, g)
  <2>1. FlashInv(g) /\ ~IsOk(g)
    BY <1>3, RefusalKeeps
  <2>2. FlashInv(h) /\ ~IsOk(h)
    BY <1>1, <1>2, <2>1, GotForgotten DEF IsOk
  <2>3. Wanting(h, offset, data) = h
    BY <2>2 DEF Wanting
  <2> QED BY <1>2, <2>2, <2>3
<1>4. CASE GoesAstray(f, g, offset, n)
  <2>1. FlashInv(g) /\ g.stray
    BY <1>1, <1>4, AstrayKeeps
  <2>2. FlashInv(h) /\ h.stray
    BY <1>1, <1>2, <2>1, GotForgotten
  <2>3. Wanting(h, offset, data) = h
    BY <2>2 DEF Wanting
  <2> QED BY <1>2, <2>2, <2>3
<1>5. CASE Stores(f, g, offset, data)
  <2>1. f \in FlashStates /\ f.cell = f.want /\ Cells(f) = CellNumbers
    BY DEF FlashInv, FlashTruth, FlashStates, Cells, CellNumbers
  <2>2. /\ Stretch(offset, n) \subseteq CellNumbers
        /\ offset \in Nat /\ Stretch(offset, n) = offset..offset + n - 1
    BY <1>1, <1>5, <2>1, BootAssumption DEF Stores, Straying, Stretch, Addresses32
  <2>3. \A i \in Stretch(offset, n) : i - offset + 1 \in 1..n
    BY <1>1, <2>2
  <2>4. PICK m : m = [i \in CellNumbers |-> IF i \in Stretch(offset, n) THEN data[i - offset + 1] ELSE f.cell[i]]
    OBVIOUS
  <2>5. m \in Memory
    <3>1. f.cell \in Memory
      BY <2>1 DEF FlashStates
    <3>2. ASSUME NEW i \in CellNumbers
          PROVE  (IF i \in Stretch(offset, n) THEN data[i - offset + 1] ELSE f.cell[i]) \in SUBSET Bits
      <4>1. CASE i \in Stretch(offset, n)
        <5>1. PICK k \in 1..n : k = i - offset + 1
          BY <2>3, <4>1
        <5> QED BY <4>1, <5>1
      <4>2. CASE i \notin Stretch(offset, n)
        BY <3>1, <4>2 DEF Memory
      <4> QED BY <4>1, <4>2
    <3> QED BY <2>4, <3>2 DEF Memory
  <2>6. g = [f EXCEPT !.cell = m, !.st = "OK"]
    BY <1>1, <1>5, <2>1, <2>4 DEF Stores, Ok, FlashStates
  <2>7. h = [f EXCEPT !.cell = m, !.st = "OK", !.got = <<>>]
    BY <1>2, <2>1, <2>6 DEF FlashStates
  <2>8. /\ h \in FlashStates /\ h.stray = FALSE /\ h.st = "OK" /\ h.cell = m /\ h.want = f.cell /\ h.size = f.size
    BY <1>1, <2>1, <2>5, <2>7 DEF FlashStates
  <2>9. Cells(h) = CellNumbers
    BY <2>8 DEF Cells, FlashStates, CellNumbers
  <2>10. [i \in Cells(h) |-> IF i \in Stretch(offset, Len(data)) THEN data[i - offset + 1] ELSE h.want[i]] = m
    BY <1>1, <2>4, <2>8, <2>9
  <2>11. Wanting(h, offset, data) = [h EXCEPT !.want = m]
    BY <2>8, <2>10 DEF Wanting, IsOk
  <2>12. PICK w : w = [h EXCEPT !.want = m]
    OBVIOUS
  <2>13. w \in FlashStates /\ w.cell = m /\ w.want = m /\ w.stray = FALSE
    BY <2>5, <2>8, <2>12 DEF FlashStates
  <2> QED BY <1>2, <2>11, <2>12, <2>13 DEF FlashInv, FlashTruth
<1> QED BY <1>3, <1>4, <1>5

(***************************************************************************)
(* xBOOT_Storage_Write: bits are only cleared, as the check of all cells   *)
(* before the first is written assures.                                    *)
(***************************************************************************)
LEMMA WriteAnswers ==
    ASSUME NEW f, FlashInv(f), NEW offset \in Addresses32, NEW n \in 1..4, NEW data \in [1..n -> SUBSET Bits], NEW g,
           g = StorageWrite(f, offset, data)
    PROVE  Refusal(f, g) \/ GoesAstray(f, g, offset, n) \/ Stores(f, g, offset, data)
<1>1. Len(data) = n
  OBVIOUS
<1>2. CASE "write" \notin f.ops
  BY <1>2 DEF StorageWrite, Refusal
<1>3. CASE "write" \in f.ops
  <2>1. g = FakeWrite(f, offset, data)
    BY <1>3 DEF StorageWrite
  <2>2. CASE "write" \in f.fail \/ ~Fits(f, offset, n)
    BY <1>1, <2>1, <2>2 DEF FakeWrite, Refusal
  <2>3. CASE ~("write" \in f.fail \/ ~Fits(f, offset, n)) /\ Straying(f, offset, n)
    BY <1>1, <2>1, <2>3 DEF FakeWrite, GoesAstray
  <2>4. CASE ~("write" \in f.fail \/ ~Fits(f, offset, n)) /\ ~Straying(f, offset, n)
    <3>1. CASE \E k \in 1..n : ~(data[k] \subseteq f.cell[offset + k - 1])
      BY <1>1, <2>1, <2>4, <3>1 DEF FakeWrite, Refusal
    <3>2. CASE \A k \in 1..n : data[k] \subseteq f.cell[offset + k - 1]
      <4>1. g = Ok([f EXCEPT !.cell = [i \in Cells(f) |-> IF i \in Stretch(offset, n) THEN f.cell[i] \cap data[i - offset + 1]
                                                        ELSE f.cell[i]]])
        BY <1>1, <2>1, <2>4, <3>2 DEF FakeWrite
      <4>2. offset \in Nat
        BY BootAssumption DEF Addresses32
      <4>3. ASSUME NEW i \in Stretch(offset, n) PROVE f.cell[i] \cap data[i - offset + 1] = data[i - offset + 1]
        <5>1. PICK k \in 1..n : k = i - offset + 1 /\ i = offset + k - 1
          BY <4>2 DEF Stretch
        <5>2. data[k] \subseteq f.cell[i]
          BY <3>2, <5>1
        <5>3. f.cell[i] \cap data[k] = data[k]
          BY <5>2
        <5> QED BY <5>1, <5>3
      <4>4. [i \in Cells(f) |-> IF i \in Stretch(offset, n) THEN f.cell[i] \cap data[i - offset + 1] ELSE f.cell[i]]
            = [i \in Cells(f) |-> IF i \in Stretch(offset, n) THEN data[i - offset + 1] ELSE f.cell[i]]
        BY <4>3
      <4> QED BY <1>1, <2>4, <4>1, <4>4 DEF Stores
    <3> QED BY <3>1, <3>2
  <2> QED BY <2>2, <2>3, <2>4
<1> QED BY <1>2, <1>3

(***************************************************************************)
(* xBOOT_Storage_Erase: all bits of whole sectors.                         *)
(***************************************************************************)
LEMMA EraseAnswers ==
    ASSUME NEW f, FlashInv(f), NEW offset \in Addresses32, NEW n \in 1..4, NEW data, data = [k \in 1..n |-> Bits], NEW g,
           g = StorageErase(f, offset, n)
    PROVE  Refusal(f, g) \/ GoesAstray(f, g, offset, n) \/ Stores(f, g, offset, data)
<1>1. Len(data) = n
  OBVIOUS
<1>2. CASE "erase" \notin f.ops
  BY <1>2 DEF StorageErase, Refusal
<1>3. CASE "erase" \in f.ops
  <2>1. g = FakeErase(f, offset, n)
    BY <1>3 DEF StorageErase
  <2> DEFINE bad == ~OnSector(offset) \/ ~OnSector(n) \/ ~Fits(f, offset, n)
  <2>2. CASE "erase" \in f.fail \/ bad
    BY <2>1, <2>2 DEF FakeErase, Refusal
  <2>3. CASE ~("erase" \in f.fail \/ bad) /\ Straying(f, offset, n)
    BY <2>1, <2>3 DEF FakeErase, GoesAstray
  <2>4. CASE ~("erase" \in f.fail \/ bad) /\ ~Straying(f, offset, n)
    <3>1. g = Ok([f EXCEPT !.cell = [i \in Cells(f) |-> IF i \in Stretch(offset, n) THEN Bits ELSE f.cell[i]]])
      BY <2>1, <2>4 DEF FakeErase
    <3>2. offset \in Nat
      BY BootAssumption DEF Addresses32
    <3>3. ASSUME NEW i \in Stretch(offset, n) PROVE data[i - offset + 1] = Bits
      <4>1. PICK k \in 1..n : k = i - offset + 1
        BY <3>2 DEF Stretch
      <4> QED BY <4>1
    <3>4. [i \in Cells(f) |-> IF i \in Stretch(offset, n) THEN Bits ELSE f.cell[i]]
          = [i \in Cells(f) |-> IF i \in Stretch(offset, n) THEN data[i - offset + 1] ELSE f.cell[i]]
      BY <3>3
    <3> QED BY <1>1, <2>4, <3>1, <3>4 DEF Stores
  <2> QED BY <2>2, <2>3, <2>4
<1> QED BY <1>2, <1>3

LEMMA FlashKept ==
    ASSUME FlashInv(boot), FlashMoves
    PROVE  FlashInv(boot')
<1>0. PICK f : f = boot
  OBVIOUS
<1>1. FlashInv(f) /\ f \in FlashStates /\ ~f.stray
  BY <1>0 DEF FlashInv, FlashMoves, FlashReads, FlashWrites, FlashErases, FlashFlushes, FlashBreaks, Flash
<1>2. CASE FlashReads
  <2>1. PICK offset \in Addresses32, n \in 1..2 : boot' = StorageRead(f, offset, n)
    BY <1>0, <1>2 DEF FlashReads
  <2>2. PICK g : g = boot'
    OBVIOUS
  <2>3. CASE Refusal(f, g)
    BY <1>1, <2>2, <2>3, RefusalKeeps
  <2>4. CASE ~Refusal(f, g)
    <3>1. /\ "read" \in f.ops /\ g = FakeRead(f, offset, n)
      BY <2>1, <2>2, <2>4 DEF StorageRead, Refusal
    <3>2. /\ "read" \notin f.fail /\ Fits(f, offset, n)
          /\ g = IF Straying(f, offset, n) THEN Ok([f EXCEPT !.stray = TRUE, !.end = offset + n])
                 ELSE Ok([f EXCEPT !.got = [k \in 1..n |-> f.cell[offset + k - 1]]])
      BY <2>4, <3>1 DEF FakeRead, Refusal
    <3>3. CASE Straying(f, offset, n)
      <4>1. GoesAstray(f, g, offset, n)
        BY <3>2, <3>3 DEF GoesAstray
      <4>2. n \in Nat /\ n <= 4
        OBVIOUS
      <4> QED BY <1>1, <2>2, <4>1, <4>2, AstrayKeeps
    <3>4. CASE ~Straying(f, offset, n)
      <4>1. PICK got : got = [k \in 1..n |-> f.cell[offset + k - 1]]
        OBVIOUS
      <4>2. offset \in Nat /\ Stretch(offset, n) \subseteq CellNumbers
        BY <1>1, <3>4, BootAssumption DEF Straying, Cells, FlashStates, CellNumbers, Addresses32
      <4>3. f.cell \in Memory
        BY <1>1 DEF FlashStates
      <4>4. ASSUME NEW k \in 1..n PROVE f.cell[offset + k - 1] \in SUBSET Bits
        <5>1. PICK i \in CellNumbers : i = offset + k - 1
          BY <4>2 DEF Stretch
        <5> QED BY <4>3, <5>1 DEF Memory
      <4>5. got \in Seq(SUBSET Bits)
        <5>1. got \in [1..n -> SUBSET Bits]
          BY <4>1, <4>4
        <5> QED BY <5>1
      <4>6. PICK h : h = [f EXCEPT !.got = got]
        OBVIOUS
      <4>7. FlashInv(h)
        BY <1>1, <4>5, <4>6, GotForgotten
      <4>8. g = [h EXCEPT !.st = "OK"]
        BY <3>2, <3>4, <4>1, <4>6 DEF Ok
      <4> QED BY <2>2, <4>7, <4>8 DEF FlashInv, FlashStates, FlashTruth
    <3> QED BY <3>3, <3>4
  <2> QED BY <2>3, <2>4
<1>3. CASE FlashWrites
  <2>1. PICK offset \in Addresses32, data \in Writes :
            boot' = Wanting([StorageWrite(f, offset, data) EXCEPT !.got = <<>>], offset, data)
    BY <1>0, <1>3 DEF FlashWrites
  <2>2. PICK n \in 1..4 : data \in [1..n -> SUBSET Bits]
    <3>1. PICK n \in 1..2 : data \in [1..n -> {{}, {0}, Bits}]
      BY DEF Writes
    <3>2. {{}, {0}, Bits} \subseteq SUBSET Bits /\ n \in 1..4
      BY DEF Bits
    <3> QED BY <3>1, <3>2
  <2>3. PICK g : g = StorageWrite(f, offset, data)
    OBVIOUS
  <2> QED BY <1>1, <2>1, <2>2, <2>3, WriteAnswers, ChangeKeeps
<1>4. CASE FlashErases
  <2>1. PICK offset \in Addresses32, n \in 1..4 :
            boot' = Wanting([StorageErase(f, offset, n) EXCEPT !.got = <<>>], offset, [k \in 1..n |-> Bits])
    BY <1>0, <1>4 DEF FlashErases
  <2>2. PICK data \in [1..n -> SUBSET Bits] : data = [k \in 1..n |-> Bits]
    OBVIOUS
  <2>3. PICK g : g = StorageErase(f, offset, n)
    OBVIOUS
  <2> QED BY <1>1, <2>1, <2>2, <2>3, EraseAnswers, ChangeKeeps
<1>5. CASE FlashFlushes
  BY <1>5 DEF FlashFlushes, StorageFlush, Ok, FlashInv, FlashStates, FlashTruth
<1>6. CASE FlashBreaks
  <2>1. PICK fail \in SUBSET {"read", "write", "erase"} : boot' = [f EXCEPT !.fail = fail]
    BY <1>0, <1>1, <1>6 DEF FlashBreaks, Inject, ResetErrors, FlashStates
  <2> QED BY <1>1, <2>1 DEF FlashInv, FlashStates, FlashTruth
<1> QED BY <1>2, <1>3, <1>4, <1>5, <1>6 DEF FlashMoves

-----------------------------------------------------------------------------
(* The DFU class and its application.                                      *)

Banks == [0..BankBytes - 1 -> Nat]
Blocks == [num : Nat, len : Nat, id : Nat]
DfuModeStates == {"dfuIDLE", "dfuDNLOAD_SYNC", "dfuDNLOAD_IDLE", "dfuMANIFEST_SYNC", "dfuMANIFEST_WAIT_RESET",
                  "dfuUPLOAD_IDLE", "dfuERROR"}
RuntimeStates == {"appIDLE", "appDETACH"}
Operations == {"none", "WRITE", "MANIFEST", "DETACH"}

DfuStates ==
    [kind : {"dfu"}, mode : {"dfu", "runtime"}, size : Nat \ {0}, state : DfuModeStates \cup RuntimeStates,
     status : {"OK", "errFILE", "errWRITE", "errVERIFY"}, pending : Operations, num : Nat, len : Nat, data : Nat,
     st : {"OK", "INVALID_CLASS_REQ", "INSUFFICIENT_BUFFER_SIZE"}, req : DfuRequests \cup {Nothing}, asked : Nat,
     told : DfuModeStates \cup RuntimeStates \cup {"nothing", "dfuDNBUSY", "dfuMANIFEST"},
     at : {"idle", "looked", "took", "writing", "MANIFEST", "DETACH", "gone"}, op : Operations, hand : Blocks,
     bank : Banks, written : Nat, want : Banks, manifest : {"none", "done", "refused"}, failed : BOOLEAN,
     crossed : BOOLEAN]

\* Outside DFU mode nothing is written or manifested, and nothing fails.
ModeAgrees(d) ==
    /\ d.mode = "runtime" => /\ d.state \in RuntimeStates /\ {d.pending, d.op} \subseteq {"none", "DETACH"}
                             /\ d.at \notin {"writing", "MANIFEST"} /\ d.req.op # "DNLOAD" /\ ~d.failed
    /\ d.mode = "dfu" => d.state \in DfuModeStates /\ d.req.op # "DETACH"

\* What is pending is what the state was left in for, or an error came between.
PendingAgrees(d) ==
    /\ d.pending = "WRITE" => d.state \in {"dfuDNLOAD_SYNC", "dfuERROR"}
    /\ d.pending = "MANIFEST" => d.state \in {"dfuMANIFEST_SYNC", "dfuERROR"}
    /\ d.pending = "DETACH" /\ d.mode = "dfu" => d.state \in {"dfuMANIFEST_WAIT_RESET", "dfuERROR"}

\* A download whose status stage is due has nothing pending before it.
DownloadDue(d) ==
    d.req.op = "DNLOAD" => /\ d.pending # "WRITE" /\ d.told = "nothing"
                           /\ d.state \in {IF d.len = 0 THEN "dfuMANIFEST_SYNC" ELSE "dfuDNLOAD_SYNC", "dfuERROR"}

\* No block is lost or mixed with another.
OnTheWay(d) == ~d.crossed => /\ OnItsWay(d) = d.want
                             /\ d.at = "writing" => d.data = d.hand.id

\* From the manifest being due until it worked.
ManifestAgrees(d) ==
    ~d.crossed =>
        /\ d.state = "dfuMANIFEST_SYNC" => \/ d.req.op = "DNLOAD" /\ d.len = 0
                                           \/ d.pending = "MANIFEST" \/ d.at = "MANIFEST" \/ d.manifest = "done"
        /\ d.state = "dfuMANIFEST_WAIT_RESET" \/ (d.pending = "DETACH" /\ d.mode = "dfu") =>
              d.manifest = "done" /\ d.at # "MANIFEST"

DfuInv(d) ==
    /\ d \in DfuStates
    /\ d.len <= d.size /\ d.hand.len <= d.size
    /\ d.told = "dfuDNLOAD_IDLE" => d.pending # "WRITE"
    /\ d.told = "dfuMANIFEST_WAIT_RESET" => d.pending # "MANIFEST"
    /\ d.failed => d.state = "dfuERROR" /\ d.status # "OK"
    /\ ModeAgrees(d) /\ PendingAgrees(d) /\ DownloadDue(d) /\ OnTheWay(d) /\ ManifestAgrees(d)

DfuMoves == \/ DfuRequest \/ DfuStatusStage \/ DfuEvent \/ DfuMainLooks \/ DfuMainTakes \/ DfuMainClears \/ DfuMainEnds

(***************************************************************************)
(* The requests a host makes.                                              *)
(***************************************************************************)
LEMMA RequestShapes ==
    ASSUME NEW r \in DfuRequests
    PROVE  /\ r.op \in {"DNLOAD", "UPLOAD", "GETSTATUS", "GETSTATE", "CLRSTATUS", "ABORT", "DETACH", "elsewhere"}
           /\ r.op \in {"DNLOAD", "UPLOAD"} => r.num \in Nat /\ r.len \in Nat
BY DEF DfuRequests, Request

(***************************************************************************)
(* A block is laid over a bank: beyond the end it changes nothing.         *)
(***************************************************************************)
LEMMA LaidIsBank ==
    ASSUME NEW bank \in Banks, NEW b \in Blocks
    PROVE  /\ Laid(bank, b) \in Banks
           /\ EndOf(b) > BankBytes => Laid(bank, b) = bank
<1>1. EndOf(b) \in Int /\ BankBytes \in Int
  BY DEF EndOf, OffsetOf, TransferSize, Blocks, BankBytes
<1>2. CASE EndOf(b) > BankBytes
  BY <1>2 DEF Laid
<1>3. CASE ~(EndOf(b) > BankBytes)
  <2>1. Laid(bank, b) = [i \in 0..BankBytes - 1 |-> IF i \in OffsetOf(b.num)..EndOf(b) - 1 THEN b.id ELSE bank[i]]
    BY <1>3 DEF Laid, Banks
  <2> QED BY <1>3, <2>1 DEF Banks, Blocks
<1> QED BY <1>2, <1>3

LEMMA BlocksOfDfu ==
    ASSUME NEW d \in DfuStates
    PROVE  /\ BufferBlock(d) \in Blocks /\ NoBlock \in Blocks /\ NoBlock.len = 0
           /\ Erased \in Banks /\ InHand(d) \in Banks /\ OnItsWay(d) \in Banks
<1>1. BufferBlock(d) \in Blocks
  BY DEF BufferBlock, Blocks, DfuStates
<1>2. NoBlock \in Blocks /\ NoBlock.len = 0
  BY DEF NoBlock, Blocks
<1>3. Erased \in Banks
  BY DEF Erased, Banks
<1>4. d.bank \in Banks /\ d.hand \in Blocks
  BY DEF DfuStates
<1>5. InHand(d) \in Banks
  BY <1>4, LaidIsBank DEF InHand
<1>6. OnItsWay(d) \in Banks
  BY <1>1, <1>5, LaidIsBank DEF OnItsWay
<1> QED BY <1>1, <1>2, <1>3, <1>5, <1>6

LEMMA DfuBegins ==
    ASSUME NEW mode \in {"dfu", "runtime"}, NEW size \in 1..2
    PROVE  DfuInv(SetTransferSize(DfuInit(mode), size))
<1>1. PICK state \in DfuModeStates \cup RuntimeStates : state = IF mode = "dfu" THEN "dfuIDLE" ELSE "appIDLE"
  BY DEF DfuModeStates, RuntimeStates
<1>2. PICK d : d = SetTransferSize(DfuInit(mode), size)
  OBVIOUS
<1>3. SetTransferSize(DfuInit(mode), size) = Ok([DfuInit(mode) EXCEPT !.size = size])
  BY DEF SetTransferSize, TransferSize
<1>4. d = [kind |-> "dfu", mode |-> mode, size |-> size, state |-> state,
           status |-> "OK", pending |-> "none", num |-> 0, len |-> 0, data |-> 0, st |-> "OK", req |-> Nothing, asked |-> 0,
           told |-> "nothing", at |-> "idle", op |-> "none", hand |-> NoBlock, bank |-> Erased, written |-> 0,
           want |-> Erased, manifest |-> "none", failed |-> FALSE, crossed |-> FALSE]
  <2>1. PICK e : e = DfuInit(mode)
    OBVIOUS
  <2>2. e = [kind |-> "dfu", mode |-> mode, size |-> TransferSize, state |-> state,
             status |-> "OK", pending |-> "none", num |-> 0, len |-> 0, data |-> 0, st |-> "OK", req |-> Nothing,
             asked |-> 0, told |-> "nothing", at |-> "idle", op |-> "none", hand |-> NoBlock, bank |-> Erased,
             written |-> 0, want |-> Erased, manifest |-> "none", failed |-> FALSE, crossed |-> FALSE]
    BY <1>1, <2>1 DEF DfuInit
  <2>3. d = [[e EXCEPT !.size = size] EXCEPT !.st = "OK"]
    BY <1>2, <1>3, <2>1 DEF Ok
  <2> QED BY <2>2, <2>3
<1>5. Erased \in Banks /\ NoBlock \in Blocks /\ NoBlock.len = 0
  BY DEF Erased, Banks, NoBlock, Blocks
<1>6. d \in DfuStates
  BY <1>4, <1>5 DEF DfuStates, Operations
<1>7. Nothing.op = "none"
  BY DEF Nothing, Request
<1>8. ModeAgrees(d) /\ PendingAgrees(d) /\ DownloadDue(d) /\ ManifestAgrees(d)
  BY <1>1, <1>4, <1>7 DEF ModeAgrees, PendingAgrees, DownloadDue, ManifestAgrees, RuntimeStates, DfuModeStates
<1>9. OnTheWay(d)
  BY <1>4 DEF OnTheWay, OnItsWay, InHand
<1>10. d.len <= d.size /\ d.hand.len <= d.size /\ d.told = "nothing" /\ d.failed = FALSE
  BY <1>4, <1>5
<1> QED BY <1>2, <1>6, <1>8, <1>9, <1>10 DEF DfuInv

(***************************************************************************)
(* A request or an event ends the request before it.                       *)
(***************************************************************************)
LEMMA EndingKeeps ==
    ASSUME NEW d, DfuInv(d)
    PROVE  LET s == EndsRequest(d) IN
           /\ DfuInv(s) /\ s.req = Nothing /\ s.told = "nothing" /\ s.mode = d.mode /\ s.at = d.at /\ s.asked = d.asked + 1
<1>1. PICK c \in BOOLEAN : c = (d.crossed \/ (d.req.op = "DNLOAD" /\ d.len = 0))
  OBVIOUS
<1>2. PICK s : s = EndsRequest(d)
  OBVIOUS
<1>4. d \in DfuStates
  BY DEF DfuInv
<1>0. PICK n \in Nat : n = d.asked + 1
  BY <1>4 DEF DfuStates
<1>3. s = [d EXCEPT !.asked = n, !.told = "nothing", !.req = Nothing, !.crossed = c]
  BY <1>0, <1>1, <1>2 DEF EndsRequest
<1>5. s \in DfuStates
  BY <1>3, <1>4 DEF DfuStates
<1>6. /\ s.mode = d.mode /\ s.size = d.size /\ s.state = d.state /\ s.status = d.status /\ s.pending = d.pending
      /\ s.num = d.num /\ s.len = d.len /\ s.data = d.data /\ s.req = Nothing /\ s.told = "nothing"
      /\ s.at = d.at /\ s.op = d.op /\ s.hand = d.hand /\ s.bank = d.bank /\ s.want = d.want
      /\ s.manifest = d.manifest /\ s.failed = d.failed /\ s.crossed = c /\ s.asked = d.asked + 1
  BY <1>0, <1>3, <1>4 DEF DfuStates
<1>7. Nothing.op = "none"
  BY DEF Nothing, Request
<1>8. ModeAgrees(s) /\ PendingAgrees(s) /\ DownloadDue(s)
  BY <1>6, <1>7 DEF DfuInv, ModeAgrees, PendingAgrees, DownloadDue
<1>9. OnTheWay(s)
  BY <1>1, <1>6 DEF DfuInv, OnTheWay, OnItsWay, InHand, BufferBlock
<1>10. ManifestAgrees(s)
  BY <1>1, <1>6 DEF DfuInv, ManifestAgrees
<1> QED BY <1>2, <1>5, <1>6, <1>8, <1>9, <1>10 DEF DfuInv

(***************************************************************************)
(* What the state machine answers without touching what is due.            *)
(***************************************************************************)
LEMMA AnsweringKeeps ==
    ASSUME NEW d, DfuInv(d), NEW st \in {"OK", "INVALID_CLASS_REQ"}
    PROVE  /\ DfuInv([d EXCEPT !.st = st])
           /\ ([d EXCEPT !.st = st]).req = d.req /\ ([d EXCEPT !.st = st]).told = d.told /\ ([d EXCEPT !.st = st]).mode = d.mode
<1>1. PICK s : s = [d EXCEPT !.st = st]
  OBVIOUS
<1>2. d \in DfuStates
  BY DEF DfuInv
<1>3. s \in DfuStates
  BY <1>1, <1>2 DEF DfuStates
<1>4. /\ s.mode = d.mode /\ s.size = d.size /\ s.state = d.state /\ s.status = d.status /\ s.pending = d.pending
      /\ s.num = d.num /\ s.len = d.len /\ s.data = d.data /\ s.req = d.req /\ s.told = d.told
      /\ s.at = d.at /\ s.op = d.op /\ s.hand = d.hand /\ s.bank = d.bank /\ s.want = d.want
      /\ s.manifest = d.manifest /\ s.failed = d.failed /\ s.crossed = d.crossed
  BY <1>1, <1>2 DEF DfuStates
<1>5. ModeAgrees(s) /\ PendingAgrees(s) /\ DownloadDue(s) /\ OnTheWay(s) /\ ManifestAgrees(s)
  BY <1>4 DEF DfuInv, ModeAgrees, PendingAgrees, DownloadDue, OnTheWay, OnItsWay, InHand, BufferBlock, ManifestAgrees
<1> QED BY <1>1, <1>3, <1>4, <1>5 DEF DfuInv

(***************************************************************************)
(* The status stage of a request other than a download is due.             *)
(***************************************************************************)
LEMMA AskingKeeps ==
    ASSUME NEW d, DfuInv(d), NEW r \in DfuRequests \cup {Nothing}, d.req = Nothing,
           r.op # "DNLOAD", d.mode = "dfu" => r.op # "DETACH"
    PROVE  DfuInv([d EXCEPT !.req = r])
<1>1. PICK s : s = [d EXCEPT !.req = r]
  OBVIOUS
<1>2. d \in DfuStates
  BY DEF DfuInv
<1>3. s \in DfuStates
  BY <1>1, <1>2 DEF DfuStates
<1>4. /\ s.mode = d.mode /\ s.size = d.size /\ s.state = d.state /\ s.status = d.status /\ s.pending = d.pending
      /\ s.num = d.num /\ s.len = d.len /\ s.data = d.data /\ s.req = r /\ s.told = d.told
      /\ s.at = d.at /\ s.op = d.op /\ s.hand = d.hand /\ s.bank = d.bank /\ s.want = d.want
      /\ s.manifest = d.manifest /\ s.failed = d.failed /\ s.crossed = d.crossed
  BY <1>1, <1>2 DEF DfuStates
<1>5. Nothing.op = "none"
  BY DEF Nothing, Request
<1>6. ModeAgrees(s) /\ PendingAgrees(s) /\ DownloadDue(s) /\ OnTheWay(s)
  BY <1>4 DEF DfuInv, ModeAgrees, PendingAgrees, DownloadDue, OnTheWay, OnItsWay, InHand, BufferBlock
<1>7. ManifestAgrees(s)
  BY <1>4, <1>5 DEF DfuInv, ManifestAgrees
<1> QED BY <1>1, <1>3, <1>4, <1>6, <1>7 DEF DfuInv

(***************************************************************************)
(* Back to idle: what is pending is given up, and with it the block that   *)
(* was to be written, but not the one that is being written.               *)
(***************************************************************************)
IdleAgain(d, s) ==
    /\ s \in DfuStates
    /\ s.mode = d.mode /\ s.size = d.size /\ s.state = DfuIdle(d) /\ s.pending = "none" /\ s.len \in {0, d.len}
    /\ s.data = d.data /\ s.req = d.req /\ s.told = d.told /\ s.at = d.at /\ s.op = d.op
    /\ s.hand = d.hand /\ s.bank = d.bank /\ s.want = (GiveUp(d)).want
    /\ s.failed = FALSE /\ s.crossed = d.crossed

LEMMA GivingUp ==
    ASSUME NEW d \in DfuStates
    PROVE  \E want \in Banks : /\ GiveUp(d) = [d EXCEPT !.want = want] /\ (GiveUp(d)).want = want
                               /\ want = IF d.pending = "WRITE" THEN InHand(d) ELSE d.want
<1>1. CASE d.pending = "WRITE"
  BY <1>1, BlocksOfDfu DEF GiveUp, DfuStates
<1>2. CASE d.pending # "WRITE"
  <2>1. GiveUp(d) = d /\ d.want \in Banks
    BY <1>2 DEF GiveUp, DfuStates
  <2>2. [d EXCEPT !.want = d.want] = d
    BY DEF DfuStates
  <2> QED BY <1>2, <2>1, <2>2
<1> QED BY <1>1, <1>2

LEMMA IdleKeeps ==
    ASSUME NEW d, DfuInv(d), d.req = Nothing, d.told = "nothing", NEW s, IdleAgain(d, s)
    PROVE  DfuInv(s) /\ s.req = Nothing /\ s.told = "nothing" /\ s.mode = d.mode
<1>1. d \in DfuStates /\ Nothing.op = "none"
  BY DEF DfuInv, Nothing, Request
<1>2. ModeAgrees(s)
  BY <1>1 DEF IdleAgain, DfuInv, ModeAgrees, DfuIdle, RuntimeStates, DfuModeStates, DfuStates
<1>3. PendingAgrees(s) /\ DownloadDue(s)
  BY <1>1 DEF IdleAgain, PendingAgrees, DownloadDue
<1>4. OnTheWay(s)
  <2>1. s.want = IF d.pending = "WRITE" THEN InHand(d) ELSE d.want
    BY <1>1, GivingUp DEF IdleAgain
  <2>2. OnItsWay(s) = InHand(d)
    BY DEF OnItsWay, InHand, IdleAgain
  <2>3. d.pending # "WRITE" => OnItsWay(d) = InHand(d)
    BY DEF OnItsWay
  <2>4. s.crossed = d.crossed /\ s.at = d.at /\ s.data = d.data /\ s.hand = d.hand
    BY DEF IdleAgain
  <2> QED BY <2>1, <2>2, <2>3, <2>4 DEF DfuInv, OnTheWay
<1>5. ManifestAgrees(s)
  BY DEF IdleAgain, ManifestAgrees, DfuIdle
<1>6. s.len <= s.size /\ s.hand.len <= s.size
  BY <1>1 DEF IdleAgain, DfuInv, DfuStates
<1> QED BY <1>1, <1>2, <1>3, <1>4, <1>5, <1>6 DEF DfuInv, IdleAgain

(***************************************************************************)
(* The handlers of a request, of which s is what ending the one before it  *)
(* left.                                                                   *)
(***************************************************************************)
Requested(s) == DfuInv(s) /\ s.req = Nothing /\ s.told = "nothing"

\* The invariant survives the status stage of r being due, or its refusal.
Answered(s, h, r) ==
    /\ DfuInv([h EXCEPT !.req = IF IsOk(h) THEN r ELSE Nothing])

LEMMA RefusedKeeps ==
    ASSUME NEW s, Requested(s), NEW h, h = Failed(s, "INVALID_CLASS_REQ"), NEW r
    PROVE  Answered(s, h, r)
<1>1. DfuInv(h) /\ h.req = Nothing
  BY AnsweringKeeps DEF Requested, Failed
<1>2. ~IsOk(h)
  BY DEF Requested, DfuInv, DfuStates, Failed, IsOk
<1>3. Nothing.op = "none"
  BY DEF Nothing, Request
<1> QED BY <1>1, <1>2, <1>3, AskingKeeps DEF Answered

LEMMA AcceptedKeeps ==
    ASSUME NEW q, DfuInv(q), q.req = Nothing, NEW h, h = Ok(q), NEW s, NEW r \in DfuRequests,
           r.op # "DNLOAD", q.mode = "dfu" => r.op # "DETACH"
    PROVE  Answered(s, h, r)
<1>1. DfuInv(h) /\ h.req = Nothing /\ h.mode = q.mode
  BY AnsweringKeeps DEF Ok
<1>2. IsOk(h)
  BY DEF DfuInv, DfuStates, Ok, IsOk
<1> QED BY <1>1, <1>2, AskingKeeps DEF Answered

LEMMA DownloadKeeps ==
    ASSUME NEW s, Requested(s), s.mode = "dfu", NEW r \in DfuRequests, r.op = "DNLOAD"
    PROVE  Answered(s, Download(s, r), r)
<1>0. PICK h : h = Download(s, r)
  OBVIOUS
<1>1. s \in DfuStates /\ r.num \in Nat /\ r.len \in Nat
  BY RequestShapes DEF Requested, DfuInv
<1>2. CASE s.state \notin {"dfuIDLE", "dfuDNLOAD_IDLE"}
  BY <1>2, RefusedKeeps DEF Download
<1>3. CASE s.state \in {"dfuIDLE", "dfuDNLOAD_IDLE"}
  <2>1. s.pending = "none" /\ s.failed = FALSE
    BY <1>1, <1>3 DEF Requested, DfuInv, PendingAgrees, DfuStates, Operations, ModeAgrees
  <2>2. CASE r.len = 0
    <3>1. h = [s EXCEPT !.len = 0, !.state = "dfuMANIFEST_SYNC", !.manifest = "none", !.st = "OK"]
      BY <1>0, <1>1, <1>3, <2>2 DEF Download, Ok, DfuStates
    <3>2. PICK q : q = [h EXCEPT !.req = IF IsOk(h) THEN r ELSE Nothing]
      OBVIOUS
    <3>3. q = [s EXCEPT !.len = 0, !.state = "dfuMANIFEST_SYNC", !.manifest = "none", !.st = "OK", !.req = r]
      BY <1>1, <3>1, <3>2 DEF IsOk, DfuStates
    <3>4. q \in DfuStates
      BY <1>1, <3>3, ZenonT(60) DEF DfuStates, DfuModeStates
    <3>5. /\ q.mode = "dfu" /\ q.size = s.size /\ q.state = "dfuMANIFEST_SYNC" /\ q.pending = "none"
          /\ q.len = 0 /\ q.data = s.data /\ q.req = r /\ q.told = "nothing"
          /\ q.at = s.at /\ q.hand = s.hand /\ q.bank = s.bank /\ q.want = s.want
          /\ q.failed = FALSE /\ q.crossed = s.crossed
      BY <1>1, <2>1, <3>3 DEF DfuStates, Requested
    <3>6. ModeAgrees(q) /\ PendingAgrees(q) /\ DownloadDue(q) /\ ManifestAgrees(q)
      BY <3>5 DEF ModeAgrees, PendingAgrees, DownloadDue, ManifestAgrees, DfuModeStates
    <3>7. OnTheWay(q)
      BY <2>1, <3>5 DEF Requested, DfuInv, OnTheWay, OnItsWay, InHand
    <3>8. q.len <= q.size /\ q.hand.len <= q.size
      BY <1>1, <3>5 DEF Requested, DfuInv, DfuStates
    <3> QED BY <1>0, <3>2, <3>4, <3>5, <3>6, <3>7, <3>8 DEF Answered, DfuInv
  <2>3. CASE r.len # 0
    <3>1. PICK n \in Nat : n = (IF r.len > s.size THEN s.size ELSE r.len) /\ n <= s.size /\ n # 0
      BY <1>1, <2>3 DEF DfuStates
    <3>2. PICK c \in BOOLEAN : c = (s.crossed \/ s.at = "writing")
      OBVIOUS
    <3>3. h = [s EXCEPT !.num = r.num, !.len = n, !.data = s.asked, !.state = "dfuDNLOAD_SYNC", !.crossed = c, !.st = "OK"]
      BY <1>0, <1>1, <1>3, <2>3, <3>1, <3>2 DEF Download, Ok, DfuStates
    <3>4. PICK q : q = [h EXCEPT !.req = IF IsOk(h) THEN r ELSE Nothing]
      OBVIOUS
    <3>5. q = [s EXCEPT !.num = r.num, !.len = n, !.data = s.asked, !.state = "dfuDNLOAD_SYNC", !.crossed = c, !.st = "OK",
                        !.req = r]
      BY <1>1, <3>3, <3>4 DEF IsOk, DfuStates
    <3>6. q \in DfuStates
      <4>1. "dfuDNLOAD_SYNC" \in DfuModeStates
        BY DEF DfuModeStates
      <4> QED BY <1>1, <3>5, <4>1, ZenonT(60) DEF DfuStates
    <3>7. /\ q.mode = "dfu" /\ q.size = s.size /\ q.state = "dfuDNLOAD_SYNC" /\ q.pending = "none"
          /\ q.len = n /\ q.req = r /\ q.told = "nothing"
          /\ q.at = s.at /\ q.hand = s.hand /\ q.bank = s.bank /\ q.want = s.want
          /\ q.failed = FALSE /\ q.crossed = c
      BY <1>1, <2>1, <3>5 DEF DfuStates, Requested
    <3>8. ModeAgrees(q) /\ PendingAgrees(q) /\ ManifestAgrees(q)
      BY <3>7 DEF ModeAgrees, PendingAgrees, ManifestAgrees, DfuModeStates
    <3>9. DownloadDue(q)
      BY <3>1, <3>7 DEF DownloadDue
    <3>10. OnTheWay(q)
      BY <2>1, <3>2, <3>7 DEF Requested, DfuInv, OnTheWay, OnItsWay, InHand
    <3>11. q.len <= q.size /\ q.hand.len <= q.size
      BY <1>1, <3>1, <3>7 DEF Requested, DfuInv, DfuStates
    <3> QED BY <1>0, <3>4, <3>6, <3>7, <3>8, <3>9, <3>10, <3>11 DEF Answered, DfuInv
  <2> QED BY <2>2, <2>3
<1> QED BY <1>2, <1>3

(***************************************************************************)
(* CLRSTATUS and ABORT.                                                    *)
(***************************************************************************)
LEMMA ClearKeeps ==
    ASSUME NEW s, Requested(s), s.mode = "dfu"
    PROVE  DfuInv(ClearStatus(s)) /\ (ClearStatus(s)).req = Nothing
<1>1. CASE s.state # "dfuERROR"
  BY <1>1 DEF ClearStatus, Requested
<1>2. CASE s.state = "dfuERROR"
  <2>1. s \in DfuStates
    BY DEF Requested, DfuInv
  <2>2. PICK want \in Banks : /\ GiveUp(s) = [s EXCEPT !.want = want] /\ (GiveUp(s)).want = want
    BY <2>1, GivingUp
  <2>3. PICK q : q = ClearStatus(s)
    OBVIOUS
  <2>4. q = [s EXCEPT !.want = want, !.status = "OK", !.state = "dfuIDLE", !.pending = "none", !.failed = FALSE]
    BY <1>2, <2>1, <2>2, <2>3 DEF ClearStatus, DfuStates
  <2>5. q \in DfuStates
    <3>1. want \in Banks
      BY <2>2
    <3> QED BY <2>1, <2>4, <3>1, ZenonT(60) DEF DfuStates, DfuModeStates, Operations
  <2>6. IdleAgain(s, q)
    BY <2>1, <2>2, <2>4, <2>5 DEF IdleAgain, DfuIdle, DfuStates
  <2> QED BY <2>3, <2>6, IdleKeeps DEF Requested
<1> QED BY <1>1, <1>2

LEMMA AbortKeeps ==
    ASSUME NEW s, Requested(s), s.mode = "dfu", s.state \in Abortable,
           NEW a, a = [GiveUp(s) EXCEPT !.state = "dfuIDLE", !.pending = "none", !.len = 0]
    PROVE  DfuInv(a) /\ a.req = Nothing
<1>1. s \in DfuStates
  BY DEF Requested, DfuInv
<1>2. s.failed = FALSE
  BY <1>1 DEF Requested, DfuInv, DfuStates, Abortable
<1>3. PICK want \in Banks : /\ GiveUp(s) = [s EXCEPT !.want = want] /\ (GiveUp(s)).want = want
  BY <1>1, GivingUp
<1>4. PICK q : q = [s EXCEPT !.want = want, !.state = "dfuIDLE", !.pending = "none", !.len = 0]
  OBVIOUS
<1>5. q \in DfuStates
  <2>1. want \in Banks
    BY <1>3
  <2> QED BY <1>1, <1>4, <2>1, ZenonT(60) DEF DfuStates, DfuModeStates, Operations
<1>6. IdleAgain(s, q)
  BY <1>1, <1>2, <1>3, <1>4, <1>5 DEF IdleAgain, DfuIdle, DfuStates
<1>7. a = q
  BY <1>1, <1>3, <1>4 DEF DfuStates
<1> QED BY <1>6, <1>7, IdleKeeps DEF Requested

LEMMA ModeOutKeeps ==
    ASSUME NEW s, Requested(s), s.mode = "dfu", NEW r \in DfuRequests
    PROVE  Answered(s, ModeOut(s, r), r)
<1>1. CASE r.op = "DNLOAD"
  BY <1>1, DownloadKeeps DEF ModeOut
<1>2. CASE r.op = "CLRSTATUS"
  <2>1. ModeOut(s, r) = Ok(ClearStatus(s))
    BY <1>2 DEF ModeOut
  <2> QED BY <1>2, <2>1, ClearKeeps, AcceptedKeeps
<1>3. CASE r.op = "ABORT" /\ s.state \in Abortable
  <2>1. PICK q : q = [GiveUp(s) EXCEPT !.state = "dfuIDLE", !.pending = "none", !.len = 0]
    OBVIOUS
  <2>2. ModeOut(s, r) = Ok(q)
    BY <1>3, <2>1 DEF ModeOut
  <2> QED BY <1>3, <2>1, <2>2, AbortKeeps, AcceptedKeeps
<1>4. CASE r.op \notin {"DNLOAD", "CLRSTATUS"} /\ ~(r.op = "ABORT" /\ s.state \in Abortable)
  <2>1. ModeOut(s, r) = Failed(s, "INVALID_CLASS_REQ")
    BY <1>4 DEF ModeOut
  <2> QED BY <2>1, RefusedKeeps
<1> QED BY <1>1, <1>2, <1>3, <1>4

(***************************************************************************)
(* UPLOAD and the two questions.                                           *)
(***************************************************************************)
LEMMA UploadKeeps ==
    ASSUME NEW s, Requested(s), s.mode = "dfu", NEW r \in DfuRequests, r.op = "UPLOAD"
    PROVE  Answered(s, Upload(s, r), r)
<1>1. s \in DfuStates /\ r.num \in Nat /\ r.len \in Nat /\ Nothing.op = "none"
  BY RequestShapes DEF Requested, DfuInv, Nothing, Request
<1>2. CASE s.state \notin {"dfuIDLE", "dfuUPLOAD_IDLE"}
  BY <1>2, RefusedKeeps DEF Upload
<1>3. CASE s.state \in {"dfuIDLE", "dfuUPLOAD_IDLE"}
  <2>1. s.pending = "none" /\ s.failed = FALSE
    BY <1>1, <1>3 DEF Requested, DfuInv, PendingAgrees, DfuStates, Operations, ModeAgrees
  <2>2. CASE OffsetOf(r.num) >= BankBytes
    <3>1. PICK q : q = [s EXCEPT !.status = "errFILE", !.state = "dfuERROR", !.failed = TRUE]
      OBVIOUS
    <3>2. q \in DfuStates
      BY <1>1, <3>1, ZenonT(60) DEF DfuStates, DfuModeStates
    <3>3. /\ q.mode = "dfu" /\ q.size = s.size /\ q.state = "dfuERROR" /\ q.status = "errFILE" /\ q.pending = "none"
          /\ q.len = s.len /\ q.data = s.data /\ q.req = Nothing /\ q.told = "nothing"
          /\ q.at = s.at /\ q.hand = s.hand /\ q.bank = s.bank /\ q.want = s.want
          /\ q.crossed = s.crossed
      BY <1>1, <2>1, <3>1 DEF DfuStates, Requested
    <3>4. ModeAgrees(q) /\ PendingAgrees(q) /\ DownloadDue(q) /\ ManifestAgrees(q)
      BY <1>1, <3>3 DEF ModeAgrees, PendingAgrees, DownloadDue, ManifestAgrees, DfuModeStates
    <3>5. OnTheWay(q)
      BY <2>1, <3>3 DEF Requested, DfuInv, OnTheWay, OnItsWay, InHand
    <3>6. Requested(q)
      BY <1>1, <3>2, <3>3, <3>4, <3>5 DEF Requested, DfuInv, DfuStates
    <3>7. Upload(s, r) = Failed(q, "INVALID_CLASS_REQ")
      BY <1>3, <2>2, <3>1 DEF Upload
    <3>8. Answered(q, Upload(s, r), r)
      BY <3>6, <3>7, RefusedKeeps
    <3> QED BY <3>8 DEF Answered
  <2>3. CASE ~(OffsetOf(r.num) >= BankBytes)
    <3>1. PICK x \in {"dfuIDLE", "dfuUPLOAD_IDLE"} : x = IF BytesAt(r.num) < r.len THEN "dfuIDLE" ELSE "dfuUPLOAD_IDLE"
      OBVIOUS
    <3>2. PICK q : q = [s EXCEPT !.num = r.num, !.state = x]
      OBVIOUS
    <3>3. q \in DfuStates
      BY <1>1, <3>1, <3>2, ZenonT(60) DEF DfuStates, DfuModeStates
    <3>4. /\ q.mode = "dfu" /\ q.size = s.size /\ q.state = x /\ q.pending = "none" /\ q.failed = FALSE
          /\ q.len = s.len /\ q.data = s.data /\ q.req = Nothing /\ q.told = "nothing"
          /\ q.at = s.at /\ q.hand = s.hand /\ q.bank = s.bank /\ q.want = s.want
          /\ q.crossed = s.crossed
      BY <1>1, <2>1, <3>2 DEF DfuStates, Requested
    <3>5. ModeAgrees(q) /\ PendingAgrees(q) /\ DownloadDue(q) /\ ManifestAgrees(q)
      BY <1>1, <3>1, <3>4 DEF ModeAgrees, PendingAgrees, DownloadDue, ManifestAgrees, DfuModeStates
    <3>6. OnTheWay(q)
      BY <2>1, <3>4 DEF Requested, DfuInv, OnTheWay, OnItsWay, InHand
    <3>7. DfuInv(q)
      BY <1>1, <3>3, <3>4, <3>5, <3>6 DEF Requested, DfuInv, DfuStates
    <3>8. Upload(s, r) = Ok(q)
      BY <1>3, <2>3, <3>1, <3>2 DEF Upload
    <3> QED BY <3>4, <3>7, <3>8, AcceptedKeeps
  <2> QED BY <2>2, <2>3
<1> QED BY <1>2, <1>3

\* What is told of a block or a manifest is that it is over only when it was taken.
LEMMA TellingKeeps ==
    ASSUME NEW s, Requested(s), NEW told, told \in {s.state, Reported(s)}
    PROVE  DfuInv([s EXCEPT !.told = told]) /\ ([s EXCEPT !.told = told]).req = Nothing /\ ([s EXCEPT !.told = told]).mode = s.mode
<1>1. s \in DfuStates /\ Nothing.op = "none"
  BY DEF Requested, DfuInv, Nothing, Request
<1>2. /\ told \in DfuModeStates \cup RuntimeStates \cup {"nothing", "dfuDNBUSY", "dfuMANIFEST"}
      /\ told = "dfuDNLOAD_IDLE" => s.pending # "WRITE"
      /\ told = "dfuMANIFEST_WAIT_RESET" => s.pending # "MANIFEST"
  BY <1>1 DEF Requested, DfuInv, Reported, PendingAgrees, DfuStates, DfuModeStates
<1>3. PICK q : q = [s EXCEPT !.told = told]
  OBVIOUS
<1>4. q \in DfuStates
  BY <1>1, <1>2, <1>3 DEF DfuStates
<1>5. /\ q.mode = s.mode /\ q.size = s.size /\ q.state = s.state /\ q.status = s.status /\ q.pending = s.pending
      /\ q.num = s.num /\ q.len = s.len /\ q.data = s.data /\ q.req = Nothing /\ q.told = told
      /\ q.at = s.at /\ q.op = s.op /\ q.hand = s.hand /\ q.bank = s.bank /\ q.want = s.want
      /\ q.manifest = s.manifest /\ q.failed = s.failed /\ q.crossed = s.crossed
  BY <1>1, <1>3 DEF DfuStates, Requested
<1>6. ModeAgrees(q) /\ PendingAgrees(q) /\ DownloadDue(q)
  BY <1>1, <1>5 DEF Requested, DfuInv, ModeAgrees, PendingAgrees, DownloadDue
<1>7. OnTheWay(q)
  BY <1>5 DEF Requested, DfuInv, OnTheWay, OnItsWay, InHand, BufferBlock
<1>8. ManifestAgrees(q)
  BY <1>1, <1>5 DEF Requested, DfuInv, ManifestAgrees
<1> QED BY <1>2, <1>3, <1>4, <1>5, <1>6, <1>7, <1>8 DEF Requested, DfuInv

LEMMA ModeInKeeps ==
    ASSUME NEW s, Requested(s), s.mode = "dfu", NEW r \in DfuRequests, r.op \in {"UPLOAD", "GETSTATUS", "GETSTATE"}
    PROVE  Answered(s, ModeIn(s, r), r)
<1>1. CASE r.op = "UPLOAD"
  BY <1>1, UploadKeeps DEF ModeIn
<1>2. CASE r.op = "GETSTATUS"
  <2>1. ModeIn(s, r) = Ok([s EXCEPT !.told = Reported(s)])
    BY <1>2 DEF ModeIn
  <2> QED BY <1>2, <2>1, TellingKeeps, AcceptedKeeps
<1>3. CASE r.op = "GETSTATE"
  <2>1. ModeIn(s, r) = Ok([s EXCEPT !.told = s.state])
    BY <1>3 DEF ModeIn
  <2> QED BY <1>3, <2>1, TellingKeeps, AcceptedKeeps
<1> QED BY <1>1, <1>2, <1>3

(***************************************************************************)
(* Outside DFU mode.                                                       *)
(***************************************************************************)
LEMMA RuntimeKeeps ==
    ASSUME NEW s, Requested(s), s.mode = "runtime", NEW state \in RuntimeStates, NEW q, q = [s EXCEPT !.state = state]
    PROVE  DfuInv(q) /\ q.req = Nothing /\ q.mode = "runtime"
<1>1. s \in DfuStates /\ Nothing.op = "none"
  BY DEF Requested, DfuInv, Nothing, Request
<1>2. q \in DfuStates
  BY <1>1 DEF DfuStates
<1>3. /\ q.mode = "runtime" /\ q.size = s.size /\ q.state = state /\ q.pending = s.pending
      /\ q.num = s.num /\ q.len = s.len /\ q.data = s.data /\ q.req = Nothing /\ q.told = "nothing"
      /\ q.at = s.at /\ q.op = s.op /\ q.hand = s.hand /\ q.bank = s.bank /\ q.want = s.want
      /\ q.failed = s.failed /\ q.crossed = s.crossed
  BY <1>1 DEF DfuStates, Requested
<1>4. ModeAgrees(q) /\ PendingAgrees(q) /\ DownloadDue(q)
  BY <1>1, <1>3 DEF Requested, DfuInv, ModeAgrees, PendingAgrees, DownloadDue
<1>5. OnTheWay(q)
  BY <1>3 DEF Requested, DfuInv, OnTheWay, OnItsWay, InHand, BufferBlock
<1>6. ManifestAgrees(q)
  BY <1>3 DEF ManifestAgrees, RuntimeStates
<1>7. ~q.failed
  BY <1>3 DEF Requested, DfuInv, ModeAgrees
<1> QED BY <1>2, <1>3, <1>4, <1>5, <1>6, <1>7 DEF Requested, DfuInv

LEMMA RuntimeOutKeeps ==
    ASSUME NEW s, Requested(s), s.mode = "runtime", NEW r \in DfuRequests
    PROVE  Answered(s, RuntimeOut(s, r), r)
<1>1. CASE r.op = "DETACH" /\ s.state = "appIDLE"
  <2>1. PICK q : q = [s EXCEPT !.state = "appDETACH"]
    OBVIOUS
  <2>2. RuntimeOut(s, r) = Ok(q)
    BY <1>1, <2>1 DEF RuntimeOut
  <2>3. DfuInv(q) /\ q.req = Nothing /\ q.mode = "runtime"
    BY <2>1, RuntimeKeeps DEF RuntimeStates
  <2> QED BY <1>1, <2>2, <2>3, AcceptedKeeps
<1>2. CASE r.op = "ABORT"
  <2>1. PICK q : q = [s EXCEPT !.state = "appIDLE"]
    OBVIOUS
  <2>2. RuntimeOut(s, r) = Ok(q)
    BY <1>2, <2>1 DEF RuntimeOut
  <2>3. DfuInv(q) /\ q.req = Nothing /\ q.mode = "runtime"
    BY <2>1, RuntimeKeeps DEF RuntimeStates
  <2> QED BY <1>2, <2>2, <2>3, AcceptedKeeps
<1>3. CASE r.op # "ABORT" /\ ~(r.op = "DETACH" /\ s.state = "appIDLE")
  <2>1. RuntimeOut(s, r) = Failed(s, "INVALID_CLASS_REQ")
    BY <1>3 DEF RuntimeOut
  <2> QED BY <2>1, RefusedKeeps
<1> QED BY <1>1, <1>2, <1>3

LEMMA RuntimeInKeeps ==
    ASSUME NEW s, Requested(s), s.mode = "runtime", NEW r \in DfuRequests, r.op \in {"UPLOAD", "GETSTATUS", "GETSTATE"}
    PROVE  Answered(s, RuntimeIn(s, r), r)
<1>1. CASE r.op \in {"GETSTATUS", "GETSTATE"}
  <2>1. RuntimeIn(s, r) = Ok([s EXCEPT !.told = s.state])
    BY <1>1 DEF RuntimeIn
  <2> QED BY <1>1, <2>1, TellingKeeps, AcceptedKeeps
<1>2. CASE r.op \notin {"GETSTATUS", "GETSTATE"}
  <2>1. RuntimeIn(s, r) = Failed(s, "INVALID_CLASS_REQ")
    BY <1>2 DEF RuntimeIn
  <2> QED BY <2>1, RefusedKeeps
<1> QED BY <1>1, <1>2

(***************************************************************************)
(* A request of the host, whatever it is.                                  *)
(***************************************************************************)
LEMMA RequestKeeps ==
    ASSUME NEW d, DfuInv(d), NEW r \in DfuRequests
    PROVE  DfuInv(DfuAsked(d, r))
<1>1. PICK s : s = EndsRequest(d)
  OBVIOUS
<1>2. Requested(s) /\ s.mode = d.mode /\ s.mode \in {"dfu", "runtime"}
  BY <1>1, EndingKeeps DEF Requested, DfuInv, DfuStates
<1> DEFINE in == r.op \in {"UPLOAD", "GETSTATUS", "GETSTATE"}
           h == CASE r.op = "elsewhere" -> Ok(s)
                  [] r.op # "elsewhere" /\ d.mode = "dfu" -> IF in THEN ModeIn(s, r) ELSE ModeOut(s, r)
                  [] r.op # "elsewhere" /\ d.mode # "dfu" -> IF in THEN RuntimeIn(s, r) ELSE RuntimeOut(s, r)
<1>3. Answered(s, h, r)
  <2>1. CASE r.op = "elsewhere"
    <3>1. h = Ok(s)
      BY <2>1
    <3> QED BY <1>2, <2>1, <3>1, AcceptedKeeps DEF Requested
  <2>2. CASE r.op # "elsewhere" /\ d.mode = "dfu" /\ in
    <3>1. h = ModeIn(s, r)
      BY <2>2
    <3> QED BY <1>2, <2>2, <3>1, ModeInKeeps
  <2>3. CASE r.op # "elsewhere" /\ d.mode = "dfu" /\ ~in
    <3>1. h = ModeOut(s, r)
      BY <2>3
    <3> QED BY <1>2, <2>3, <3>1, ModeOutKeeps
  <2>4. CASE r.op # "elsewhere" /\ d.mode # "dfu" /\ in
    <3>1. h = RuntimeIn(s, r)
      BY <2>4
    <3> QED BY <1>2, <2>4, <3>1, RuntimeInKeeps
  <2>5. CASE r.op # "elsewhere" /\ d.mode # "dfu" /\ ~in
    <3>1. h = RuntimeOut(s, r)
      BY <2>5
    <3> QED BY <1>2, <2>5, <3>1, RuntimeOutKeeps
  <2> QED BY <2>1, <2>2, <2>3, <2>4, <2>5
<1>4. DfuAsked(d, r) = [h EXCEPT !.req = IF IsOk(h) THEN r ELSE Nothing]
  BY <1>1 DEF DfuAsked
<1> QED BY <1>3, <1>4 DEF Answered

(***************************************************************************)
(* A status stage ended: the download or the detach is now pending, or     *)
(* GETSTATUS moves on from a block or a manifest that is not pending.      *)
(***************************************************************************)
LEMMA CompleteKeeps ==
    ASSUME NEW d, DfuInv(d)
    PROVE  DfuInv([ControlComplete(d) EXCEPT !.req = Nothing])
<1>1. d \in DfuStates /\ Nothing.op = "none"
  BY DEF DfuInv, Nothing, Request
<1>2. PICK q : q = [ControlComplete(d) EXCEPT !.req = Nothing]
  OBVIOUS
<1>3. CASE d.req.op = "DETACH"
  <2>1. q = [d EXCEPT !.pending = "DETACH", !.req = Nothing]
    BY <1>1, <1>2, <1>3 DEF ControlComplete, DfuStates
  <2>2. q \in DfuStates
    BY <1>1, <2>1, ZenonT(60) DEF DfuStates, Operations
  <2>3. /\ q.mode = d.mode /\ q.size = d.size /\ q.state = d.state /\ q.status = d.status /\ q.pending = "DETACH"
        /\ q.num = d.num /\ q.len = d.len /\ q.data = d.data /\ q.req = Nothing /\ q.told = d.told
        /\ q.at = d.at /\ q.op = d.op /\ q.hand = d.hand /\ q.bank = d.bank /\ q.want = d.want
        /\ q.manifest = d.manifest /\ q.failed = d.failed /\ q.crossed = d.crossed
    BY <1>1, <2>1 DEF DfuStates
  <2>4. d.mode = "runtime" /\ d.pending # "WRITE" /\ d.state \in RuntimeStates
    BY <1>1, <1>3 DEF DfuInv, ModeAgrees, DfuStates
  <2>5. ModeAgrees(q) /\ PendingAgrees(q) /\ DownloadDue(q) /\ ManifestAgrees(q)
    BY <1>1, <2>3, <2>4 DEF DfuInv, ModeAgrees, PendingAgrees, DownloadDue, ManifestAgrees, RuntimeStates
  <2>6. OnTheWay(q)
    BY <2>3, <2>4 DEF DfuInv, OnTheWay, OnItsWay, InHand
  <2> QED BY <1>2, <2>2, <2>3, <2>5, <2>6 DEF DfuInv
<1>4. CASE d.req.op = "DNLOAD" /\ d.len > 0
  <2>1. BufferBlock(d) \in Blocks /\ d.want \in Banks
    BY <1>1, BlocksOfDfu DEF DfuStates
  <2>2. PICK w \in Banks : w = Laid(d.want, BufferBlock(d))
    BY <2>1, LaidIsBank
  <2>3. ControlComplete(d) = [d EXCEPT !.pending = "WRITE", !.want = w]
    BY <1>4, <2>2 DEF ControlComplete, DueWrite
  <2>4. q = [d EXCEPT !.pending = "WRITE", !.want = w, !.req = Nothing]
    BY <1>1, <1>2, <2>3 DEF DfuStates
  <2>5. q \in DfuStates
    BY <1>1, <2>4, ZenonT(60) DEF DfuStates, Operations
  <2>6. /\ q.mode = d.mode /\ q.size = d.size /\ q.state = d.state /\ q.status = d.status /\ q.pending = "WRITE"
        /\ q.num = d.num /\ q.len = d.len /\ q.data = d.data /\ q.req = Nothing /\ q.told = d.told
        /\ q.at = d.at /\ q.op = d.op /\ q.hand = d.hand /\ q.bank = d.bank /\ q.want = w
        /\ q.manifest = d.manifest /\ q.failed = d.failed /\ q.crossed = d.crossed
    BY <1>1, <2>4 DEF DfuStates
  <2>7. /\ d.mode = "dfu" /\ d.pending # "WRITE" /\ d.told = "nothing"
        /\ d.state \in {"dfuDNLOAD_SYNC", "dfuERROR"}
    BY <1>1, <1>4 DEF DfuInv, ModeAgrees, DownloadDue, DfuStates
  <2>8. ModeAgrees(q) /\ PendingAgrees(q) /\ DownloadDue(q) /\ ManifestAgrees(q)
    BY <1>1, <2>6, <2>7 DEF DfuInv, ModeAgrees, PendingAgrees, DownloadDue, ManifestAgrees
  <2>9. OnTheWay(q)
    <3>1. OnItsWay(q) = Laid(InHand(d), BufferBlock(d))
      BY <2>6 DEF OnItsWay, InHand, BufferBlock
    <3>2. OnItsWay(d) = InHand(d)
      BY <2>7 DEF OnItsWay
    <3> QED BY <2>2, <2>6, <3>1, <3>2 DEF DfuInv, OnTheWay
  <2> QED BY <1>2, <2>5, <2>6, <2>7, <2>8, <2>9 DEF DfuInv
<1>5. CASE d.req.op = "DNLOAD" /\ ~(d.len > 0)
  <2>1. ControlComplete(d) = [d EXCEPT !.pending = "MANIFEST"]
    BY <1>5 DEF ControlComplete
  <2>2. q = [d EXCEPT !.pending = "MANIFEST", !.req = Nothing]
    BY <1>1, <1>2, <2>1 DEF DfuStates
  <2>3. q \in DfuStates
    BY <1>1, <2>2 DEF DfuStates, Operations
  <2>4. /\ q.mode = d.mode /\ q.size = d.size /\ q.state = d.state /\ q.status = d.status /\ q.pending = "MANIFEST"
        /\ q.num = d.num /\ q.len = d.len /\ q.data = d.data /\ q.req = Nothing /\ q.told = d.told
        /\ q.at = d.at /\ q.op = d.op /\ q.hand = d.hand /\ q.bank = d.bank /\ q.want = d.want
        /\ q.manifest = d.manifest /\ q.failed = d.failed /\ q.crossed = d.crossed
    BY <1>1, <2>2 DEF DfuStates
  <2>5. /\ d.mode = "dfu" /\ d.pending # "WRITE" /\ d.told = "nothing" /\ d.len = 0
        /\ d.state \in {"dfuMANIFEST_SYNC", "dfuERROR"}
    BY <1>1, <1>5 DEF DfuInv, ModeAgrees, DownloadDue, DfuStates
  <2>6. ModeAgrees(q) /\ PendingAgrees(q) /\ DownloadDue(q) /\ ManifestAgrees(q)
    BY <1>1, <2>4, <2>5 DEF DfuInv, ModeAgrees, PendingAgrees, DownloadDue, ManifestAgrees
  <2>7. OnTheWay(q)
    BY <2>4, <2>5 DEF DfuInv, OnTheWay, OnItsWay, InHand
  <2> QED BY <1>2, <2>3, <2>4, <2>5, <2>6, <2>7 DEF DfuInv
<1>6. CASE /\ d.req.op = "GETSTATUS" /\ d.pending = "none" /\ d.state \in {"dfuDNLOAD_SYNC", "dfuMANIFEST_SYNC"}
  <2>1. PICK x \in {"dfuDNLOAD_IDLE", "dfuMANIFEST_WAIT_RESET"} :
            x = IF d.state = "dfuDNLOAD_SYNC" THEN "dfuDNLOAD_IDLE" ELSE "dfuMANIFEST_WAIT_RESET"
    OBVIOUS
  <2>2. PICK c \in BOOLEAN : c = (d.crossed \/ (d.at # "idle" /\ d.state = "dfuMANIFEST_SYNC"))
    OBVIOUS
  <2>3. ControlComplete(d) = [d EXCEPT !.state = x, !.crossed = c]
    BY <1>6, <2>1, <2>2 DEF ControlComplete
  <2>4. q = [d EXCEPT !.state = x, !.crossed = c, !.req = Nothing]
    BY <1>1, <1>2, <2>3 DEF DfuStates
  <2>5. q \in DfuStates
    <3>1. c \in BOOLEAN /\ x \in DfuModeStates
      BY <2>1, <2>2 DEF DfuModeStates
    <3> QED BY <1>1, <2>4, <3>1, ZenonT(60) DEF DfuStates
  <2>6. /\ q.mode = d.mode /\ q.size = d.size /\ q.state = x /\ q.status = d.status /\ q.pending = "none"
        /\ q.num = d.num /\ q.len = d.len /\ q.data = d.data /\ q.req = Nothing /\ q.told = d.told
        /\ q.at = d.at /\ q.op = d.op /\ q.hand = d.hand /\ q.bank = d.bank /\ q.want = d.want
        /\ q.manifest = d.manifest /\ q.failed = d.failed /\ q.crossed = c
    BY <1>1, <1>6, <2>4 DEF DfuStates
  <2>7. d.mode = "dfu" /\ ~d.failed
    BY <1>1, <1>6 DEF DfuInv, ModeAgrees, RuntimeStates, DfuStates
  <2>8. ModeAgrees(q) /\ PendingAgrees(q) /\ DownloadDue(q)
    BY <1>1, <2>1, <2>6, <2>7 DEF DfuInv, ModeAgrees, PendingAgrees, DownloadDue, DfuModeStates
  <2>9. OnTheWay(q)
    BY <1>6, <2>2, <2>6 DEF DfuInv, OnTheWay, OnItsWay, InHand
  <2>10. ManifestAgrees(q)
    <3>1. CASE x = "dfuDNLOAD_IDLE"
      BY <2>6, <3>1 DEF ManifestAgrees
    <3>2. CASE x = "dfuMANIFEST_WAIT_RESET"
      <4>1. d.state = "dfuMANIFEST_SYNC"
        BY <1>6, <2>1, <3>2
      <4>2. ~c => ~d.crossed /\ d.at = "idle"
        BY <2>2, <4>1
      <4>3. ~c => d.manifest = "done"
        BY <1>6, <4>1, <4>2 DEF DfuInv, ManifestAgrees
      <4> QED BY <2>6, <3>2, <4>2, <4>3 DEF ManifestAgrees
    <3> QED BY <2>1, <3>1, <3>2
  <2> QED BY <1>2, <2>5, <2>6, <2>7, <2>8, <2>9, <2>10 DEF DfuInv
<1>7. CASE /\ d.req.op \notin {"DETACH", "DNLOAD"}
           /\ ~(d.req.op = "GETSTATUS" /\ d.pending = "none" /\ d.state \in {"dfuDNLOAD_SYNC", "dfuMANIFEST_SYNC"})
  <2>1. ControlComplete(d) = d
    BY <1>7 DEF ControlComplete
  <2>2. q = [d EXCEPT !.req = Nothing]
    BY <1>2, <2>1
  <2>3. q \in DfuStates
    BY <1>1, <2>2 DEF DfuStates
  <2>4. /\ q.mode = d.mode /\ q.size = d.size /\ q.state = d.state /\ q.status = d.status /\ q.pending = d.pending
        /\ q.num = d.num /\ q.len = d.len /\ q.data = d.data /\ q.req = Nothing /\ q.told = d.told
        /\ q.at = d.at /\ q.op = d.op /\ q.hand = d.hand /\ q.bank = d.bank /\ q.want = d.want
        /\ q.manifest = d.manifest /\ q.failed = d.failed /\ q.crossed = d.crossed
    BY <1>1, <2>2 DEF DfuStates
  <2>5. ModeAgrees(q) /\ PendingAgrees(q) /\ DownloadDue(q)
    BY <1>1, <2>4 DEF DfuInv, ModeAgrees, PendingAgrees, DownloadDue
  <2>6. OnTheWay(q)
    BY <2>4 DEF DfuInv, OnTheWay, OnItsWay, InHand, BufferBlock
  <2>7. ManifestAgrees(q)
    BY <1>7, <2>4 DEF DfuInv, ManifestAgrees
  <2> QED BY <1>2, <2>3, <2>4, <2>5, <2>6, <2>7 DEF DfuInv
<1> QED BY <1>3, <1>4, <1>5, <1>6, <1>7

(***************************************************************************)
(* Events of the bus: the application erases on CONNECT, the class starts  *)
(* over, and RESET after a manifest makes the restart due.                 *)
(***************************************************************************)
LEMMA AppKeeps ==
    ASSUME NEW d, Requested(d), NEW event
    PROVE  Requested(AppBusEvent(d, event)) /\ (AppBusEvent(d, event)).mode = d.mode
<1>1. CASE ~(d.mode = "dfu" /\ event = "CONNECT")
  BY <1>1 DEF AppBusEvent
<1>2. CASE d.mode = "dfu" /\ event = "CONNECT"
  <2>1. d \in DfuStates /\ Nothing.op = "none"
    BY DEF Requested, DfuInv, Nothing, Request
  <2>2. Erased \in Banks /\ BufferBlock(d) \in Blocks
    BY <2>1, BlocksOfDfu
  <2>3. PICK w \in Banks : w = IF d.pending = "WRITE" THEN Laid(Erased, BufferBlock(d)) ELSE Erased
    BY <2>2, LaidIsBank
  <2>4. PICK c \in BOOLEAN : c = (d.crossed \/ d.at = "writing")
    OBVIOUS
  <2>5. PICK q : q = AppBusEvent(d, event)
    OBVIOUS
  <2>6. q = [d EXCEPT !.bank = Erased, !.want = w, !.crossed = c]
    BY <1>2, <2>3, <2>4, <2>5 DEF AppBusEvent
  <2>7. q \in DfuStates
    BY <2>1, <2>2, <2>6 DEF DfuStates
  <2>8. /\ q.mode = d.mode /\ q.size = d.size /\ q.state = d.state /\ q.status = d.status /\ q.pending = d.pending
        /\ q.num = d.num /\ q.len = d.len /\ q.data = d.data /\ q.req = Nothing /\ q.told = "nothing"
        /\ q.at = d.at /\ q.op = d.op /\ q.hand = d.hand /\ q.bank = Erased /\ q.want = w
        /\ q.manifest = d.manifest /\ q.failed = d.failed /\ q.crossed = c
    BY <2>1, <2>6 DEF DfuStates, Requested
  <2>9. ModeAgrees(q) /\ PendingAgrees(q) /\ DownloadDue(q)
    BY <2>1, <2>8 DEF Requested, DfuInv, ModeAgrees, PendingAgrees, DownloadDue
  <2>10. OnTheWay(q)
    <3>1. d.at # "writing" => InHand(q) = Erased
      BY <2>8 DEF InHand
    <3>2. BufferBlock(q) = BufferBlock(d)
      BY <2>8 DEF BufferBlock
    <3> QED BY <2>3, <2>4, <2>8, <3>1, <3>2 DEF OnTheWay, OnItsWay
  <2>11. ManifestAgrees(q)
    BY <2>1, <2>4, <2>8 DEF Requested, DfuInv, ManifestAgrees
  <2> QED BY <2>5, <2>7, <2>8, <2>9, <2>10, <2>11 DEF Requested, DfuInv
<1> QED BY <1>1, <1>2

LEMMA ResetStateKeeps ==
    ASSUME NEW s, Requested(s)
    PROVE  DfuInv(DfuResetState(s))
<1>1. s \in DfuStates
  BY DEF Requested, DfuInv
<1>2. PICK want \in Banks : GiveUp(s) = [s EXCEPT !.want = want] /\ (GiveUp(s)).want = want
  BY <1>1, GivingUp
<1>3. PICK x \in DfuModeStates \cup RuntimeStates : x = DfuIdle(s)
  BY DEF DfuIdle, DfuModeStates, RuntimeStates
<1>4. PICK a : a = DfuResetState(s)
  OBVIOUS
<1>5. PICK q : q = [s EXCEPT !.want = want, !.state = x, !.status = "OK", !.pending = "none", !.num = 0, !.len = 0,
                             !.failed = FALSE]
  OBVIOUS
<1>6. DfuIdle(GiveUp(s)) = x /\ DfuIdle(s) = x
  BY <1>1, <1>2, <1>3 DEF DfuIdle, DfuStates
<1>7. a = q
  BY <1>1, <1>2, <1>4, <1>5, <1>6 DEF DfuResetState, DfuStates
<1>8. q \in DfuStates
  <2>1. want \in Banks /\ x \in DfuModeStates \cup RuntimeStates
    BY <1>2, <1>3
  <2> QED BY <1>1, <1>5, <2>1, ZenonT(60) DEF DfuStates, Operations
<1>9. IdleAgain(s, q)
  BY <1>1, <1>2, <1>5, <1>6, <1>8 DEF IdleAgain, DfuStates
<1> QED BY <1>4, <1>7, <1>9, IdleKeeps DEF Requested

LEMMA EventKeeps ==
    ASSUME NEW d, Requested(d), NEW event \in {"CONNECT", "DISCONNECT", "RESET"}
    PROVE  DfuInv(DfuBusEvent(d, event))
<1>1. PICK s : s = AppBusEvent(d, event)
  OBVIOUS
<1>2. Requested(s)
  BY <1>1, AppKeeps
<1>3. CASE event \in {"CONNECT", "DISCONNECT"}
  <2>1. DfuBusEvent(d, event) = DfuResetState(s)
    BY <1>1, <1>3 DEF DfuBusEvent
  <2> QED BY <1>2, <2>1, ResetStateKeeps
<1>4. CASE event = "RESET" /\ d.state = "dfuMANIFEST_WAIT_RESET"
  <2>1. s = d
    BY <1>1, <1>4 DEF AppBusEvent
  <2>2. PICK q : q = [d EXCEPT !.pending = "DETACH"]
    OBVIOUS
  <2>3. DfuBusEvent(d, event) = q
    BY <1>1, <1>4, <2>1, <2>2 DEF DfuBusEvent
  <2>4. d \in DfuStates /\ Nothing.op = "none"
    BY DEF Requested, DfuInv, Nothing, Request
  <2>5. q \in DfuStates
    BY <2>2, <2>4 DEF DfuStates, Operations
  <2>6. /\ q.mode = d.mode /\ q.size = d.size /\ q.state = d.state /\ q.status = d.status /\ q.pending = "DETACH"
        /\ q.num = d.num /\ q.len = d.len /\ q.data = d.data /\ q.req = Nothing /\ q.told = "nothing"
        /\ q.at = d.at /\ q.op = d.op /\ q.hand = d.hand /\ q.bank = d.bank /\ q.want = d.want
        /\ q.manifest = d.manifest /\ q.failed = d.failed /\ q.crossed = d.crossed
    BY <2>2, <2>4 DEF DfuStates, Requested
  <2>7. d.mode = "dfu" /\ d.pending # "WRITE"
    BY <1>4, <2>4 DEF Requested, DfuInv, ModeAgrees, PendingAgrees, RuntimeStates, DfuStates
  <2>8. ModeAgrees(q) /\ PendingAgrees(q) /\ DownloadDue(q) /\ ManifestAgrees(q)
    BY <1>4, <2>4, <2>6, <2>7 DEF Requested, DfuInv, ModeAgrees, PendingAgrees, DownloadDue, ManifestAgrees
  <2>9. OnTheWay(q)
    BY <2>6, <2>7 DEF Requested, DfuInv, OnTheWay, OnItsWay, InHand
  <2> QED BY <2>3, <2>5, <2>6, <2>8, <2>9 DEF Requested, DfuInv
<1>5. CASE event = "RESET" /\ d.state # "dfuMANIFEST_WAIT_RESET"
  <2>1. DfuBusEvent(d, event) = s
    BY <1>1, <1>5 DEF DfuBusEvent
  <2> QED BY <1>2, <2>1 DEF Requested
<1> QED BY <1>3, <1>4, <1>5

(***************************************************************************)
(* The main loop looks, takes, clears.                                     *)
(***************************************************************************)
LEMMA LoopKeeps ==
    ASSUME NEW d, DfuInv(d), NEW at \in {"looked", "took"}, NEW op \in {d.op, d.pending}, d.at \in {"idle", "looked"}
    PROVE  DfuInv([d EXCEPT !.at = at, !.op = op])
<1>1. d \in DfuStates
  BY DEF DfuInv
<1>2. PICK q : q = [d EXCEPT !.at = at, !.op = op]
  OBVIOUS
<1>3. q \in DfuStates
  BY <1>1, <1>2 DEF DfuStates
<1>4. /\ q.mode = d.mode /\ q.size = d.size /\ q.state = d.state /\ q.status = d.status /\ q.pending = d.pending
      /\ q.num = d.num /\ q.len = d.len /\ q.data = d.data /\ q.req = d.req /\ q.told = d.told
      /\ q.at = at /\ q.op = op /\ q.hand = d.hand /\ q.bank = d.bank /\ q.want = d.want
      /\ q.manifest = d.manifest /\ q.failed = d.failed /\ q.crossed = d.crossed
  BY <1>1, <1>2 DEF DfuStates
<1>5. ModeAgrees(q) /\ PendingAgrees(q) /\ DownloadDue(q) /\ ManifestAgrees(q)
  BY <1>4 DEF DfuInv, ModeAgrees, PendingAgrees, DownloadDue, ManifestAgrees
<1>6. OnTheWay(q)
  BY <1>4 DEF DfuInv, OnTheWay, OnItsWay, InHand, BufferBlock
<1> QED BY <1>2, <1>3, <1>4, <1>5, <1>6 DEF DfuInv

(***************************************************************************)
(* Clearing: the block taken is now in hand, and lays itself over the bank *)
(* as it would have from the buffer.                                       *)
(***************************************************************************)
LEMMA ClearsKeeps ==
    ASSUME NEW d, DfuInv(d), d.at = "took"
    PROVE  DfuInv(ProcessClears(d))
<1>1. d \in DfuStates
  BY DEF DfuInv
<1>2. BufferBlock(d) \in Blocks /\ NoBlock \in Blocks /\ NoBlock.len = 0
  BY <1>1, BlocksOfDfu
<1>3. PICK hand \in Blocks : hand = IF d.op = "WRITE" THEN BufferBlock(d) ELSE NoBlock
  BY <1>2
<1>4. PICK at \in {"idle", "writing", "MANIFEST", "DETACH"} :
          at = CASE d.op = "WRITE" -> "writing" [] d.op = "none" -> "idle" [] OTHER -> d.op
  BY <1>1 DEF DfuStates, Operations
<1>5. PICK c \in BOOLEAN : c = (d.crossed \/ d.pending # d.op)
  OBVIOUS
<1>6. PICK q : q = [d EXCEPT !.pending = "none", !.at = at, !.hand = hand, !.crossed = c]
  OBVIOUS
<1>7. ProcessClears(d) = q
  BY <1>3, <1>4, <1>5, <1>6 DEF ProcessClears
<1>8. q \in DfuStates
  <2>1. at \in {"idle", "looked", "took", "writing", "MANIFEST", "DETACH", "gone"} /\ hand \in Blocks /\ c \in BOOLEAN
    BY <1>3, <1>4, <1>5
  <2> QED BY <1>1, <1>6, <2>1, ZenonT(60) DEF DfuStates, Operations
<1>9. /\ q.mode = d.mode /\ q.size = d.size /\ q.state = d.state /\ q.status = d.status /\ q.pending = "none"
      /\ q.num = d.num /\ q.len = d.len /\ q.data = d.data /\ q.req = d.req /\ q.told = d.told
      /\ q.at = at /\ q.op = d.op /\ q.hand = hand /\ q.bank = d.bank /\ q.want = d.want
      /\ q.manifest = d.manifest /\ q.failed = d.failed /\ q.crossed = c
  BY <1>1, <1>6 DEF DfuStates
<1>10. ModeAgrees(q) /\ PendingAgrees(q) /\ DownloadDue(q)
  BY <1>4, <1>9 DEF DfuInv, ModeAgrees, PendingAgrees, DownloadDue
<1>11. ~c => d.pending = d.op /\ ~d.crossed
  BY <1>5
<1>12. OnTheWay(q)
  <2>1. InHand(d) = d.bank
    BY DEF InHand
  <2>2. CASE d.op = "WRITE"
    <3>1. at = "writing" /\ hand = BufferBlock(d)
      BY <1>3, <1>4, <2>2
    <3>2. OnItsWay(q) = Laid(d.bank, BufferBlock(d))
      BY <1>9, <3>1 DEF OnItsWay, InHand
    <3>3. ~c => OnItsWay(d) = Laid(d.bank, BufferBlock(d))
      BY <1>11, <2>1, <2>2 DEF OnItsWay
    <3>4. hand.id = d.data
      BY <3>1 DEF BufferBlock
    <3> QED BY <1>9, <1>11, <3>2, <3>3, <3>4 DEF DfuInv, OnTheWay
  <2>3. CASE d.op # "WRITE"
    <3>1. at # "writing"
      BY <1>1, <1>4, <2>3 DEF DfuStates, Operations
    <3>2. OnItsWay(q) = d.bank
      BY <1>9, <3>1 DEF OnItsWay, InHand
    <3>3. ~c => OnItsWay(d) = d.bank
      BY <1>11, <2>1, <2>3 DEF OnItsWay
    <3> QED BY <1>9, <1>11, <3>1, <3>2, <3>3 DEF DfuInv, OnTheWay
  <2> QED BY <2>2, <2>3
<1>13. ManifestAgrees(q)
  <2>1. ASSUME ~c, d.state = "dfuMANIFEST_SYNC"
        PROVE  (d.req.op = "DNLOAD" /\ d.len = 0) \/ at = "MANIFEST" \/ d.manifest = "done"
    BY <1>4, <1>11, <2>1 DEF DfuInv, ManifestAgrees
  <2>2. ASSUME ~c, d.state = "dfuMANIFEST_WAIT_RESET" PROVE d.manifest = "done" /\ at # "MANIFEST"
    <3>1. d.op # "MANIFEST"
      BY <1>11, <2>2 DEF DfuInv, PendingAgrees
    <3> QED BY <1>4, <1>11, <2>2, <3>1 DEF DfuInv, ManifestAgrees
  <2> QED BY <1>9, <2>1, <2>2 DEF ManifestAgrees
<1>14. q.hand.len <= q.size
  BY <1>1, <1>2, <1>3, <1>9 DEF DfuInv, BufferBlock, DfuStates
<1> QED BY <1>7, <1>8, <1>9, <1>10, <1>12, <1>13, <1>14 DEF DfuInv

(***************************************************************************)
(* An operation ended, well or not.  s is what it left; the bank it left   *)
(* is what the block in hand was to make of it.                            *)
(***************************************************************************)
LEMMA EndedKeeps ==
    ASSUME NEW d, DfuInv(d), NEW s \in DfuStates, NEW at \in {"idle", "gone"},
           s.mode = d.mode, s.size = d.size, s.pending = d.pending, s.num = d.num, s.len = d.len, s.data = d.data,
           s.req = d.req, s.told = d.told, s.at = at, s.op = "none", s.hand = NoBlock, s.want = d.want, s.crossed = d.crossed,
           ~d.crossed => s.bank = InHand(d),
           \/ s.failed = d.failed /\ s.state = d.state /\ s.status = d.status
           \/ s.failed /\ s.state = "dfuERROR" /\ s.status # "OK" /\ d.mode = "dfu",
           s.manifest = "done" \/ (s.manifest = d.manifest /\ d.at # "MANIFEST")
               \/ (s.state = "dfuERROR" /\ d.at = "MANIFEST")
    PROVE  DfuInv(s)
<1>1. ModeAgrees(s)
  BY DEF DfuInv, ModeAgrees, DfuModeStates
<1>2. PendingAgrees(s) /\ DownloadDue(s)
  BY DEF DfuInv, PendingAgrees, DownloadDue
<1>3. OnTheWay(s)
  BY DEF DfuInv, OnTheWay, OnItsWay, InHand, BufferBlock
<1>4. ManifestAgrees(s)
  BY DEF DfuInv, ManifestAgrees
<1>5. s.len <= s.size /\ s.hand.len <= s.size
  BY DEF DfuInv, NoBlock, DfuStates
<1> QED BY <1>1, <1>2, <1>3, <1>4, <1>5 DEF DfuInv

LEMMA WriteKeeps ==
    ASSUME NEW d, DfuInv(d), d.at = "writing", NEW old \in 0..d.hand.len
    PROVE  DfuInv(ProcessWrite(d, old))
<1>1. d \in DfuStates /\ d.mode = "dfu"
  BY DEF DfuInv, ModeAgrees, DfuStates
<1>2. d.bank \in Banks /\ d.hand \in Blocks /\ NoBlock \in Blocks /\ InHand(d) = Laid(d.bank, d.hand)
  BY <1>1, BlocksOfDfu DEF DfuStates, InHand
<1>3. PICK q : q = ProcessWrite(d, old)
  OBVIOUS
<1>4. CASE EndOf(d.hand) > BankBytes
  <2>1. q = [d EXCEPT !.at = "idle", !.op = "none", !.hand = NoBlock, !.status = "errWRITE", !.state = "dfuERROR",
                      !.failed = TRUE]
    BY <1>1, <1>3, <1>4 DEF ProcessWrite, Fails, Processed, DfuStates
  <2>2. q \in DfuStates
    BY <1>1, <1>2, <2>1, ZenonT(60) DEF DfuStates, DfuModeStates, Operations
  <2>3. /\ q.mode = d.mode /\ q.size = d.size /\ q.state = "dfuERROR" /\ q.status = "errWRITE" /\ q.pending = d.pending
        /\ q.num = d.num /\ q.len = d.len /\ q.data = d.data /\ q.req = d.req /\ q.told = d.told
        /\ q.at = "idle" /\ q.op = "none" /\ q.hand = NoBlock /\ q.bank = d.bank /\ q.want = d.want
        /\ q.manifest = d.manifest /\ q.failed = TRUE /\ q.crossed = d.crossed
    BY <1>1, <2>1 DEF DfuStates
  <2>4. InHand(d) = d.bank
    BY <1>2, <1>4, LaidIsBank
  <2> QED BY <1>1, <1>3, <2>2, <2>3, <2>4, EndedKeeps
<1>5. CASE ~(EndOf(d.hand) > BankBytes)
  <2>1. PICK m : m = [i \in DOMAIN d.bank |-> IF i \in OffsetOf(d.hand.num) + old..EndOf(d.hand) - 1 THEN d.data
                                              ELSE Laid(d.bank, d.hand)[i]]
    OBVIOUS
  <2>2. m \in Banks
    <3>1. PICK b \in Banks : b = Laid(d.bank, d.hand)
      BY <1>2, LaidIsBank
    <3>2. DOMAIN d.bank = 0..BankBytes - 1
      BY <1>2 DEF Banks
    <3>3. d.data \in Nat /\ \A i \in 0..BankBytes - 1 : b[i] \in Nat
      BY <1>1, <3>1 DEF Banks, DfuStates
    <3>4. m = [i \in 0..BankBytes - 1 |-> IF i \in OffsetOf(d.hand.num) + old..EndOf(d.hand) - 1 THEN d.data ELSE b[i]]
      BY <2>1, <3>1, <3>2
    <3> QED BY <3>3, <3>4 DEF Banks
  <2>3. PICK e \in Nat : e = EndOf(d.hand)
    BY <1>2 DEF EndOf, OffsetOf, TransferSize, Blocks
  <2>4. q = [d EXCEPT !.bank = m, !.written = e, !.at = "idle", !.op = "none", !.hand = NoBlock]
    BY <1>1, <1>3, <1>5, <2>1, <2>3 DEF ProcessWrite, Processed, AppWrites, DfuStates
  <2>5. q \in DfuStates
    <3>1. m \in Banks /\ e \in Nat
      BY <2>2, <2>3
    <3> QED BY <1>1, <1>2, <2>4, <3>1, ZenonT(60) DEF DfuStates, Operations
  <2>6. /\ q.mode = d.mode /\ q.size = d.size /\ q.state = d.state /\ q.status = d.status /\ q.pending = d.pending
        /\ q.num = d.num /\ q.len = d.len /\ q.data = d.data /\ q.req = d.req /\ q.told = d.told
        /\ q.at = "idle" /\ q.op = "none" /\ q.hand = NoBlock /\ q.bank = m /\ q.want = d.want
        /\ q.manifest = d.manifest /\ q.failed = d.failed /\ q.crossed = d.crossed
    BY <1>1, <2>4 DEF DfuStates
  <2>7. ASSUME ~d.crossed PROVE m = InHand(d)
    <3>1. d.data = d.hand.id
      BY <2>7 DEF DfuInv, OnTheWay
    <3>2. PICK b \in Banks : b = Laid(d.bank, d.hand)
      BY <1>2, LaidIsBank
    <3>3. DOMAIN d.bank = 0..BankBytes - 1
      BY <1>2 DEF Banks
    <3>4. b = [i \in 0..BankBytes - 1 |-> IF i \in OffsetOf(d.hand.num)..EndOf(d.hand) - 1 THEN d.hand.id ELSE d.bank[i]]
      BY <1>5, <3>2, <3>3 DEF Laid
    <3>5. PICK o \in Nat : o = OffsetOf(d.hand.num)
      BY <1>2 DEF OffsetOf, TransferSize, Blocks
    <3>6. old \in Nat
      BY <1>2 DEF Blocks
    <3>7. ASSUME NEW i \in 0..BankBytes - 1, i \in o + old..e - 1 PROVE b[i] = d.data
      <4>1. i \in o..e - 1
        BY <3>5, <3>6, <3>7, <2>3 DEF BankBytes
      <4> QED BY <2>3, <3>1, <3>4, <3>5, <3>7, <4>1
    <3>8. m = [i \in 0..BankBytes - 1 |-> IF i \in o + old..e - 1 THEN d.data ELSE b[i]]
      BY <2>1, <2>3, <3>2, <3>3, <3>5
    <3>9. m = [i \in 0..BankBytes - 1 |-> b[i]]
      BY <3>7, <3>8
    <3>10. b = [i \in 0..BankBytes - 1 |-> b[i]]
      BY <3>2 DEF Banks
    <3> QED BY <1>2, <3>2, <3>9, <3>10
  <2> QED BY <1>1, <1>3, <2>5, <2>6, <2>7, EndedKeeps
<1> QED BY <1>4, <1>5

LEMMA ManifestKeeps ==
    ASSUME NEW d, DfuInv(d), d.at = "MANIFEST", NEW blank \in BOOLEAN
    PROVE  DfuInv(ProcessManifest(d, blank))
<1>1. d \in DfuStates /\ d.mode = "dfu"
  BY DEF DfuInv, ModeAgrees, DfuStates
<1>2. NoBlock \in Blocks /\ InHand(d) = d.bank
  BY <1>1, BlocksOfDfu DEF InHand
<1>3. PICK q : q = ProcessManifest(d, blank)
  OBVIOUS
<1>4. CASE AppVerifies(d, blank)
  <2>1. q = [d EXCEPT !.at = "idle", !.op = "none", !.hand = NoBlock, !.manifest = "done"]
    BY <1>1, <1>3, <1>4 DEF ProcessManifest, Processed, DfuStates
  <2>2. q \in DfuStates
    BY <1>1, <1>2, <2>1, ZenonT(60) DEF DfuStates, Operations
  <2>3. /\ q.mode = d.mode /\ q.size = d.size /\ q.state = d.state /\ q.status = d.status /\ q.pending = d.pending
        /\ q.num = d.num /\ q.len = d.len /\ q.data = d.data /\ q.req = d.req /\ q.told = d.told
        /\ q.at = "idle" /\ q.op = "none" /\ q.hand = NoBlock /\ q.bank = d.bank /\ q.want = d.want
        /\ q.manifest = "done" /\ q.failed = d.failed /\ q.crossed = d.crossed
    BY <1>1, <2>1 DEF DfuStates
  <2> QED BY <1>1, <1>2, <1>3, <2>2, <2>3, EndedKeeps
<1>5. CASE ~AppVerifies(d, blank)
  <2>1. q = [d EXCEPT !.at = "idle", !.op = "none", !.hand = NoBlock, !.status = "errVERIFY", !.state = "dfuERROR",
                      !.failed = TRUE, !.manifest = "refused"]
    BY <1>1, <1>3, <1>5 DEF ProcessManifest, Fails, Processed, DfuStates
  <2>2. q \in DfuStates
    <3>1. "dfuERROR" \in DfuModeStates /\ "none" \in Operations
      BY DEF DfuModeStates, Operations
    <3> QED BY <1>1, <1>2, <2>1, <3>1, ZenonT(60) DEF DfuStates
  <2>3. /\ q.mode = d.mode /\ q.size = d.size /\ q.state = "dfuERROR" /\ q.status = "errVERIFY" /\ q.pending = d.pending
        /\ q.num = d.num /\ q.len = d.len /\ q.data = d.data /\ q.req = d.req /\ q.told = d.told
        /\ q.at = "idle" /\ q.op = "none" /\ q.hand = NoBlock /\ q.bank = d.bank /\ q.want = d.want
        /\ q.manifest = "refused" /\ q.failed = TRUE /\ q.crossed = d.crossed
    BY <1>1, <2>1 DEF DfuStates
  <2> QED BY <1>1, <1>2, <1>3, <2>2, <2>3, EndedKeeps
<1> QED BY <1>4, <1>5

LEMMA DetachKeeps ==
    ASSUME NEW d, DfuInv(d), d.at = "DETACH", NEW reboots \in BOOLEAN
    PROVE  DfuInv(ProcessDetach(d, reboots))
<1>1. d \in DfuStates
  BY DEF DfuInv
<1>2. NoBlock \in Blocks /\ InHand(d) = d.bank
  BY <1>1, BlocksOfDfu DEF InHand
<1>3. PICK at \in {"idle", "gone"} : at = IF reboots THEN "gone" ELSE "idle"
  OBVIOUS
<1>4. PICK q : q = ProcessDetach(d, reboots)
  OBVIOUS
<1>5. q = [d EXCEPT !.op = "none", !.hand = NoBlock, !.at = at]
  BY <1>1, <1>3, <1>4 DEF ProcessDetach, Processed, DfuStates
<1>6. q \in DfuStates
  <2>1. at \in {"idle", "looked", "took", "writing", "MANIFEST", "DETACH", "gone"}
    BY <1>3
  <2> QED BY <1>1, <1>2, <1>5, <2>1, ZenonT(60) DEF DfuStates, Operations
<1>7. /\ q.mode = d.mode /\ q.size = d.size /\ q.state = d.state /\ q.status = d.status /\ q.pending = d.pending
      /\ q.num = d.num /\ q.len = d.len /\ q.data = d.data /\ q.req = d.req /\ q.told = d.told
      /\ q.at = at /\ q.op = "none" /\ q.hand = NoBlock /\ q.bank = d.bank /\ q.want = d.want
      /\ q.manifest = d.manifest /\ q.failed = d.failed /\ q.crossed = d.crossed
  BY <1>1, <1>5 DEF DfuStates
<1> QED BY <1>2, <1>3, <1>4, <1>6, <1>7, EndedKeeps

LEMMA DfuKept ==
    ASSUME DfuInv(boot), DfuMoves
    PROVE  DfuInv(boot')
<1>0. PICK d : d = boot
  OBVIOUS
<1>1. DfuInv(d) /\ d \in DfuStates
  BY <1>0 DEF DfuInv
<1>2. CASE DfuRequest
  BY <1>0, <1>1, <1>2, RequestKeeps DEF DfuRequest
<1>3. CASE DfuStatusStage
  BY <1>0, <1>1, <1>3, CompleteKeeps DEF DfuStatusStage
<1>4. CASE DfuEvent
  <2>1. PICK s : s = EndsRequest(d)
    OBVIOUS
  <2>2. Requested(s)
    BY <1>1, <2>1, EndingKeeps DEF Requested
  <2>3. PICK event \in {"CONNECT", "DISCONNECT", "RESET"} : boot' = DfuBusEvent(s, event)
    BY <1>0, <1>4, <2>1, SMTT(60) DEF DfuEvent
  <2> QED BY <2>2, <2>3, EventKeeps
<1>5. CASE DfuMainLooks
  <2>1. d.at = "idle" /\ boot' = [d EXCEPT !.at = "looked"]
    BY <1>0, <1>5, SMTT(60) DEF DfuMainLooks, MainLooks
  <2>2. [d EXCEPT !.at = "looked"] = [d EXCEPT !.at = "looked", !.op = d.op]
    BY <1>1, ZenonT(60) DEF DfuStates
  <2> QED BY <1>1, <2>1, <2>2, LoopKeeps, ZenonT(60)
<1>6. CASE DfuMainTakes
  <2>1. d.at = "looked" /\ boot' = [d EXCEPT !.at = "took", !.op = d.pending]
    BY <1>0, <1>6 DEF DfuMainTakes, ProcessTakes
  <2> QED BY <1>1, <2>1, LoopKeeps, ZenonT(60)
<1>7. CASE DfuMainClears
  BY <1>0, <1>1, <1>7, ClearsKeeps DEF DfuMainClears
<1>8. CASE DfuMainEnds
  <2>1. CASE d.at = "writing" /\ \E old \in 0..d.hand.len : boot' = ProcessWrite(d, old)
    BY <1>1, <2>1, WriteKeeps
  <2>2. CASE d.at = "MANIFEST" /\ \E blank \in BOOLEAN : boot' = ProcessManifest(d, blank)
    BY <1>1, <2>2, ManifestKeeps
  <2>3. CASE d.at = "DETACH" /\ \E reboots \in BOOLEAN : boot' = ProcessDetach(d, reboots)
    BY <1>1, <2>3, DetachKeeps
  <2> QED BY <1>0, <1>8, <2>1, <2>2, <2>3 DEF DfuMainEnds
<1> QED BY <1>2, <1>3, <1>4, <1>5, <1>6, <1>7, <1>8 DEF DfuMoves

-----------------------------------------------------------------------------
(* The four parts together.                                                *)

BootInv ==
    \/ DfuInv(boot)
    \/ LoaderInv(boot)
    \/ FlashInv(boot)
    \/ StartInv(boot)

LEMMA KindOfPart ==
    /\ DfuInv(boot) => boot.kind = "dfu"
    /\ LoaderInv(boot) => boot.kind = "loader"
    /\ FlashInv(boot) => boot.kind = "flash"
    /\ StartInv(boot) => boot.kind = "start"
BY DEF DfuInv, LoaderInv, FlashInv, StartInv, DfuStates, LoaderStates, FlashStates, StartStates

LEMMA MovesOfPart ==
    ASSUME BootSteps
    PROVE  \/ (boot.kind = "dfu" /\ DfuMoves)
           \/ (boot.kind = "loader" /\ LoaderMoves)
           \/ (boot.kind = "flash" /\ FlashMoves)
           \/ (boot.kind = "start" /\ StartMoves)
<1>1. CASE DfuMoves
  BY <1>1 DEF DfuMoves, DfuRequest, DfuStatusStage, DfuEvent, DfuMainLooks, DfuMainTakes, DfuMainClears, DfuMainEnds, Dfu
<1>2. CASE LoaderMoves
  BY <1>2 DEF LoaderMoves, LoaderStarts, LoaderReadsHeader, LoaderReadsEntry, LoaderLooksUp, LoaderReadsImage,
              LoaderPrepares, LoaderJumps, LoaderResets, LoaderAt
<1>3. CASE FlashMoves
  BY <1>3 DEF FlashMoves, FlashReads, FlashWrites, FlashErases, FlashFlushes, FlashBreaks, Flash
<1>4. CASE StartMoves
  BY <1>4 DEF StartMoves, StartCode, MainOpensPort, MainGivesUp, MainRuns, MainResets, Starting
<1> QED BY <1>1, <1>2, <1>3, <1>4 DEF BootSteps, DfuMoves, LoaderMoves, FlashMoves, StartMoves

LEMMA BootBegins == BootStart => BootInv
<1> SUFFICES ASSUME BootStart PROVE BootInv
  OBVIOUS
<1>1. CASE \E mode \in {"dfu", "runtime"}, size \in 1..2 : boot = SetTransferSize(DfuInit(mode), size)
  BY <1>1, DfuBegins DEF BootInv
<1>2. CASE \E storage \in StorageSizes, start \in MemoryStarts, where \in {"fake", "am243x"} :
              boot = LoaderInit(storage, start, where)
  BY <1>2, LoaderBegins DEF BootInv
<1>3. CASE \E ops \in {{"read"}, {"read", "write", "erase"}} : boot = FlashInit(2 * SectorBytes, ops)
  BY <1>3, FlashBegins DEF BootInv
<1>4. CASE \E ctors \in BOOLEAN : boot = StartInit(ctors)
  BY <1>4, StartBegins DEF BootInv
<1> QED BY <1>1, <1>2, <1>3, <1>4 DEF BootStart

LEMMA BootKept == BootInv /\ [BootSteps]_boot => BootInv'
<1> SUFFICES ASSUME BootInv, [BootSteps]_boot PROVE BootInv'
  OBVIOUS
<1>1. CASE UNCHANGED boot
  BY <1>1 DEF BootInv
<1>2. CASE BootSteps
  <2>1. CASE DfuInv(boot)
    BY <1>2, <2>1, KindOfPart, MovesOfPart, DfuKept DEF BootInv
  <2>2. CASE LoaderInv(boot)
    BY <1>2, <2>2, KindOfPart, MovesOfPart, LoaderKept DEF BootInv
  <2>3. CASE FlashInv(boot)
    BY <1>2, <2>3, KindOfPart, MovesOfPart, FlashKept DEF BootInv
  <2>4. CASE StartInv(boot)
    BY <1>2, <2>4, KindOfPart, MovesOfPart, StartKept DEF BootInv
  <2> QED BY <2>1, <2>2, <2>3, <2>4 DEF BootInv
<1> QED BY <1>1, <1>2

(***************************************************************************)
(* The invariant of each part says what the runs check of it.              *)
(***************************************************************************)
LEMMA DfuShows ==
    ASSUME NEW d, DfuInv(d)
    PROVE  DfuTruth(d)
<1>1. d.pending = "DETACH" /\ d.mode = "dfu" /\ ~d.crossed => d.manifest = "done"
  BY DEF DfuInv, ManifestAgrees
<1>2. ~d.crossed => OnItsWay(d) = d.want
  BY DEF DfuInv, OnTheWay
<1> QED BY <1>1, <1>2 DEF DfuInv, DfuTruth

LEMMA LoaderShows ==
    ASSUME NEW l, LoaderInv(l)
    PROVE  LoaderTruth(l)
<1>1. PICK t \in Seq(Entries) : t = l.out.entries
  BY DEF LoaderInv, LoaderStates
<1>2. DOMAIN t = 1..Len(t)
  OBVIOUS
<1>3. ASSUME 2 * l.storage < Word
      PROVE  /\ \A i \in DOMAIN t : t[i].offset + t[i].size <= l.storage
             /\ \A i, j \in DOMAIN t : i < j => \/ t[i].offset + t[i].size <= t[j].offset
                                               \/ t[j].offset + t[j].size <= t[i].offset
             /\ l.found.offset + l.found.size <= l.storage
  BY <1>1, <1>2, <1>3 DEF LoaderInv, TableInOrder, EndOfEntry, Apart
<1>4. ASSUME l.image # NoImage
      PROVE  /\ l.mem[1] <= l.image.load /\ l.image.load + l.image.size <= l.mem[1] + l.mem[2]
             /\ l.image.entry \in l.image.load..l.image.load + l.image.size - 1
  BY <1>4 DEF LoaderInv, ImageFits
<1>5. l.port.jumped /\ l.where = "fake" => l.port.entry = l.image.entry
  BY DEF LoaderInv
<1> QED BY <1>1, <1>3, <1>4, <1>5 DEF LoaderTruth

LEMMA BootShows == BootInv => BootTruth
<1>1. CASE DfuInv(boot)
  BY <1>1, KindOfPart, DfuShows DEF BootTruth
<1>2. CASE LoaderInv(boot)
  BY <1>2, KindOfPart, LoaderShows DEF BootTruth
<1>3. CASE FlashInv(boot)
  BY <1>3, KindOfPart DEF BootTruth, FlashInv
<1>4. CASE StartInv(boot)
  <2>1. StartTruth(boot)
    BY <1>4 DEF StartInv, StartTruth, Opened
  <2> QED BY <1>4, <2>1, KindOfPart DEF BootTruth
<1> QED BY <1>1, <1>2, <1>3, <1>4 DEF BootInv

(***************************************************************************)
(* THEOREM: what Xboot promises of each of its parts (BootTruth) holds     *)
(* after any number of requests, events, failures, calls and resets, for   *)
(* any sizes of table, storage, memory and address: no DFU block is lost   *)
(* or mixed outside the windows marked crossed, what the loader accepts    *)
(* lies where it may, the flash holds what was answered OK, and the policy *)
(* runs on a device that was set up.                                       *)
(***************************************************************************)
THEOREM BootAlwaysTrue == BootStart /\ [][BootSteps]_boot => []BootTruth
<1>1. BootInv /\ [][BootSteps]_boot => []BootInv
  BY BootKept, PTL
<1> QED BY <1>1, BootBegins, BootShows, PTL

-----------------------------------------------------------------------------

\* The empty sequence.
LEMMA EmptyIsSeq == ASSUME NEW S PROVE <<>> \in Seq(S) /\ Len(<<>>) = 0
OBVIOUS

LEMMA EmptySequence ==
    ASSUME NEW S
    PROVE  \E b \in Seq(S) : Len(b) = 0 /\ b = <<>>
<1>1. PICK b : b = <<>>
  OBVIOUS
<1>2. b \in Seq(S) /\ Len(b) = 0
  BY <1>1, EmptyIsSeq
<1> QED BY <1>1, <1>2, Zenon

\* r is s with x behind it.
OneMore(r, s, x) ==
    /\ r = Append(s, x) /\ Len(r) = Len(s) + 1 /\ r[Len(r)] = x
    /\ \A j \in 1 .. Len(s) : r[j] = s[j]
    /\ \A j \in 1 .. Len(r) : j \in 1 .. Len(s) \/ j = Len(r)

LEMMA Appended ==
    ASSUME NEW S, NEW s \in Seq(S), NEW x \in S
    PROVE  Append(s, x) \in Seq(S) /\ OneMore(Append(s, x), s, x)
<1>1. PICK r : r = Append(s, x)
  OBVIOUS
<1>2. r \in Seq(S) /\ Len(r) = Len(s) + 1
  BY <1>1
<1>3. r[Len(r)] = x
  BY <1>1
<1>4. \A j \in 1 .. Len(s) : r[j] = s[j]
  BY <1>1
<1> QED BY <1>1, <1>2, <1>3, <1>4 DEF OneMore

(***************************************************************************)
(* xLOGIC.                                                                 *)
(***************************************************************************)
Samples == Nat \X Nat
Uploads == [k: Nat, n: Nat, mixed: BOOLEAN, tries: Nat, s: Seq(Samples)]
LogicStates ==
    [kind: {"logic"}, state: {"IDLE", "ARMED", "DONE", "ERROR"}, cap: Nat, count: Nat, buf: Seq(Samples), offset: Nat,
     cmd: {"IDLE", "ARM", "HALT"}, status: {"READY", "RUNNING", "DONE", "OVERRUN"}, got: Nat, ring: Seq(Samples), run: Nat,
     todo: Nat, arms: Nat, mixed: BOOLEAN, tries: Nat, uploads: Seq(Uploads), ops: Nat,
     st: {"OK", "INVALID_STATE", "OVERRUN", "TX"}]

\* The engine: what it stored is of one capture, in order and without a hole.
EngineAgrees(l) ==
    /\ l.run <= l.arms /\ (l.cmd = "ARM" => l.run < l.arms)
    /\ \A j \in 1 .. Len(l.ring) : l.ring[j] = <<l.run, j>>
    /\ l.status = "DONE" => l.todo = 0
    /\ l.todo > 0 => l.status = "RUNNING"
    /\ l.run = l.arms => l.got = Len(l.ring)
    /\ l.count <= MaxSamples /\ l.got <= Len(l.ring)
    /\ l.run = l.arms /\ l.status \in {"RUNNING", "DONE"} => Len(l.ring) + l.todo = l.count

\* The core: once the DONE of the last capture is believed nothing moves in the
\* engine until the samples are out.
CoreAgrees(l) ==
    /\ l.cap <= MaxSamples
    /\ l.state \in {"ARMED", "DONE"} => l.cmd # "HALT"
    /\ l.state \in {"ARMED", "DONE"} /\ l.tries = 0 => l.cap = 0 /\ l.buf = <<>> /\ l.offset = 0
    /\ l.state = "ARMED" => l.tries = 0 /\ l.arms > 0
    /\ l.state = "DONE" /\ ~l.mixed => l.run = l.arms /\ l.status = "DONE" /\ l.cmd = "IDLE"

Whole(u) == ~u.mixed /\ u.tries = 1 => u.s = [j \in 1 .. u.n |-> <<u.k, u.n + 1 - j>>]

LogicInv(l) ==
    /\ l \in LogicStates
    /\ EngineAgrees(l)
    /\ CoreAgrees(l)
    /\ \A i \in 1 .. Len(l.uploads) : Whole(l.uploads[i])

\* Before the first capture.
LEMMA LogicBegins == LogicInv(LogicInit)
<1>1. PICK l : l = LogicInit
  OBVIOUS
<1>2. l \in LogicStates
  BY <1>1 DEF LogicInit, LogicStates
<1>3. EngineAgrees(l)
  BY <1>1, AppsAssumption DEF LogicInit, EngineAgrees
<1>4. CoreAgrees(l) /\ Len(l.uploads) = 0
  BY <1>1, AppsAssumption DEF LogicInit, CoreAgrees
<1> QED BY <1>1, <1>2, <1>3, <1>4 DEF LogicInv

\* Ordering a capture keeps the invariant.
LEMMA ArmKeeps ==
    ASSUME NEW l, LogicInv(l), NEW n \in 1 .. MaxSamples
    PROVE  LogicInv(Arm(l, n))
<1>0. l \in LogicStates /\ n \in Nat
  BY AppsAssumption DEF LogicInv
<1>1. CASE l.state # "IDLE"
  <2>1. PICK e : e = [l EXCEPT !.st = "INVALID_STATE"]
    OBVIOUS
  <2>2. e \in LogicStates
    BY <1>0, <2>1 DEF LogicStates
  <2>3. EngineAgrees(e) /\ CoreAgrees(e) /\ e.uploads = l.uploads
    BY <1>0, <2>1 DEF LogicStates, LogicInv, EngineAgrees, CoreAgrees
  <2> QED BY <1>1, <2>1, <2>2, <2>3 DEF LogicInv, Arm, Failed
<1>2. CASE l.state = "IDLE"
  <2>9. PICK a \in Nat : a = l.arms + 1
    BY <1>0 DEF LogicStates
  <2>0. PICK b \in Seq(Samples) : b = <<>>
    BY EmptySequence
  <2>1. PICK e : e = [l EXCEPT !.offset = 0, !.got = 0, !.count = n, !.cmd = "ARM", !.cap = 0, !.buf = b, !.state = "ARMED",
                               !.arms = a, !.mixed = FALSE, !.tries = 0, !.st = "OK"]
    OBVIOUS
  <2>2. e = Arm(l, n)
    BY <1>0, <1>2, <2>0, <2>1, <2>9 DEF Arm, PruArm, Ok, LogicStates
  <2>3. e \in LogicStates
    BY <1>0, <2>1 DEF LogicStates
  <2>4. /\ e.run = l.run /\ e.arms = l.arms + 1 /\ e.cmd = "ARM" /\ e.ring = l.ring /\ e.status = l.status /\ e.todo = l.todo
        /\ e.state = "ARMED" /\ e.tries = 0 /\ e.cap = 0 /\ e.buf = <<>> /\ e.offset = 0 /\ e.uploads = l.uploads
    BY <1>0, <2>0, <2>1, <2>9 DEF LogicStates
  <2>5. e.run < e.arms /\ e.arms > 0
    BY <1>0, <2>4 DEF LogicInv, EngineAgrees, LogicStates
  <2>10. e.count = n /\ n <= MaxSamples
    BY <1>0, <2>1, AppsAssumption DEF LogicStates
  <2>11. e.run # e.arms /\ e.run <= e.arms
    BY <2>3, <2>5 DEF LogicStates
  <2>12. /\ \A j \in 1 .. Len(e.ring) : e.ring[j] = <<e.run, j>>
         /\ e.status = "DONE" => e.todo = 0
         /\ e.todo > 0 => e.status = "RUNNING"
    BY <2>4 DEF LogicInv, EngineAgrees
  <2>13. MaxSamples \in Nat /\ e.got <= Len(e.ring)
    BY <1>0, <2>1, <2>4, AppsAssumption DEF LogicStates
  <2>6. EngineAgrees(e)
    BY <2>5, <2>10, <2>11, <2>12, <2>13 DEF EngineAgrees
  <2>7. CoreAgrees(e)
    BY <2>4, <2>5, <2>13 DEF CoreAgrees
  <2> QED BY <2>2, <2>3, <2>4, <2>6, <2>7 DEF LogicInv
<1> QED BY <1>1, <1>2

\* Giving a capture up keeps the invariant.
LEMMA LogicAbortKeeps ==
    ASSUME NEW l, LogicInv(l)
    PROVE  LogicInv(Abort(l))
<1>0. l \in LogicStates
  BY DEF LogicInv
<1>5. PICK b \in Seq(Samples) : b = <<>>
  BY EmptySequence
<1>1. PICK e : e = [l EXCEPT !.cmd = "HALT", !.state = "IDLE", !.cap = 0, !.buf = b, !.st = "OK"]
  OBVIOUS
<1>2. e = Abort(l)
  BY <1>0, <1>1, <1>5 DEF Abort, PruHalt, Ok, LogicStates
<1>3. e \in LogicStates
  BY <1>0, <1>1 DEF LogicStates
<1>6. /\ e.cmd = "HALT" /\ e.state = "IDLE" /\ e.cap = 0 /\ e.run = l.run /\ e.arms = l.arms /\ e.ring = l.ring /\ e.status = l.status
      /\ e.todo = l.todo /\ e.got = l.got /\ e.count = l.count /\ e.uploads = l.uploads
  BY <1>0, <1>1 DEF LogicStates
<1>7. EngineAgrees(e)
  BY <1>6 DEF LogicInv, EngineAgrees
<1>4. EngineAgrees(e) /\ CoreAgrees(e) /\ e.uploads = l.uploads
  BY <1>6, <1>7, AppsAssumption DEF CoreAgrees
<1> QED BY <1>2, <1>3, <1>4 DEF LogicInv

\* The engine taking a command, storing a sample or losing one keeps the invariant.
LEMMA EngineKeeps ==
    ASSUME NEW l, LogicInv(l)
    PROVE  /\ l.cmd # "IDLE" => LogicInv(EngineLooks(l))
           /\ l.todo > 0 => LogicInv(EngineStores(l))
           /\ l.todo > 0 => LogicInv([l EXCEPT !.status = "OVERRUN", !.todo = 0])
<1>0. l \in LogicStates
  BY DEF LogicInv
<1>1. ASSUME l.cmd = "ARM" PROVE LogicInv(EngineLooks(l))
  <2>1. PICK r \in Seq(Samples) : Len(r) = 0 /\ r = <<>>
    BY EmptySequence
  <2>2. PICK e : e = [l EXCEPT !.cmd = "IDLE", !.status = "RUNNING", !.run = l.arms, !.todo = l.count, !.got = 0, !.ring = r]
    OBVIOUS
  <2>3. e = EngineLooks(l)
    BY <1>0, <1>1, <2>1, <2>2 DEF EngineLooks
  <2>4. e \in LogicStates
    BY <1>0, <2>2 DEF LogicStates
  <2>7. /\ e.run = l.arms /\ e.arms = l.arms /\ e.cmd = "IDLE" /\ e.ring = r /\ e.got = 0 /\ e.todo = l.count
        /\ e.count = l.count /\ e.status = "RUNNING"
    BY <1>0, <2>2 DEF LogicStates
  <2>8. l.count <= MaxSamples /\ l.count \in Nat
    BY <1>0 DEF LogicInv, EngineAgrees, LogicStates
  <2>5. EngineAgrees(e)
    BY <1>0, <2>1, <2>7, <2>8 DEF EngineAgrees, LogicStates
  <2>6. CoreAgrees(e) /\ e.uploads = l.uploads
    BY <1>0, <1>1, <2>2 DEF LogicInv, EngineAgrees, CoreAgrees, LogicStates
  <2> QED BY <2>3, <2>4, <2>5, <2>6 DEF LogicInv
<1>2. ASSUME l.cmd = "HALT" PROVE LogicInv(EngineLooks(l))
  <2>2. PICK e : e = [l EXCEPT !.cmd = "IDLE", !.status = "READY", !.todo = 0]
    OBVIOUS
  <2>3. e = EngineLooks(l)
    BY <1>0, <1>2, <2>2 DEF EngineLooks
  <2>4. e \in LogicStates
    BY <1>0, <2>2 DEF LogicStates
  <2>5. EngineAgrees(e)
    BY <1>0, <2>2 DEF LogicInv, EngineAgrees, LogicStates
  <2>6. CoreAgrees(e) /\ e.uploads = l.uploads
    BY <1>0, <1>2, <2>2 DEF LogicInv, CoreAgrees, LogicStates
  <2> QED BY <2>3, <2>4, <2>5, <2>6 DEF LogicInv
<1>3. ASSUME l.todo > 0 PROVE LogicInv(EngineStores(l))
  <2>1. PICK m \in Nat : m = Len(l.ring) + 1
    BY <1>0 DEF LogicStates
  <2>2. PICK x \in Samples : x = <<l.run, m>>
    BY <1>0 DEF LogicStates, Samples
  <2>3. PICK r \in Seq(Samples) : r = Append(l.ring, x) /\ OneMore(r, l.ring, x)
    <3>1. l.ring \in Seq(Samples)
      BY <1>0 DEF LogicStates
    <3> QED BY <3>1, Appended
  <2>4. PICK t \in Nat : t = l.todo - 1
    BY <1>0, <1>3 DEF LogicStates
  <2>5. PICK q \in {"RUNNING", "DONE"} : q = IF t = 0 THEN "DONE" ELSE "RUNNING"
    OBVIOUS
  <2>6. l.status = "RUNNING"
    BY <1>3 DEF LogicInv, EngineAgrees
  <2>7. PICK e : e = [l EXCEPT !.ring = r, !.got = m, !.todo = t, !.status = q]
    OBVIOUS
  <2>8. e = EngineStores(l)
    BY <1>0, <2>1, <2>2, <2>3, <2>4, <2>5, <2>6, <2>7 DEF EngineStores, LogicStates
  <2>9. e \in LogicStates
    BY <1>0, <2>5, <2>7 DEF LogicStates
  <2>10. /\ e.ring = r /\ e.got = m /\ e.todo = t /\ e.status = q /\ e.run = l.run /\ e.arms = l.arms /\ e.cmd = l.cmd
         /\ e.count = l.count
    BY <1>0, <2>7 DEF LogicStates
  <2>16. Len(r) = m /\ r[m] = x /\ \A j \in 1 .. m : j \in 1 .. Len(l.ring) \/ j = m
    BY <2>1, <2>3 DEF OneMore
  <2>17. \A j \in 1 .. Len(l.ring) : r[j] = <<l.run, j>>
    BY <2>3 DEF OneMore, LogicInv, EngineAgrees
  <2>11. \A j \in 1 .. m : r[j] = <<l.run, j>>
    BY <2>2, <2>16, <2>17
  <2>12. l.run = l.arms => m + t = l.count
    <3>1. l.run = l.arms => Len(l.ring) + l.todo = l.count
      BY <2>6 DEF LogicInv, EngineAgrees
    <3>2. Len(l.ring) \in Nat /\ l.todo \in Nat /\ l.count \in Nat
      BY <1>0 DEF LogicStates
    <3> QED BY <2>1, <2>4, <3>1, <3>2
  <2>15. l.run <= l.arms /\ (l.cmd = "ARM" => l.run < l.arms) /\ l.count <= MaxSamples
    BY DEF LogicInv, EngineAgrees
  <2>13. EngineAgrees(e)
    BY <1>0, <2>5, <2>10, <2>11, <2>12, <2>15, <2>16 DEF EngineAgrees
  <2>14. CoreAgrees(e) /\ e.uploads = l.uploads
    BY <1>0, <2>6, <2>7 DEF LogicInv, CoreAgrees, LogicStates
  <2> QED BY <2>8, <2>9, <2>13, <2>14 DEF LogicInv
<1>4. ASSUME l.todo > 0 PROVE LogicInv([l EXCEPT !.status = "OVERRUN", !.todo = 0])
  <2>1. PICK e : e = [l EXCEPT !.status = "OVERRUN", !.todo = 0]
    OBVIOUS
  <2>2. e \in LogicStates
    BY <1>0, <2>1 DEF LogicStates
  <2>3. EngineAgrees(e)
    BY <1>0, <2>1 DEF LogicInv, EngineAgrees, LogicStates
  <2>4. l.status = "RUNNING"
    BY <1>4 DEF LogicInv, EngineAgrees
  <2>5. CoreAgrees(e) /\ e.uploads = l.uploads
    BY <1>0, <2>1, <2>4 DEF LogicInv, CoreAgrees, LogicStates
  <2> QED BY <2>1, <2>2, <2>3, <2>5 DEF LogicInv
<1> QED BY <1>0, <1>1, <1>2, <1>3, <1>4 DEF LogicStates

\* A poll that changes at most the state of the core, the marks and the answer.
LEMMA PollArmedKeeps ==
    ASSUME NEW l, LogicInv(l), l.state = "ARMED"
    PROVE  LogicInv(PollArmed(l))
<1>0. l \in LogicStates
  BY DEF LogicInv
<1>1. CASE l.status = "OVERRUN"
  <2>1. PICK e : e = [l EXCEPT !.state = "ERROR", !.st = "OVERRUN"]
    OBVIOUS
  <2>2. e = PollArmed(l)
    BY <1>0, <1>1, <2>1 DEF PollArmed, Failed, LogicStates
  <2>3. e \in LogicStates
    BY <1>0, <2>1 DEF LogicStates
  <2>4. EngineAgrees(e) /\ CoreAgrees(e) /\ e.uploads = l.uploads
    BY <1>0, <2>1 DEF LogicStates, LogicInv, EngineAgrees, CoreAgrees
  <2> QED BY <2>2, <2>3, <2>4 DEF LogicInv
<1>2. CASE l.status = "DONE"
  <2>1. PICK m \in BOOLEAN : m = (l.run # l.arms)
    OBVIOUS
  <2>2. PICK e : e = [l EXCEPT !.state = "DONE", !.mixed = m, !.st = "OK"]
    OBVIOUS
  <2>3. e = PollArmed(l)
    BY <1>0, <1>2, <2>1, <2>2 DEF PollArmed, Ok, LogicStates
  <2>4. e \in LogicStates
    BY <1>0, <2>2 DEF LogicStates
  <2>5. EngineAgrees(e) /\ e.uploads = l.uploads
    BY <1>0, <2>2, SMTT(60) DEF LogicStates, LogicInv, EngineAgrees
  <2>6. /\ e.state = "DONE" /\ e.mixed = m /\ e.run = l.run /\ e.arms = l.arms /\ e.status = l.status /\ e.cmd = l.cmd
        /\ e.tries = l.tries /\ e.cap = l.cap /\ e.buf = l.buf /\ e.offset = l.offset
    BY <1>0, <2>2 DEF LogicStates
  <2>7. l.cmd # "HALT" /\ l.cmd \in {"IDLE", "ARM", "HALT"} /\ (l.cmd = "ARM" => l.run < l.arms) /\ l.run \in Nat /\ l.arms \in Nat
    BY <1>0 DEF LogicStates, LogicInv, CoreAgrees, EngineAgrees
  <2>9. l.tries = 0 /\ l.cap = 0 /\ l.buf = <<>> /\ l.offset = 0 /\ l.cap <= MaxSamples
    BY DEF LogicInv, CoreAgrees
  <2>10. ~m => l.run = l.arms /\ l.cmd = "IDLE"
    <3>1. l.cmd = "ARM" \/ l.cmd = "IDLE"
      BY <2>7
    <3>2. l.cmd = "ARM" => l.run # l.arms
      BY <2>7
    <3> QED BY <2>1, <3>1, <3>2
  <2>8. CoreAgrees(e)
    BY <1>2, <2>6, <2>7, <2>9, <2>10 DEF CoreAgrees
  <2> QED BY <2>3, <2>4, <2>5, <2>8 DEF LogicInv
<1>3. CASE l.status # "OVERRUN" /\ l.status # "DONE"
  <2>1. PICK e : e = [l EXCEPT !.st = "OK"]
    OBVIOUS
  <2>2. e = PollArmed(l)
    BY <1>3, <2>1 DEF PollArmed, Ok
  <2>3. e \in LogicStates
    BY <1>0, <2>1 DEF LogicStates
  <2>4. EngineAgrees(e) /\ CoreAgrees(e) /\ e.uploads = l.uploads
    BY <1>0, <2>1 DEF LogicStates, LogicInv, EngineAgrees, CoreAgrees
  <2> QED BY <2>2, <2>3, <2>4 DEF LogicInv
<1> QED BY <1>1, <1>2, <1>3

\* What a poll reads: the samples beyond the offset, as far as there is room.
IsRead(l, b, c, o) ==
    /\ ReadSamples(l) = [l EXCEPT !.buf = b, !.cap = c, !.offset = o] /\ c <= MaxSamples
    /\ l.tries = 0 /\ ~l.mixed => Len(b) = l.count /\ c = l.count /\ \A j \in 1 .. l.count : b[j] = <<l.arms, j>>

\* s is the part of r behind the first m elements, n of them.
IsPart(s, r, m, n) == Len(s) = n /\ \A i \in 1 .. n : s[i] = r[m + i]

LEMMA Sliced ==
    ASSUME NEW S, NEW s \in Seq(S), NEW m \in Nat, NEW n \in Nat, m + n <= Len(s), NEW z \in Nat, z = m + n
    PROVE  SubSeq(s, m + 1, z) \in Seq(S) /\ IsPart(SubSeq(s, m + 1, z), s, m, n)
<1>1. PICK r : r = SubSeq(s, m + 1, z)
  OBVIOUS
<1>2. \A i \in m + 1 .. m + n : s[i] \in S
  OBVIOUS
<1>3. r \in Seq(S)
  BY <1>1, <1>2
<1>4. Len(r) = n
  BY <1>1
<1>5. ASSUME NEW i \in 1 .. n PROVE r[i] = s[m + i]
  BY <1>1
<1> QED BY <1>1, <1>3, <1>4, <1>5 DEF IsPart

\* A sequence from its end.
LEMMA Reversed ==
    ASSUME NEW S, NEW s \in Seq(S)
    PROVE  /\ Reverse(s) \in Seq(S) /\ Len(Reverse(s)) = Len(s)
           /\ \A i \in 1 .. Len(s) : Reverse(s)[i] = s[(Len(s) - i) + 1]
<1>1. PICK n \in Nat : n = Len(s)
  OBVIOUS
<1>2. PICK r : r = [i \in 1 .. n |-> s[(n - i) + 1]]
  OBVIOUS
<1>3. \A i \in 1 .. n : s[(n - i) + 1] \in S
  <2> SUFFICES ASSUME NEW i \in 1 .. n PROVE s[(n - i) + 1] \in S
    OBVIOUS
  <2>1. (n - i) + 1 \in 1 .. Len(s)
    BY <1>1
  <2> QED BY <2>1
<1>4. r \in [1 .. n -> S]
  BY <1>2, <1>3
<1>5. r \in Seq(S) /\ Len(r) = n
  BY <1>1, <1>4
<1>6. Reverse(s) = r
  BY <1>1, <1>2 DEF Reverse
<1> QED BY <1>1, <1>2, <1>5, <1>6

LEMMA SamplesRead ==
    ASSUME NEW l, LogicInv(l), l.state = "DONE"
    PROVE  \E b \in Seq(Samples), c \in Nat, o \in Nat : IsRead(l, b, c, o)
<1>0. l \in LogicStates /\ MaxSamples \in Nat
  BY AppsAssumption DEF LogicInv
<1>1. PICK r \in Seq(Samples) : r = l.ring
  BY <1>0 DEF LogicStates
<1>2. PICK o \in Nat, c \in Nat, g \in Nat : o = l.offset /\ c = l.cap /\ g = l.got
  BY <1>0 DEF LogicStates
<1>3. c <= MaxSamples /\ g <= Len(r)
  BY <1>1, <1>2 DEF LogicInv, CoreAgrees, EngineAgrees
<1>4. PICK a \in Nat : a = AvailableBytes(l)
  BY <1>2 DEF AvailableBytes
<1>5. PICK n \in Nat : n = IF a < MaxSamples - c THEN a ELSE MaxSamples - c
  BY <1>0, <1>2, <1>3
<1>6. PICK p \in Seq(Samples) : p = l.buf
  BY <1>0 DEF LogicStates
<1>7. PICK z \in Nat : z = o + n
  OBVIOUS
<1>8. n > 0 => z <= Len(r)
  BY <1>2, <1>3, <1>4, <1>5, <1>7, SMTT(60) DEF AvailableBytes
<1>9. PICK s \in Seq(Samples) : s = SubSeq(r, o + 1, z) /\ IsPart(s, r, o, n)
  <2>1. CASE n > 0
    BY <1>7, <1>8, <2>1, Sliced
  <2>2. CASE n = 0
    <3>1. PICK s : s = <<>>
      OBVIOUS
    <3>2. s \in Seq(Samples) /\ Len(s) = 0
      BY <3>1, EmptyIsSeq
    <3>3. SubSeq(r, o + 1, z) = s
      BY <1>7, <2>2, <3>1
    <3>4. IsPart(s, r, o, n)
      BY <2>2, <3>2 DEF IsPart
    <3> QED BY <3>2, <3>3, <3>4
  <2> QED BY <2>1, <2>2
<1>10. PICK b : b = p \o s
  OBVIOUS
<1>11. b \in Seq(Samples) /\ Len(b) = Len(p) + Len(s)
  BY <1>10
<1>12. PICK k \in Nat : k = c + n
  OBVIOUS
<1>13. ReadSamples(l) = [l EXCEPT !.buf = b, !.cap = k, !.offset = z]
  <2>1. ReadSamples(l) = [l EXCEPT !.buf = @ \o SubSeq(l.ring, l.offset + 1, l.offset + n), !.cap = @ + n, !.offset = @ + n]
    BY <1>2, <1>4, <1>5 DEF ReadSamples
  <2> QED BY <1>0, <1>1, <1>2, <1>6, <1>7, <1>9, <1>10, <1>12, <2>1 DEF LogicStates
<1>14. ASSUME l.tries = 0, ~l.mixed
       PROVE  Len(b) = l.count /\ k = l.count /\ \A j \in 1 .. l.count : b[j] = <<l.arms, j>>
  <2>1. c = 0 /\ p = <<>> /\ o = 0
    BY <1>2, <1>6, <1>14 DEF LogicInv, CoreAgrees
  <2>2. l.run = l.arms /\ l.status = "DONE"
    BY <1>14 DEF LogicInv, CoreAgrees
  <2>3. PICK q \in Nat : q = l.count
    BY <1>0 DEF LogicStates
  <2>4. g = Len(r) /\ Len(r) = q /\ q <= MaxSamples /\ \A j \in 1 .. Len(r) : r[j] = <<l.arms, j>>
    BY <1>0, <1>1, <1>2, <2>2, <2>3, SMTT(60) DEF LogicInv, EngineAgrees, LogicStates
  <2>5. a = q
    BY <1>2, <1>4, <2>1, <2>4 DEF AvailableBytes
  <2>6. n = q
    BY <1>0, <1>5, <2>1, <2>4, <2>5
  <2>7. b = s
    BY <1>10, <2>1
  <2>8. Len(s) = q
    BY <1>9, <2>6 DEF IsPart
  <2>9. ASSUME NEW j \in 1 .. q PROVE s[j] = <<l.arms, j>>
    <3>1. n > 0 /\ j \in 1 .. n /\ o + j = j
      BY <2>1, <2>3, <2>6
    <3>2. s[j] = r[j]
      BY <1>9, <3>1 DEF IsPart
    <3> QED BY <2>4, <3>2
  <2> QED BY <1>12, <2>1, <2>3, <2>6, <2>7, <2>8, <2>9
<1>15. k <= MaxSamples
  BY <1>0, <1>3, <1>5, <1>12
<1> QED BY <1>11, <1>13, <1>14, <1>15 DEF IsRead
\* The samples of a capture are out: the core is idle again.
LEMMA SentKeeps ==
    ASSUME NEW l, LogicInv(l), NEW o \in Nat, NEW m \in Nat, NEW ups \in Seq(Uploads), NEW b \in Seq(Samples),
           \A i \in 1 .. Len(ups) : Whole(ups[i]),
           NEW e, e = [l EXCEPT !.offset = o, !.tries = m, !.state = "IDLE", !.cap = 0, !.buf = b, !.uploads = ups, !.st = "OK"]
    PROVE  LogicInv(e)
<1>0. l \in LogicStates /\ MaxSamples \in Nat
  BY AppsAssumption DEF LogicInv
<1>1. e \in LogicStates
  BY <1>0 DEF LogicStates
<1>2. /\ e.state = "IDLE" /\ e.cap = 0 /\ e.cmd = l.cmd /\ e.run = l.run /\ e.arms = l.arms /\ e.ring = l.ring
      /\ e.status = l.status /\ e.todo = l.todo /\ e.got = l.got /\ e.count = l.count /\ e.uploads = ups
  BY <1>0 DEF LogicStates
<1>3. EngineAgrees(e)
  BY <1>2 DEF LogicInv, EngineAgrees
<1>4. CoreAgrees(e)
  BY <1>0, <1>2 DEF CoreAgrees
<1> QED BY <1>1, <1>2, <1>3, <1>4 DEF LogicInv

\* A poll that reads the samples, turns them and sends them keeps the invariant,
\* also when USB refuses them and they are sent again, turned once more.
LEMMA PollDoneKeeps ==
    ASSUME NEW l, LogicInv(l), l.state = "DONE", NEW works \in BOOLEAN
    PROVE  LogicInv(PollDone(l, works))
<1>0. l \in LogicStates /\ MaxSamples \in Nat
  BY AppsAssumption DEF LogicInv
<1>1. PICK b \in Seq(Samples), c \in Nat, o \in Nat : IsRead(l, b, c, o)
  BY SamplesRead
<1>2. PICK d : d = [l EXCEPT !.buf = b, !.cap = c, !.offset = o]
  OBVIOUS
<1>3. ReadSamples(l) = d /\ d \in LogicStates
  BY <1>0, <1>1, <1>2 DEF IsRead, LogicStates
<1>4. d.cap = c /\ d.buf = b /\ d.tries = l.tries /\ d.arms = l.arms /\ d.count = l.count /\ d.mixed = l.mixed /\ d.uploads = l.uploads
  BY <1>0, <1>2 DEF LogicStates
<1>5. c <= MaxSamples
  BY <1>1 DEF IsRead
<1>6. PICK v : v = SendSamples(d, works)
  OBVIOUS
<1>7. PollDone(l, works) = IF v.st = "OK" THEN [v EXCEPT !.state = "IDLE", !.cap = 0, !.buf = <<>>] ELSE v
  BY <1>3, <1>6 DEF PollDone, Then, IsOk
<1>8. PICK z \in Seq(Samples) : z = <<>>
  BY EmptySequence
<1>9. PICK us \in Seq(Uploads) : us = l.uploads
  BY <1>0 DEF LogicStates
<1>10. \A i \in 1 .. Len(us) : Whole(us[i])
  BY <1>9 DEF LogicInv
<1>11. CASE c = 0
  <2>1. v = [d EXCEPT !.st = "OK"]
    BY <1>4, <1>6, <1>11 DEF SendSamples, Ok
  <2>2. PICK t \in Nat : t = l.tries
    BY <1>0 DEF LogicStates
  <2>3. PICK e : e = [l EXCEPT !.offset = o, !.tries = t, !.state = "IDLE", !.cap = 0, !.buf = z, !.uploads = us, !.st = "OK"]
    OBVIOUS
  <2>4. PICK w : w = [l EXCEPT !.buf = b, !.cap = c, !.offset = o, !.st = "OK"]
    OBVIOUS
  <2>5. v = w
    BY <1>0, <1>2, <2>1, <2>4 DEF LogicStates
  <2>6. w \in LogicStates /\ w.st = "OK"
    BY <1>0, <2>4 DEF LogicStates
  <2>7. PollDone(l, works) = [w EXCEPT !.state = "IDLE", !.cap = 0, !.buf = z]
    BY <1>7, <1>8, <2>5, <2>6
  <2>8. [w EXCEPT !.state = "IDLE", !.cap = 0, !.buf = z] = e
    <3>1. us = l.uploads /\ t = l.tries
      BY <1>9, <2>2
    <3> QED BY <1>0, <2>3, <2>4, <3>1, ZenonT(60) DEF LogicStates
  <2>9. PollDone(l, works) = e
    BY <2>7, <2>8
  <2> QED BY <1>10, <2>3, <2>9, SentKeeps, ZenonT(60)
<1>12. ASSUME c # 0 PROVE LogicInv(PollDone(l, works))
  <2>1. PICK r \in Seq(Samples) : /\ r = Reverse(b) /\ Len(r) = Len(b)
                                  /\ \A i \in 1 .. Len(b) : r[i] = b[(Len(b) - i) + 1]
    BY Reversed
  <2>2. PICK t \in Nat : t = l.tries + 1
    BY <1>0, SMTT(60) DEF LogicStates
  <2>3. PICK k \in Nat, n \in Nat, m \in BOOLEAN : k = l.arms /\ n = l.count /\ m = l.mixed
    BY <1>0 DEF LogicStates
  <2>4. PICK u \in Uploads : u = [k |-> k, n |-> n, mixed |-> m, tries |-> t, s |-> r]
    BY DEF Uploads
  <2>5. Whole(u)
    <3>0. u.k = k /\ u.n = n /\ u.mixed = m /\ u.tries = t /\ u.s = r
      BY <2>4
    <3>1. SUFFICES ASSUME ~m, t = 1 PROVE r = [j \in 1 .. n |-> <<k, n + 1 - j>>]
      BY <3>0, ZenonT(60) DEF Whole
    <3>2. l.tries = 0
      BY <1>0, <2>2, <3>1, SMTT(60) DEF LogicStates
    <3>3. Len(b) = n /\ \A j \in 1 .. n : b[j] = <<k, j>>
      BY <1>1, <2>3, <3>1, <3>2 DEF IsRead
    <3>4. ASSUME NEW j \in 1 .. n PROVE r[j] = <<k, n + 1 - j>>
      <4>1. PICK q \in 1 .. n : q = (n - j) + 1 /\ q = n + 1 - j
        OBVIOUS
      <4>2. r[j] = b[q]
        BY <2>1, <3>3, <4>1
      <4> QED BY <3>3, <4>1, <4>2
    <3>5. DOMAIN r = 1 .. n /\ r = [j \in 1 .. n |-> r[j]]
      BY <2>1, <3>3
    <3> QED BY <3>4, <3>5
  <2>6. CASE works
    <3>1. PICK ups : ups = Append(us, u)
      OBVIOUS
    <3>2. ups \in Seq(Uploads) /\ OneMore(ups, us, u)
      BY <3>1, Appended
    <3>3. \A i \in 1 .. Len(ups) : Whole(ups[i])
      BY <1>10, <2>5, <3>2 DEF OneMore
    <3>4. PICK e : e = [l EXCEPT !.offset = o, !.tries = t, !.state = "IDLE", !.cap = 0, !.buf = z, !.uploads = ups, !.st = "OK"]
      OBVIOUS
    <3>5. v = [d EXCEPT !.buf = r, !.tries = t, !.uploads = ups, !.st = "OK"]
      BY <1>3, <1>4, <1>6, <1>9, <1>12, <2>1, <2>2, <2>3, <2>4, <2>6, <3>1 DEF SendSamples, Ok, LogicStates
    <3>6. PICK w : w = [l EXCEPT !.buf = r, !.cap = c, !.offset = o, !.tries = t, !.uploads = ups, !.st = "OK"]
      OBVIOUS
    <3>7. v = w
      BY <1>0, <1>2, <3>5, <3>6 DEF LogicStates
    <3>8. w \in LogicStates /\ w.st = "OK"
      BY <1>0, <3>2, <3>6 DEF LogicStates
    <3>9. PollDone(l, works) = [w EXCEPT !.state = "IDLE", !.cap = 0, !.buf = z]
      BY <1>7, <1>8, <3>7, <3>8
    <3>10. [w EXCEPT !.state = "IDLE", !.cap = 0, !.buf = z] = e
      BY <1>0, <3>4, <3>6 DEF LogicStates
    <3>11. PollDone(l, works) = e
      BY <3>9, <3>10
    <3> QED BY <3>2, <3>3, <3>4, <3>11, SentKeeps
  <2>7. CASE ~works
    <3>1. PICK e : e = [l EXCEPT !.buf = r, !.cap = c, !.offset = o, !.tries = t, !.st = "TX"]
      OBVIOUS
    <3>2. v = e
      BY <1>0, <1>2, <1>3, <1>4, <1>6, <1>12, <2>1, <2>2, <2>7, <3>1, ZenonT(60) DEF SendSamples, Failed, LogicStates
    <3>3. e \in LogicStates /\ e.st = "TX"
      BY <1>0, <3>1 DEF LogicStates
    <3>4. PollDone(l, works) = e
      BY <1>7, <3>2, <3>3
    <3>5. /\ e.state = "DONE" /\ e.tries = t /\ e.cap = c /\ e.cmd = l.cmd /\ e.run = l.run /\ e.arms = l.arms /\ e.ring = l.ring
          /\ e.status = l.status /\ e.todo = l.todo /\ e.got = l.got /\ e.count = l.count /\ e.uploads = us /\ e.mixed = l.mixed
      BY <1>0, <1>9, <3>1 DEF LogicStates
    <3>6. EngineAgrees(e)
      BY <3>5 DEF LogicInv, EngineAgrees
    <3>7. t # 0
      BY <1>0, <2>2, SMTT(60) DEF LogicStates
    <3>8. CoreAgrees(e)
      BY <1>5, <3>5, <3>7 DEF LogicInv, CoreAgrees
    <3> QED BY <1>10, <3>3, <3>4, <3>5, <3>6, <3>8 DEF LogicInv
  <2> QED BY <2>6, <2>7
<1> QED BY <1>11, <1>12

\* A poll in any state keeps the invariant.
LEMMA LogicPollKeeps ==
    ASSUME NEW l, LogicInv(l), NEW works \in BOOLEAN
    PROVE  LogicInv(Poll(l, works))
<1>0. l \in LogicStates /\ MaxSamples \in Nat
  BY AppsAssumption DEF LogicInv
<1>1. CASE l.state = "IDLE"
  <2>1. PICK e : e = [l EXCEPT !.st = "OK"]
    OBVIOUS
  <2>2. e \in LogicStates
    BY <1>0, <2>1 DEF LogicStates
  <2>3. EngineAgrees(e) /\ CoreAgrees(e) /\ e.uploads = l.uploads
    BY <1>0, <2>1, SMTT(60) DEF LogicStates, LogicInv, EngineAgrees, CoreAgrees
  <2>4. LogicInv(e)
    BY <2>2, <2>3 DEF LogicInv
  <2> QED BY <1>1, <2>1, <2>4 DEF Poll, Ok
<1>2. CASE l.state = "ARMED"
  BY <1>2, PollArmedKeeps DEF Poll
<1>3. CASE l.state = "DONE"
  BY <1>3, PollDoneKeeps DEF Poll
<1>4. CASE l.state = "ERROR"
  <2>1. PICK e : e = [l EXCEPT !.cmd = "HALT", !.st = "INVALID_STATE"]
    OBVIOUS
  <2>2. e \in LogicStates
    BY <1>0, <2>1 DEF LogicStates
  <2>3. EngineAgrees(e) /\ CoreAgrees(e) /\ e.uploads = l.uploads
    BY <1>0, <1>4, <2>1 DEF LogicStates, LogicInv, EngineAgrees, CoreAgrees
  <2>4. LogicInv(e)
    BY <2>2, <2>3 DEF LogicInv
  <2>5. Poll(l, works) = e
    BY <1>0, <1>4, <2>1 DEF Poll, Failed, PruHalt, LogicStates
  <2> QED BY <2>4, <2>5
<1> QED BY <1>0, <1>1, <1>2, <1>3, <1>4 DEF LogicStates

\* Counting an operation keeps the invariant.
LEMMA LogicCounted ==
    ASSUME NEW l, LogicInv(l)
    PROVE  LogicInv([l EXCEPT !.ops = @ + 1]) /\ [l EXCEPT !.ops = @ + 1].state = l.state
<1>0. l \in LogicStates
  BY DEF LogicInv
<1>1. PICK n \in Nat : n = l.ops + 1
  BY <1>0 DEF LogicStates
<1>2. PICK e : e = [l EXCEPT !.ops = n]
  OBVIOUS
<1>3. e \in LogicStates /\ e.state = l.state
  BY <1>0, <1>2 DEF LogicStates
<1>4. EngineAgrees(e) /\ CoreAgrees(e) /\ e.uploads = l.uploads
  BY <1>0, <1>2 DEF LogicStates, LogicInv, EngineAgrees, CoreAgrees
<1> QED BY <1>1, <1>2, <1>3, <1>4 DEF LogicInv

\* Every step of the capture core and of the engine behind it keeps the invariant.
LEMMA LogicKept == LogicInv(app) /\ LogicSteps => LogicInv(app')
<1> SUFFICES ASSUME LogicInv(app), LogicSteps PROVE LogicInv(app')
  OBVIOUS
<1>1. PICK l : l = [app EXCEPT !.ops = @ + 1]
  OBVIOUS
<1>2. LogicInv(l)
  BY <1>1, LogicCounted
<1>3. \/ \E n \in 1 .. MaxSamples : app' = Arm(l, n)
      \/ app' = Abort(l)
      \/ app' = Poll(app, TRUE)
      \/ app' = Poll(l, FALSE)
      \/ app.cmd # "IDLE" /\ app' = EngineLooks(app)
      \/ app.todo > 0 /\ app' = EngineStores(app)
      \/ app.todo > 0 /\ app' = [app EXCEPT !.status = "OVERRUN", !.todo = 0]
  BY <1>1 DEF LogicSteps
<1> QED BY <1>2, <1>3, ArmKeeps, LogicAbortKeeps, LogicPollKeeps, EngineKeeps

\* The invariant says of the analyser what the runs check.
LEMMA LogicShows == ASSUME NEW l, LogicInv(l) PROVE LogicTruth(l)
<1>1. PICK us \in Seq(Uploads) : us = l.uploads
  BY DEF LogicInv, LogicStates
<1>2. DOMAIN us = 1 .. Len(us)
  OBVIOUS
<1> QED BY <1>1, <1>2 DEF LogicInv, LogicTruth, Whole

(***************************************************************************)
(* THEOREM: with the analyser in use, after any number of captures armed,  *)
(* aborted, overrun and polled, and of uploads that USB refuses, for any   *)
(* sizes, whichever way the core and the engine behind it interleave: an   *)
(* upload sent at the first attempt, whose DONE was that of the last       *)
(* capture, is the whole capture and no other, newest sample first.        *)
(***************************************************************************)
THEOREM LogicAlwaysTrue == app = LogicInit /\ [][AppsNext]_app => []LogicTruth(app)
<1>1. app = LogicInit => LogicInv(app)
  BY LogicBegins
<1>2. LogicInv(app) /\ [AppsNext]_app => LogicInv(app)'
  <2> SUFFICES ASSUME LogicInv(app), [AppsNext]_app PROVE LogicInv(app')
    OBVIOUS
  <2>1. app.kind = "logic"
    BY DEF LogicInv, LogicStates
  <2>2. AppsNext => LogicSteps
    BY <2>1 DEF AppsNext, BridgeReceives, BridgeRests, SerialSteps, SlcanSteps, SumpSteps, UrbSteps, WireSteps
  <2>3. CASE AppsNext
    BY <2>2, <2>3, LogicKept
  <2>4. CASE UNCHANGED app
    <3>1. app' = app
      BY <2>4
    <3> QED BY <3>1
  <2> QED BY <2>3, <2>4
<1>3. LogicInv(app) => LogicTruth(app)
  BY LogicShows
<1> QED BY <1>1, <1>2, <1>3, PTL

-----------------------------------------------------------------------------
(* A ring: t - h places around, read at h and written at t.  Both the       *)
(* serial port of xBRIDGE and the trace recorder keep one.                  *)

LEMMA Wraps ==
    ASSUME NEW q \in Nat, q >= 2, NEW x \in Int
    PROVE  /\ x \in 0 .. q - 1 => x % q = x
           /\ x \in q .. 2 * q - 1 => x % q = x - q
           /\ x \in -q .. -1 => x % q = x + q
<1>1. x \in 0 .. q - 1 => x % q = x
  OBVIOUS
<1>2. x \in q .. 2 * q - 1 => x % q = x - q
  OBVIOUS
<1>3. x \in -q .. -1 => x % q = x + q
  OBVIOUS
<1> QED BY <1>1, <1>2, <1>3

\* Counting on past the end of a ring.
LEMMA Around ==
    ASSUME NEW q \in Nat, q >= 2, NEW x \in Nat, x < 2 * q
    PROVE  \E v \in Nat : v < q /\ v \in 0 .. q - 1 /\ v = x % q /\ v = IF x < q THEN x ELSE x - q
<1>1. CASE x < q
  <2>1. x % q = x
    BY <1>1, Wraps
  <2> QED BY <1>1, <2>1
<1>2. CASE ~(x < q)
  <2>1. PICK y \in Nat : y = x - q
    BY <1>2
  <2>2. x % q = y
    BY <1>2, <2>1, Wraps
  <2>3. y < q /\ y \in 0 .. q - 1
    BY <2>1
  <2> QED BY <1>2, <2>1, <2>2, <2>3
<1> QED BY <1>1, <1>2

Distance(h, t, q) == IF t >= h THEN t - h ELSE q - h + t
Contents(f, h, t, q) == [i \in 1 .. Distance(h, t, q) |-> f[(h + i - 1) % q]]
Filled(f, t, s, q) == [p \in 0 .. q - 1 |-> LET i == (p - t) % q IN IF i < Len(s) THEN s[i + 1] ELSE f[p]]

IsDistance(a, h, t, q) == a \in Nat /\ a < q /\ a = IF t >= h THEN t - h ELSE q - h + t

LEMMA DistanceIs ==
    ASSUME NEW q \in Nat, q >= 2, NEW h \in 0 .. q - 1, NEW t \in 0 .. q - 1
    PROVE  IsDistance(Distance(h, t, q), h, t, q)
<1>1. CASE t >= h
  <2>1. PICK a \in Nat : a = t - h
    BY <1>1
  <2>2. a < q
    BY <2>1
  <2> QED BY <1>1, <2>1, <2>2 DEF Distance, IsDistance
<1>2. CASE ~(t >= h)
  <2>1. PICK a \in Nat : a = q - h + t
    BY <1>2
  <2>2. a < q
    BY <1>2, <2>1
  <2> QED BY <1>2, <2>1, <2>2 DEF Distance, IsDistance
<1> QED BY <1>1, <1>2

\* The i-th place of a ring, and how far it lies behind the tail.
IndexSplits(p, j, h, t, i, a, q) ==
    /\ p = (h + i - 1) % q /\ p = IF h + i - 1 < q THEN h + i - 1 ELSE h + i - 1 - q
    /\ j = (p - t) % q /\ j = IF i <= a THEN i - 1 - a + q ELSE i - 1 - a

LEMMA RingIndexes ==
    ASSUME NEW q \in Nat, q >= 2, NEW h \in 0 .. q - 1, NEW t \in 0 .. q - 1, NEW i \in 1 .. q,
           NEW a, IsDistance(a, h, t, q)
    PROVE  \E p \in 0 .. q - 1, j \in Nat : IndexSplits(p, j, h, t, i, a, q)
<1>1. PICK x \in Nat : x = h + i - 1
  OBVIOUS
<1>2. x < 2 * q
  BY <1>1
<1>3. PICK p \in Nat : p < q /\ p \in 0 .. q - 1 /\ p = x % q /\ p = IF x < q THEN x ELSE x - q
  BY <1>2, Around
<1>4. p \in 0 .. q - 1 /\ p = IF x < q THEN x ELSE x - q
  BY <1>3
<1>5. PICK j \in Nat : j = (p - t) % q /\ j = IF p >= t THEN p - t ELSE p - t + q
  <2>1. PICK y \in Int : y = p - t
    OBVIOUS
  <2>2. CASE p >= t
    <3>1. y \in 0 .. q - 1 /\ y \in Nat
      BY <1>4, <2>1, <2>2
    <3>2. y % q = y
      BY <3>1, Wraps
    <3> QED BY <2>1, <2>2, <3>1, <3>2
  <2>3. CASE ~(p >= t)
    <3>1. PICK z \in Nat : z = y + q
      BY <2>1
    <3>2. y \in -q .. -1
      BY <2>1, <2>3
    <3>3. y % q = z
      BY <3>1, <3>2, Wraps
    <3>4. z = p - t + q
      BY <2>1, <3>1
    <3> QED BY <2>1, <2>3, <3>1, <3>3, <3>4
  <2> QED BY <2>2, <2>3
<1>6. j = IF p >= t THEN p - t ELSE p - t + q
  BY <1>5
<1>9. a \in Nat /\ a = IF t >= h THEN t - h ELSE q - h + t
  BY DEF IsDistance
<1>7. j = IF i <= a THEN i - 1 - a + q ELSE i - 1 - a
  BY <1>1, <1>4, <1>6, <1>9
<1>8. p = IF h + i - 1 < q THEN h + i - 1 ELSE h + i - 1 - q
  BY <1>1, <1>4
<1>10. IndexSplits(p, j, h, t, i, a, q)
  BY <1>1, <1>3, <1>5, <1>7, <1>8 DEF IndexSplits
<1> QED BY <1>3, <1>5, <1>10

LEMMA RingAt ==
    ASSUME NEW q \in Nat, q >= 2, NEW h \in 0 .. q - 1, NEW i \in 1 .. q
    PROVE  \E p \in 0 .. q - 1 : p = (h + i - 1) % q /\ p = IF h + i - 1 < q THEN h + i - 1 ELSE h + i - 1 - q
<1>1. PICK x \in Nat : x = h + i - 1
  OBVIOUS
<1>2. x < 2 * q
  BY <1>1
<1>3. PICK p \in Nat : p < q /\ p \in 0 .. q - 1 /\ p = x % q /\ p = IF x < q THEN x ELSE x - q
  BY <1>2, Around
<1> QED BY <1>1, <1>3

\* What is in a ring is a sequence.
Listing(c, a, T, f, h, q) == c \in Seq(T) /\ Len(c) = a /\ \A i \in 1 .. a : c[i] = f[(h + i - 1) % q]

LEMMA RingReads ==
    ASSUME NEW T, NEW q \in Nat, q >= 2, NEW f \in [0 .. q - 1 -> T], NEW h \in 0 .. q - 1, NEW t \in 0 .. q - 1
    PROVE  Listing(Contents(f, h, t, q), Distance(h, t, q), T, f, h, q)
<1>6. PICK a, c : a = Distance(h, t, q) /\ c = Contents(f, h, t, q)
  OBVIOUS
<1>1. a \in Nat /\ a < q
  BY <1>6, DistanceIs DEF IsDistance
<1>2. ASSUME NEW i \in 1 .. a PROVE (h + i - 1) % q \in 0 .. q - 1
  <2>1. i \in 1 .. q
    BY <1>1
  <2> QED BY <2>1, RingAt, ZenonT(60)
<1>3. c = [i \in 1 .. a |-> f[(h + i - 1) % q]]
  BY <1>6 DEF Contents
<1>4. c \in [1 .. a -> T] /\ \A i \in 1 .. a : c[i] = f[(h + i - 1) % q]
  BY <1>2, <1>3, ZenonT(60)
<1>5. c \in Seq(T) /\ Len(c) = a
  BY <1>1, <1>4
<1> QED BY <1>4, <1>5, <1>6, ZenonT(60) DEF Listing

\* What is put in is behind what was there.
Gains(g, v, f, h, t, s, q) ==
    g = Filled(f, t, s, q) /\ v = (t + Len(s)) % q /\ Contents(g, h, v, q) = Contents(f, h, t, q) \o s

LEMMA RingGains ==
    ASSUME NEW T, NEW q \in Nat, q >= 2, NEW f \in [0 .. q - 1 -> T], NEW h \in 0 .. q - 1, NEW t \in 0 .. q - 1,
           NEW s \in Seq(T), Distance(h, t, q) + Len(s) <= q - 1
    PROVE  \E g \in [0 .. q - 1 -> T], v \in 0 .. q - 1 : Gains(g, v, f, h, t, s, q)
<1>1. PICK n \in Nat : n = Len(s)
  OBVIOUS
<1>2. PICK a : a = Distance(h, t, q)
  OBVIOUS
<1>18. IsDistance(a, h, t, q)
  BY <1>2, DistanceIs
<1>15. a \in Nat /\ a < q /\ n + a <= q - 1 /\ a = IF t >= h THEN t - h ELSE q - h + t
  BY <1>1, <1>2, <1>18 DEF IsDistance
<1>3. PICK v \in Nat : v < q /\ v \in 0 .. q - 1 /\ v = (t + n) % q /\ v = IF t + n < q THEN t + n ELSE t + n - q
  <2>1. PICK x \in Nat : x = t + n
    OBVIOUS
  <2>2. x < 2 * q
    BY <1>15, <2>1
  <2>3. PICK v \in Nat : v < q /\ v \in 0 .. q - 1 /\ v = x % q /\ v = IF x < q THEN x ELSE x - q
    BY <2>2, Around
  <2> QED BY <2>1, <2>3
<1>4. v \in 0 .. q - 1 /\ v = IF t + n < q THEN t + n ELSE t + n - q
  BY <1>3
<1>5. PICK g : g = Filled(f, t, s, q)
  OBVIOUS
<1>6. \A p \in 0 .. q - 1 : g[p] = IF (p - t) % q < n THEN s[((p - t) % q) + 1] ELSE f[p]
  BY <1>1, <1>5 DEF Filled
<1>7. \A p \in 0 .. q - 1 : g[p] \in T
  <2> SUFFICES ASSUME NEW p \in 0 .. q - 1 PROVE g[p] \in T
    OBVIOUS
  <2>1. PICK i \in Nat : i = (p - t) % q
    <3>1. PICK x \in Int : x = p - t /\ x \in -q .. q - 1
      OBVIOUS
    <3>2. x % q \in Nat
      BY <3>1
    <3> QED BY <3>1, <3>2
  <2>2. f[p] \in T
    OBVIOUS
  <2>3. i < n => s[i + 1] \in T
    BY <1>1, <2>1
  <2> QED BY <1>6, <2>1, <2>2, <2>3
<1>8. g \in [0 .. q - 1 -> T]
  BY <1>5, <1>7 DEF Filled
<1>9. PICK b : b = Distance(h, v, q)
  OBVIOUS
<1>19. IsDistance(b, h, v, q)
  BY <1>4, <1>9, DistanceIs
<1>16. b \in Nat /\ b = IF v >= h THEN v - h ELSE q - h + v
  BY <1>19 DEF IsDistance
<1>17. b = a + n
  BY <1>4, <1>15, <1>16
<1>10. PICK c \in Seq(T) : c = Contents(f, h, t, q) /\ Len(c) = a /\ \A i \in 1 .. a : c[i] = f[(h + i - 1) % q]
  <2>1. Listing(Contents(f, h, t, q), a, T, f, h, q)
    BY <1>2, RingReads
  <2> QED BY <2>1, ZenonT(60) DEF Listing
<1>11. PICK e \in Seq(T) : e = Contents(g, h, v, q) /\ Len(e) = a + n /\ \A i \in 1 .. a + n : e[i] = g[(h + i - 1) % q]
  <2>1. Listing(Contents(g, h, v, q), b, T, g, h, q)
    BY <1>4, <1>8, <1>9, RingReads
  <2>2. Listing(Contents(g, h, v, q), a + n, T, g, h, q)
    BY <1>17, <2>1
  <2> QED BY <2>2, ZenonT(60) DEF Listing
<1>12. PICK d \in Seq(T) : d = c \o s /\ Len(d) = a + n /\ \A i \in 1 .. a + n : d[i] = IF i <= a THEN c[i] ELSE s[i - a]
  <2>1. /\ c \o s \in Seq(T) /\ Len(c \o s) = Len(c) + Len(s)
        /\ \A i \in 1 .. Len(c) + Len(s) : (c \o s)[i] = IF i <= Len(c) THEN c[i] ELSE s[i - Len(c)]
    BY <1>10, ConcatProperties
  <2>2. (c \o s) \in Seq(T) /\ Len(c \o s) = a + n /\ \A i \in 1 .. a + n : (c \o s)[i] = IF i <= a THEN c[i] ELSE s[i - a]
    BY <1>1, <1>10, <2>1, ZenonT(60)
  <2> QED BY <2>2
<1>13. ASSUME NEW i \in 1 .. a + n PROVE d[i] = e[i]
  <2>1. i \in 1 .. q
    BY <1>15
  <2>8. PICK p \in 0 .. q - 1, j \in Nat : IndexSplits(p, j, h, t, i, a, q)
    BY <1>18, <2>1, RingIndexes
  <2>2. p = (h + i - 1) % q /\ j = (p - t) % q /\ j = IF i <= a THEN i - 1 - a + q ELSE i - 1 - a
    BY <2>8 DEF IndexSplits
  <2>3. e[i] = g[p]
    BY <1>11, <2>2, ZenonT(60)
  <2>4. j = IF i <= a THEN i - 1 - a + q ELSE i - 1 - a
    BY <2>2
  <2>5. g[p] = IF j < n THEN s[j + 1] ELSE f[p]
    BY <1>6, <2>2, ZenonT(60)
  <2>6. CASE i <= a
    <3>1. ~(j < n) /\ i \in 1 .. a
      BY <1>15, <2>4, <2>6
    <3>2. c[i] = f[p]
      BY <1>10, <2>2, <3>1, ZenonT(60)
    <3> QED BY <1>12, <2>3, <2>5, <2>6, <3>1, <3>2
  <2>7. CASE ~(i <= a)
    <3>1. j < n /\ j + 1 = i - a
      BY <1>15, <2>4, <2>7
    <3>2. g[p] = s[i - a]
      BY <2>5, <3>1
    <3>3. d[i] = s[i - a]
      BY <1>12, <2>7
    <3> QED BY <2>3, <3>2, <3>3
  <2> QED BY <2>6, <2>7
<1>14. d = e
  BY <1>11, <1>12, <1>13, SeqEqual
<1>20. Gains(g, v, f, h, t, s, q)
  BY <1>1, <1>3, <1>5, <1>10, <1>11, <1>12, <1>14 DEF Gains
<1> QED BY <1>4, <1>8, <1>20

\* What is taken out was the front.
LEMMA RingLoses ==
    ASSUME NEW T, NEW q \in Nat, q >= 2, NEW f \in [0 .. q - 1 -> T], NEW h \in 0 .. q - 1, NEW t \in 0 .. q - 1,
           NEW n \in Nat, n <= Distance(h, t, q)
    PROVE  LET s == [i \in 1 .. n |-> f[(h + i - 1) % q]]
               g == (h + n) % q
           IN  /\ s \in Seq(T) /\ Len(s) = n /\ g \in 0 .. q - 1 /\ Distance(g, t, q) = Distance(h, t, q) - n
               /\ Contents(f, g, t, q) \in Seq(T)
               /\ Contents(f, h, t, q) = s \o Contents(f, g, t, q)
<1>14. PICK a : a = Distance(h, t, q)
  OBVIOUS
<1>17. IsDistance(a, h, t, q)
  BY <1>14, DistanceIs
<1>1. a \in Nat /\ a < q /\ n <= a /\ a = IF t >= h THEN t - h ELSE q - h + t
  BY <1>14, <1>17 DEF IsDistance
<1>2. PICK c \in Seq(T) : c = Contents(f, h, t, q) /\ Len(c) = a /\ \A i \in 1 .. a : c[i] = f[(h + i - 1) % q]
  <2>1. Listing(Contents(f, h, t, q), a, T, f, h, q)
    BY <1>14, RingReads
  <2> QED BY <2>1, ZenonT(60) DEF Listing
<1>3. PICK s : s = [i \in 1 .. n |-> f[(h + i - 1) % q]]
  OBVIOUS
<1>4. \A i \in 1 .. n : s[i] = c[i] /\ c[i] \in T
  <2> SUFFICES ASSUME NEW i \in 1 .. n PROVE s[i] = c[i] /\ c[i] \in T
    OBVIOUS
  <2>1. i \in 1 .. a
    BY <1>1
  <2> QED BY <1>2, <1>3, <2>1
<1>5. s \in [1 .. n -> T]
  BY <1>3, <1>4
<1>6. s \in Seq(T) /\ Len(s) = n
  BY <1>5
<1>7. PICK g \in Nat : g < q /\ g \in 0 .. q - 1 /\ g = (h + n) % q /\ g = IF h + n < q THEN h + n ELSE h + n - q
  <2>1. PICK x \in Nat : x = h + n
    OBVIOUS
  <2>2. x < 2 * q
    BY <1>1, <2>1
  <2>3. PICK g \in Nat : g < q /\ g \in 0 .. q - 1 /\ g = x % q /\ g = IF x < q THEN x ELSE x - q
    BY <2>2, Around
  <2> QED BY <2>1, <2>3
<1>8. g \in 0 .. q - 1 /\ g = IF h + n < q THEN h + n ELSE h + n - q
  BY <1>7
<1>9. PICK b : b = Distance(g, t, q)
  OBVIOUS
<1>18. IsDistance(b, g, t, q)
  BY <1>8, <1>9, DistanceIs
<1>15. b \in Nat /\ b = IF t >= g THEN t - g ELSE q - g + t
  BY <1>18 DEF IsDistance
<1>16. b = a - n
  BY <1>1, <1>8, <1>15
<1>10. PICK d \in Seq(T) : d = Contents(f, g, t, q) /\ Len(d) = a - n /\ \A i \in 1 .. a - n : d[i] = f[(g + i - 1) % q]
  <2>1. Listing(Contents(f, g, t, q), b, T, f, g, q)
    BY <1>8, <1>9, RingReads
  <2>2. Listing(Contents(f, g, t, q), a - n, T, f, g, q)
    BY <1>16, <2>1
  <2> QED BY <2>2, ZenonT(60) DEF Listing
<1>11. ASSUME NEW i \in 1 .. a - n PROVE d[i] = c[i + n]
  <2>1. PICK j \in Nat : j = i + n
    OBVIOUS
  <2>2. 1 <= j /\ j <= a /\ j \in 1 .. a /\ i \in 1 .. q /\ j \in 1 .. q
    BY <1>1, <2>1
  <2>3. PICK x \in 0 .. q - 1 : x = (h + j - 1) % q /\ x = IF h + j - 1 < q THEN h + j - 1 ELSE h + j - 1 - q
    BY <2>2, RingAt, ZenonT(60)
  <2>4. PICK y \in 0 .. q - 1 : y = (g + i - 1) % q /\ y = IF g + i - 1 < q THEN g + i - 1 ELSE g + i - 1 - q
    BY <1>8, <2>2, RingAt, ZenonT(60)
  <2>5. x = y
    <3>1. x = (IF h + j - 1 < q THEN h + j - 1 ELSE h + j - 1 - q) /\ y = IF g + i - 1 < q THEN g + i - 1 ELSE g + i - 1 - q
      BY <2>3, <2>4
    <3> QED BY <1>1, <1>8, <2>1, <2>2, <3>1
  <2>6. d[i] = f[y]
    BY <1>10, <2>4, ZenonT(60)
  <2>7. c[j] = f[x]
    BY <1>2, <2>2, <2>3, ZenonT(60)
  <2> QED BY <2>1, <2>5, <2>6, <2>7
<1>12. s \o d \in Seq(T) /\ Len(s \o d) = a /\ \A i \in 1 .. a : (s \o d)[i] = c[i]
  <2>1. s \o d \in Seq(T) /\ Len(s \o d) = a /\ \A i \in 1 .. a : (s \o d)[i] = IF i <= n THEN s[i] ELSE d[i - n]
    <3>1. /\ s \o d \in Seq(T) /\ Len(s \o d) = Len(s) + Len(d)
          /\ \A i \in 1 .. Len(s) + Len(d) : (s \o d)[i] = IF i <= Len(s) THEN s[i] ELSE d[i - Len(s)]
      BY <1>6, ConcatProperties
    <3>2. n + (a - n) = a
      BY <1>1
    <3>3. Len(s) = n /\ Len(s) + Len(d) = a
      BY <1>6, <1>10, <3>2, ZenonT(60)
    <3> QED BY <3>1, <3>3, ZenonT(60)
  <2>2. ASSUME NEW i \in 1 .. a PROVE (s \o d)[i] = c[i]
    <3>1. CASE i <= n
      BY <1>4, <2>1, <3>1
    <3>2. CASE ~(i <= n)
      <4>1. PICK k \in Nat : k = i - n
        BY <3>2
      <4>2. k \in 1 .. a - n /\ k + n = i
        BY <1>1, <3>2, <4>1
      <4> QED BY <1>11, <2>1, <3>2, <4>1, <4>2
    <3> QED BY <3>1, <3>2
  <2> QED BY <2>1, <2>2
<1>13. c = s \o d
  BY <1>2, <1>12, SeqEqual
<1> QED BY <1>2, <1>3, <1>6, <1>7, <1>9, <1>10, <1>13, <1>14, <1>16

-----------------------------------------------------------------------------
(* The serial port of xBRIDGE: two rings between USB and the line.          *)

Rings == [slot: [0 .. QueueBytes - 1 -> Nat], head: 0 .. QueueBytes - 1, tail: 0 .. QueueBytes - 1]

LEMMA InRingIs ==
    ASSUME NEW r \in Rings
    PROVE  /\ QueueBytes \in Nat /\ QueueBytes >= 2
           /\ r.slot \in [0 .. QueueBytes - 1 -> Nat] /\ r.head \in 0 .. QueueBytes - 1 /\ r.tail \in 0 .. QueueBytes - 1
           /\ RingAvailable(r) = Distance(r.head, r.tail, QueueBytes)
           /\ InRing(r) = Contents(r.slot, r.head, r.tail, QueueBytes)
           /\ InRing(r) \in Seq(Nat) /\ Len(InRing(r)) = RingAvailable(r)
           /\ RingAvailable(r) \in Nat
<1>1. QueueBytes \in Nat /\ QueueBytes >= 2
  BY AppsAssumption
<1>2. r.slot \in [0 .. QueueBytes - 1 -> Nat] /\ r.head \in 0 .. QueueBytes - 1 /\ r.tail \in 0 .. QueueBytes - 1
  BY DEF Rings
<1>3. RingAvailable(r) = Distance(r.head, r.tail, QueueBytes)
  BY DEF RingAvailable, Distance
<1>4. InRing(r) = Contents(r.slot, r.head, r.tail, QueueBytes)
  BY <1>3, ZenonT(60) DEF InRing, Contents
<1>5. InRing(r) \in Seq(Nat) /\ Len(InRing(r)) = RingAvailable(r) /\ RingAvailable(r) \in Nat
  <2>1. Listing(InRing(r), RingAvailable(r), Nat, r.slot, r.head, QueueBytes)
    BY <1>1, <1>2, <1>3, <1>4, RingReads
  <2>2. IsDistance(RingAvailable(r), r.head, r.tail, QueueBytes)
    BY <1>1, <1>2, <1>3, DistanceIs
  <2> QED BY <2>1, <2>2 DEF Listing, IsDistance
<1> QED BY <1>1, <1>2, <1>3, <1>4, <1>5

\* What fits is behind what was there.
LEMMA Enqueued ==
    ASSUME NEW r \in Rings, NEW s \in Seq(Nat), RingFits(r, Len(s))
    PROVE  RingEnqueue(r, s) \in Rings /\ InRing(RingEnqueue(r, s)) = InRing(r) \o s
<1>1. PICK q \in Nat : q = QueueBytes /\ q >= 2
  BY InRingIs
<1>2. PICK f \in [0 .. q - 1 -> Nat], h \in 0 .. q - 1, t \in 0 .. q - 1 : f = r.slot /\ h = r.head /\ t = r.tail
  BY <1>1, InRingIs
<1>3. Distance(h, t, q) + Len(s) <= q - 1
  <2>1. PICK a \in Nat : a = Distance(h, t, q) /\ a = RingAvailable(r)
    BY <1>1, <1>2, InRingIs
  <2>2. Len(s) \in Nat /\ Len(s) <= q - 1 - a
    BY <1>1, <2>1 DEF RingFits
  <2>3. a + Len(s) <= q - 1
    BY <1>1, <2>2
  <2> QED BY <2>1, <2>3
<1>9. PICK g \in [0 .. q - 1 -> Nat], v \in 0 .. q - 1 : Gains(g, v, f, h, t, s, q)
  BY <1>1, <1>3, RingGains
<1>4. g = Filled(f, t, s, q) /\ v = (t + Len(s)) % q /\ Contents(g, h, v, q) = Contents(f, h, t, q) \o s
  BY <1>9 DEF Gains
<1>5. PICK e : e = [r EXCEPT !.slot = g, !.tail = v]
  OBVIOUS
<1>6. RingEnqueue(r, s) = e
  BY <1>1, <1>2, <1>4, <1>5 DEF RingEnqueue, Filled, Rings
<1>7. e \in Rings /\ e.head = h /\ e.tail = v /\ e.slot = g
  BY <1>1, <1>2, <1>5 DEF Rings
<1>8. InRing(e) = Contents(g, h, v, q) /\ InRing(r) = Contents(f, h, t, q)
  BY <1>1, <1>2, <1>7, InRingIs
<1> QED BY <1>4, <1>6, <1>7, <1>8

\* What is taken was the front of it.
LEMMA Dequeued ==
    ASSUME NEW r \in Rings
    PROVE  /\ RingTaken(r) \in Seq(Nat) /\ RingDequeue(r) \in Rings
           /\ InRing(RingDequeue(r)) \in Seq(Nat)
           /\ InRing(r) = RingTaken(r) \o InRing(RingDequeue(r))
<1>1. PICK q \in Nat : q = QueueBytes /\ q >= 2
  BY InRingIs
<1>2. PICK f \in [0 .. q - 1 -> Nat], h \in 0 .. q - 1, t \in 0 .. q - 1 : f = r.slot /\ h = r.head /\ t = r.tail
  BY <1>1, InRingIs
<1>3. PICK a \in Nat : a = Distance(h, t, q) /\ a = RingAvailable(r)
  BY <1>1, <1>2, InRingIs
<1>4. PICK n \in Nat : n <= a /\ n = IF a < ChunkBytes THEN a ELSE ChunkBytes
  BY <1>3, AppsAssumption
<1>5. PICK s \in Seq(Nat), g \in 0 .. q - 1 :
          /\ s = [i \in 1 .. n |-> f[(h + i - 1) % q]] /\ Len(s) = n /\ g = (h + n) % q
          /\ Contents(f, g, t, q) \in Seq(Nat) /\ Contents(f, h, t, q) = s \o Contents(f, g, t, q)
  BY <1>1, <1>3, <1>4, RingLoses
<1>6. RingTaken(r) = s
  BY <1>1, <1>2, <1>3, <1>4, <1>5 DEF RingTaken
<1>7. PICK e : e = [r EXCEPT !.head = g]
  OBVIOUS
<1>8. RingDequeue(r) = e
  BY <1>1, <1>2, <1>5, <1>6, <1>7 DEF RingDequeue, Rings
<1>9. e \in Rings /\ e.head = g /\ e.tail = t /\ e.slot = f
  BY <1>1, <1>2, <1>5, <1>7 DEF Rings
<1>10. InRing(e) = Contents(f, g, t, q) /\ InRing(r) = Contents(f, h, t, q)
  BY <1>1, <1>2, <1>9, InRingIs
<1> QED BY <1>5, <1>6, <1>8, <1>9, <1>10

\* The bytes numbered up to n, but for the lost ones, each once and in order.
Ordered(c) == \A i, j \in 1 .. Len(c) : i < j => c[i] < c[j]
Sound(c, n, lost) ==
    /\ c \in Seq(Nat) /\ n \in Nat /\ lost \subseteq 1 .. n
    /\ Ordered(c) /\ ToSet(c) = (1 .. n) \ lost

LEMMA InSet == ASSUME NEW c \in Seq(Nat) PROVE \A x : x \in ToSet(c) <=> \E i \in 1 .. Len(c) : c[i] = x
BY DEF ToSet

LEMMA NumbersAre ==
    ASSUME NEW n \in Nat, NEW k \in Nat
    PROVE  /\ Numbers(n, k) \in Seq(Nat) /\ Len(Numbers(n, k)) = k
           /\ \A i \in 1 .. k : Numbers(n, k)[i] = n + i
           /\ ToSet(Numbers(n, k)) = n + 1 .. n + k
<1>1. PICK s : s = [i \in 1 .. k |-> n + i]
  OBVIOUS
<1>2. s \in [1 .. k -> Nat] /\ \A i \in 1 .. k : s[i] = n + i
  BY <1>1
<1>3. s \in Seq(Nat) /\ Len(s) = k
  BY <1>2
<1>4. ToSet(s) \subseteq n + 1 .. n + k
  <2> SUFFICES ASSUME NEW x \in ToSet(s) PROVE x \in n + 1 .. n + k
    OBVIOUS
  <2>1. PICK i \in 1 .. k : s[i] = x
    BY <1>3, InSet
  <2> QED BY <1>2, <2>1
<1>5. n + 1 .. n + k \subseteq ToSet(s)
  <2> SUFFICES ASSUME NEW x \in n + 1 .. n + k PROVE x \in ToSet(s)
    OBVIOUS
  <2>1. PICK i \in Nat : i = x - n
    OBVIOUS
  <2>2. i \in 1 .. k /\ s[i] = x
    BY <1>2, <2>1
  <2> QED BY <1>3, <2>2, InSet
<1> QED BY <1>1, <1>2, <1>3, <1>4, <1>5 DEF Numbers

\* Bytes that come in are behind all earlier ones.
LEMMA BytesJoined ==
    ASSUME NEW c, NEW n, NEW lost, Sound(c, n, lost), NEW k \in Nat
    PROVE  Sound(c \o Numbers(n, k), n + k, lost)
<1>0. c \in Seq(Nat) /\ n \in Nat /\ lost \subseteq 1 .. n /\ Ordered(c) /\ ToSet(c) = (1 .. n) \ lost
  BY DEF Sound
<1>1. PICK s \in Seq(Nat) : s = Numbers(n, k) /\ Len(s) = k /\ (\A i \in 1 .. k : s[i] = n + i) /\ ToSet(s) = n + 1 .. n + k
  BY <1>0, NumbersAre
<1>2. PICK m \in Nat : m = Len(c)
  BY <1>0
<1>3. PICK d \in Seq(Nat) : d = c \o s /\ Len(d) = m + k /\ \A i \in 1 .. m + k : d[i] = IF i <= m THEN c[i] ELSE s[i - m]
  <2>1. /\ c \o s \in Seq(Nat) /\ Len(c \o s) = Len(c) + Len(s)
        /\ \A i \in 1 .. Len(c) + Len(s) : (c \o s)[i] = IF i <= Len(c) THEN c[i] ELSE s[i - Len(c)]
    BY <1>0, <1>1, ConcatProperties, ZenonT(60)
  <2> QED BY <1>1, <1>2, <2>1
<1>4. \A i \in 1 .. m : c[i] \in 1 .. n
  <2> SUFFICES ASSUME NEW i \in 1 .. m PROVE c[i] \in 1 .. n
    OBVIOUS
  <2>1. c[i] \in ToSet(c)
    BY <1>0, <1>2, InSet
  <2> QED BY <1>0, <2>1
<1>5. \A i \in 1 .. m : d[i] = c[i]
  BY <1>2, <1>3
<1>6. \A i \in 1 .. m + k : i > m => d[i] = n + (i - m)
  <2> SUFFICES ASSUME NEW i \in 1 .. m + k, i > m PROVE d[i] = n + (i - m)
    OBVIOUS
  <2>1. PICK j \in Nat : j = i - m
    BY <1>2
  <2>2. j \in 1 .. k
    BY <1>2, <2>1
  <2> QED BY <1>1, <1>2, <1>3, <2>1, <2>2
<1>7. Ordered(d)
  <2> SUFFICES ASSUME NEW i \in 1 .. m + k, NEW j \in 1 .. m + k, i < j PROVE d[i] < d[j]
    BY <1>3 DEF Ordered
  <2>1. CASE j <= m
    <3>1. i \in 1 .. m /\ j \in 1 .. m
      BY <1>2, <2>1
    <3>2. d[i] = c[i] /\ d[j] = c[j]
      BY <1>5, <3>1
    <3> QED BY <1>0, <1>2, <3>1, <3>2 DEF Ordered
  <2>2. CASE j > m /\ i <= m
    <3>1. d[i] \in 1 .. n
      BY <1>2, <1>4, <1>5, <2>2
    <3>2. d[j] = n + (j - m)
      BY <1>6, <2>2
    <3>3. n < n + (j - m)
      BY <1>0, <1>2, <2>2
    <3> QED BY <1>0, <3>1, <3>2, <3>3
  <2>3. CASE j > m /\ i > m
    <3>1. d[i] = n + (i - m) /\ d[j] = n + (j - m)
      BY <1>6, <2>3
    <3> QED BY <1>0, <1>2, <3>1
  <2> QED BY <1>2, <2>1, <2>2, <2>3
<1>8. ToSet(d) = ToSet(c) \cup ToSet(s)
  <2>1. ASSUME NEW x \in ToSet(d) PROVE x \in ToSet(c) \cup ToSet(s)
    <3>1. PICK i \in 1 .. m + k : d[i] = x
      BY <1>3, <2>1, InSet, ZenonT(60)
    <3>2. CASE i <= m
      <4>1. i \in 1 .. m
        BY <1>2, <3>1, <3>2
      <4>2. c[i] = x
        BY <1>5, <3>1, <4>1
      <4> QED BY <1>0, <1>2, <4>1, <4>2, InSet
    <3>3. CASE i > m
      <4>3. i \in Nat /\ m \in Nat
        BY <1>2, <3>1
      <4>1. PICK j \in Nat : j = i - m
        BY <3>3, <4>3
      <4>2. j \in 1 .. k /\ s[j] = x
        BY <1>1, <1>2, <1>6, <3>1, <3>3, <4>1
      <4> QED BY <1>1, <4>2, InSet
    <3> QED BY <1>2, <3>1, <3>2, <3>3
  <2>2. ASSUME NEW x \in ToSet(c) PROVE x \in ToSet(d)
    <3>1. PICK i \in 1 .. m : c[i] = x
      BY <1>0, <1>2, InSet
    <3>2. i \in 1 .. m + k
      BY <1>2, <3>1
    <3> QED BY <1>3, <1>5, <3>1, <3>2, InSet
  <2>3. ASSUME NEW x \in ToSet(s) PROVE x \in ToSet(d)
    <3>1. PICK i \in 1 .. k : s[i] = x
      BY <1>1, InSet
    <3>2. PICK j \in Nat : j = i + m
      BY <1>2, <3>1
    <3>3. j \in 1 .. m + k /\ j > m
      BY <1>2, <3>1, <3>2
    <3>4. d[j] = n + (j - m)
      BY <1>6, <3>3
    <3>6. j - m = i
      BY <1>2, <3>1, <3>2
    <3>5. d[j] = x
      BY <1>1, <3>1, <3>4, <3>6
    <3> QED BY <1>3, <3>3, <3>5, InSet
  <2> QED BY <2>1, <2>2, <2>3
<1>9. ToSet(d) = (1 .. n + k) \ lost
  BY <1>0, <1>1, <1>8
<1>10. lost \subseteq 1 .. n + k
  BY <1>0
<1> QED BY <1>0, <1>1, <1>3, <1>7, <1>9, <1>10 DEF Sound

\* Bytes that are refused are lost.
LEMMA BytesRefused ==
    ASSUME NEW c, NEW n, NEW lost, Sound(c, n, lost), NEW k \in Nat
    PROVE  Sound(c, n + k, lost \cup ToSet(Numbers(n, k)))
<1>0. c \in Seq(Nat) /\ n \in Nat /\ lost \subseteq 1 .. n /\ Ordered(c) /\ ToSet(c) = (1 .. n) \ lost
  BY DEF Sound
<1>1. PICK s : s = ToSet(Numbers(n, k)) /\ s = n + 1 .. n + k
  BY <1>0, NumbersAre
<1>2. lost \cup s \subseteq 1 .. n + k /\ (1 .. n) \ lost = (1 .. n + k) \ (lost \cup s)
  BY <1>0, <1>1
<1> QED BY <1>0, <1>1, <1>2 DEF Sound

\* Bytes that are taken out of the middle are lost, the others stay in order.
LEMMA BytesDropped ==
    ASSUME NEW a \in Seq(Nat), NEW b \in Seq(Nat), NEW d \in Seq(Nat), NEW n, NEW lost, Sound(a \o (b \o d), n, lost)
    PROVE  Sound(a \o d, n, lost \cup ToSet(b))
<1>1. PICK k \in Nat, l \in Nat, m \in Nat : k = Len(a) /\ l = Len(b) /\ m = Len(d)
  OBVIOUS
<1>2. PICK w \in Seq(Nat) : w = b \o d /\ Len(w) = l + m /\ \A i \in 1 .. l + m : w[i] = IF i <= l THEN b[i] ELSE d[i - l]
  <2>1. /\ b \o d \in Seq(Nat) /\ Len(b \o d) = Len(b) + Len(d)
        /\ \A i \in 1 .. Len(b) + Len(d) : (b \o d)[i] = IF i <= Len(b) THEN b[i] ELSE d[i - Len(b)]
    BY ConcatProperties
  <2> QED BY <1>1, <2>1
<1>3. PICK c \in Seq(Nat) : c = a \o w /\ Len(c) = k + (l + m) /\ \A i \in 1 .. k + (l + m) : c[i] = IF i <= k THEN a[i] ELSE w[i - k]
  <2>1. /\ a \o w \in Seq(Nat) /\ Len(a \o w) = Len(a) + Len(w)
        /\ \A i \in 1 .. Len(a) + Len(w) : (a \o w)[i] = IF i <= Len(a) THEN a[i] ELSE w[i - Len(a)]
    <3>1. w \in Seq(Nat)
      BY <1>2
    <3> QED BY <3>1, ConcatProperties
  <2> QED BY <1>1, <1>2, <2>1, ZenonT(60)
<1>4. PICK e \in Seq(Nat) : e = a \o d /\ Len(e) = k + m /\ \A i \in 1 .. k + m : e[i] = IF i <= k THEN a[i] ELSE d[i - k]
  <2>1. /\ a \o d \in Seq(Nat) /\ Len(a \o d) = Len(a) + Len(d)
        /\ \A i \in 1 .. Len(a) + Len(d) : (a \o d)[i] = IF i <= Len(a) THEN a[i] ELSE d[i - Len(a)]
    BY ConcatProperties
  <2> QED BY <1>1, <2>1
<1>5. n \in Nat /\ lost \subseteq 1 .. n /\ Ordered(c) /\ ToSet(c) = (1 .. n) \ lost
  BY <1>2, <1>3 DEF Sound
<1>6. k \in Nat /\ l \in Nat /\ m \in Nat
  BY <1>1
\* Where the three parts lie.
<1>7. \A i \in 1 .. k : i \in 1 .. k + (l + m) /\ i \in 1 .. k + m /\ c[i] = a[i] /\ e[i] = a[i]
  <2> SUFFICES ASSUME NEW i \in 1 .. k PROVE i \in 1 .. k + (l + m) /\ i \in 1 .. k + m /\ c[i] = a[i] /\ e[i] = a[i]
    OBVIOUS
  <2>1. i \in 1 .. k + (l + m) /\ i \in 1 .. k + m /\ i <= k
    BY <1>6
  <2> QED BY <1>3, <1>4, <2>1
<1>8. \A i \in 1 .. l : i + k \in 1 .. k + (l + m) /\ c[i + k] = b[i]
  <2> SUFFICES ASSUME NEW i \in 1 .. l PROVE i + k \in 1 .. k + (l + m) /\ c[i + k] = b[i]
    OBVIOUS
  <2>1. PICK j \in Nat : j = i + k
    BY <1>6
  <2>2. j \in 1 .. k + (l + m) /\ ~(j <= k) /\ j - k = i /\ i \in 1 .. l + m /\ i <= l
    BY <1>6, <2>1
  <2>3. c[j] = w[j - k]
    BY <1>3, <2>2
  <2>4. w[i] = b[i]
    BY <1>2, <2>2
  <2> QED BY <2>1, <2>2, <2>3, <2>4
<1>9. \A i \in 1 .. m : i + k + l \in 1 .. k + (l + m) /\ c[i + k + l] = d[i] /\ i + k \in 1 .. k + m /\ e[i + k] = d[i]
  <2> SUFFICES ASSUME NEW i \in 1 .. m
               PROVE  i + k + l \in 1 .. k + (l + m) /\ c[i + k + l] = d[i] /\ i + k \in 1 .. k + m /\ e[i + k] = d[i]
    OBVIOUS
  <2>1. PICK j \in Nat, q \in Nat, p \in Nat : j = i + k + l /\ q = i + l /\ p = i + k
    BY <1>6
  <2>2. /\ j \in 1 .. k + (l + m) /\ ~(j <= k) /\ j - k = q /\ q \in 1 .. l + m /\ ~(q <= l) /\ q - l = i
        /\ p \in 1 .. k + m /\ ~(p <= k) /\ p - k = i
    BY <1>6, <2>1
  <2>3. c[j] = w[j - k]
    BY <1>3, <2>2
  <2>4. w[q] = d[q - l]
    BY <1>2, <2>2
  <2>5. e[p] = d[p - k]
    BY <1>4, <2>2
  <2> QED BY <2>1, <2>2, <2>3, <2>4, <2>5
\* From a place in what is left to the one it had.
<1>10. PICK f : f = [i \in 1 .. k + m |-> IF i <= k THEN i ELSE i + l]
  OBVIOUS
<1>11. \A i \in 1 .. k + m : f[i] \in 1 .. k + (l + m) /\ e[i] = c[f[i]] /\ f[i] = IF i <= k THEN i ELSE i + l
  <2> SUFFICES ASSUME NEW i \in 1 .. k + m
               PROVE  f[i] \in 1 .. k + (l + m) /\ e[i] = c[f[i]] /\ f[i] = IF i <= k THEN i ELSE i + l
    OBVIOUS
  <2>1. f[i] = IF i <= k THEN i ELSE i + l
    BY <1>10
  <2>2. CASE i <= k
    <3>1. i \in 1 .. k
      BY <1>6, <2>2
    <3> QED BY <1>7, <2>1, <2>2, <3>1
  <2>3. CASE ~(i <= k)
    <3>1. PICK j \in Nat : j = i - k
      BY <1>6, <2>3
    <3>2. j \in 1 .. m /\ j + k = i /\ j + k + l = i + l
      BY <1>6, <2>3, <3>1
    <3>3. j + k + l \in 1 .. k + (l + m) /\ c[j + k + l] = d[j] /\ e[j + k] = d[j]
      BY <1>9, <3>2
    <3> QED BY <2>1, <2>3, <3>2, <3>3
  <2> QED BY <2>2, <2>3
<1>12. Ordered(e)
  <2> SUFFICES ASSUME NEW i \in 1 .. k + m, NEW j \in 1 .. k + m, i < j PROVE e[i] < e[j]
    BY <1>4 DEF Ordered
  <2>1. f[i] \in 1 .. k + (l + m) /\ f[j] \in 1 .. k + (l + m) /\ e[i] = c[f[i]] /\ e[j] = c[f[j]]
    BY <1>11
  <2>2. f[i] = (IF i <= k THEN i ELSE i + l) /\ f[j] = IF j <= k THEN j ELSE j + l
    BY <1>11
  <2>3. f[i] < f[j]
    BY <1>6, <2>2, SMTT(60)
  <2> QED BY <1>3, <1>5, <2>1, <2>3 DEF Ordered
\* Nothing comes twice, so what is dropped is not among the rest.
<1>13. ASSUME NEW x \in ToSet(e) PROVE x \in ToSet(c) /\ x \notin ToSet(b)
  <2>0. e \in Seq(Nat) /\ Len(e) = k + m
    BY <1>4
  <2>1. PICK i \in 1 .. k + m : e[i] = x
    BY <1>13, <2>0, InSet
  <2>2. f[i] \in 1 .. k + (l + m) /\ c[f[i]] = x /\ f[i] = IF i <= k THEN i ELSE i + l
    BY <1>11, <2>1
  <2>3. x \in ToSet(c)
    BY <1>3, <2>2, InSet
  <2>4. ASSUME x \in ToSet(b) PROVE FALSE
    <3>1. PICK j \in 1 .. l : b[j] = x
      BY <1>1, <2>4, InSet
    <3>2. PICK g : g = j + k
      OBVIOUS
    <3>3. g \in 1 .. k + (l + m) /\ c[g] = x
      BY <1>8, <3>1, <3>2
    <3>4. g # f[i]
      BY <1>6, <2>1, <2>2, <3>1, <3>2
    <3>5. g < f[i] \/ f[i] < g
      BY <1>6, <2>2, <3>3, <3>4
    <3>6. Len(c) = k + (l + m) /\ c \in Seq(Nat)
      BY <1>3
    <3>7. f[i] \in 1 .. Len(c) /\ g \in 1 .. Len(c) /\ c[g] = x /\ c[f[i]] = x
      BY <2>2, <3>3, <3>6
    <3>8. x \in Nat
      BY <3>6, <3>7, SMTT(60)
    <3>9. x < x
      BY <1>5, <3>5, <3>7 DEF Ordered
    <3> QED BY <3>8, <3>9
  <2> QED BY <2>3, <2>4
<1>14. ASSUME NEW x \in ToSet(c), x \notin ToSet(b) PROVE x \in ToSet(e)
  <2>0. c \in Seq(Nat) /\ Len(c) = k + (l + m)
    BY <1>3
  <2>1. PICK i \in 1 .. k + (l + m) : c[i] = x
    BY <1>14, <2>0, InSet
  <2>2. CASE i <= k
    <3>1. i \in 1 .. k
      BY <1>6, <2>1, <2>2
    <3> QED BY <1>4, <1>7, <2>1, <3>1, InSet
  <2>3. CASE i > k /\ i <= k + l
    <3>0. i \in Nat /\ k \in Nat
      BY <1>6, <2>1
    <3>1. PICK j \in Nat : j = i - k
      BY <2>3, <3>0
    <3>2. j \in 1 .. l /\ j + k = i
      BY <1>6, <2>3, <3>0, <3>1
    <3>3. b[j] = x
      BY <1>8, <2>1, <3>2
    <3> QED BY <1>1, <1>14, <3>2, <3>3, InSet
  <2>4. CASE i > k + l
    <3>0. i \in Nat /\ k + l \in Nat /\ k \in Nat /\ l \in Nat /\ m \in Nat /\ i <= k + (l + m)
      BY <1>6, <2>1
    <3>1. PICK j \in Nat : j = i - (k + l)
      BY <2>4, <3>0
    <3>2. j \in 1 .. m /\ j + k + l = i
      BY <2>4, <3>0, <3>1
    <3>3. PICK p : p = j + k
      OBVIOUS
    <3>4. p \in 1 .. k + m /\ e[p] = x
      BY <1>9, <2>1, <3>2, <3>3
    <3> QED BY <1>4, <3>4, InSet
  <2> QED BY <1>6, <2>1, <2>2, <2>3, <2>4
<1>15. ASSUME NEW x \in ToSet(b) PROVE x \in 1 .. n
  <2>1. PICK j \in 1 .. l : b[j] = x
    BY <1>1, <1>15, InSet
  <2>2. x \in ToSet(c)
    BY <1>3, <1>8, <2>1, InSet
  <2> QED BY <1>5, <2>2
<1>16. ToSet(e) = (1 .. n) \ (lost \cup ToSet(b))
  BY <1>5, <1>13, <1>14, <1>15
<1> QED BY <1>4, <1>5, <1>12, <1>15, <1>16 DEF Sound

\* What went out at the far end and what is in the ring is Sound together.
Flow(out, r, n, lost) ==
    r \in Rings /\ out \in Seq(Nat) /\ n \in Nat /\ lost \in SUBSET Nat /\ Sound(out \o InRing(r), n, lost)

LEMMA FlowJoined ==
    ASSUME NEW out, NEW r, NEW n, NEW lost, Flow(out, r, n, lost), NEW k \in Nat, RingFits(r, k)
    PROVE  Flow(out, RingEnqueue(r, Numbers(n, k)), n + k, lost)
<1>0. r \in Rings /\ out \in Seq(Nat) /\ n \in Nat /\ lost \in SUBSET Nat /\ Sound(out \o InRing(r), n, lost)
  BY DEF Flow
<1>1. PICK s \in Seq(Nat) : s = Numbers(n, k) /\ Len(s) = k
  BY <1>0, NumbersAre
<1>2. RingEnqueue(r, s) \in Rings /\ InRing(RingEnqueue(r, s)) = InRing(r) \o s
  BY <1>0, <1>1, Enqueued
<1>3. Sound((out \o InRing(r)) \o s, n + k, lost)
  BY <1>0, <1>1, BytesJoined
<1>4. InRing(r) \in Seq(Nat)
  BY <1>0, InRingIs
<1>5. (out \o InRing(r)) \o s = out \o (InRing(r) \o s)
  BY <1>0, <1>1, <1>4
<1>6. n + k \in Nat
  BY <1>0
<1> QED BY <1>0, <1>1, <1>2, <1>3, <1>5, <1>6 DEF Flow

LEMMA FlowRefused ==
    ASSUME NEW out, NEW r, NEW n, NEW lost, Flow(out, r, n, lost), NEW k \in Nat
    PROVE  Flow(out, r, n + k, lost \cup ToSet(Numbers(n, k)))
<1>0. r \in Rings /\ out \in Seq(Nat) /\ n \in Nat /\ lost \in SUBSET Nat /\ Sound(out \o InRing(r), n, lost)
  BY DEF Flow
<1>1. PICK z : z = lost \cup ToSet(Numbers(n, k))
  OBVIOUS
<1>2. Sound(out \o InRing(r), n + k, z)
  BY <1>0, <1>1, BytesRefused
<1>3. n + k \in Nat /\ z \in SUBSET Nat
  BY <1>2 DEF Sound
<1> QED BY <1>0, <1>1, <1>2, <1>3 DEF Flow

LEMMA FlowTaken ==
    ASSUME NEW out, NEW r, NEW n, NEW lost, Flow(out, r, n, lost)
    PROVE  Flow(out \o RingTaken(r), RingDequeue(r), n, lost)
<1>0. r \in Rings /\ out \in Seq(Nat) /\ n \in Nat /\ lost \in SUBSET Nat /\ Sound(out \o InRing(r), n, lost)
  BY DEF Flow
<1>1. PICK s \in Seq(Nat), d \in Rings, c \in Seq(Nat) : s = RingTaken(r) /\ d = RingDequeue(r) /\ c = InRing(d) /\ InRing(r) = s \o c
  BY <1>0, Dequeued
<1>2. (out \o s) \o c = out \o (s \o c) /\ out \o s \in Seq(Nat)
  <2>1. out \in Seq(Nat) /\ s \in Seq(Nat) /\ c \in Seq(Nat)
    BY <1>0, <1>1
  <2>2. ASSUME NEW x \in Seq(Nat), NEW y \in Seq(Nat), NEW z \in Seq(Nat)
        PROVE  (x \o y) \o z = x \o (y \o z) /\ x \o y \in Seq(Nat)
    BY SMTT(60)
  <2> QED BY <2>1, <2>2
<1> QED BY <1>0, <1>1, <1>2 DEF Flow

LEMMA FlowDropped ==
    ASSUME NEW out, NEW r, NEW n, NEW lost, Flow(out, r, n, lost)
    PROVE  Flow(out, RingDequeue(r), n, lost \cup ToSet(RingTaken(r)))
<1>0. r \in Rings /\ out \in Seq(Nat) /\ n \in Nat /\ lost \in SUBSET Nat /\ Sound(out \o InRing(r), n, lost)
  BY DEF Flow
<1>1. PICK s \in Seq(Nat), d \in Rings, c \in Seq(Nat) : s = RingTaken(r) /\ d = RingDequeue(r) /\ c = InRing(d) /\ InRing(r) = s \o c
  BY <1>0, Dequeued
<1>2. PICK z : z = lost \cup ToSet(s)
  OBVIOUS
<1>3. Sound(out \o c, n, z)
  BY <1>0, <1>1, <1>2, BytesDropped
<1>4. z \in SUBSET Nat
  BY <1>3 DEF Sound
<1> QED BY <1>0, <1>1, <1>2, <1>3, <1>4 DEF Flow

(***************************************************************************)
(* The serial port.                                                        *)
(***************************************************************************)
SerialStates ==
    [kind: {"serial"}, dtr: BOOLEAN, down: Rings, up: Rings, pc: {"idle", "read", "up"}, n: Nat, m: Nat,
     atline: Seq(Nat), athost: Seq(Nat), lost: SUBSET Nat, missed: SUBSET Nat]

SerialInv(u) ==
    u \in SerialStates /\ Flow(u.atline, u.down, u.n, u.lost) /\ Flow(u.athost, u.up, u.m, u.missed)

\* Before the first byte.
LEMMA SerialBegins == SerialInv(SerialInit)
<1>1. PICK q \in Nat : q = QueueBytes /\ q >= 2
  BY AppsAssumption
<1>2. PICK r : r = Ring
  OBVIOUS
<1>3. r \in Rings /\ RingAvailable(r) = 0
  BY <1>1, <1>2 DEF Ring, Rings, RingAvailable
<1>4. PICK z \in Seq(Nat) : z = <<>> /\ Len(z) = 0
  BY EmptySequence
<1>5. InRing(r) \in Seq(Nat) /\ Len(InRing(r)) = 0
  BY <1>3, InRingIs
<1>6. InRing(r) = z
  BY <1>4, <1>5, EmptySeq
<1>7. z \o InRing(r) = z
  BY <1>4, <1>6, ConcatEmptySeq
<1>8. ToSet(z) = {}
  <2>1. \A x : x \in ToSet(z) <=> \E i \in 1 .. 0 : z[i] = x
    BY <1>4, InSet
  <2>2. \A i \in 1 .. 0 : FALSE
    OBVIOUS
  <2> QED BY <2>1, <2>2
<1>9. Sound(z, 0, {})
  BY <1>4, <1>8 DEF Sound, Ordered
<1>10. Flow(z, r, 0, {})
  BY <1>3, <1>4, <1>7, <1>9 DEF Flow
<1>11. PICK u : u = SerialInit
  OBVIOUS
<1>12. u = [kind |-> "serial", dtr |-> FALSE, down |-> r, up |-> r, pc |-> "idle", n |-> 0, m |-> 0,
            atline |-> z, athost |-> z, lost |-> {}, missed |-> {}]
  BY <1>2, <1>4, <1>11 DEF SerialInit
<1>13. u \in SerialStates
  BY <1>3, <1>4, <1>12 DEF SerialStates
<1>14. u.atline = z /\ u.athost = z /\ u.down = r /\ u.up = r /\ u.n = 0 /\ u.m = 0 /\ u.lost = {} /\ u.missed = {}
  BY <1>12
<1> QED BY <1>10, <1>11, <1>13, <1>14 DEF SerialInv

\* What changes on the way down, and what on the way up.
LEMMA DownKeeps ==
    ASSUME NEW u, SerialInv(u), NEW out, NEW r, NEW n, NEW lost, Flow(out, r, n, lost), NEW pc \in {"idle", "read", "up"},
           NEW e, e = [u EXCEPT !.atline = out, !.down = r, !.n = n, !.lost = lost, !.pc = pc]
    PROVE  SerialInv(e)
<1>1. u \in SerialStates /\ Flow(u.athost, u.up, u.m, u.missed)
  BY DEF SerialInv
<1>2. r \in Rings /\ out \in Seq(Nat) /\ n \in Nat /\ lost \in SUBSET Nat
  BY DEF Flow
<1>3. e \in SerialStates
  BY <1>1, <1>2 DEF SerialStates
<1>4. /\ e.atline = out /\ e.down = r /\ e.n = n /\ e.lost = lost
      /\ e.athost = u.athost /\ e.up = u.up /\ e.m = u.m /\ e.missed = u.missed
  BY <1>1 DEF SerialStates
<1> QED BY <1>1, <1>3, <1>4 DEF SerialInv

LEMMA UpKeeps ==
    ASSUME NEW u, SerialInv(u), NEW out, NEW r, NEW n, NEW lost, Flow(out, r, n, lost), NEW pc \in {"idle", "read", "up"},
           NEW e, e = [u EXCEPT !.athost = out, !.up = r, !.m = n, !.missed = lost, !.pc = pc]
    PROVE  SerialInv(e)
<1>1. u \in SerialStates /\ Flow(u.atline, u.down, u.n, u.lost)
  BY DEF SerialInv
<1>2. r \in Rings /\ out \in Seq(Nat) /\ n \in Nat /\ lost \in SUBSET Nat
  BY DEF Flow
<1>3. e \in SerialStates
  BY <1>1, <1>2 DEF SerialStates
<1>4. /\ e.athost = out /\ e.up = r /\ e.m = n /\ e.missed = lost
      /\ e.atline = u.atline /\ e.down = u.down /\ e.n = u.n /\ e.lost = u.lost
  BY <1>1 DEF SerialStates
<1> QED BY <1>1, <1>3, <1>4 DEF SerialInv

LEMMA ReceiveKeeps == ASSUME NEW u, SerialInv(u), NEW k \in Nat PROVE SerialInv(SerialReceive(u, k))
<1>0. u \in SerialStates /\ Flow(u.atline, u.down, u.n, u.lost)
  BY DEF SerialInv
<1>1. u.pc \in {"idle", "read", "up"}
  BY <1>0 DEF SerialStates
<1>2. PICK n : n = u.n + k
  OBVIOUS
<1>3. CASE u.dtr /\ RingFits(u.down, k)
  <2>1. PICK r : r = RingEnqueue(u.down, Numbers(u.n, k))
    OBVIOUS
  <2>2. Flow(u.atline, r, n, u.lost)
    BY <1>0, <1>2, <1>3, <2>1, FlowJoined
  <2>3. PICK e : e = [u EXCEPT !.atline = u.atline, !.down = r, !.n = n, !.lost = u.lost, !.pc = u.pc]
    OBVIOUS
  <2>4. SerialInv(e)
    BY <1>1, <2>2, <2>3, DownKeeps, ZenonT(60)
  <2>5. SerialReceive(u, k) = e
    BY <1>0, <1>2, <1>3, <2>1, <2>3 DEF SerialReceive, SerialStates
  <2> QED BY <2>4, <2>5
<1>4. CASE ~(u.dtr /\ RingFits(u.down, k))
  <2>1. PICK z : z = u.lost \cup ToSet(Numbers(u.n, k))
    OBVIOUS
  <2>2. Flow(u.atline, u.down, n, z)
    BY <1>0, <1>2, <2>1, FlowRefused
  <2>3. PICK e : e = [u EXCEPT !.atline = u.atline, !.down = u.down, !.n = n, !.lost = z, !.pc = u.pc]
    OBVIOUS
  <2>4. SerialInv(e)
    BY <1>1, <2>2, <2>3, DownKeeps, ZenonT(60)
  <2>5. SerialReceive(u, k) = e
    BY <1>0, <1>2, <1>4, <2>1, <2>3 DEF SerialReceive, SerialStates
  <2> QED BY <2>4, <2>5
<1> QED BY <1>3, <1>4

LEMMA LineStateKeeps == ASSUME NEW u, SerialInv(u), NEW dtr \in BOOLEAN PROVE SerialInv(SerialLineState(u, dtr))
<1>0. u \in SerialStates /\ Flow(u.atline, u.down, u.n, u.lost) /\ Flow(u.athost, u.up, u.m, u.missed)
  BY DEF SerialInv
<1>1. PICK e : e = [u EXCEPT !.dtr = dtr]
  OBVIOUS
<1>2. /\ e \in SerialStates
      /\ e.atline = u.atline /\ e.down = u.down /\ e.n = u.n /\ e.lost = u.lost
      /\ e.athost = u.athost /\ e.up = u.up /\ e.m = u.m /\ e.missed = u.missed
  BY <1>0, <1>1 DEF SerialStates
<1> QED BY <1>0, <1>1, <1>2 DEF SerialLineState, SerialInv

LEMMA PollDownKeeps == ASSUME NEW u, SerialInv(u), NEW works \in BOOLEAN PROVE SerialInv(PollDown(u, works))
<1>0. u \in SerialStates /\ Flow(u.atline, u.down, u.n, u.lost)
  BY DEF SerialInv
<1>1. PICK s, r : s = RingTaken(u.down) /\ r = RingDequeue(u.down)
  OBVIOUS
<1>2. CASE works
  <2>1. PICK out : out = u.atline \o s
    OBVIOUS
  <2>2. Flow(out, r, u.n, u.lost)
    BY <1>0, <1>1, <2>1, FlowTaken
  <2>3. PICK e : e = [u EXCEPT !.atline = out, !.down = r, !.n = u.n, !.lost = u.lost, !.pc = "read"]
    OBVIOUS
  <2>4. SerialInv(e)
    BY <2>2, <2>3, DownKeeps
  <2>5. PollDown(u, works) = e
    BY <1>0, <1>1, <1>2, <2>1, <2>3, ZenonT(60) DEF PollDown, SerialStates
  <2> QED BY <2>4, <2>5
<1>3. CASE ~works
  <2>1. PICK z : z = u.lost \cup ToSet(s)
    OBVIOUS
  <2>2. Flow(u.atline, r, u.n, z)
    BY <1>0, <1>1, <2>1, FlowDropped
  <2>3. PICK pc \in {"idle", "read", "up"} : pc = IF s = <<>> THEN "read" ELSE "idle"
    OBVIOUS
  <2>4. PICK e : e = [u EXCEPT !.atline = u.atline, !.down = r, !.n = u.n, !.lost = z, !.pc = pc]
    OBVIOUS
  <2>5. SerialInv(e)
    BY <2>2, <2>3, <2>4, DownKeeps
  <2>6. PollDown(u, works) = e
    BY <1>0, <1>1, <1>3, <2>1, <2>3, <2>4 DEF PollDown, SerialStates
  <2> QED BY <2>5, <2>6
<1> QED BY <1>2, <1>3

LEMMA PollReadsKeeps ==
    ASSUME NEW u, SerialInv(u), NEW k \in Nat, NEW works \in BOOLEAN
    PROVE  SerialInv(PollReads(u, k, works))
<1>0. u \in SerialStates /\ Flow(u.athost, u.up, u.m, u.missed)
  BY DEF SerialInv
<1>1. PICK n : n = u.m + k
  OBVIOUS
<1>2. CASE works /\ RingFits(u.up, k)
  <2>1. PICK r : r = RingEnqueue(u.up, Numbers(u.m, k))
    OBVIOUS
  <2>2. Flow(u.athost, r, n, u.missed)
    BY <1>0, <1>1, <1>2, <2>1, FlowJoined
  <2>3. PICK e : e = [u EXCEPT !.athost = u.athost, !.up = r, !.m = n, !.missed = u.missed, !.pc = "up"]
    BY SMTT(60)
  <2>4. SerialInv(e)
    BY <2>2, <2>3, UpKeeps
  <2>5. PollReads(u, k, works) = e
    BY <1>0, <1>1, <1>2, <2>1, <2>3, ZenonT(60) DEF PollReads, SerialStates
  <2> QED BY <2>4, <2>5
<1>3. CASE ~(works /\ RingFits(u.up, k))
  <2>1. PICK z : z = u.missed \cup ToSet(Numbers(u.m, k))
    OBVIOUS
  <2>2. Flow(u.athost, u.up, n, z)
    BY <1>0, <1>1, <2>1, FlowRefused
  <2>3. PICK pc \in {"idle", "read", "up"} : pc = IF k = 0 /\ works THEN "up" ELSE "idle"
    OBVIOUS
  <2>4. PICK e : e = [u EXCEPT !.athost = u.athost, !.up = u.up, !.m = n, !.missed = z, !.pc = pc]
    OBVIOUS
  <2>5. SerialInv(e)
    BY <2>2, <2>3, <2>4, UpKeeps
  <2>6. PollReads(u, k, works) = e
    BY <1>0, <1>1, <1>3, <2>1, <2>3, <2>4 DEF PollReads, SerialStates
  <2> QED BY <2>5, <2>6
<1> QED BY <1>2, <1>3

LEMMA PollUpKeeps == ASSUME NEW u, SerialInv(u), NEW works \in BOOLEAN PROVE SerialInv(PollUp(u, works))
<1>0. u \in SerialStates /\ Flow(u.athost, u.up, u.m, u.missed)
  BY DEF SerialInv
<1>1. PICK s, r : s = RingTaken(u.up) /\ r = RingDequeue(u.up)
  OBVIOUS
<1>2. CASE works
  <2>1. PICK out : out = u.athost \o s
    OBVIOUS
  <2>2. Flow(out, r, u.m, u.missed)
    BY <1>0, <1>1, <2>1, FlowTaken
  <2>3. PICK e : e = [u EXCEPT !.athost = out, !.up = r, !.m = u.m, !.missed = u.missed, !.pc = "idle"]
    BY SMTT(60)
  <2>4. SerialInv(e)
    BY <2>2, <2>3, UpKeeps
  <2>5. PollUp(u, works) = e
    BY <1>0, <1>1, <1>2, <2>1, <2>3, ZenonT(60) DEF PollUp, SerialStates
  <2> QED BY <2>4, <2>5
<1>3. CASE ~works
  <2>1. PICK z : z = u.missed \cup ToSet(s)
    OBVIOUS
  <2>2. Flow(u.athost, r, u.m, z)
    BY <1>0, <1>1, <2>1, FlowDropped
  <2>3. PICK e : e = [u EXCEPT !.athost = u.athost, !.up = r, !.m = u.m, !.missed = z, !.pc = "idle"]
    OBVIOUS
  <2>4. SerialInv(e)
    BY <2>2, <2>3, UpKeeps
  <2>5. PollUp(u, works) = e
    BY <1>0, <1>1, <1>3, <2>1, <2>3 DEF PollUp, SerialStates
  <2> QED BY <2>4, <2>5
<1> QED BY <1>2, <1>3

\* Every step of the serial port keeps the invariant.
LEMMA SerialKept == SerialInv(app) /\ SerialSteps => SerialInv(app')
<1> SUFFICES ASSUME SerialInv(app), SerialSteps PROVE SerialInv(app')
  OBVIOUS
<1>0. ChunkBytes \in Nat
  BY AppsAssumption
<1>1. CASE \E k \in 1 .. ChunkBytes : app' = SerialReceive(app, k)
  <2>1. PICK k \in 1 .. ChunkBytes : app' = SerialReceive(app, k)
    BY <1>1
  <2>2. k \in Nat
    BY <1>0, <2>1
  <2> QED BY <2>1, <2>2, ReceiveKeeps
<1>2. CASE \E dtr \in BOOLEAN : app' = SerialLineState(app, dtr)
  BY <1>2, LineStateKeeps
<1>3. CASE \E works \in BOOLEAN : app' = PollDown(app, works)
  BY <1>3, PollDownKeeps
<1>4. CASE \E k \in 0 .. ChunkBytes, works \in BOOLEAN : app' = PollReads(app, k, works)
  <2>1. PICK k \in 0 .. ChunkBytes, works \in BOOLEAN : app' = PollReads(app, k, works)
    BY <1>4
  <2>2. k \in Nat
    BY <1>0, <2>1
  <2> QED BY <2>1, <2>2, PollReadsKeeps
<1>5. CASE \E works \in BOOLEAN : app' = PollUp(app, works)
  BY <1>5, PollUpKeeps
<1> QED BY <1>1, <1>2, <1>3, <1>4, <1>5 DEF SerialSteps

\* The invariant says of both directions what the runs check.
LEMMA SoundShows ==
    ASSUME NEW c, NEW n, NEW lost, Sound(c, n, lost)
    PROVE  InOrder(c) /\ ToSet(c) = (1 .. n) \ lost
<1>1. c \in Seq(Nat) /\ Ordered(c)
  BY DEF Sound
<1>2. PICK l \in Nat : l = Len(c)
  BY <1>1
<1>3. ASSUME NEW i \in 1 .. l - 1 PROVE c[i] < c[i + 1]
  <2>1. PICK j : j = i + 1
    OBVIOUS
  <2>2. i \in 1 .. l /\ j \in 1 .. l /\ i < j
    BY <1>2, <2>1
  <2> QED BY <1>1, <1>2, <2>1, <2>2 DEF Ordered
<1> QED BY <1>2, <1>3 DEF InOrder, Sound

LEMMA SerialShows == ASSUME NEW u, SerialInv(u) PROVE SerialTruth(u)
<1>1. Sound(u.atline \o InRing(u.down), u.n, u.lost) /\ Sound(u.athost \o InRing(u.up), u.m, u.missed)
  BY DEF SerialInv, Flow
<1> QED BY <1>1, SoundShows DEF SerialTruth

(***************************************************************************)
(* THEOREM: with the serial port in use, for any size of rings and chunks  *)
(* and any order of USB packets, line states and polls, bytes leave in the *)
(* order they came, none twice, and one that is neither out nor in a ring  *)
(* was refused or went down with a failed call.                            *)
(***************************************************************************)
THEOREM SerialAlwaysTrue == app = SerialInit /\ [][AppsNext]_app => []SerialTruth(app)
<1>1. app = SerialInit => SerialInv(app)
  BY SerialBegins
<1>2. SerialInv(app) /\ [AppsNext]_app => SerialInv(app)'
  <2> SUFFICES ASSUME SerialInv(app), [AppsNext]_app PROVE SerialInv(app')
    OBVIOUS
  <2>1. app.kind = "serial"
    BY DEF SerialInv, SerialStates
  <2>2. AppsNext => SerialSteps
    BY <2>1 DEF AppsNext, BridgeReceives, BridgeRests, LogicSteps, SlcanSteps, SumpSteps, UrbSteps, WireSteps
  <2>3. CASE AppsNext
    BY <2>2, <2>3, SerialKept
  <2>4. CASE UNCHANGED app
    <3>1. app' = app
      BY <2>4
    <3> QED BY <3>1
  <2> QED BY <2>3, <2>4
<1>3. SerialInv(app) => SerialTruth(app)
  BY SerialShows
<1> QED BY <1>1, <1>2, <1>3, PTL

-----------------------------------------------------------------------------
(* xUSBIP's table of transfers.                                             *)

Ends == {"RET_SUBMIT", "refused", "expired"}
Notices == Ends \cup {"RET_UNLINK", "unlinked late"}
SlotStates == [state: {"FREE", "SUBMITTED", "PENDING_UNLINK"}, seq: Nat, since: 0 .. ClockWidth - 1, age: Nat]

\* What a client has been told of a transfer.
Silent(r) == Len(r) = 0
Told(r, W) == Len(r) = 1 /\ r[1] \in W
ToldTwice(r) == Len(r) = 2 /\ r[1] \in Ends /\ r[2] = "unlinked late"

LEMMA ToldOnce ==
    ASSUME NEW r \in Seq(Notices), Silent(r), NEW w \in Notices, NEW W, w \in W
    PROVE  Append(r, w) \in Seq(Notices) /\ Told(Append(r, w), W)
<1>1. PICK e \in Seq(Notices) : e = Append(r, w) /\ OneMore(e, r, w)
  BY Appended
<1> QED BY <1>1 DEF OneMore, Silent, Told

LEMMA ToldAgain ==
    ASSUME NEW r \in Seq(Notices), Told(r, Ends)
    PROVE  Append(r, "unlinked late") \in Seq(Notices) /\ ToldTwice(Append(r, "unlinked late"))
<1>0. "unlinked late" \in Notices
  BY DEF Notices
<1>1. PICK e \in Seq(Notices) : e = Append(r, "unlinked late") /\ OneMore(e, r, "unlinked late")
  BY <1>0, Appended
<1>2. Len(e) = 2 /\ e[1] = r[1] /\ e[2] = "unlinked late"
  <2>1. Len(r) = 1 /\ 1 \in 1 .. Len(r)
    BY DEF Told
  <2>5. Len(e) = Len(r) + 1
    BY <1>1 DEF OneMore
  <2>2. Len(e) = 2
    BY <2>1, <2>5
  <2>3. e[1] = r[1]
    BY <1>1, <2>1 DEF OneMore
  <2>4. e[2] = "unlinked late"
    BY <1>1, <2>2 DEF OneMore
  <2> QED BY <2>2, <2>3, <2>4
<1> QED BY <1>1, <1>2 DEF Told, ToldTwice

\* How many of the answers are of a kind.
Count(r, W) == Cardinality({i \in DOMAIN r : r[i] \in W})

LEMMA CountsSilent == ASSUME NEW r \in Seq(Notices), Silent(r), NEW W PROVE Count(r, W) = 0
<1>1. {i \in DOMAIN r : r[i] \in W} = {}
  BY DEF Silent
<1> QED BY <1>1, FS_EmptySet DEF Count

LEMMA CountsTold == ASSUME NEW r \in Seq(Notices), NEW V, Told(r, V), NEW W, V \subseteq W PROVE Count(r, W) = 1
<1>1. DOMAIN r = {1} /\ r[1] \in W
  BY DEF Told
<1>2. {i \in DOMAIN r : r[i] \in W} = {1}
  BY <1>1
<1> QED BY <1>2, FS_Singleton DEF Count

LEMMA CountsTwice ==
    ASSUME NEW r \in Seq(Notices), ToldTwice(r)
    PROVE  Count(r, UrbAnswers) = 1 /\ Count(r, {"RET_UNLINK", "unlinked late"}) = 1
<1>1. DOMAIN r = {1, 2} /\ r[1] \in Ends /\ r[2] = "unlinked late"
  <2>3. Len(r) = 2
    BY DEF ToldTwice
  <2>1. DOMAIN r = 1 .. 2
    BY <2>3
  <2>2. 1 .. 2 = {1, 2}
    OBVIOUS
  <2> QED BY <2>1, <2>2 DEF ToldTwice
<1>2. {i \in DOMAIN r : r[i] \in UrbAnswers} = {1}
  BY <1>1 DEF Ends, UrbAnswers
<1>3. {i \in DOMAIN r : r[i] \in {"RET_UNLINK", "unlinked late"}} = {2}
  BY <1>1 DEF Ends
<1> QED BY <1>2, <1>3, FS_Singleton DEF Count

\* A slot that is taken, and what has become of transfer q.
Taken(sl) == {i \in 1 .. UrbSlots : sl[i].state # "FREE"}
Known(s, rp, n, ul, now) ==
    /\ s.seq \in 1 .. n /\ s.age < ClockWidth /\ (now - s.since) % ClockWidth = s.age
    /\ Silent(rp[s.seq]) /\ (s.state = "PENDING_UNLINK" <=> s.seq \in ul)
Accounted(sl, rp, n, ul, q) ==
    \/ Silent(rp[q]) /\ (q <= n => \E i \in Taken(sl) : sl[i].seq = q)
    \/ Told(rp[q], Ends) /\ q <= n /\ q \notin ul
    \/ Told(rp[q], {"RET_UNLINK"}) /\ q \in ul
    \/ ToldTwice(rp[q]) /\ q \in ul

Table(sl, rp, n, ul, now) ==
    /\ sl \in [1 .. UrbSlots -> SlotStates] /\ rp \in [1 .. MaxUrbs -> Seq(Notices)]
    /\ n \in Nat /\ n <= MaxUrbs /\ ul \subseteq 1 .. n /\ now \in 0 .. ClockWidth - 1
    /\ \A i \in Taken(sl) : Known(sl[i], rp, n, ul, now)
    /\ \A i, j \in Taken(sl) : sl[i].seq = sl[j].seq => i = j
    /\ \A q \in 1 .. MaxUrbs : Accounted(sl, rp, n, ul, q)

LEMMA TableSubmits ==
    ASSUME NEW sl, NEW rp, NEW n, NEW ul, NEW now, Table(sl, rp, n, ul, now), n < MaxUrbs,
           NEW i \in 1 .. UrbSlots, i \notin Taken(sl),
           NEW s, s = [state |-> "SUBMITTED", seq |-> n + 1, since |-> now, age |-> 0], NEW tl, tl = [sl EXCEPT ![i] = s]
    PROVE  Table(tl, rp, n + 1, ul, now)
<1>0. /\ sl \in [1 .. UrbSlots -> SlotStates] /\ rp \in [1 .. MaxUrbs -> Seq(Notices)]
      /\ n \in Nat /\ n <= MaxUrbs /\ ul \subseteq 1 .. n /\ now \in 0 .. ClockWidth - 1
      /\ MaxUrbs \in Nat /\ UrbSlots \in Nat /\ ClockWidth \in Nat /\ ClockWidth > 0
  BY AppsAssumption, SMTT(60) DEF Table
<1>1. PICK m \in Nat : m = n + 1 /\ m <= MaxUrbs /\ m \in 1 .. MaxUrbs
  BY <1>0
<1>2. s \in SlotStates /\ s.state = "SUBMITTED" /\ s.seq = m /\ s.since = now /\ s.age = 0
  BY <1>0, <1>1 DEF SlotStates
<1>3. tl \in [1 .. UrbSlots -> SlotStates] /\ tl[i] = s /\ \A j \in 1 .. UrbSlots : j # i => tl[j] = sl[j]
  BY <1>0, <1>2
<1>4. \A j \in Taken(tl) : j = i \/ (j # i /\ j \in Taken(sl) /\ tl[j] = sl[j])
  BY <1>3 DEF Taken
<1>5. \A j \in Taken(sl) : j \in Taken(tl) /\ tl[j] = sl[j]
  BY <1>3 DEF Taken
<1>6. \A j \in Taken(sl) : Known(sl[j], rp, n, ul, now)
  BY DEF Table
<1>7. m \notin ul /\ ul \subseteq 1 .. m
  BY <1>0, <1>1
<1>8. Silent(rp[m])
  <2>1. Accounted(sl, rp, n, ul, m)
    BY <1>1 DEF Table
  <2>2. ~ (m <= n)
    BY <1>0, <1>1
  <2> QED BY <1>7, <2>1, <2>2 DEF Accounted
<1>9. (now - s.since) % ClockWidth = s.age
  <2>1. now - now = 0
    BY <1>0
  <2>2. 0 % ClockWidth = 0
    BY <1>0
  <2> QED BY <1>2, <2>1, <2>2
<1>10. Known(s, rp, m, ul, now)
  BY <1>0, <1>1, <1>2, <1>7, <1>8, <1>9 DEF Known
<1>11. ASSUME NEW j \in Taken(tl) PROVE Known(tl[j], rp, m, ul, now)
  <2>1. CASE j = i
    BY <1>3, <1>10, <2>1
  <2>2. CASE j # i
    <3>1. Known(sl[j], rp, n, ul, now) /\ tl[j] = sl[j]
      BY <1>4, <1>6, <2>2
    <3>2. sl[j].seq \in 1 .. m
      BY <1>0, <1>1, <3>1 DEF Known
    <3> QED BY <3>1, <3>2 DEF Known
  <2> QED BY <2>1, <2>2
<1>12. ASSUME NEW j \in Taken(sl) PROVE sl[j].seq # m
  BY <1>0, <1>1, <1>6 DEF Known
<1>13. ASSUME NEW j \in Taken(tl), NEW k \in Taken(tl), tl[j].seq = tl[k].seq PROVE j = k
  <2>1. \A a, b \in Taken(sl) : sl[a].seq = sl[b].seq => a = b
    BY DEF Table
  <2> QED BY <1>2, <1>3, <1>4, <1>12, <1>13, <2>1
<1>14. ASSUME NEW q \in 1 .. MaxUrbs PROVE Accounted(tl, rp, m, ul, q)
  <2>1. CASE q = m
    <3>1. i \in Taken(tl) /\ tl[i].seq = m
      BY <1>2, <1>3 DEF Taken
    <3> QED BY <1>8, <2>1, <3>1 DEF Accounted
  <2>2. CASE q # m
    <3>1. Accounted(sl, rp, n, ul, q)
      BY DEF Table
    <3>2. q <= m <=> q <= n
      BY <1>0, <1>1, <2>2
    <3>3. \A j \in Taken(sl) : sl[j].seq = q => j \in Taken(tl) /\ tl[j].seq = q
      BY <1>5
    <3> QED BY <3>1, <3>2, <3>3 DEF Accounted
  <2> QED BY <2>1, <2>2
<1>15. Table(tl, rp, m, ul, now)
  BY <1>0, <1>1, <1>3, <1>7, <1>11, <1>13, <1>14 DEF Table
<1> QED BY <1>1, <1>15

LEMMA TableRefuses ==
    ASSUME NEW sl, NEW rp, NEW n, NEW ul, NEW now, Table(sl, rp, n, ul, now), n < MaxUrbs,
           NEW tp, tp = [rp EXCEPT ![n + 1] = Append(rp[n + 1], "refused")]
    PROVE  Table(sl, tp, n + 1, ul, now)
<1>0. /\ sl \in [1 .. UrbSlots -> SlotStates] /\ rp \in [1 .. MaxUrbs -> Seq(Notices)]
      /\ n \in Nat /\ n <= MaxUrbs /\ ul \subseteq 1 .. n /\ now \in 0 .. ClockWidth - 1
      /\ MaxUrbs \in Nat
  BY AppsAssumption DEF Table
<1>1. PICK m \in Nat : m = n + 1 /\ m <= MaxUrbs /\ m \in 1 .. MaxUrbs
  BY <1>0
<1>2. m \notin ul /\ ul \subseteq 1 .. m
  BY <1>0, <1>1
<1>3. Silent(rp[m])
  <2>1. Accounted(sl, rp, n, ul, m)
    BY <1>1 DEF Table
  <2>2. ~ (m <= n)
    BY <1>0, <1>1
  <2> QED BY <1>2, <2>1, <2>2 DEF Accounted
<1>4. PICK e \in Seq(Notices) : e = Append(rp[m], "refused") /\ Told(e, Ends)
  <2>1. "refused" \in Notices /\ "refused" \in Ends
    BY DEF Notices, Ends
  <2>2. rp[m] \in Seq(Notices)
    BY <1>0, <1>1
  <2> QED BY <1>3, <2>1, <2>2, ToldOnce
<1>5. tp \in [1 .. MaxUrbs -> Seq(Notices)] /\ tp[m] = e /\ \A q \in 1 .. MaxUrbs : q # m => tp[q] = rp[q]
  BY <1>0, <1>1, <1>4
<1>6. ASSUME NEW j \in Taken(sl) PROVE Known(sl[j], tp, m, ul, now)
  <2>1. Known(sl[j], rp, n, ul, now)
    BY DEF Table
  <2>2. sl[j].seq \in 1 .. n /\ sl[j].seq \in 1 .. m /\ sl[j].seq # m /\ sl[j].seq \in 1 .. MaxUrbs
    BY <1>0, <1>1, <2>1 DEF Known
  <2>3. tp[sl[j].seq] = rp[sl[j].seq]
    BY <1>5, <2>2
  <2> QED BY <2>1, <2>2, <2>3 DEF Known
<1>7. ASSUME NEW q \in 1 .. MaxUrbs PROVE Accounted(sl, tp, m, ul, q)
  <2>1. CASE q = m
    <3>1. q <= m
      BY <1>1, <2>1
    <3> QED BY <1>2, <1>4, <1>5, <2>1, <3>1 DEF Accounted
  <2>2. CASE q # m
    <3>1. Accounted(sl, rp, n, ul, q)
      BY DEF Table
    <3>2. (q <= m <=> q <= n) /\ tp[q] = rp[q]
      BY <1>0, <1>1, <1>5, <2>2
    <3> QED BY <3>1, <3>2 DEF Accounted
  <2> QED BY <2>1, <2>2
<1>8. Table(sl, tp, m, ul, now)
  BY <1>0, <1>1, <1>2, <1>5, <1>6, <1>7 DEF Table
<1> QED BY <1>1, <1>8

\* A transfer leaves the table with the answer its slot calls for.
LEMMA TableEnds ==
    ASSUME NEW sl, NEW rp, NEW n, NEW ul, NEW now, Table(sl, rp, n, ul, now), NEW i \in Taken(sl),
           NEW w, IF sl[i].state = "SUBMITTED" THEN w \in Ends ELSE w = "RET_UNLINK",
           NEW tl, tl = [sl EXCEPT ![i] = Vacant],
           NEW tp, tp = [rp EXCEPT ![sl[i].seq] = Append(rp[sl[i].seq], w)]
    PROVE  Table(tl, tp, n, ul, now)
<1>0. /\ sl \in [1 .. UrbSlots -> SlotStates] /\ rp \in [1 .. MaxUrbs -> Seq(Notices)]
      /\ n \in Nat /\ n <= MaxUrbs /\ ul \subseteq 1 .. n /\ now \in 0 .. ClockWidth - 1
      /\ MaxUrbs \in Nat /\ UrbSlots \in Nat /\ ClockWidth \in Nat /\ ClockWidth > 0
      /\ \A j \in Taken(sl) : Known(sl[j], rp, n, ul, now)
  BY AppsAssumption, SMTT(60) DEF Table
<1>1. i \in 1 .. UrbSlots /\ sl[i] \in SlotStates /\ sl[i].state \in {"SUBMITTED", "PENDING_UNLINK"}
  BY <1>0 DEF Taken, SlotStates
<1>2. PICK m : m = sl[i].seq
  OBVIOUS
<1>3. m \in 1 .. n /\ m \in 1 .. MaxUrbs /\ Silent(rp[m]) /\ (sl[i].state = "PENDING_UNLINK" <=> m \in ul)
  BY <1>0, <1>2 DEF Known
<1>4. PICK V : V = IF m \in ul THEN {"RET_UNLINK"} ELSE Ends
  OBVIOUS
<1>5. w \in V /\ w \in Notices
  BY <1>1, <1>3, <1>4 DEF Notices
<1>6. PICK e \in Seq(Notices) : e = Append(rp[m], w) /\ Told(e, V)
  <2>1. rp[m] \in Seq(Notices)
    BY <1>0, <1>3
  <2> QED BY <1>3, <1>5, <2>1, ToldOnce
<1>7. tp \in [1 .. MaxUrbs -> Seq(Notices)] /\ tp[m] = e /\ \A q \in 1 .. MaxUrbs : q # m => tp[q] = rp[q]
  BY <1>0, <1>2, <1>3, <1>6
<1>8. Vacant \in SlotStates /\ Vacant.state = "FREE"
  BY <1>0 DEF Vacant, SlotStates
<1>9. tl \in [1 .. UrbSlots -> SlotStates] /\ tl[i] = Vacant /\ \A j \in 1 .. UrbSlots : j # i => tl[j] = sl[j]
  BY <1>0, <1>1, <1>8
<1>10. \A j \in Taken(tl) : j # i /\ j \in Taken(sl) /\ tl[j] = sl[j]
  BY <1>8, <1>9 DEF Taken
<1>11. \A j \in Taken(sl) : j # i => j \in Taken(tl) /\ tl[j] = sl[j]
  BY <1>9 DEF Taken
<1>12. \A a, b \in Taken(sl) : sl[a].seq = sl[b].seq => a = b
  BY DEF Table
<1>13. ASSUME NEW j \in Taken(tl) PROVE Known(tl[j], tp, n, ul, now)
  <2>1. Known(sl[j], rp, n, ul, now) /\ tl[j] = sl[j] /\ j # i /\ j \in Taken(sl)
    BY <1>0, <1>10
  <2>2. sl[j].seq # m
    BY <1>2, <1>12, <2>1
  <2>3. sl[j].seq \in 1 .. MaxUrbs
    BY <1>0, <2>1 DEF Known
  <2>4. tp[sl[j].seq] = rp[sl[j].seq]
    BY <1>7, <2>2, <2>3
  <2> QED BY <2>1, <2>4 DEF Known
<1>14. ASSUME NEW q \in 1 .. MaxUrbs PROVE Accounted(tl, tp, n, ul, q)
  <2>1. CASE q = m
    <3>1. q <= n
      BY <1>0, <1>3, <2>1
    <3> QED BY <1>4, <1>6, <1>7, <2>1, <3>1 DEF Accounted
  <2>2. CASE q # m
    <3>1. Accounted(sl, rp, n, ul, q) /\ tp[q] = rp[q]
      BY <1>7, <2>2 DEF Table
    <3>2. \A j \in Taken(sl) : sl[j].seq = q => j \in Taken(tl) /\ tl[j].seq = q
      BY <1>2, <1>11, <2>2
    <3> QED BY <3>1, <3>2 DEF Accounted
  <2> QED BY <2>1, <2>2
<1>15. \A a, b \in Taken(tl) : tl[a].seq = tl[b].seq => a = b
  BY <1>10, <1>12
<1> QED BY <1>0, <1>7, <1>9, <1>13, <1>14, <1>15 DEF Table

\* An unlink that finds its transfer in the table.
LEMMA TableUnlinks ==
    ASSUME NEW sl, NEW rp, NEW n, NEW ul, NEW now, Table(sl, rp, n, ul, now), NEW i \in Taken(sl), sl[i].state = "SUBMITTED",
           NEW tl, tl = [sl EXCEPT ![i].state = "PENDING_UNLINK"]
    PROVE  Table(tl, rp, n, ul \cup {sl[i].seq}, now)
<1>0. /\ sl \in [1 .. UrbSlots -> SlotStates] /\ rp \in [1 .. MaxUrbs -> Seq(Notices)]
      /\ n \in Nat /\ n <= MaxUrbs /\ ul \subseteq 1 .. n /\ now \in 0 .. ClockWidth - 1
      /\ MaxUrbs \in Nat /\ UrbSlots \in Nat
      /\ \A j \in Taken(sl) : Known(sl[j], rp, n, ul, now)
  BY AppsAssumption DEF Table
<1>1. i \in 1 .. UrbSlots /\ sl[i] \in SlotStates
  BY <1>0 DEF Taken
<1>2. PICK m : m = sl[i].seq
  OBVIOUS
<1>3. m \in 1 .. n /\ m \in 1 .. MaxUrbs /\ Silent(rp[m]) /\ m \notin ul
  BY <1>0, <1>2 DEF Known
<1>4. PICK s : s = [sl[i] EXCEPT !.state = "PENDING_UNLINK"]
  OBVIOUS
<1>5. /\ s \in SlotStates /\ s.state = "PENDING_UNLINK" /\ s.seq = m /\ s.since = sl[i].since /\ s.age = sl[i].age
  BY <1>1, <1>2, <1>4 DEF SlotStates
<1>6. tl \in [1 .. UrbSlots -> SlotStates] /\ tl[i] = s /\ \A j \in 1 .. UrbSlots : j # i => tl[j] = sl[j]
  BY <1>0, <1>1, <1>4, <1>5
<1>7. \A j \in 1 .. UrbSlots : tl[j].seq = sl[j].seq /\ (j \in Taken(tl) <=> j \in Taken(sl))
  BY <1>2, <1>5, <1>6 DEF Taken
<1>8. Taken(tl) = Taken(sl)
  BY <1>7 DEF Taken
<1>9. PICK vl : vl = ul \cup {m}
  OBVIOUS
<1>10. vl \subseteq 1 .. n
  BY <1>0, <1>3, <1>9
<1>11. \A a, b \in Taken(sl) : sl[a].seq = sl[b].seq => a = b
  BY DEF Table
<1>12. ASSUME NEW j \in Taken(tl) PROVE Known(tl[j], rp, n, vl, now)
  <2>1. Known(sl[j], rp, n, ul, now) /\ j \in Taken(sl) /\ j \in 1 .. UrbSlots
    BY <1>0, <1>8 DEF Taken
  <2>2. CASE j = i
    <3>1. m \in vl
      BY <1>9
    <3> QED BY <1>2, <1>5, <1>6, <2>1, <2>2, <3>1 DEF Known
  <2>3. CASE j # i
    <3>1. sl[j].seq # m
      BY <1>2, <1>11, <2>1, <2>3
    <3>2. sl[j].seq \in vl <=> sl[j].seq \in ul
      BY <1>9, <3>1
    <3>3. tl[j] = sl[j]
      BY <1>6, <2>1, <2>3
    <3> QED BY <2>1, <3>2, <3>3 DEF Known
  <2> QED BY <2>2, <2>3
<1>13. \A a, b \in Taken(tl) : tl[a].seq = tl[b].seq => a = b
  <2>1. \A a \in Taken(sl) : a \in 1 .. UrbSlots
    BY DEF Taken
  <2> QED BY <1>7, <1>8, <1>11, <2>1
<1>14. ASSUME NEW q \in 1 .. MaxUrbs PROVE Accounted(tl, rp, n, vl, q)
  <2>0. Accounted(sl, rp, n, ul, q)
    BY DEF Table
  <2>1. CASE q = m
    <3>1. i \in Taken(tl) /\ tl[i].seq = q
      BY <1>2, <1>7, <1>8, <1>1, <2>1
    <3> QED BY <1>3, <2>1, <3>1 DEF Accounted
  <2>2. CASE q # m
    <3>1. q \in vl <=> q \in ul
      BY <1>9, <2>2
    <3>2. \A j \in Taken(sl) : sl[j].seq = q => j \in Taken(tl) /\ tl[j].seq = q
      <4>1. \A a \in Taken(sl) : a \in 1 .. UrbSlots
        BY DEF Taken
      <4> QED BY <1>7, <1>8, <4>1
    <3> QED BY <2>0, <3>1, <3>2 DEF Accounted
  <2> QED BY <2>1, <2>2
<1>15. Table(tl, rp, n, vl, now)
  BY <1>0, <1>6, <1>10, <1>12, <1>13, <1>14 DEF Table
<1> QED BY <1>2, <1>9, <1>15

LEMMA UpTo == \A n, k \in Nat : n <= k => \A m \in 1 .. n : m \in 1 .. k /\ m <= n
OBVIOUS

\* An unlink that comes when its transfer has been answered.
LEMMA TableTooLate ==
    ASSUME NEW sl, NEW rp, NEW n, NEW ul, NEW now, Table(sl, rp, n, ul, now), NEW m \in 1 .. n, m \notin ul,
           \A i \in Taken(sl) : sl[i].state = "SUBMITTED" => sl[i].seq # m,
           NEW tp, tp = [rp EXCEPT ![m] = Append(rp[m], "unlinked late")]
    PROVE  Table(sl, tp, n, ul \cup {m}, now)
<1>0. /\ sl \in [1 .. UrbSlots -> SlotStates] /\ rp \in [1 .. MaxUrbs -> Seq(Notices)]
      /\ n \in Nat /\ n <= MaxUrbs /\ ul \subseteq 1 .. n /\ now \in 0 .. ClockWidth - 1
      /\ MaxUrbs \in Nat /\ UrbSlots \in Nat
      /\ \A j \in Taken(sl) : Known(sl[j], rp, n, ul, now)
  BY AppsAssumption DEF Table
<1>11. n \in Nat /\ n <= MaxUrbs /\ MaxUrbs \in Nat
  BY <1>0
<1>1. m \in 1 .. MaxUrbs /\ m <= n
  BY <1>11, UpTo
<1>2. ASSUME NEW i \in Taken(sl) PROVE sl[i].seq # m
  <2>1. sl[i].state \in {"SUBMITTED", "PENDING_UNLINK"}
    BY <1>0 DEF Taken, SlotStates
  <2> QED BY <1>0, <2>1 DEF Known
<1>3. Told(rp[m], Ends)
  <2>1. Accounted(sl, rp, n, ul, m)
    BY <1>1 DEF Table
  <2> QED BY <1>1, <1>2, <2>1 DEF Accounted
<1>4. PICK e \in Seq(Notices) : e = Append(rp[m], "unlinked late") /\ ToldTwice(e)
  <2>1. rp[m] \in Seq(Notices)
    BY <1>0, <1>1
  <2> QED BY <1>3, <2>1, ToldAgain
<1>5. tp \in [1 .. MaxUrbs -> Seq(Notices)] /\ tp[m] = e /\ \A q \in 1 .. MaxUrbs : q # m => tp[q] = rp[q]
  BY <1>0, <1>1, <1>4
<1>6. PICK vl : vl = ul \cup {m}
  OBVIOUS
<1>7. vl \subseteq 1 .. n /\ m \in vl
  BY <1>0, <1>6
<1>8. ASSUME NEW j \in Taken(sl) PROVE Known(sl[j], tp, n, vl, now)
  <2>1. Known(sl[j], rp, n, ul, now) /\ sl[j].seq # m
    BY <1>0, <1>2
  <2>4. sl[j].seq \in 1 .. n
    BY <2>1 DEF Known
  <2>2. sl[j].seq \in 1 .. MaxUrbs
    BY <1>11, <2>4, UpTo
  <2>3. tp[sl[j].seq] = rp[sl[j].seq] /\ (sl[j].seq \in vl <=> sl[j].seq \in ul)
    BY <1>5, <1>6, <2>1, <2>2
  <2> QED BY <2>1, <2>3 DEF Known
<1>9. ASSUME NEW q \in 1 .. MaxUrbs PROVE Accounted(sl, tp, n, vl, q)
  <2>1. CASE q = m
    BY <1>4, <1>5, <1>7, <2>1 DEF Accounted
  <2>2. CASE q # m
    <3>1. Accounted(sl, rp, n, ul, q) /\ tp[q] = rp[q] /\ (q \in vl <=> q \in ul)
      BY <1>5, <1>6, <2>2 DEF Table
    <3> QED BY <3>1 DEF Accounted
  <2> QED BY <2>1, <2>2
<1>10. \A a, b \in Taken(sl) : sl[a].seq = sl[b].seq => a = b
  BY DEF Table
<1>12. Table(sl, tp, n, vl, now)
  BY <1>0, <1>5, <1>7, <1>8, <1>9, <1>10 DEF Table
<1> QED BY <1>6, <1>12

\* The clock, which may pass its end, and the real age of what waits.
LEMMA ClockGoesOn ==
    ASSUME NEW now \in 0 .. ClockWidth - 1, NEW since \in 0 .. ClockWidth - 1, NEW age \in Nat,
           age < ClockWidth - 1, (now - since) % ClockWidth = age
    PROVE  (now + 1) % ClockWidth \in 0 .. ClockWidth - 1 /\ (((now + 1) % ClockWidth) - since) % ClockWidth = age + 1
<1>1. PICK q \in Nat : q = ClockWidth /\ q >= 1
  BY AppsAssumption
<1>2. now \in Nat /\ now < q /\ since \in Nat /\ since < q /\ age < q - 1
  BY <1>1
<1>3. PICK x \in Int : x = now - since /\ x < q /\ x > -q /\ x % q = age
  BY <1>1, <1>2
<1>4. age = IF x >= 0 THEN x ELSE x + q
  BY <1>1, <1>2, <1>3
<1>5. PICK v \in Int : v = (now + 1) % q
  BY <1>1, <1>2
<1>6. v = IF now + 1 < q THEN now + 1 ELSE 0
  BY <1>1, <1>2, <1>5
<1>13. v \in Nat
  BY <1>1, <1>2, <1>6
<1>7. PICK y \in Int : y = v - since
  BY <1>2, <1>13
<1>8. y < q /\ y > -q
  BY <1>1, <1>2, <1>6, <1>7
<1>9. y % q = IF y >= 0 THEN y ELSE y + q
  BY <1>1, <1>8
<1>10. x = now - since
  BY <1>3
<1>11. (IF y >= 0 THEN y ELSE y + q) = age + 1
  BY <1>1, <1>2, <1>4, <1>6, <1>7, <1>10
<1>12. v \in 0 .. q - 1
  BY <1>1, <1>2, <1>6
<1> QED BY <1>1, <1>5, <1>7, <1>9, <1>11, <1>12

LEMMA TableTicks ==
    ASSUME NEW sl, NEW rp, NEW n, NEW ul, NEW now, Table(sl, rp, n, ul, now), \A i \in Taken(sl) : sl[i].age < ClockWidth - 1,
           NEW tl, tl = [i \in DOMAIN sl |-> IF i \in Taken(sl) THEN [sl[i] EXCEPT !.age = @ + 1] ELSE sl[i]]
    PROVE  Table(tl, rp, n, ul, (now + 1) % ClockWidth)
<1>0. /\ sl \in [1 .. UrbSlots -> SlotStates] /\ rp \in [1 .. MaxUrbs -> Seq(Notices)]
      /\ n \in Nat /\ n <= MaxUrbs /\ ul \subseteq 1 .. n /\ now \in 0 .. ClockWidth - 1
      /\ \A j \in Taken(sl) : Known(sl[j], rp, n, ul, now)
  BY DEF Table
<1>1. PICK w : w = (now + 1) % ClockWidth
  OBVIOUS
<1>2. PICK q \in Nat : q = ClockWidth /\ q >= 1
  BY AppsAssumption
<1>3. w \in 0 .. ClockWidth - 1
  BY <1>0, <1>1, <1>2
<1>4. ASSUME NEW j \in 1 .. UrbSlots
      PROVE  tl[j] = IF j \in Taken(sl) THEN [sl[j] EXCEPT !.age = sl[j].age + 1] ELSE sl[j]
  BY <1>0
<1>5. ASSUME NEW j \in 1 .. UrbSlots
      PROVE  /\ tl[j] \in SlotStates /\ tl[j].state = sl[j].state /\ tl[j].seq = sl[j].seq /\ tl[j].since = sl[j].since
             /\ tl[j].age = IF j \in Taken(sl) THEN sl[j].age + 1 ELSE sl[j].age
  <2>1. sl[j] \in SlotStates
    BY <1>0
  <2>2. PICK a \in Nat : a = sl[j].age + 1
    BY <2>1 DEF SlotStates
  <2>3. [sl[j] EXCEPT !.age = a] \in SlotStates
    BY <2>1 DEF SlotStates
  <2> QED BY <1>4, <2>1, <2>2, <2>3 DEF SlotStates
<1>6. tl \in [1 .. UrbSlots -> SlotStates]
  BY <1>0, <1>5
<1>7. Taken(tl) = Taken(sl) /\ Taken(sl) \subseteq 1 .. UrbSlots
  BY <1>5 DEF Taken
<1>8. ASSUME NEW j \in Taken(tl) PROVE Known(tl[j], rp, n, ul, w)
  <2>1. j \in Taken(sl) /\ j \in 1 .. UrbSlots /\ Known(sl[j], rp, n, ul, now) /\ sl[j] \in SlotStates
    BY <1>0, <1>7
  <2>2. /\ tl[j].state = sl[j].state /\ tl[j].seq = sl[j].seq /\ tl[j].since = sl[j].since /\ tl[j].age = sl[j].age + 1
    BY <1>5, <2>1
  <2>3. /\ sl[j].since \in 0 .. ClockWidth - 1 /\ sl[j].age \in Nat /\ sl[j].age < ClockWidth - 1
        /\ (now - sl[j].since) % ClockWidth = sl[j].age
    BY <2>1 DEF SlotStates, Known
  <2>4. (w - sl[j].since) % ClockWidth = sl[j].age + 1
    BY <1>0, <1>1, <2>3, ClockGoesOn
  <2>5. sl[j].age + 1 < ClockWidth
    BY <1>2, <2>3
  <2> QED BY <2>1, <2>2, <2>4, <2>5 DEF Known
<1>9. \A a, b \in Taken(tl) : tl[a].seq = tl[b].seq => a = b
  <2>1. \A a, b \in Taken(sl) : sl[a].seq = sl[b].seq => a = b
    BY DEF Table
  <2>2. \A a \in Taken(sl) : tl[a].seq = sl[a].seq
    BY <1>5, <1>7
  <2> QED BY <1>7, <2>1, <2>2
<1>10. ASSUME NEW p \in 1 .. MaxUrbs PROVE Accounted(tl, rp, n, ul, p)
  <2>1. Accounted(sl, rp, n, ul, p)
    BY DEF Table
  <2>2. \A a \in Taken(sl) : a \in Taken(tl) /\ tl[a].seq = sl[a].seq
    BY <1>5, <1>7
  <2> QED BY <2>1, <2>2 DEF Accounted
<1>11. Table(tl, rp, n, ul, w)
  BY <1>0, <1>3, <1>6, <1>8, <1>9, <1>10 DEF Table
<1> QED BY <1>1, <1>11

UrbStates ==
    [kind: {"urbs"}, slot: [1 .. UrbSlots -> SlotStates], now: 0 .. ClockWidth - 1, asked: Nat, unlinked: SUBSET Nat,
     replies: [1 .. MaxUrbs -> Seq(Notices)], st: {"OK", "NO_URB_SLOT", "URB_NOT_FOUND"}]
UrbInv(u) == u \in UrbStates /\ Table(u.slot, u.replies, u.asked, u.unlinked, u.now)

LEMMA UrbBegins == UrbInv(UrbInit)
<1>1. PICK q \in Nat : q = ClockWidth /\ q >= 1
  BY AppsAssumption
<1>2. PICK z \in Seq(Notices) : z = <<>> /\ Len(z) = 0
  BY EmptySequence
<1>3. PICK sl : sl = [i \in 1 .. UrbSlots |-> Vacant]
  OBVIOUS
<1>4. PICK rp : rp = [p \in 1 .. MaxUrbs |-> z]
  OBVIOUS
<1>5. Vacant \in SlotStates /\ Vacant.state = "FREE"
  BY <1>1 DEF Vacant, SlotStates
<1>6. sl \in [1 .. UrbSlots -> SlotStates] /\ Taken(sl) = {}
  BY <1>3, <1>5 DEF Taken
<1>7. rp \in [1 .. MaxUrbs -> Seq(Notices)] /\ \A p \in 1 .. MaxUrbs : Silent(rp[p]) /\ ~ (p <= 0)
  BY <1>2, <1>4 DEF Silent
<1>8. q - 1 \in 0 .. ClockWidth - 1 /\ MaxUrbs \in Nat /\ 0 <= MaxUrbs
  BY <1>1, AppsAssumption
<1>9. \A p \in 1 .. MaxUrbs : Accounted(sl, rp, 0, {}, p)
  BY <1>7 DEF Accounted
<1>10. Table(sl, rp, 0, {}, q - 1)
  BY <1>6, <1>7, <1>8, <1>9 DEF Table
<1>11. PICK u : u = UrbInit
  OBVIOUS
<1>12. u = [kind |-> "urbs", slot |-> sl, now |-> q - 1, asked |-> 0, unlinked |-> {}, replies |-> rp, st |-> "OK"]
  BY <1>1, <1>2, <1>3, <1>4, <1>11 DEF UrbInit
<1>13. u \in UrbStates
  BY <1>6, <1>7, <1>8, <1>12 DEF UrbStates
<1>14. u.slot = sl /\ u.replies = rp /\ u.asked = 0 /\ u.unlinked = {} /\ u.now = q - 1
  BY <1>12
<1> QED BY <1>10, <1>11, <1>13, <1>14 DEF UrbInv

LEMMA UrbKeeps ==
    ASSUME NEW u, UrbInv(u), NEW sl, NEW rp, NEW n, NEW ul, NEW now, Table(sl, rp, n, ul, now),
           NEW st \in {"OK", "NO_URB_SLOT", "URB_NOT_FOUND"},
           NEW e, e = [u EXCEPT !.slot = sl, !.replies = rp, !.asked = n, !.unlinked = ul, !.now = now, !.st = st]
    PROVE  UrbInv(e)
<1>1. u \in UrbStates
  BY DEF UrbInv
<1>2. /\ sl \in [1 .. UrbSlots -> SlotStates] /\ rp \in [1 .. MaxUrbs -> Seq(Notices)] /\ n \in Nat /\ now \in 0 .. ClockWidth - 1
      /\ ul \subseteq 1 .. n
  BY DEF Table
<1>3. ul \in SUBSET Nat
  BY <1>2
<1>4. e \in UrbStates
  BY <1>1, <1>2, <1>3 DEF UrbStates
<1>5. e.slot = sl /\ e.replies = rp /\ e.asked = n /\ e.unlinked = ul /\ e.now = now
  BY <1>1 DEF UrbStates
<1> QED BY <1>4, <1>5 DEF UrbInv

LEMMA BusyIsTaken == ASSUME NEW u PROVE Busy(u) = Taken(u.slot)
BY DEF Busy, Taken

LEMMA FirstOfSlots == ASSUME NEW S \in SUBSET (1 .. UrbSlots), S # {} PROVE First(S) \in S
<1>1. S \in SUBSET Nat
  BY AppsAssumption
<1> QED BY <1>1, FirstIsMember

\* The fields of a state, and a state written by its fields.
LEMMA UrbFields ==
    ASSUME NEW u, UrbInv(u)
    PROVE  /\ u \in UrbStates /\ u.slot \in [1 .. UrbSlots -> SlotStates] /\ u.replies \in [1 .. MaxUrbs -> Seq(Notices)]
           /\ u.asked \in Nat /\ u.asked <= MaxUrbs /\ u.unlinked \subseteq 1 .. u.asked /\ u.now \in 0 .. ClockWidth - 1
           /\ Table(u.slot, u.replies, u.asked, u.unlinked, u.now)
           /\ u = [u EXCEPT !.slot = u.slot, !.replies = u.replies, !.asked = u.asked, !.unlinked = u.unlinked,
                            !.now = u.now, !.st = u.st]
BY DEF UrbInv, UrbStates, Table

LEMMA ServerSubmitsKeeps == ASSUME NEW u, UrbInv(u), u.asked < MaxUrbs PROVE UrbInv(ServerSubmits(u))
<1>0. /\ u \in UrbStates /\ u.slot \in [1 .. UrbSlots -> SlotStates] /\ u.replies \in [1 .. MaxUrbs -> Seq(Notices)]
      /\ u.asked \in Nat /\ Table(u.slot, u.replies, u.asked, u.unlinked, u.now)
  BY UrbFields
<1>1. PICK m \in Nat : m = u.asked + 1
  BY <1>0
<1>2. PICK a : a = [u EXCEPT !.asked = m]
  OBVIOUS
<1>3. /\ a \in UrbStates /\ a.asked = m /\ a.slot = u.slot /\ a.replies = u.replies /\ a.now = u.now /\ Busy(a) = Taken(u.slot)
  BY <1>0, <1>2 DEF UrbStates, Busy, Taken
<1>4. ServerSubmits(u) = LET r == Submit(a, m) IN IF IsOk(r) THEN r ELSE Reply(r, r.asked, "refused")
  BY <1>1, <1>2 DEF ServerSubmits
<1>5. CASE Busy(a) = 1 .. UrbSlots
  <2>1. PICK r : r = [a EXCEPT !.st = "NO_URB_SLOT"]
    OBVIOUS
  <2>2. Submit(a, m) = r /\ ~ IsOk(r) /\ r.asked = m /\ r.replies = u.replies
    BY <1>3, <1>5, <2>1 DEF Submit, Failed, IsOk, UrbStates
  <2>3. PICK tp : tp = [u.replies EXCEPT ![m] = Append(u.replies[m], "refused")]
    OBVIOUS
  <2>4. Table(u.slot, tp, m, u.unlinked, u.now)
    BY <1>0, <1>1, <2>3, TableRefuses, SMTT(60)
  <2>5. PICK e : e = [u EXCEPT !.slot = u.slot, !.replies = tp, !.asked = m, !.unlinked = u.unlinked, !.now = u.now, !.st = "NO_URB_SLOT"]
    BY SMTT(60)
  <2>6. UrbInv(e)
    BY <2>4, <2>5, UrbKeeps
  <2>7. ServerSubmits(u) = [r EXCEPT !.replies = tp]
    BY <1>4, <2>2, <2>3 DEF Reply
  <2>8. [r EXCEPT !.replies = tp] = e
    BY <1>0, <1>2, <2>1, <2>5 DEF UrbStates
  <2> QED BY <2>6, <2>7, <2>8
<1>6. CASE Busy(a) # 1 .. UrbSlots
  <2>1. PICK i : i = First(1 .. UrbSlots \ Busy(a))
    OBVIOUS
  <2>2. i \in 1 .. UrbSlots /\ i \notin Taken(u.slot)
    <3>1. 1 .. UrbSlots \ Busy(a) \in SUBSET (1 .. UrbSlots) /\ 1 .. UrbSlots \ Busy(a) # {}
      BY <1>6 DEF Busy
    <3> QED BY <1>3, <2>1, <3>1, FirstOfSlots
  <2>3. PICK s : s = [state |-> "SUBMITTED", seq |-> u.asked + 1, since |-> u.now, age |-> 0]
    OBVIOUS
  <2>4. PICK tl : tl = [u.slot EXCEPT ![i] = s]
    BY ZenonT(60)
  <2>5. Table(tl, u.replies, m, u.unlinked, u.now)
    BY <1>0, <1>1, <2>2, <2>3, <2>4, TableSubmits
  <2>6. PICK e : e = [u EXCEPT !.slot = tl, !.replies = u.replies, !.asked = m, !.unlinked = u.unlinked, !.now = u.now, !.st = "OK"]
    BY SMTT(60)
  <2>7. UrbInv(e)
    BY <2>5, <2>6, UrbKeeps, ZenonT(60)
  <2>8. PICK r : r = [[a EXCEPT !.slot = tl] EXCEPT !.st = "OK"]
    OBVIOUS
  <2>9. Submit(a, m) = r
    <3>1. [a EXCEPT !.slot[i] = s] = [a EXCEPT !.slot = tl]
      BY <1>3, <2>4
    <3> QED BY <1>1, <1>3, <1>6, <2>1, <2>3, <2>8, <3>1 DEF Submit, Ok
  <2>10. IsOk(r)
    BY <1>3, <2>8 DEF IsOk, UrbStates
  <2>11. r = e
    BY <1>0, <1>2, <2>6, <2>8 DEF UrbStates
  <2> QED BY <1>4, <2>7, <2>9, <2>10, <2>11
<1> QED BY <1>5, <1>6

\* A slot given back, and what its client is told.
LEMMA LeavesKeeps ==
    ASSUME NEW u, UrbInv(u), NEW i \in Busy(u), NEW w,
           IF u.slot[i].state = "SUBMITTED" THEN w \in Ends ELSE w = "RET_UNLINK",
           NEW st \in {"OK", "NO_URB_SLOT", "URB_NOT_FOUND"}
    PROVE  UrbInv(Reply([[u EXCEPT !.slot[i] = Vacant] EXCEPT !.st = st], u.slot[i].seq, w))
<1>0. /\ u \in UrbStates /\ Table(u.slot, u.replies, u.asked, u.unlinked, u.now) /\ i \in Taken(u.slot)
  BY UrbFields, BusyIsTaken
<1>1. PICK tl : tl = [u.slot EXCEPT ![i] = Vacant]
  OBVIOUS
<1>2. PICK tp : tp = [u.replies EXCEPT ![u.slot[i].seq] = Append(u.replies[u.slot[i].seq], w)]
  OBVIOUS
<1>3. Table(tl, tp, u.asked, u.unlinked, u.now)
  BY <1>0, <1>1, <1>2, TableEnds
<1>4. PICK e : e = [u EXCEPT !.slot = tl, !.replies = tp, !.asked = u.asked, !.unlinked = u.unlinked, !.now = u.now, !.st = st]
  OBVIOUS
<1>5. UrbInv(e)
  BY <1>3, <1>4, UrbKeeps, ZenonT(60)
<1>6. PICK a : a = [[u EXCEPT !.slot = tl] EXCEPT !.st = st]
  OBVIOUS
<1>7. a = [[u EXCEPT !.slot[i] = Vacant] EXCEPT !.st = st] /\ a.replies = u.replies
  BY <1>0, <1>1, <1>6 DEF UrbStates
<1>8. Reply(a, u.slot[i].seq, w) = [a EXCEPT !.replies = tp]
  BY <1>2, <1>7 DEF Reply
<1>9. [a EXCEPT !.replies = tp] = e
  BY <1>0, <1>4, <1>6 DEF UrbStates
<1> QED BY <1>5, <1>7, <1>8, <1>9

LEMMA SlotIsTaken ==
    ASSUME NEW u, UrbInv(u), NEW i \in Busy(u)
    PROVE  u.slot[i].state \in {"SUBMITTED", "PENDING_UNLINK"}
<1>1. u.slot \in [1 .. UrbSlots -> SlotStates] /\ i \in 1 .. UrbSlots /\ u.slot[i].state # "FREE"
  BY UrbFields DEF Busy
<1>2. u.slot[i] \in SlotStates
  BY <1>1, ZenonT(60)
<1> QED BY <1>1, <1>2 DEF SlotStates

LEMMA ServerCompletesKeeps == ASSUME NEW u, UrbInv(u), NEW i \in Busy(u) PROVE UrbInv(ServerCompletes(u, i))
<1>0. u \in UrbStates /\ u.slot[i].state \in {"SUBMITTED", "PENDING_UNLINK"}
  BY UrbFields, SlotIsTaken
<1>1. PICK w : w = IF u.slot[i].state = "SUBMITTED" THEN "RET_SUBMIT" ELSE "RET_UNLINK"
  OBVIOUS
<1>2. PICK a : a = [[u EXCEPT !.slot[i] = Vacant] EXCEPT !.st = "OK"]
  OBVIOUS
<1>3. UrbComplete(u, i) = a /\ IsOk(a)
  BY <1>0, <1>2 DEF UrbComplete, Ok, IsOk, UrbStates
<1>4. ServerCompletes(u, i) = Reply(a, u.slot[i].seq, w)
  BY <1>1, <1>3, SMTT(60) DEF ServerCompletes, Then
<1>5. IF u.slot[i].state = "SUBMITTED" THEN w \in Ends ELSE w = "RET_UNLINK"
  BY <1>1, SMTT(60) DEF Ends
<1> QED BY <1>2, <1>4, <1>5, LeavesKeeps, ZenonT(60)

LEMMA ServerExpiresKeeps == ASSUME NEW u, UrbInv(u), NEW i \in FindExpired(u) PROVE UrbInv(ServerExpires(u, i))
<1>0. u \in UrbStates /\ i \in Busy(u)
  BY UrbFields DEF FindExpired
<1>1. PICK w : w = IF u.slot[i].state = "SUBMITTED" THEN "expired" ELSE "RET_UNLINK"
  OBVIOUS
<1>2. PICK t \in {"OK", "NO_URB_SLOT", "URB_NOT_FOUND"} : t = u.st
  BY <1>0 DEF UrbStates
<1>3. [[u EXCEPT !.slot[i] = Vacant] EXCEPT !.st = t] = [u EXCEPT !.slot[i] = Vacant]
  BY <1>0, <1>2 DEF UrbStates
<1>4. ServerExpires(u, i) = Reply([[u EXCEPT !.slot[i] = Vacant] EXCEPT !.st = t], u.slot[i].seq, w)
  BY <1>1, <1>3 DEF ServerExpires, UrbFree
<1>5. IF u.slot[i].state = "SUBMITTED" THEN w \in Ends ELSE w = "RET_UNLINK"
  BY <1>1 DEF Ends
<1> QED BY <1>0, <1>2, <1>4, <1>5, LeavesKeeps, ZenonT(60)

LEMMA ServerUnlinksKeeps ==
    ASSUME NEW u, UrbInv(u), NEW q \in 1 .. u.asked \ u.unlinked
    PROVE  UrbInv(ServerUnlinks(u, q))
<1>0. /\ u \in UrbStates /\ u.slot \in [1 .. UrbSlots -> SlotStates] /\ u.replies \in [1 .. MaxUrbs -> Seq(Notices)]
      /\ u.unlinked \subseteq 1 .. u.asked /\ Table(u.slot, u.replies, u.asked, u.unlinked, u.now)
  BY UrbFields
<1>1. PICK vl : vl = u.unlinked \cup {q}
  OBVIOUS
<1>2. PICK a : a = [u EXCEPT !.unlinked = vl]
  OBVIOUS
<1>3. a.slot = u.slot /\ a.replies = u.replies /\ Busy(a) = Taken(u.slot)
  BY <1>0, <1>2 DEF UrbStates, Busy, Taken
<1>4. ServerUnlinks(u, q) = LET r == RequestUnlink(a, q) IN IF IsOk(r) THEN r ELSE Reply(r, q, "unlinked late")
  BY <1>1, <1>2 DEF ServerUnlinks
<1>5. PICK S : S = {i \in Busy(a) : a.slot[i].state = "SUBMITTED" /\ a.slot[i].seq = q}
  OBVIOUS
<1>6. RequestUnlink(a, q) =
        IF S = {} THEN Failed(a, "URB_NOT_FOUND") ELSE Ok([a EXCEPT !.slot[First(S)].state = "PENDING_UNLINK"])
  BY <1>5 DEF RequestUnlink
<1>7. CASE S = {}
  <2>1. PICK r : r = [a EXCEPT !.st = "URB_NOT_FOUND"]
    OBVIOUS
  <2>2. RequestUnlink(a, q) = r /\ ~ IsOk(r) /\ r.replies = u.replies
    BY <1>0, <1>2, <1>6, <1>7, <2>1 DEF Failed, IsOk, UrbStates
  <2>3. PICK tp : tp = [u.replies EXCEPT ![q] = Append(u.replies[q], "unlinked late")]
    OBVIOUS
  <2>4. \A i \in Taken(u.slot) : u.slot[i].state = "SUBMITTED" => u.slot[i].seq # q
    BY <1>3, <1>5, <1>7
  <2>5. Table(u.slot, tp, u.asked, vl, u.now)
    BY <1>0, <1>1, <2>3, <2>4, TableTooLate, ZenonT(60)
  <2>6. PICK e : e = [u EXCEPT !.slot = u.slot, !.replies = tp, !.asked = u.asked, !.unlinked = vl, !.now = u.now, !.st = "URB_NOT_FOUND"]
    BY SMTT(60)
  <2>7. UrbInv(e)
    BY <2>5, <2>6, UrbKeeps, ZenonT(60)
  <2>8. ServerUnlinks(u, q) = [r EXCEPT !.replies = tp]
    BY <1>4, <2>2, <2>3 DEF Reply
  <2>9. [r EXCEPT !.replies = tp] = e
    BY <1>0, <1>2, <2>1, <2>6 DEF UrbStates
  <2> QED BY <2>7, <2>8, <2>9
<1>8. CASE S # {}
  <2>1. PICK i \in S : i = First(S)
    <3>1. S \in SUBSET (1 .. UrbSlots)
      BY <1>5 DEF Busy
    <3> QED BY <1>8, <3>1, FirstOfSlots
  <2>2. i \in Taken(u.slot) /\ u.slot[i].state = "SUBMITTED" /\ u.slot[i].seq = q
    BY <1>3, <1>5, <2>1
  <2>3. PICK tl : tl = [u.slot EXCEPT ![i].state = "PENDING_UNLINK"]
    OBVIOUS
  <2>4. Table(tl, u.replies, u.asked, vl, u.now)
    BY <1>0, <1>1, <2>2, <2>3, TableUnlinks
  <2>5. PICK e : e = [u EXCEPT !.slot = tl, !.replies = u.replies, !.asked = u.asked, !.unlinked = vl, !.now = u.now, !.st = "OK"]
    OBVIOUS
  <2>6. UrbInv(e)
    BY <2>4, <2>5, UrbKeeps
  <2>7. PICK r : r = [[a EXCEPT !.slot = tl] EXCEPT !.st = "OK"]
    OBVIOUS
  <2>8. RequestUnlink(a, q) = r
    <3>1. [a EXCEPT !.slot[i].state = "PENDING_UNLINK"] = [a EXCEPT !.slot = tl]
      BY <1>3, <2>3
    <3> QED BY <1>6, <1>8, <2>1, <2>7, <3>1 DEF Ok
  <2>9. IsOk(r) /\ r = e
    BY <1>0, <1>2, <2>5, <2>7 DEF UrbStates, IsOk
  <2> QED BY <1>4, <2>6, <2>8, <2>9
<1> QED BY <1>7, <1>8

LEMMA TickedKeeps ==
    ASSUME NEW u, UrbInv(u), \A i \in Busy(u) : u.slot[i].age < ClockWidth - 1
    PROVE  UrbInv(Ticked(u))
<1>0. u \in UrbStates /\ Table(u.slot, u.replies, u.asked, u.unlinked, u.now) /\ Busy(u) = Taken(u.slot)
  BY UrbFields, BusyIsTaken
<1>1. PICK tl : tl = [i \in DOMAIN u.slot |-> IF i \in Taken(u.slot) THEN [u.slot[i] EXCEPT !.age = @ + 1] ELSE u.slot[i]]
  OBVIOUS
<1>2. PICK w : w = (u.now + 1) % ClockWidth
  OBVIOUS
<1>3. Table(tl, u.replies, u.asked, u.unlinked, w)
  BY <1>0, <1>1, <1>2, TableTicks
<1>4. PICK t \in {"OK", "NO_URB_SLOT", "URB_NOT_FOUND"} : t = u.st
  BY <1>0 DEF UrbStates
<1>5. PICK e : e = [u EXCEPT !.slot = tl, !.replies = u.replies, !.asked = u.asked, !.unlinked = u.unlinked, !.now = w, !.st = t]
  OBVIOUS
<1>6. UrbInv(e)
  BY <1>3, <1>5, UrbKeeps, ZenonT(60)
<1>7. Ticked(u) = [u EXCEPT !.now = w, !.slot = tl]
  <2>1. tl = [i \in DOMAIN u.slot |-> IF i \in Busy(u) THEN Older(u.slot[i]) ELSE u.slot[i]]
    BY <1>0, <1>1 DEF Older
  <2> QED BY <1>2, <2>1 DEF Ticked
<1>8. [u EXCEPT !.now = w, !.slot = tl] = e
  BY <1>0, <1>4, <1>5 DEF UrbStates
<1> QED BY <1>6, <1>7, <1>8

LEMMA UrbKept == UrbInv(app) /\ UrbSteps => UrbInv(app')
<1> SUFFICES ASSUME UrbInv(app), UrbSteps PROVE UrbInv(app')
  OBVIOUS
<1>1. CASE app.asked < MaxUrbs /\ app' = ServerSubmits(app)
  BY <1>1, ServerSubmitsKeeps
<1>2. CASE \E i \in Busy(app) : app' = ServerCompletes(app, i)
  BY <1>2, ServerCompletesKeeps
<1>3. CASE \E q \in 1 .. app.asked \ app.unlinked : app' = ServerUnlinks(app, q)
  BY <1>3, ServerUnlinksKeeps
<1>4. CASE \E i \in FindExpired(app) : app' = ServerExpires(app, i)
  BY <1>4, ServerExpiresKeeps
<1>5. CASE (\A i \in Busy(app) : app.slot[i].age < ClockWidth - 1) /\ app' = Ticked(app)
  BY <1>5, TickedKeeps
<1> QED BY <1>1, <1>2, <1>3, <1>4, <1>5 DEF UrbSteps

\* The slots that hold a transfer: none of one told of, one of another.
LEMMA SlotsOf ==
    ASSUME NEW u, UrbInv(u), NEW q \in 1 .. u.asked
    PROVE  Cardinality({i \in Busy(u) : u.slot[i].seq = q}) = IF Silent(u.replies[q]) THEN 1 ELSE 0
<1>0. /\ Table(u.slot, u.replies, u.asked, u.unlinked, u.now) /\ Busy(u) = Taken(u.slot)
      /\ u.asked \in Nat /\ u.asked <= MaxUrbs /\ MaxUrbs \in Nat
  BY UrbFields, BusyIsTaken, AppsAssumption
<1>1. q \in 1 .. MaxUrbs /\ q <= u.asked
  BY <1>0, UpTo
<1>2. PICK C : C = {i \in Busy(u) : u.slot[i].seq = q}
  OBVIOUS
<1>3. CASE Silent(u.replies[q])
  <2>1. Accounted(u.slot, u.replies, u.asked, u.unlinked, q)
    BY <1>0, <1>1 DEF Table
  <2>2. \E i \in Taken(u.slot) : u.slot[i].seq = q
    BY <1>1, <1>3, <2>1 DEF Accounted, Silent, Told, ToldTwice
  <2>3. PICK i \in Taken(u.slot) : u.slot[i].seq = q
    BY <2>2
  <2>4. \A a, b \in Taken(u.slot) : u.slot[a].seq = u.slot[b].seq => a = b
    BY <1>0 DEF Table
  <2>5. C = {i}
    BY <1>0, <1>2, <2>3, <2>4
  <2> QED BY <1>2, <1>3, <2>5, FS_Singleton
<1>4. CASE ~ Silent(u.replies[q])
  <2>1. C = {}
    BY <1>0, <1>2, <1>4 DEF Table, Known
  <2> QED BY <1>2, <1>4, <2>1, FS_EmptySet
<1> QED BY <1>3, <1>4

LEMMA LeastOf == ASSUME NEW S \in SUBSET Nat, S # {} PROVE \E x \in S : \A y \in S : x <= y
<1>1. PICK x \in S : \A y \in S : ~ (<<y, x>> \in OpToRel(<, Nat))
  BY NatLessThanWellFounded, WFMin
<1>2. ASSUME NEW y \in S PROVE x <= y
  <2>1. <<y, x>> \in Nat \X Nat /\ ~ (<<y, x>> \in OpToRel(<, Nat))
    BY <1>1
  <2>2. ~ (y < x)
    BY <2>1 DEF OpToRel
  <2> QED BY <2>2
<1> QED BY <1>2

\* Of slots with ages one is the oldest, and the first of equals.
LEMMA Oldest ==
    ASSUME NEW S \in SUBSET (1 .. UrbSlots), S # {}, NEW f \in [S -> 0 .. ClockWidth - 1]
    PROVE  \E i \in S : \A j \in S : f[j] < f[i] \/ (f[j] = f[i] /\ i <= j)
<1>0. PICK q \in Nat : q = ClockWidth
  BY AppsAssumption
<1>1. PICK R : R = {q - f[i] : i \in S}
  OBVIOUS
<1>2. \A i \in S : f[i] \in Nat /\ f[i] < q
  BY <1>0
<1>3. R \in SUBSET Nat /\ R # {}
  <2>1. PICK k : k \in S
    OBVIOUS
  <2>2. q - f[k] \in R
    BY <1>1, <2>1
  <2>3. ASSUME NEW y \in R PROVE y \in Nat
    <3>1. PICK i \in S : y = q - f[i]
      BY <1>1
    <3> QED BY <1>0, <1>2, <3>1
  <2> QED BY <2>2, <2>3
<1>4. PICK x \in R : \A y \in R : x <= y
  BY <1>3, LeastOf
<1>5. PICK E : E = {i \in S : q - f[i] = x}
  OBVIOUS
<1>6. E \in SUBSET Nat /\ E # {}
  <2>1. PICK k \in S : x = q - f[k]
    BY <1>1, <1>4
  <2>2. k \in E
    BY <1>5, <2>1
  <2>3. S \subseteq Nat
    OBVIOUS
  <2> QED BY <1>5, <2>2, <2>3
<1>7. PICK i \in E : \A j \in E : i <= j
  BY <1>6, LeastOf
<1>8. i \in S /\ q - f[i] = x
  BY <1>5, <1>7
<1>9. ASSUME NEW j \in S PROVE f[j] < f[i] \/ (f[j] = f[i] /\ i <= j)
  <2>1. q - f[j] \in R
    BY <1>1
  <2>2. x <= q - f[j]
    BY <1>4, <2>1
  <2>3. f[j] <= f[i]
    BY <1>2, <1>8, <2>2
  <2>4. CASE f[j] = f[i]
    <3>1. j \in E
      BY <1>5, <1>8, <2>4
    <3> QED BY <1>7, <2>4, <3>1
  <2> QED BY <1>2, <1>8, <2>3, <2>4
<1> QED BY <1>8, <1>9

LEMMA ExpiredTold ==
    ASSUME NEW u, UrbInv(u)
    PROVE  /\ FindExpired(u) = {} <=> \A i \in Busy(u) : u.slot[i].age < UrbTimeout
           /\ \A i \in FindExpired(u), j \in Busy(u) : u.slot[j].age <= u.slot[i].age
<1>0. /\ Table(u.slot, u.replies, u.asked, u.unlinked, u.now) /\ Busy(u) = Taken(u.slot)
      /\ u.slot \in [1 .. UrbSlots -> SlotStates] /\ UrbTimeout \in Nat /\ Busy(u) \subseteq 1 .. UrbSlots
  BY UrbFields, BusyIsTaken, AppsAssumption DEF Busy
<1>1. ASSUME NEW i \in Busy(u) PROVE Age(u, i) = u.slot[i].age /\ u.slot[i].age \in 0 .. ClockWidth - 1
  <2>1. Known(u.slot[i], u.replies, u.asked, u.unlinked, u.now)
    BY <1>0 DEF Table
  <2>2. u.slot[i].age \in Nat
    BY <1>0 DEF SlotStates
  <2>3. ClockWidth \in Nat
    BY AppsAssumption
  <2> QED BY <2>1, <2>2, <2>3 DEF Known, Age
<1>2. PICK S : S = {i \in Busy(u) : Age(u, i) >= UrbTimeout}
  OBVIOUS
<1>3. S = {i \in Busy(u) : u.slot[i].age >= UrbTimeout}
  BY <1>1, <1>2
<1>4. FindExpired(u) = {i \in S : \A j \in S : Age(u, j) < Age(u, i) \/ (Age(u, j) = Age(u, i) /\ i <= j)}
  BY <1>2 DEF FindExpired
<1>5. \A i \in Busy(u) : i \in S <=> ~ (u.slot[i].age < UrbTimeout)
  BY <1>0, <1>1, <1>3
<1>6. S \subseteq Busy(u)
  BY <1>2
<1>7. CASE S = {}
  BY <1>4, <1>5, <1>7
<1>8. CASE S # {}
  <2>1. PICK f : f = [i \in S |-> u.slot[i].age]
    OBVIOUS
  <2>2. f \in [S -> 0 .. ClockWidth - 1] /\ \A i \in S : f[i] = Age(u, i)
    BY <1>1, <1>6, <2>1
  <2>3. PICK i \in S : \A j \in S : f[j] < f[i] \/ (f[j] = f[i] /\ i <= j)
    <3>1. S \in SUBSET (1 .. UrbSlots)
      BY <1>0, <1>6
    <3> QED BY <1>8, <2>2, <3>1, Oldest
  <2>4. i \in FindExpired(u)
    BY <1>4, <2>2, <2>3
  <2>5. ~ (\A j \in Busy(u) : u.slot[j].age < UrbTimeout)
    BY <1>5, <1>6, <2>3
  <2>6. ASSUME NEW k \in FindExpired(u), NEW j \in Busy(u) PROVE u.slot[j].age <= u.slot[k].age
    <3>1. k \in S /\ \A l \in S : Age(u, l) < Age(u, k) \/ (Age(u, l) = Age(u, k) /\ k <= l)
      BY <1>4
    <3>2. u.slot[k].age \in Nat /\ u.slot[j].age \in Nat /\ Age(u, k) = u.slot[k].age /\ Age(u, j) = u.slot[j].age
      BY <1>1, <1>6, <3>1
    <3>3. CASE j \in S
      BY <3>1, <3>2, <3>3
    <3>4. CASE j \notin S
      <4>1. u.slot[j].age < UrbTimeout
        BY <1>5, <3>4
      <4>2. u.slot[k].age >= UrbTimeout
        BY <1>3, <3>1
      <4> QED BY <1>0, <3>2, <4>1, <4>2
    <3> QED BY <3>3, <3>4
  <2> QED BY <2>4, <2>5, <2>6
<1> QED BY <1>7, <1>8

\* The answers of each kind among what a client was told.
Late == {"RET_UNLINK", "unlinked late"}

LEMMA AnswersOf ==
    ASSUME NEW r \in Seq(Notices)
    PROVE  /\ Silent(r) => Count(r, UrbAnswers) = 0 /\ Count(r, Late) = 0
           /\ Told(r, Ends) => Count(r, UrbAnswers) = 1 /\ ~ Silent(r)
           /\ Told(r, {"RET_UNLINK"}) => Count(r, UrbAnswers) = 1 /\ Count(r, Late) = 1 /\ ~ Silent(r)
           /\ ToldTwice(r) => Count(r, UrbAnswers) = 1 /\ Count(r, Late) = 1 /\ ~ Silent(r)
<1>1. Ends \subseteq UrbAnswers /\ {"RET_UNLINK"} \subseteq UrbAnswers /\ {"RET_UNLINK"} \subseteq Late
  BY DEF Ends, UrbAnswers, Late
<1>2. ASSUME NEW V, Told(r, V) PROVE ~ Silent(r)
  BY <1>2 DEF Told, Silent
<1>3. ToldTwice(r) => ~ Silent(r)
  <2>1. Len(r) = 2 => ~ (Len(r) = 0)
    OBVIOUS
  <2> QED BY <2>1, Zenon DEF ToldTwice, Silent
<1>4. ASSUME NEW V, NEW W, Told(r, V), V \subseteq W PROVE Count(r, W) = 1
  BY <1>4, CountsTold
<1>5. ToldTwice(r) => Count(r, UrbAnswers) = 1 /\ Count(r, Late) = 1
  BY CountsTwice DEF Late
<1>6. Silent(r) => Count(r, UrbAnswers) = 0 /\ Count(r, Late) = 0
  BY CountsSilent
<1> QED BY <1>1, <1>2, <1>3, <1>4, <1>5, <1>6

LEMMA UrbShows == ASSUME NEW u, UrbInv(u) PROVE UrbTruth(u)
<1> DEFINE Slots(q) == Cardinality({i \in Busy(u) : u.slot[i].seq = q})
<1>0. /\ Table(u.slot, u.replies, u.asked, u.unlinked, u.now) /\ Busy(u) = Taken(u.slot)
      /\ u.replies \in [1 .. MaxUrbs -> Seq(Notices)] /\ u.unlinked \subseteq 1 .. u.asked
      /\ u.asked \in Nat /\ u.asked <= MaxUrbs /\ MaxUrbs \in Nat
  BY UrbFields, BusyIsTaken, AppsAssumption
<1>1. ASSUME NEW q \in 1 .. u.asked
      PROVE  /\ Count(u.replies[q], UrbAnswers) + Slots(q) = 1
             /\ Silent(u.replies[q]) => Count(u.replies[q], UrbAnswers) = 0
             /\ q \in u.unlinked => Count(u.replies[q], Late) + Slots(q) = 1
  <2>1. q \in 1 .. MaxUrbs /\ q <= u.asked
    BY <1>0, UpTo
  <2>2. PICK r \in Seq(Notices) : r = u.replies[q]
    BY <1>0, <2>1
  <2>3. Slots(q) = IF Silent(r) THEN 1 ELSE 0
    BY <2>2, SlotsOf
  <2>4. Accounted(u.slot, u.replies, u.asked, u.unlinked, q)
    BY <1>0, <2>1 DEF Table
  <2>5. Silent(r) \/ (Told(r, Ends) /\ q \notin u.unlinked) \/ Told(r, {"RET_UNLINK"}) \/ ToldTwice(r)
    BY <2>2, <2>4 DEF Accounted
  <2> HIDE DEF Slots
  <2> QED BY <2>2, <2>3, <2>5, AnswersOf
<1>2. ASSUME NEW q \in 1 .. u.asked, NEW i \in FindBySeqnum(u, q) PROVE Count(u.replies[q], UrbAnswers) = 0
  <2>1. i \in Taken(u.slot) /\ u.slot[i].seq = q
    BY <1>0 DEF FindBySeqnum
  <2>2. Silent(u.replies[q])
    BY <1>0, <2>1 DEF Table, Known
  <2> QED BY <1>1, <2>2
<1>3. ASSUME NEW q \in u.unlinked PROVE Count(u.replies[q], Late) + Slots(q) = 1
  BY <1>0, <1>1
<1>4. /\ FindExpired(u) = {} <=> \A i \in Busy(u) : u.slot[i].age < UrbTimeout
      /\ \A i \in FindExpired(u), j \in Busy(u) : u.slot[j].age <= u.slot[i].age
  BY ExpiredTold
<1> QED BY <1>1, <1>2, <1>3, <1>4 DEF UrbTruth, Count, Late

(***************************************************************************)
(* THEOREM: for a table of any size, any number of transfers and any order *)
(* of submissions, completions, unlinks, expiries and ticks of a clock     *)
(* that passes its end, a transfer a client submitted is in one slot until *)
(* it is answered and is answered once, an unlink is answered once, and    *)
(* the transfer found to have waited too long is the oldest.               *)
(***************************************************************************)
THEOREM UrbAlwaysTrue == app = UrbInit /\ [][AppsNext]_app => []UrbTruth(app)
<1>1. app = UrbInit => UrbInv(app)
  BY UrbBegins
<1>2. UrbInv(app) /\ [AppsNext]_app => UrbInv(app)'
  <2> SUFFICES ASSUME UrbInv(app), [AppsNext]_app PROVE UrbInv(app')
    OBVIOUS
  <2>1. app.kind = "urbs"
    BY DEF UrbInv, UrbStates
  <2>2. AppsNext => UrbSteps
    BY <2>1 DEF AppsNext, BridgeReceives, BridgeRests, LogicSteps, SlcanSteps, SumpSteps, SerialSteps, WireSteps
  <2>3. CASE AppsNext
    BY <2>2, <2>3, UrbKept
  <2>4. CASE UNCHANGED app
    <3>1. app' = app
      BY <2>4
    <3> QED BY <3>1
  <2> QED BY <2>3, <2>4
<1>3. UrbInv(app) => UrbTruth(app)
  BY UrbShows
<1> QED BY <1>1, <1>2, <1>3, PTL

-----------------------------------------------------------------------------
(* The fault path.                                                         *)

FaultStates ==
    [kind : {"fault"}, cfg : {"none", "plain", "output"}, bounds : [base : Nat, limit : Nat],
     pc : {"idle", "capture", "dump", "flush", "halted"}, frame : Nat, trace : Seq(Nat), at : Nat,
     off : {0, 1}, retry : Nat, failed : BOOLEAN, flushed : BOOLEAN]

\* The frames walked so far lie in the stack and climb to the one looked at.
Climbs(trace, frame, b) ==
    /\ \A i \in 1..Len(trace) : RangeInStack(trace[i] - 6, 8, b) /\ trace[i] < frame
    /\ \A i \in 1..Len(trace) - 1 : trace[i] < trace[i + 1]
Climbed(trace, b) ==
    /\ \A i \in 1..Len(trace) : RangeInStack(trace[i] - 6, 8, b)
    /\ \A i \in 1..Len(trace) - 1 : trace[i] < trace[i + 1]
\* How far the dump is.
Dumped(f) ==
    /\ f.pc \in {"idle", "capture"} => f.at = 1
    /\ f.pc = "dump" => f.at \in 1..DumpLines(f)
    /\ f.pc = "flush" => f.at = DumpLines(f) + 1
    /\ f.pc = "halted" /\ f.cfg = "output" => f.failed = TRUE \/ (f.at = DumpLines(f) + 1 /\ f.flushed = TRUE)
FaultInv(f) ==
    /\ f \in FaultStates
    /\ f.bounds = Unset \/ BoundsAreValid(f.bounds)
    /\ Len(f.trace) <= MaxDepth
    /\ f.pc = "idle" => f.trace = <<>>
    /\ f.pc = "capture" => f.bounds # Unset /\ Climbs(f.trace, f.frame, f.bounds)
    /\ Climbed(f.trace, f.bounds)
    /\ Dumped(f)

LEMMA FaultBegins == FaultInv(FaultStart)
BY ToolsAssumption DEF FaultInv, FaultStart, FaultStates, Unset, Climbed, Dumped

LEMMA FaultConfigured ==
    ASSUME NEW f, FaultInv(f), f.pc = "idle", NEW cfg \in {"none", "plain", "output", "broken"}, NEW b \in [base : Nat, limit : Nat]
    PROVE  FaultInv(FatalConfigSet(f, cfg, b))
<1>1. CASE cfg = "broken" \/ (b # Unset /\ ~BoundsAreValid(b))
  BY <1>1 DEF FatalConfigSet
<1>2. CASE ~(cfg = "broken" \/ (b # Unset /\ ~BoundsAreValid(b)))
  <2>1. PICK g : g = [f EXCEPT !.cfg = cfg, !.bounds = b]
    OBVIOUS
  <2>2. g \in FaultStates /\ g.cfg = cfg /\ g.bounds = b /\ g.pc = f.pc /\ g.trace = f.trace /\ g.at = f.at
    BY <1>2, <2>1 DEF FaultInv, FaultStates
  <2>3. f.trace = <<>> /\ f.at = 1
    BY DEF FaultInv, Dumped
  <2>4. Climbed(g.trace, g.bounds) /\ Dumped(g)
    BY <2>2, <2>3 DEF Climbed, Dumped
  <2>5. FatalConfigSet(f, cfg, b) = g
    BY <1>2, <2>1 DEF FatalConfigSet
  <2> QED BY <1>2, <2>2, <2>3, <2>4, <2>5, ToolsAssumption DEF FaultInv
<1> QED BY <1>1, <1>2

LEMMA FaultEntered ==
    ASSUME NEW f, FaultInv(f), f.pc = "idle", NEW frame \in Nat, NEW cp15 \in BOOLEAN
    PROVE  FaultInv(FatalEntry(f, frame, cp15))
<1>0. f \in FaultStates /\ f.trace = <<>> /\ f.at = 1
  BY DEF FaultInv, Dumped
<1>1. CASE ~cp15
  <2>1. PICK g : g = [f EXCEPT !.pc = "halted", !.failed = TRUE]
    OBVIOUS
  <2>2. g \in FaultStates /\ g.bounds = f.bounds /\ g.pc = "halted" /\ g.trace = f.trace /\ g.failed = TRUE
    BY <1>0, <2>1 DEF FaultStates
  <2>3. FatalEntry(f, frame, cp15) = g
    BY <1>1, <2>1 DEF FatalEntry
  <2> QED BY <2>2, <2>3 DEF FaultInv, Dumped
<1>2. CASE cp15
  <2>1. PICK pc : pc = IF f.bounds # Unset THEN "capture" ELSE IF f.cfg = "output" THEN "dump" ELSE "halted"
    OBVIOUS
  <2>2. PICK g : g = [f EXCEPT !.frame = frame, !.trace = <<>>, !.pc = pc]
    OBVIOUS
  <2>3. /\ g \in FaultStates /\ g.bounds = f.bounds /\ g.cfg = f.cfg /\ g.pc = pc /\ g.trace = <<>> /\ g.at = 1
        /\ g.frame = frame
    BY <1>0, <2>1, <2>2 DEF FaultStates
  <2>4. FatalEntry(f, frame, cp15) = g
    BY <1>2, <2>1, <2>2 DEF FatalEntry
  <2>5. Climbs(g.trace, g.frame, g.bounds) /\ Climbed(g.trace, g.bounds)
    BY <2>3 DEF Climbs, Climbed
  <2>6. Dumped(g)
    BY <2>1, <2>3 DEF Dumped, DumpLines
  <2> QED BY <2>1, <2>3, <2>4, <2>5, <2>6, ToolsAssumption DEF FaultInv
<1> QED BY <1>1, <1>2

LEMMA FaultCaptures ==
    ASSUME NEW f, FaultInv(f), f.pc = "capture", NEW next \in Nat
    PROVE  FaultInv(Capture(f, next))
<1>0. /\ f \in FaultStates /\ f.at = 1 /\ f.bounds # Unset /\ Climbs(f.trace, f.frame, f.bounds)
      /\ BoundsAreValid(f.bounds) /\ f.trace \in Seq(Nat) /\ f.frame \in Nat /\ Climbed(f.trace, f.bounds)
      /\ Len(f.trace) <= MaxDepth
  BY DEF FaultInv, Dumped, FaultStates
<1>1. PICK done : done = IF f.cfg = "output" THEN "dump" ELSE "halted"
  OBVIOUS
<1>2. CASE Len(f.trace) = MaxDepth \/ ~Readable(f.frame, f.bounds)
  <2>1. PICK g : g = [f EXCEPT !.pc = done]
    OBVIOUS
  <2>2. g \in FaultStates /\ g.bounds = f.bounds /\ g.cfg = f.cfg /\ g.pc = done /\ g.trace = f.trace /\ g.at = 1
    BY <1>0, <1>1, <2>1 DEF FaultStates
  <2>3. Dumped(g)
    BY <1>0, <1>1, <2>2 DEF Dumped, DumpLines
  <2>4. Capture(f, next) = g
    BY <1>1, <1>2, <2>1 DEF Capture
  <2> QED BY <1>0, <1>1, <2>2, <2>3, <2>4 DEF FaultInv
<1>3. CASE ~(Len(f.trace) = MaxDepth \/ ~Readable(f.frame, f.bounds))
  <2>1. PICK t : t = Append(f.trace, f.frame)
    OBVIOUS
  <2>2. /\ t \in Seq(Nat) /\ Len(t) = Len(f.trace) + 1
        /\ \A i \in 1..Len(f.trace) : t[i] = f.trace[i]
        /\ t[Len(f.trace) + 1] = f.frame
    BY <1>0, <2>1
  <2>3. RangeInStack(f.frame - 6, 8, f.bounds)
    BY <1>3 DEF Readable
  <2>4. Climbed(t, f.bounds)
    <3>0. PICK l \in Nat : l = Len(f.trace) /\ Len(t) = l + 1
      BY <1>0, <2>2
    <3>1. ASSUME NEW i \in 1..Len(t) PROVE RangeInStack(t[i] - 6, 8, f.bounds)
      <4>1. CASE i = l + 1
        BY <2>2, <2>3, <3>0, <4>1
      <4>2. CASE i # l + 1
        <5>1. i \in 1..Len(f.trace)
          BY <3>0, <4>2
        <5>2. t[i] = f.trace[i]
          BY <2>2, <5>1
        <5>3. RangeInStack(f.trace[i] - 6, 8, f.bounds)
          BY <1>0, <5>1 DEF Climbs
        <5> QED BY <5>2, <5>3
      <4> QED BY <4>1, <4>2
    <3>2. ASSUME NEW i \in 1..Len(t) - 1 PROVE t[i] < t[i + 1]
      <4>1. CASE i = Len(f.trace)
        <5>1. i \in 1..Len(f.trace) /\ t[i + 1] = f.frame
          BY <2>2, <3>0, <4>1
        <5>2. t[i] = f.trace[i]
          BY <2>2, <5>1
        <5>3. f.trace[i] < f.frame
          BY <1>0, <5>1 DEF Climbs
        <5> QED BY <5>1, <5>2, <5>3
      <4>2. CASE i # Len(f.trace)
        <5>1. i \in 1..Len(f.trace) - 1 /\ i \in 1..Len(f.trace) /\ i + 1 \in 1..Len(f.trace)
          BY <1>0, <2>2, <4>2
        <5> QED BY <1>0, <2>2, <5>1 DEF Climbs
      <4> QED BY <4>1, <4>2
    <3> QED BY <3>1, <3>2 DEF Climbed
  <2>5. PICK v : v = [f EXCEPT !.trace = t, !.frame = next]
    OBVIOUS
  <2>6. /\ v \in FaultStates /\ v.bounds = f.bounds /\ v.cfg = f.cfg /\ v.pc = "capture" /\ v.trace = t /\ v.at = 1
        /\ v.frame = next
    BY <1>0, <2>2, <2>5 DEF FaultStates
  <2>7. Len(t) <= MaxDepth
    BY <1>0, <1>3, <2>2, ToolsAssumption
  <2>8. CASE next = 0 \/ next % 2 # 0 \/ next <= f.frame
    <3>1. PICK g : g = [v EXCEPT !.pc = done]
      OBVIOUS
    <3>2. g \in FaultStates /\ g.bounds = f.bounds /\ g.cfg = f.cfg /\ g.pc = done /\ g.trace = t /\ g.at = 1
      BY <1>1, <2>6, <3>1 DEF FaultStates
    <3>3. Dumped(g)
      BY <1>1, <2>2, <3>2 DEF Dumped, DumpLines
    <3>4. Capture(f, next) = g
      BY <1>1, <1>3, <2>1, <2>5, <2>8, <3>1 DEF Capture
    <3> QED BY <1>0, <1>1, <2>4, <2>7, <3>2, <3>3, <3>4 DEF FaultInv
  <2>9. CASE ~(next = 0 \/ next % 2 # 0 \/ next <= f.frame)
    <3>1. Capture(f, next) = v
      BY <1>3, <2>1, <2>5, <2>9 DEF Capture
    <3>2. f.frame < next
      BY <1>0, <2>9
    <3>3. ASSUME NEW i \in 1..Len(t) PROVE t[i] < next
      <4>1. CASE i = Len(t)
        BY <2>2, <3>2, <4>1
      <4>2. CASE i # Len(t)
        <5>1. i \in 1..Len(f.trace)
          BY <1>0, <2>2, <4>2
        <5>2. t[i] < f.frame /\ t[i] \in Nat
          <6>1. t[i] = f.trace[i]
            BY <2>2, <5>1
          <6>2. f.trace \in Seq(Nat)
            BY <1>0
          <6>3. f.trace[i] \in Nat
            BY <5>1, <6>2
          <6>4. f.trace[i] < f.frame
            BY <1>0, <5>1 DEF Climbs
          <6> QED BY <6>1, <6>3, <6>4
        <5>3. f.frame \in Int /\ next \in Int /\ t[i] \in Int
          BY <1>0, <5>2
        <5> QED BY <3>2, <5>2, <5>3
      <4> QED BY <4>1, <4>2
    <3>4. Climbs(v.trace, v.frame, v.bounds)
      BY <2>4, <2>6, <3>3 DEF Climbs, Climbed
    <3>5. Dumped(v)
      BY <2>6 DEF Dumped
    <3> QED BY <1>0, <2>4, <2>6, <2>7, <3>1, <3>4, <3>5 DEF FaultInv
  <2> QED BY <2>8, <2>9
<1> QED BY <1>2, <1>3

LEMMA FaultWrites ==
    ASSUME NEW f, FaultInv(f), f.pc = "dump", NEW o \in {"all", "part", "zero", "error", "over"}
    PROVE  FaultInv(OutputWriteAll(f, o))
<1>0. f \in FaultStates /\ f.at \in 1..DumpLines(f) /\ f.trace \in Seq(Nat) /\ f.retry \in Nat
  BY DEF FaultInv, Dumped, FaultStates
<1>1. DumpLines(f) \in Nat
  BY <1>0 DEF DumpLines
<1>2. CASE o \in {"error", "over"} \/ (o = "zero" /\ f.retry + 1 >= RetryLimit)
  <2>1. PICK g : g = [f EXCEPT !.pc = "halted", !.failed = TRUE]
    OBVIOUS
  <2>2. g \in FaultStates /\ g.bounds = f.bounds /\ g.pc = "halted" /\ g.trace = f.trace /\ g.failed = TRUE
    BY <1>0, <2>1 DEF FaultStates
  <2>3. OutputWriteAll(f, o) = g
    BY <1>2, <2>1 DEF OutputWriteAll
  <2> QED BY <2>2, <2>3 DEF FaultInv, Dumped
<1>3. CASE o = "zero" /\ ~(f.retry + 1 >= RetryLimit)
  <2>0. PICK n \in Nat : n = f.retry + 1
    BY <1>0
  <2>1. PICK g : g = [f EXCEPT !.retry = n]
    OBVIOUS
  <2>2. g \in FaultStates /\ g.bounds = f.bounds /\ g.pc = "dump" /\ g.trace = f.trace /\ g.at = f.at
    BY <1>0, <2>1 DEF FaultStates
  <2>3. OutputWriteAll(f, o) = g
    BY <1>3, <2>0, <2>1 DEF OutputWriteAll
  <2>4. Dumped(g)
    BY <1>0, <2>2 DEF Dumped, DumpLines
  <2> QED BY <2>2, <2>3, <2>4 DEF FaultInv
<1>4. CASE o = "part" /\ f.off = 0
  <2>1. PICK g : g = [f EXCEPT !.off = 1, !.retry = 0]
    OBVIOUS
  <2>2. g \in FaultStates /\ g.bounds = f.bounds /\ g.pc = "dump" /\ g.trace = f.trace /\ g.at = f.at
    BY <1>0, <2>1 DEF FaultStates
  <2>3. OutputWriteAll(f, o) = g
    BY <1>4, <2>1 DEF OutputWriteAll
  <2>4. Dumped(g)
    BY <1>0, <2>2 DEF Dumped, DumpLines
  <2> QED BY <2>2, <2>3, <2>4 DEF FaultInv
<1>5. CASE o = "all" \/ (o = "part" /\ f.off # 0)
  <2>1. PICK pc : pc = IF f.at = DumpLines(f) THEN "flush" ELSE "dump"
    OBVIOUS
  <2>2. PICK g : g = [f EXCEPT !.at = @ + 1, !.off = 0, !.retry = 0, !.pc = pc]
    OBVIOUS
  <2>7. pc \in {"flush", "dump"} /\ f.at + 1 \in Nat
    BY <1>0, <1>1, <2>1
  <2>3. g \in FaultStates /\ g.bounds = f.bounds /\ g.pc = pc /\ g.trace = f.trace /\ g.at = f.at + 1
    BY <1>0, <2>2, <2>7 DEF FaultStates
  <2>4. OutputWriteAll(f, o) = g
    BY <1>5, <2>1, <2>2 DEF OutputWriteAll
  <2>5. DumpLines(g) = DumpLines(f)
    BY <2>3 DEF DumpLines
  <2>6. Dumped(g)
    <3>1. CASE f.at = DumpLines(f)
      BY <2>1, <2>3, <2>5, <3>1 DEF Dumped
    <3>2. CASE f.at # DumpLines(f)
      <4>1. g.at \in 1..DumpLines(g) /\ g.pc = "dump"
        BY <1>0, <1>1, <2>1, <2>3, <2>5, <3>2
      <4> QED BY <4>1 DEF Dumped
    <3> QED BY <3>1, <3>2
  <2> QED BY <2>1, <2>3, <2>4, <2>6 DEF FaultInv
<1> QED BY <1>2, <1>3, <1>4, <1>5

LEMMA FaultFlushes ==
    ASSUME NEW f, FaultInv(f), f.pc = "flush"
    PROVE  FaultInv(FlushOutput(f))
<1>1. f \in FaultStates /\ f.at = DumpLines(f) + 1
  BY DEF FaultInv, Dumped
<1>2. PICK g : g = [f EXCEPT !.pc = "halted", !.flushed = TRUE]
  OBVIOUS
<1>3. g \in FaultStates /\ g.bounds = f.bounds /\ g.pc = "halted" /\ g.trace = f.trace /\ g.at = f.at /\ g.flushed = TRUE
  BY <1>1, <1>2 DEF FaultStates
<1>4. Dumped(g)
  BY <1>1, <1>3 DEF Dumped, DumpLines
<1> QED BY <1>2, <1>3, <1>4 DEF FaultInv, FlushOutput

LEMMA FaultShows ==
    ASSUME NEW f, FaultInv(f)
    PROVE  FaultTruth(f)
<1>1. f.trace \in Seq(Nat) /\ f.bounds \in [base : Nat, limit : Nat]
  BY DEF FaultInv, FaultStates
<1>2. ASSUME NEW i \in DOMAIN f.trace
      PROVE  f.trace[i] - 6 >= f.bounds.limit /\ f.trace[i] + 2 <= f.bounds.base
  <2>1. i \in 1..Len(f.trace) /\ f.trace[i] \in Nat
    BY <1>1
  <2>2. RangeInStack(f.trace[i] - 6, 8, f.bounds)
    BY <2>1 DEF FaultInv, Climbed
  <2>3. f.bounds.limit \in Int /\ f.bounds.base \in Int /\ f.trace[i] \in Int
    BY <1>1, <2>1
  <2> QED BY <2>2, <2>3 DEF RangeInStack
<1>3. \A i \in 1..Len(f.trace) - 1 : f.trace[i] < f.trace[i + 1]
  BY DEF FaultInv, Climbed
<1>4. f.bounds # Unset => f.bounds.limit < f.bounds.base
  BY DEF FaultInv, BoundsAreValid
<1>5. f.pc = "halted" /\ f.cfg = "output" /\ ~f.failed => f.at = DumpLines(f) + 1 /\ f.flushed
  <2> SUFFICES ASSUME f.pc = "halted", f.cfg = "output", ~f.failed
               PROVE  f.at = DumpLines(f) + 1 /\ f.flushed
    OBVIOUS
  <2>1. f.failed = TRUE \/ (f.at = DumpLines(f) + 1 /\ f.flushed = TRUE)
    BY DEF FaultInv, Dumped
  <2> QED BY <2>1, Zenon
<1> QED BY <1>2, <1>3, <1>4, <1>5 DEF FaultTruth, FaultInv

(***************************************************************************)
(* THEOREM: whatever the frame pointers hold and whatever the output       *)
(* answers, the walk of xfault up the stack reads nothing outside the      *)
(* configured bounds, climbs, and ends; and a dump that reaches the halt   *)
(* without an error has sent every line and was flushed.                   *)
(***************************************************************************)
THEOREM FaultAlwaysTrue == tool = FaultStart /\ [][ToolsNext]_tool => []FaultTruth(tool)
<1>1. tool = FaultStart => FaultInv(tool)
  BY FaultBegins
<1>2. FaultInv(tool) /\ [ToolsNext]_tool => FaultInv(tool)'
  <2> SUFFICES ASSUME FaultInv(tool), [ToolsNext]_tool PROVE FaultInv(tool')
    OBVIOUS
  <2>1. tool.kind = "fault"
    BY DEF FaultInv, FaultStates
  <2>2. CASE FaultConfigures
    BY <2>2, FaultConfigured, ToolsAssumption DEF FaultConfigures, StackBounds
  <2>3. CASE FaultHappens
    BY <2>3, FaultEntered, ToolsAssumption DEF FaultHappens
  <2>4. CASE FaultSteps
    BY <2>4, FaultCaptures, FaultWrites, FaultFlushes, ToolsAssumption DEF FaultSteps
  <2>5. ToolsNext => FaultConfigures \/ FaultHappens \/ FaultSteps
    BY <2>1 DEF ToolsNext, Tool, TraceEmits, TraceFilters, TraceFlushes, CobsGrows, TrackerSteps, ShellLifeCycle, ShellProcess
  <2>6. CASE UNCHANGED tool
    BY <2>6
  <2> QED BY <2>2, <2>3, <2>4, <2>5, <2>6
<1>3. FaultInv(tool) => FaultTruth(tool)
  BY FaultShows
<1> QED BY <1>1, <1>2, <1>3, PTL

-----------------------------------------------------------------------------
(* The tracker.                                                            *)

\* A state of the tracker has these fields.
IsTracker(k) ==
    k = [kind |-> "tracker", real |-> k.real, current |-> k.current, owed |-> k.owed, events |-> k.events,
         open |-> k.open, running |-> k.running, isr |-> k.isr, drawn |-> k.drawn]

\* What the host makes of the trace against what the kernel knows.  Only the
\* current task can run; until the first one starts none was created.
Agree(real, open, running, current) ==
    /\ real \in [Tracked -> {"new", "ready", "running", "blocked", "gone"}]
    /\ open \in [Tracked -> {"none", "RUNNING", "READY", "BLOCKED"}]
    /\ current \in Tracked \cup {None}
    /\ current = None => \A t \in Tracked : real[t] = "new"
    /\ \A t \in Tracked :
          /\ real[t] = "running" => current = t /\ open[t] = "RUNNING" /\ running = t
          /\ real[t] = "blocked" => open[t] = "BLOCKED"
          /\ real[t] = "ready" => open[t] \in {"READY", "none"}
          /\ real[t] \in {"new", "gone"} => open[t] = "none"
TrackerInv(k) == IsTracker(k) /\ Agree(k.real, k.open, k.running, k.current)

LEMMA TrackerBegins == TrackerInv(TrackerStart)
BY DEF TrackerInv, IsTracker, Agree, TrackerStart

LEMMA TrackerShows ==
    ASSUME NEW k, TrackerInv(k)
    PROVE  TrackerTruth(k)
BY DEF TrackerInv, Agree, TrackerTruth

\* What the kernel does to a task, before the host hears of it.
LEMMA EventsSet ==
    ASSUME NEW k, IsTracker(k), NEW n, NEW g, g = [k EXCEPT !.events = n]
    PROVE  IsTracker(g) /\ g.real = k.real /\ g.open = k.open /\ g.running = k.running /\ g.current = k.current
BY DEF IsTracker

LEMMA InterruptsSet ==
    ASSUME NEW k, IsTracker(k), NEW s, NEW q
    PROVE  /\ IsTracker([k EXCEPT !.isr = s]) /\ IsTracker([k EXCEPT !.drawn = q])
           /\ [k EXCEPT !.isr = s].real = k.real /\ [k EXCEPT !.drawn = q].real = k.real
           /\ [k EXCEPT !.isr = s].open = k.open /\ [k EXCEPT !.drawn = q].open = k.open
           /\ [k EXCEPT !.isr = s].running = k.running /\ [k EXCEPT !.drawn = q].running = k.running
           /\ [k EXCEPT !.isr = s].current = k.current /\ [k EXCEPT !.drawn = q].current = k.current
BY DEF IsTracker

Moved(g, k, real) ==
    /\ IsTracker(g) /\ g.real = real
    /\ g.open = k.open /\ g.running = k.running /\ g.current = k.current
LEMMA KernelMoves ==
    ASSUME NEW k, IsTracker(k), NEW t, NEW s, NEW g, g = [k EXCEPT !.real[t] = s, !.events = @ + 1]
    PROVE  Moved(g, k, [k.real EXCEPT ![t] = s])
<1>1. PICK real : real = [k.real EXCEPT ![t] = s]
  OBVIOUS
<1>2. PICK v : v = [k EXCEPT !.real = real]
  OBVIOUS
<1>3. IsTracker(v) /\ v.real = real /\ v.open = k.open /\ v.running = k.running /\ v.current = k.current
  BY <1>2 DEF IsTracker
<1>4. PICK n : n = v.events + 1
  OBVIOUS
<1>5. g = [v EXCEPT !.events = n]
  BY <1>1, <1>2, <1>4 DEF IsTracker
<1>6. PICK e : e = [v EXCEPT !.events = n]
  OBVIOUS
<1>7. IsTracker(e) /\ e.real = v.real /\ e.open = v.open /\ e.running = v.running /\ e.current = v.current
  BY <1>3, <1>6, EventsSet
<1>8. Moved(g, k, real)
  BY <1>3, <1>5, <1>6, <1>7 DEF Moved
<1> QED BY <1>1, <1>8

LEMMA CurrentSet ==
    ASSUME NEW k, IsTracker(k), NEW t, NEW g, g = [k EXCEPT !.current = t]
    PROVE  IsTracker(g) /\ g.current = t /\ g.real = k.real /\ g.open = k.open /\ g.running = k.running
BY DEF IsTracker

\* What the host makes of each event.
Heard(v, k, open, running) ==
    IsTracker(v) /\ v.open = open /\ v.running = running /\ v.real = k.real /\ v.current = k.current

LEMMA HeardItself ==
    ASSUME NEW k, IsTracker(k)
    PROVE  Heard(k, k, k.open, k.running)
BY DEF Heard

LEMMA Opens ==
    ASSUME NEW k, NEW v, NEW open, NEW running, Heard(v, k, open, running), NEW t, NEW s
    PROVE  Heard(Begin(v, t, s), k, [open EXCEPT ![t] = s], running)
<1>1. PICK o : o = [v.open EXCEPT ![t] = s]
  OBVIOUS
<1>2. Begin(v, t, s) = [v EXCEPT !.open = o]
  BY <1>1 DEF Begin
<1>3. Heard(Begin(v, t, s), k, o, running)
  BY <1>2 DEF Heard, IsTracker
<1> QED BY <1>1, <1>3 DEF Heard

LEMMA RunningSet ==
    ASSUME NEW k, NEW v, NEW open, NEW running, Heard(v, k, open, running), NEW t
    PROVE  Heard([v EXCEPT !.running = t], k, open, t)
BY DEF Heard, IsTracker

LEMMA HearsState ==
    ASSUME NEW k, IsTracker(k), NEW t
    PROVE  /\ Heard(Process(k, Happening("TASK_READY", t)), k, [k.open EXCEPT ![t] = "READY"], k.running)
           /\ Heard(Process(k, Happening("TASK_TIMEOUT", t)), k, [k.open EXCEPT ![t] = "READY"], k.running)
           /\ Heard(Process(k, Happening("TASK_EXIT", t)), k, [k.open EXCEPT ![t] = "none"], k.running)
           /\ Heard(Process(k, Happening("TASK_CREATE", t)), k, k.open, k.running)
<1>1. /\ Process(k, Happening("TASK_READY", t)) = Begin(k, t, "READY")
      /\ Process(k, Happening("TASK_TIMEOUT", t)) = Begin(k, t, "READY")
      /\ Process(k, Happening("TASK_EXIT", t)) = Begin(k, t, "none")
      /\ Process(k, Happening("TASK_CREATE", t)) = k
  BY DEF Process, Happening
<1>2. Heard(k, k, k.open, k.running)
  BY HeardItself
<1> QED BY <1>1, <1>2, Opens

LEMMA HearsStart ==
    ASSUME NEW k, IsTracker(k), NEW t
    PROVE  Heard(Process(k, Happening("KERNEL_START", t)), k, [k.open EXCEPT ![t] = "RUNNING"], t)
<1>1. PICK g : g = Begin(k, t, "RUNNING")
  OBVIOUS
<1>2. Process(k, Happening("KERNEL_START", t)) = [g EXCEPT !.running = t]
  BY <1>1 DEF Process, Happening
<1>3. Heard(g, k, [k.open EXCEPT ![t] = "RUNNING"], k.running)
  BY <1>1, HeardItself, Opens
<1> QED BY <1>2, <1>3, RunningSet

LEMMA HearsBlock ==
    ASSUME NEW k, IsTracker(k), NEW t
    PROVE  Heard(Process(k, Happening("TASK_BLOCK", t)), k, [k.open EXCEPT ![t] = "BLOCKED"],
                 IF k.running = t THEN None ELSE k.running)
<1>1. PICK g : g = Begin(k, t, "BLOCKED")
  OBVIOUS
<1>2. Heard(g, k, [k.open EXCEPT ![t] = "BLOCKED"], k.running)
  BY <1>1, HeardItself, Opens
<1>3. PICK r : r = IF k.running = t THEN None ELSE k.running
  OBVIOUS
<1>4. Process(k, Happening("TASK_BLOCK", t)) = [g EXCEPT !.running = IF @ = t THEN None ELSE @]
  BY <1>1 DEF Process, Happening
<1>5. Process(k, Happening("TASK_BLOCK", t)) = [g EXCEPT !.running = r]
  BY <1>2, <1>3, <1>4 DEF Heard
<1> QED BY <1>2, <1>3, <1>5, RunningSet

LEMMA HearsSwitch ==
    ASSUME NEW k, IsTracker(k), NEW p, NEW t
    PROVE  LET open == IF k.open[p] = "RUNNING" THEN [k.open EXCEPT ![p] = "READY"] ELSE k.open IN
           Heard(Process(k, [op |-> "TASK_SWITCH", prev |-> p, t |-> t]), k, [open EXCEPT ![t] = "RUNNING"], t)
<1>1. PICK v : v = IF k.open[p] = "RUNNING" THEN Begin(k, p, "READY") ELSE k
  OBVIOUS
<1>2. PICK open : open = IF k.open[p] = "RUNNING" THEN [k.open EXCEPT ![p] = "READY"] ELSE k.open
  OBVIOUS
<1>3. Heard(v, k, open, k.running)
  BY <1>1, <1>2, HeardItself, Opens
<1>4. PICK g : g = Begin(v, t, "RUNNING")
  OBVIOUS
<1>5. Heard(g, k, [open EXCEPT ![t] = "RUNNING"], k.running)
  BY <1>3, <1>4, Opens
<1>6. Process(k, [op |-> "TASK_SWITCH", prev |-> p, t |-> t]) = [g EXCEPT !.running = t]
  BY <1>1, <1>4 DEF Process
<1>7. Heard([g EXCEPT !.running = t], k, [open EXCEPT ![t] = "RUNNING"], t)
  BY <1>5, RunningSet
<1> QED BY <1>2, <1>6, <1>7

\* The steps of the kernel.
LEMMA TrackerStarted ==
    ASSUME NEW k, TrackerInv(k), k.current = None, NEW t \in Tracked
    PROVE  TrackerInv(KernelStarts(k, t))
<1>1. PICK g : g = [k EXCEPT !.real[t] = "running", !.events = @ + 1]
  OBVIOUS
<1>2. IsTracker(g) /\ g.real = [k.real EXCEPT ![t] = "running"] /\ g.open = k.open /\ g.current = k.current
  <2>1. IsTracker(k)
    BY DEF TrackerInv
  <2>2. Moved(g, k, [k.real EXCEPT ![t] = "running"])
    BY <1>1, <2>1, KernelMoves
  <2> QED BY <1>1, <2>2 DEF Moved
<1>3. PICK v : v = Process(g, Happening("KERNEL_START", t))
  OBVIOUS
<1>4. Heard(v, g, [g.open EXCEPT ![t] = "RUNNING"], t)
  BY <1>2, <1>3, HearsStart
<1>5. KernelStarts(k, t) = [v EXCEPT !.current = t]
  BY <1>1, <1>3 DEF KernelStarts, Happens
<1>6. PICK w : w = [v EXCEPT !.current = t]
  OBVIOUS
<1>7. IsTracker(w) /\ w.current = t /\ w.real = [k.real EXCEPT ![t] = "running"]
      /\ w.open = [k.open EXCEPT ![t] = "RUNNING"] /\ w.running = t
  BY <1>2, <1>4, <1>6, CurrentSet DEF Heard
<1>8. Agree(w.real, w.open, w.running, w.current)
  <2>1. t # None
    BY ToolsAssumption DEF None
  <2> QED BY <1>7, <2>1 DEF TrackerInv, Agree
<1> QED BY <1>5, <1>6, <1>7, <1>8 DEF TrackerInv

LEMMA TrackerCreated ==
    ASSUME NEW k, TrackerInv(k), k.current # None, NEW t \in Tracked, k.real[t] = "new"
    PROVE  TrackerInv(KernelCreates(k, t))
<1>1. PICK g : g = [k EXCEPT !.real[t] = "ready", !.events = @ + 1]
  OBVIOUS
<1>2. IsTracker(g) /\ g.real = [k.real EXCEPT ![t] = "ready"] /\ g.open = k.open /\ g.current = k.current /\ g.running = k.running
  <2>1. IsTracker(k)
    BY DEF TrackerInv
  <2>2. Moved(g, k, [k.real EXCEPT ![t] = "ready"])
    BY <1>1, <2>1, KernelMoves
  <2> QED BY <1>1, <2>2 DEF Moved
<1>3. KernelCreates(k, t) = Process(g, Happening("TASK_CREATE", t))
  BY <1>1 DEF KernelCreates, Happens
<1>4. Heard(KernelCreates(k, t), g, g.open, g.running)
  BY <1>2, <1>3, HearsState
<1>5. Agree(g.real, g.open, g.running, g.current)
  BY <1>2 DEF TrackerInv, Agree
<1> QED BY <1>4, <1>5 DEF TrackerInv, Heard

LEMMA TrackerBlocked ==
    ASSUME NEW k, TrackerInv(k), k.current # None, k.real[k.current] = "running"
    PROVE  TrackerInv(KernelBlocks(k)) /\ TrackerInv(KernelEnds(k))
<1>1. PICK t \in Tracked : t = k.current
  BY DEF TrackerInv, Agree
<1>2. PICK g : g = [k EXCEPT !.real[t] = "blocked", !.events = @ + 1]
  OBVIOUS
<1>3. IsTracker(g) /\ g.real = [k.real EXCEPT ![t] = "blocked"] /\ g.open = k.open /\ g.current = t /\ g.running = k.running
  <2>1. IsTracker(k)
    BY DEF TrackerInv
  <2>2. Moved(g, k, [k.real EXCEPT ![t] = "blocked"])
    BY <1>1, <1>2, <2>1, KernelMoves
  <2> QED BY <1>1, <2>2 DEF Moved
<1>4. PICK v : v = Process(g, Happening("TASK_BLOCK", t))
  OBVIOUS
<1>5. Heard(v, g, [g.open EXCEPT ![t] = "BLOCKED"], IF g.running = t THEN None ELSE g.running)
  BY <1>3, <1>4, HearsBlock
<1>6. KernelBlocks(k) = v
  BY <1>1, <1>2, <1>4 DEF KernelBlocks, Happens
<1>7. v.real = [k.real EXCEPT ![t] = "blocked"] /\ v.open = [k.open EXCEPT ![t] = "BLOCKED"] /\ v.current = t
  BY <1>3, <1>5 DEF Heard
<1>8. \A u \in Tracked : v.real[u] # "running"
  BY <1>1, <1>7 DEF TrackerInv, Agree
<1>9. Agree(v.real, v.open, v.running, v.current)
  BY <1>1, <1>7, <1>8 DEF TrackerInv, Agree
<1>10. PICK e : e = [k EXCEPT !.real[t] = "gone", !.events = @ + 1]
  OBVIOUS
<1>11. IsTracker(e) /\ e.real = [k.real EXCEPT ![t] = "gone"] /\ e.open = k.open /\ e.current = t /\ e.running = k.running
  <2>1. IsTracker(k)
    BY DEF TrackerInv
  <2>2. Moved(e, k, [k.real EXCEPT ![t] = "gone"])
    BY <1>1, <1>10, <2>1, KernelMoves
  <2> QED BY <1>1, <2>2 DEF Moved
<1>12. PICK w : w = Process(e, Happening("TASK_EXIT", t))
  OBVIOUS
<1>13. Heard(w, e, [e.open EXCEPT ![t] = "none"], e.running)
  BY <1>11, <1>12, HearsState
<1>14. KernelEnds(k) = w
  BY <1>1, <1>10, <1>12 DEF KernelEnds, Happens
<1>15. w.real = [k.real EXCEPT ![t] = "gone"] /\ w.open = [k.open EXCEPT ![t] = "none"] /\ w.current = t
  BY <1>11, <1>13 DEF Heard
<1>16. \A u \in Tracked : w.real[u] # "running"
  BY <1>1, <1>15 DEF TrackerInv, Agree
<1>17. Agree(w.real, w.open, w.running, w.current)
  BY <1>1, <1>15, <1>16 DEF TrackerInv, Agree
<1> QED BY <1>5, <1>6, <1>9, <1>13, <1>14, <1>17 DEF TrackerInv, Heard

LEMMA TrackerReadied ==
    ASSUME NEW k, TrackerInv(k), k.current # None, NEW t \in Tracked, NEW late \in BOOLEAN, k.real[t] = "blocked"
    PROVE  TrackerInv(KernelReadies(k, t, late))
<1>1. PICK g : g = [k EXCEPT !.real[t] = "ready", !.events = @ + 1]
  OBVIOUS
<1>2. IsTracker(g) /\ g.real = [k.real EXCEPT ![t] = "ready"] /\ g.open = k.open /\ g.current = k.current /\ g.running = k.running
  <2>1. IsTracker(k)
    BY DEF TrackerInv
  <2>2. Moved(g, k, [k.real EXCEPT ![t] = "ready"])
    BY <1>1, <2>1, KernelMoves
  <2> QED BY <1>1, <2>2 DEF Moved
<1>3. PICK v : v = Process(g, Happening(IF late THEN "TASK_TIMEOUT" ELSE "TASK_READY", t))
  OBVIOUS
<1>4. Heard(v, g, [g.open EXCEPT ![t] = "READY"], g.running)
  BY <1>2, <1>3, HearsState, Zenon
<1>5. KernelReadies(k, t, late) = Process(v, Happening("TASK_READY", t))
  BY <1>1, <1>3 DEF KernelReadies, Happens
<1>6. Heard(KernelReadies(k, t, late), v, [v.open EXCEPT ![t] = "READY"], v.running)
  <2>1. IsTracker(v)
    BY <1>4 DEF Heard
  <2> QED BY <1>5, <2>1, HearsState
<1>7. [[k.open EXCEPT ![t] = "READY"] EXCEPT ![t] = "READY"] = [k.open EXCEPT ![t] = "READY"]
  BY DEF TrackerInv, Agree
<1>8. Heard(KernelReadies(k, t, late), g, [k.open EXCEPT ![t] = "READY"], k.running)
  BY <1>2, <1>4, <1>6, <1>7 DEF Heard
<1>9. Agree(g.real, [k.open EXCEPT ![t] = "READY"], k.running, k.current)
  BY <1>2 DEF TrackerInv, Agree
<1> QED BY <1>2, <1>8, <1>9 DEF TrackerInv, Heard

LEMMA TrackerSwitched ==
    ASSUME NEW k, TrackerInv(k), k.current # None, NEW t \in Tracked, k.real[t] = "ready"
    PROVE  TrackerInv(KernelSwitches(k, t))
<1>1. PICK p \in Tracked : p = k.current
  BY DEF TrackerInv, Agree
\* The current task gives way, if it still runs.
<1>2. PICK v : v = IF k.real[p] = "running" THEN Happens(k, p, "ready", Happening("TASK_READY", p)) ELSE k
  OBVIOUS
<1>3. TrackerInv(v) /\ v.current = p /\ v.real[t] = "ready" /\ \A u \in Tracked : v.real[u] # "running"
  <2>1. CASE k.real[p] # "running"
    BY <1>1, <1>2, <2>1 DEF TrackerInv, Agree
  <2>2. CASE k.real[p] = "running"
    <3>1. PICK g : g = [k EXCEPT !.real[p] = "ready", !.events = @ + 1]
      OBVIOUS
    <3>2. IsTracker(g) /\ g.real = [k.real EXCEPT ![p] = "ready"] /\ g.open = k.open /\ g.current = p
      <4>1. IsTracker(k)
        BY DEF TrackerInv
      <4>2. Moved(g, k, [k.real EXCEPT ![p] = "ready"])
        BY <1>1, <3>1, <4>1, KernelMoves
      <4> QED BY <1>1, <4>2 DEF Moved
    <3>3. v = Process(g, Happening("TASK_READY", p))
      BY <1>2, <2>2, <3>1 DEF Happens
    <3>4. Heard(v, g, [g.open EXCEPT ![p] = "READY"], g.running)
      BY <3>2, <3>3, HearsState
    <3>5. v.real = [k.real EXCEPT ![p] = "ready"] /\ v.open = [k.open EXCEPT ![p] = "READY"] /\ v.current = p
      BY <3>2, <3>4 DEF Heard
    <3>6. v.real[t] = "ready" /\ \A u \in Tracked : v.real[u] # "running"
      BY <1>1, <2>2, <3>5 DEF TrackerInv, Agree
    <3>7. Agree(v.real, v.open, v.running, v.current)
      BY <1>1, <3>5, <3>6 DEF TrackerInv, Agree
    <3> QED BY <3>4, <3>5, <3>6, <3>7 DEF TrackerInv, Heard
  <2> QED BY <2>1, <2>2
<1>4. PICK g : g = [v EXCEPT !.real[t] = "running", !.events = @ + 1]
  OBVIOUS
<1>5. IsTracker(g) /\ g.real = [v.real EXCEPT ![t] = "running"] /\ g.open = v.open /\ g.current = p
  <2>1. IsTracker(v)
    BY <1>3 DEF TrackerInv
  <2>2. Moved(g, v, [v.real EXCEPT ![t] = "running"])
    BY <1>4, <2>1, KernelMoves
  <2> QED BY <1>1, <1>3, <2>2 DEF Moved
<1>6. PICK open : open = IF g.open[p] = "RUNNING" THEN [g.open EXCEPT ![p] = "READY"] ELSE g.open
  OBVIOUS
<1>7. PICK w : w = Process(g, [op |-> "TASK_SWITCH", prev |-> p, t |-> t])
  OBVIOUS
<1>8. Heard(w, g, [open EXCEPT ![t] = "RUNNING"], t)
  BY <1>5, <1>6, <1>7, HearsSwitch
<1>9. KernelSwitches(k, t) = [w EXCEPT !.current = t]
  BY <1>1, <1>2, <1>4, <1>7 DEF KernelSwitches, Happens
<1>10. PICK e : e = [w EXCEPT !.current = t]
  OBVIOUS
<1>11. IsTracker(e) /\ e.current = t /\ e.real = [v.real EXCEPT ![t] = "running"]
       /\ e.open = [open EXCEPT ![t] = "RUNNING"] /\ e.running = t
  BY <1>5, <1>8, <1>10, CurrentSet DEF Heard
<1>13. Agree(e.real, e.open, e.running, e.current)
  <2>1. t # None
    BY ToolsAssumption DEF None
  <2> QED BY <1>1, <1>3, <1>5, <1>6, <1>11, <2>1 DEF TrackerInv, Agree
<1> QED BY <1>9, <1>10, <1>11, <1>13 DEF TrackerInv

LEMMA TrackerInterrupted ==
    ASSUME NEW k, TrackerInv(k), NEW op \in {"ISR_ENTER", "ISR_EXIT"}
    PROVE  TrackerInv(KernelIsr(k, op))
<1>1. PICK g : g = [k EXCEPT !.events = @ + 1]
  OBVIOUS
<1>2. TrackerInv(g)
  BY <1>1 DEF TrackerInv, IsTracker
<1>3. KernelIsr(k, op) = Process(g, Happening(op, None))
  BY <1>1 DEF KernelIsr
<1>4. Process(g, Happening(op, None)) \in
        {g, [g EXCEPT !.isr = Append(@, g.running)], [g EXCEPT !.isr = Front(@), !.drawn = Append(@, Last(g.isr))]}
  BY DEF Process, Happening
<1>5. ASSUME NEW s
      PROVE  TrackerInv([g EXCEPT !.isr = s])
  BY <1>2, InterruptsSet DEF TrackerInv
<1>6. CASE Process(g, Happening(op, None)) = g
  BY <1>2, <1>3, <1>6
<1>7. CASE Process(g, Happening(op, None)) = [g EXCEPT !.isr = Append(@, g.running)]
  BY <1>3, <1>5, <1>7, Zenon
<1>8. CASE Process(g, Happening(op, None)) = [g EXCEPT !.isr = Front(@), !.drawn = Append(@, Last(g.isr))]
  <2>1. PICK s : s = Front(g.isr)
    OBVIOUS
  <2>2. PICK v : v = [g EXCEPT !.isr = s]
    OBVIOUS
  <2>3. TrackerInv(v)
    BY <1>5, <2>2
  <2>4. PICK q : q = Append(g.drawn, Last(g.isr))
    OBVIOUS
  <2>5. v.drawn = g.drawn
    BY <1>2, <2>2 DEF TrackerInv, IsTracker
  <2>6. Process(g, Happening(op, None)) = [v EXCEPT !.drawn = q]
    BY <1>8, <2>1, <2>2, <2>4, <2>5
  <2>7. TrackerInv([v EXCEPT !.drawn = q])
    BY <2>3, InterruptsSet DEF TrackerInv
  <2> QED BY <1>3, <2>6, <2>7
<1> QED BY <1>4, <1>6, <1>7, <1>8

(***************************************************************************)
(* THEOREM: for any tasks and any order of creations, switches, blocks,    *)
(* wake-ups, deletions and interrupts, the TaskStateTracker of the trace   *)
(* decoder, which sees only the records, shows for every task the state    *)
(* the kernel has it in.                                                   *)
(***************************************************************************)
THEOREM TrackerAlwaysTrue == tool = TrackerStart /\ [][ToolsNext]_tool => []TrackerTruth(tool)
<1>1. tool = TrackerStart => TrackerInv(tool)
  BY TrackerBegins
<1>2. TrackerInv(tool) /\ [ToolsNext]_tool => TrackerInv(tool)'
  <2> SUFFICES ASSUME TrackerInv(tool), [ToolsNext]_tool PROVE TrackerInv(tool')
    OBVIOUS
  <2>1. tool.kind = "tracker"
    BY DEF TrackerInv, IsTracker
  <2>2. CASE TrackerSteps
    BY <2>2, TrackerStarted, TrackerCreated, TrackerBlocked, TrackerReadied, TrackerSwitched, TrackerInterrupted DEF TrackerSteps
  <2>3. ToolsNext => TrackerSteps
    BY <2>1 DEF ToolsNext, Tool, TraceEmits, TraceFilters, TraceFlushes, CobsGrows, FaultConfigures, FaultHappens, FaultSteps,
       ShellLifeCycle, ShellProcess
  <2>4. CASE UNCHANGED tool
    BY <2>4
  <2> QED BY <2>2, <2>3, <2>4
<1>3. TrackerInv(tool) => TrackerTruth(tool)
  BY TrackerShows
<1> QED BY <1>1, <1>2, <1>3, PTL
=============================================================================
