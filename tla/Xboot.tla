------------------------------- MODULE Xboot -------------------------------
(* Replacing and starting firmware: the DFU class of the USB device, the    *)
(* boot loader's partition table, image header and handoff, its storage and *)
(* its start on AM243x.  A behaviour has one of them, the record boot.      *)
EXTENDS XusbCalls

CONSTANTS
    MaxRequests,        \* DFU requests of a host
    MaxPartitions,      \* xBOOT_MAX_PARTITIONS
    Word,               \* values of a 32-bit address
    SectorBytes,        \* sector_size, a power of two
    StorageSizes,       \* sizes of the storage a table is checked against
    MemoryStarts,       \* where the memory starts that an image must fit
    MemorySize          \* and its size

ASSUME BootAssumption ==
    /\ {MaxRequests, MaxPartitions, Word, SectorBytes, MemorySize} \subseteq Nat \ {0}
    /\ Word % SectorBytes = 0
    /\ StorageSizes \subseteq 1..Word - 1
    /\ MemoryStarts \subseteq 0..Word - 1 /\ MemorySize < Word

VARIABLE boot

Sum32(a, b) == (a + b) % Word
OnSector(x) == x % SectorBytes = 0

-----------------------------------------------------------------------------
(* The DFU class and its application, a bank of flash.  Requests are        *)
(* handled in interrupts, the operation they leave in pending is processed  *)
(* by the main loop: at is what it is doing, op the operation it took, hand *)
(* the block it writes.  req is the request whose status stage is due, told *)
(* what the last one answered.  The bytes of a block are known by the       *)
(* request that brought them.  Ghosts: want is what the bank holds when the *)
(* blocks the host downloaded and did not give up are written, manifest how *)
(* the last one ended, failed a failure the host has not cleared, crossed   *)
(* that an interrupt hit one of the windows described in DfuTruth.          *)

TransferSize == 2               \* xUSBD_DFU_TRANSFER_SIZE, scaled
BankBytes == 4                  \* DFU_MODE_FLASH_SIZE, scaled
Erased == [i \in 0..BankBytes - 1 |-> 0]
NoBlock == [num |-> 0, len |-> 0, id |-> 0]

(* flash_write: a block that passes the end of the bank is refused.         *)
OffsetOf(num) == num * TransferSize
EndOf(b) == OffsetOf(b.num) + b.len
Laid(bank, b) ==
    IF EndOf(b) > BankBytes THEN bank
    ELSE [i \in DOMAIN bank |-> IF i \in OffsetOf(b.num)..EndOf(b) - 1 THEN b.id ELSE bank[i]]

(* The bank when the write under way is over, and when the next is too.     *)
BufferBlock(d) == [num |-> d.num, len |-> d.len, id |-> d.data]
InHand(d) == IF d.at = "writing" THEN Laid(d.bank, d.hand) ELSE d.bank
OnItsWay(d) == IF d.pending = "WRITE" THEN Laid(InHand(d), BufferBlock(d)) ELSE InHand(d)
GiveUp(d) == IF d.pending = "WRITE" THEN [d EXCEPT !.want = InHand(d)] ELSE d

DfuIdle(d) == IF d.mode = "dfu" THEN "dfuIDLE" ELSE "appIDLE"
DfuResetState(d) ==
    [GiveUp(d) EXCEPT !.state = DfuIdle(d), !.status = "OK", !.pending = "none", !.num = 0, !.len = 0, !.failed = FALSE]

DfuInit(mode) ==
    [kind |-> "dfu", mode |-> mode, size |-> TransferSize, state |-> IF mode = "dfu" THEN "dfuIDLE" ELSE "appIDLE",
     status |-> "OK", pending |-> "none", num |-> 0, len |-> 0, data |-> 0, st |-> "OK", req |-> Nothing, asked |-> 0,
     told |-> "nothing", at |-> "idle", op |-> "none", hand |-> NoBlock, bank |-> Erased, written |-> 0,
     want |-> Erased, manifest |-> "none", failed |-> FALSE, crossed |-> FALSE]
SetTransferSize(d, size) ==
    IF size = 0 \/ size > TransferSize THEN Failed(d, "INSUFFICIENT_BUFFER_SIZE") ELSE Ok([d EXCEPT !.size = size])

Download(d, r) ==
    IF d.state \notin {"dfuIDLE", "dfuDNLOAD_IDLE"} THEN Failed(d, "INVALID_CLASS_REQ")
    ELSE IF r.len = 0 THEN Ok([d EXCEPT !.len = 0, !.state = "dfuMANIFEST_SYNC", !.manifest = "none"])
    ELSE Ok([d EXCEPT !.num = r.num, !.len = IF r.len > d.size THEN d.size ELSE r.len, !.data = d.asked,
                      !.state = "dfuDNLOAD_SYNC", !.crossed = @ \/ d.at = "writing"])
ClearStatus(d) ==
    IF d.state # "dfuERROR" THEN d
    ELSE [GiveUp(d) EXCEPT !.status = "OK", !.state = "dfuIDLE", !.pending = "none", !.failed = FALSE]

Abortable == {"dfuIDLE", "dfuDNLOAD_SYNC", "dfuDNLOAD_IDLE", "dfuMANIFEST_SYNC", "dfuUPLOAD_IDLE"}
ModeOut(d, r) ==
    CASE r.op = "DNLOAD" -> Download(d, r)
      [] r.op = "CLRSTATUS" -> Ok(ClearStatus(d))
      [] r.op = "ABORT" /\ d.state \in Abortable ->
            Ok([GiveUp(d) EXCEPT !.state = "dfuIDLE", !.pending = "none", !.len = 0])
      [] OTHER -> Failed(d, "INVALID_CLASS_REQ")

(* The application reads a block, which ends the upload when it is shorter  *)
(* than what the host asked for; beyond the bank it has none.               *)
BytesAt(num) ==
    IF BankBytes - OffsetOf(num) < TransferSize THEN BankBytes - OffsetOf(num) ELSE TransferSize
Upload(d, r) ==
    IF d.state \notin {"dfuIDLE", "dfuUPLOAD_IDLE"} THEN Failed(d, "INVALID_CLASS_REQ")
    ELSE IF OffsetOf(r.num) >= BankBytes
    THEN Failed([d EXCEPT !.status = "errFILE", !.state = "dfuERROR", !.failed = TRUE], "INVALID_CLASS_REQ")
    ELSE Ok([d EXCEPT !.num = r.num, !.state = IF BytesAt(r.num) < r.len THEN "dfuIDLE" ELSE "dfuUPLOAD_IDLE"])

(* What GETSTATUS reports for the state: two states have no value of ctx.   *)
Reported(d) ==
    CASE d.state = "dfuDNLOAD_SYNC" -> IF d.pending = "WRITE" THEN "dfuDNBUSY" ELSE "dfuDNLOAD_IDLE"
      [] d.state = "dfuMANIFEST_SYNC" -> IF d.pending = "MANIFEST" THEN "dfuMANIFEST" ELSE "dfuMANIFEST_WAIT_RESET"
      [] OTHER -> d.state
ModeIn(d, r) ==
    CASE r.op = "UPLOAD" -> Upload(d, r)
      [] r.op = "GETSTATUS" -> Ok([d EXCEPT !.told = Reported(d)])
      [] r.op = "GETSTATE" -> Ok([d EXCEPT !.told = d.state])
      [] OTHER -> Failed(d, "INVALID_CLASS_REQ")

RuntimeOut(d, r) ==
    CASE r.op = "DETACH" /\ d.state = "appIDLE" -> Ok([d EXCEPT !.state = "appDETACH"])
      [] r.op = "ABORT" -> Ok([d EXCEPT !.state = "appIDLE"])
      [] OTHER -> Failed(d, "INVALID_CLASS_REQ")
RuntimeIn(d, r) ==
    IF r.op \in {"GETSTATUS", "GETSTATE"} THEN Ok([d EXCEPT !.told = d.state]) ELSE Failed(d, "INVALID_CLASS_REQ")

(* The status stage ended: what the request left for later.  The block that *)
(* is now due is written after all that was due before.                     *)
DueWrite(d) == [d EXCEPT !.pending = "WRITE", !.want = Laid(@, BufferBlock(d))]
\* Fault: GETSTATUS does not look whether the block is still pending.
ControlCompleteEarly(d) ==
    CASE d.req.op = "DETACH" -> [d EXCEPT !.pending = "DETACH"]
      [] d.req.op = "DNLOAD" -> IF d.len > 0 THEN DueWrite(d) ELSE [d EXCEPT !.pending = "MANIFEST"]
      [] d.req.op = "GETSTATUS" /\ d.state \in {"dfuDNLOAD_SYNC", "dfuMANIFEST_SYNC"} ->
            [d EXCEPT !.state = IF @ = "dfuDNLOAD_SYNC" THEN "dfuDNLOAD_IDLE" ELSE "dfuMANIFEST_WAIT_RESET"]
      [] OTHER -> d
ControlComplete(d) ==
    CASE d.req.op = "DETACH" -> [d EXCEPT !.pending = "DETACH"]
      [] d.req.op = "DNLOAD" -> IF d.len > 0 THEN DueWrite(d) ELSE [d EXCEPT !.pending = "MANIFEST"]
      [] d.req.op = "GETSTATUS" /\ d.pending = "none" /\ d.state \in {"dfuDNLOAD_SYNC", "dfuMANIFEST_SYNC"} ->
            [d EXCEPT !.state = IF @ = "dfuDNLOAD_SYNC" THEN "dfuDNLOAD_IDLE" ELSE "dfuMANIFEST_WAIT_RESET",
                      !.crossed = @ \/ (d.at # "idle" /\ d.state = "dfuMANIFEST_SYNC")]
      [] OTHER -> d

(* The application hears of an event first; it erases its bank on CONNECT.  *)
AppBusEvent(d, event) ==
    IF d.mode = "dfu" /\ event = "CONNECT"
    THEN [d EXCEPT !.bank = Erased, !.want = IF d.pending = "WRITE" THEN Laid(Erased, BufferBlock(d)) ELSE Erased,
                   !.crossed = @ \/ d.at = "writing"]
    ELSE d
DfuBusEvent(d, event) ==
    LET s == AppBusEvent(d, event) IN
    CASE event \in {"CONNECT", "DISCONNECT"} -> DfuResetState(s)
      [] event = "RESET" /\ d.state = "dfuMANIFEST_WAIT_RESET" -> [s EXCEPT !.pending = "DETACH"]
      [] OTHER -> s

Dfu == boot.kind = "dfu" /\ boot.at # "gone"
DfuRequests ==
    {[op |-> "DNLOAD", num |-> num, len |-> len] : num \in 0..2, len \in {1, 3}}
        \cup {[op |-> "DNLOAD", num |-> 0, len |-> 0]}
        \cup {[op |-> "UPLOAD", num |-> num, len |-> len] : num \in {0, 2}, len \in {2, 3}}
        \cup {Request(op) : op \in {"GETSTATUS", "GETSTATE", "CLRSTATUS", "ABORT", "DETACH", "elsewhere"}}

(* A SETUP packet ends the request before it, whose status stage then never *)
(* comes; so does an event.  A request to another interface leaves the      *)
(* class alone.                                                             *)
EndsRequest(d) == [d EXCEPT !.asked = @ + 1, !.told = "nothing", !.req = Nothing,
                            !.crossed = @ \/ (d.req.op = "DNLOAD" /\ d.len = 0)]
DfuAsked(d, r) ==
    LET s == EndsRequest(d)
        in == r.op \in {"UPLOAD", "GETSTATUS", "GETSTATE"}
        h == CASE r.op = "elsewhere" -> Ok(s)
               [] r.op # "elsewhere" /\ d.mode = "dfu" -> IF in THEN ModeIn(s, r) ELSE ModeOut(s, r)
               [] r.op # "elsewhere" /\ d.mode # "dfu" -> IF in THEN RuntimeIn(s, r) ELSE RuntimeOut(s, r)
    IN  [h EXCEPT !.req = IF IsOk(h) THEN r ELSE Nothing]

DfuRequest == /\ Dfu /\ boot.asked < MaxRequests
              /\ \E r \in DfuRequests : boot' = DfuAsked(boot, r)
DfuStatusStage == Dfu /\ boot.req # Nothing /\ boot' = [ControlComplete(boot) EXCEPT !.req = Nothing]
DfuEvent == /\ Dfu /\ boot.asked \in 1..MaxRequests - 1
            /\ \E event \in {"CONNECT", "DISCONNECT", "RESET"} : boot' = DfuBusEvent(EndsRequest(boot), event)

(* The main loop: it looks whether there is something to do, takes it,      *)
(* clears it, and only then does it.  A block is copied out of the buffer   *)
(* while it is written: when that changes, the rest of the block is new.    *)
MainLooks(d) == [d EXCEPT !.at = "looked"]
ProcessTakes(d) == [d EXCEPT !.at = "took", !.op = d.pending]
ProcessClears(d) ==
    [d EXCEPT !.pending = "none", !.at = CASE d.op = "WRITE" -> "writing" [] d.op = "none" -> "idle" [] OTHER -> d.op,
              !.hand = IF d.op = "WRITE" THEN BufferBlock(d) ELSE NoBlock, !.crossed = @ \/ d.pending # d.op]
Processed(d) == [d EXCEPT !.at = "idle", !.op = "none", !.hand = NoBlock]
Fails(d, status) == [Processed(d) EXCEPT !.status = status, !.state = "dfuERROR", !.failed = TRUE]
AppWrites(d, old) ==
    [d EXCEPT !.bank = [i \in DOMAIN @ |-> IF i \in OffsetOf(d.hand.num) + old..EndOf(d.hand) - 1 THEN d.data
                                           ELSE Laid(@, d.hand)[i]],
              !.written = EndOf(d.hand)]
AppVerifies(d, blank) == d.written # 0 /\ ~blank
ProcessWrite(d, old) ==
    IF EndOf(d.hand) > BankBytes THEN Fails(d, "errWRITE") ELSE Processed(AppWrites(d, old))
ProcessManifest(d, blank) ==
    IF AppVerifies(d, blank) THEN [Processed(d) EXCEPT !.manifest = "done"]
    ELSE [Fails(d, "errVERIFY") EXCEPT !.manifest = "refused"]
ProcessDetach(d, reboots) == [Processed(d) EXCEPT !.at = IF reboots THEN "gone" ELSE "idle"]

DfuMainLooks == Dfu /\ boot.at = "idle" /\ boot.pending # "none" /\ boot' = MainLooks(boot)
DfuMainTakes == Dfu /\ boot.at = "looked" /\ boot' = ProcessTakes(boot)
DfuMainClears == Dfu /\ boot.at = "took" /\ boot' = ProcessClears(boot)
DfuMainEnds ==
    /\ Dfu
    /\ \/ boot.at = "writing" /\ \E old \in 0..boot.hand.len : boot' = ProcessWrite(boot, old)
       \/ boot.at = "MANIFEST" /\ \E blank \in BOOLEAN : boot' = ProcessManifest(boot, blank)
       \/ boot.at = "DETACH" /\ \E reboots \in BOOLEAN : boot' = ProcessDetach(boot, reboots)

(* Every block the host downloaded and did not give up is in the bank, or   *)
(* on its way, whole and over what it replaces; the host is not told that a *)
(* block or a manifest is over before the main loop has taken it; a failure *)
(* stays the state until the host clears it; the restart is only due after  *)
(* a manifest that worked.                                                  *)
(* Four windows break it, marked crossed: a download while the application  *)
(* still writes the buffer, a CONNECT that erases under it, a request that  *)
(* changes the pending operation between taking and clearing it, and a      *)
(* manifest reported over while it runs or that was never started, its      *)
(* status stage having failed.                                              *)
DfuTruth(d) ==
    /\ ~d.crossed => OnItsWay(d) = d.want
    /\ d.hand.len <= d.size
    /\ d.told = "dfuDNLOAD_IDLE" => d.pending # "WRITE"
    /\ d.told = "dfuMANIFEST_WAIT_RESET" => d.pending # "MANIFEST"
    /\ d.failed => d.state = "dfuERROR" /\ d.status # "OK"
    /\ d.pending = "DETACH" /\ d.mode = "dfu" /\ ~d.crossed => d.manifest = "done"

-----------------------------------------------------------------------------
(* Choosing and starting an image.  The caller reads the partition table,   *)
(* looks a slot up, reads the image's header, checks its bounds, prepares   *)
(* the handoff and jumps, and goes on only where a step answered OK; then   *)
(* it resets.  out is the caller's table, port what the port was told.      *)

NoEntry == [type |-> "INVALID", offset |-> 0, size |-> 0]
NoImage == [load |-> 0, size |-> 0, entry |-> 0]

LoaderInit(storage, start, where) ==
    [kind |-> "loader", pc |-> "start", st |-> "OK", storage |-> storage, mem |-> <<start, MemorySize>>, where |-> where,
     ready |-> FALSE, recovery |-> FALSE, out |-> [n |-> 0, entries |-> <<>>], found |-> NoEntry, image |-> NoImage,
     port |-> [prepared |-> FALSE, jumped |-> FALSE, reset |-> FALSE, entry |-> None]]

(* The fields a context takes from its configuration.                       *)
BootInit(l, recovery) == Ok([l EXCEPT !.ready = TRUE, !.recovery = recovery])
BootRun(l) ==
    IF ~l.ready THEN Failed(l, "INVALID_STATE")
    ELSE IF l.recovery THEN Failed(l, "NO_BOOTABLE_IMAGE") ELSE Ok(l)

(* What is wrong with a header, if anything, is found in the order of the   *)
(* checks; the entry count is checked before the checksum.                  *)
ValidateHeader(wrong, n) ==
    IF wrong \in {"magic", "version"} \/ n > MaxPartitions THEN "INVALID_PARTITION"
    ELSE IF wrong = "crc" THEN "CRC_MISMATCH" ELSE "OK"

ValidateEntry(e, storage) ==
    /\ e.type # "INVALID" /\ OnSector(e.offset) /\ OnSector(e.size) /\ e.size # 0
    /\ e.offset <= storage /\ e.size <= storage /\ Sum32(e.offset, e.size) <= storage

CheckOverlap(e, others) ==
    \E j \in DOMAIN others : /\ e.offset < Sum32(others[j].offset, others[j].size)
                             /\ others[j].offset < Sum32(e.offset, e.size)

ParseHeader(l, wrong, n) ==
    LET st == ValidateHeader(wrong, n) IN
    IF st = "OK" THEN Ok([l EXCEPT !.out = [n |-> n, entries |-> <<>>]]) ELSE Failed(l, st)

(* An entry is in the caller's table before it is found to be good.         *)
ParseEntry(l, e) ==
    LET s == [l EXCEPT !.out.entries = Append(@, e)] IN
    IF ~ValidateEntry(e, l.storage) \/ CheckOverlap(e, l.out.entries) THEN Failed(s, "INVALID_PARTITION") ELSE Ok(s)

LookupType(l, type) ==
    LET Of == {i \in DOMAIN l.out.entries : l.out.entries[i].type = type} IN
    IF Of = {} THEN Failed(l, "INVALID_PARTITION") ELSE Ok([l EXCEPT !.found = l.out.entries[First(Of)]])
LookupSlot(l, slot) ==
    CASE slot = 0 -> LookupType(l, "PRIMARY_APP")
      [] slot = 1 -> LookupType(l, "SECONDARY_APP")
      [] OTHER -> Failed(l, "INVALID_ARGUMENT")

HeaderParse(l, wrong, i) ==
    CASE wrong \in {"magic", "version", "size"} -> Failed(l, "INVALID_IMAGE")
      [] wrong = "crc" -> Failed(l, "CRC_MISMATCH")
      [] OTHER -> Ok([l EXCEPT !.image = i])

ValidateBounds(i, mem) ==
    LET end == Sum32(i.load, i.size) IN
    /\ i.load >= mem[1] /\ i.size <= mem[2] /\ end >= i.load /\ end <= Sum32(mem[1], mem[2])
    /\ i.entry >= i.load /\ i.entry < end

(* The ports: the fake one records and returns, AM243x starts the image of  *)
(* its boot medium whatever the entry address is, and does not return.      *)
FakePrepare(l, entry, fails) ==
    LET s == [l EXCEPT !.port.prepared = TRUE, !.port.entry = entry] IN
    IF fails THEN Failed(s, "HANDOFF") ELSE Ok(s)
FakeJump(l, entry) == [l EXCEPT !.port.jumped = TRUE, !.port.entry = entry]
FakeReset(l) == [l EXCEPT !.port.reset = TRUE]
Am243xPrepare(l) == Ok([l EXCEPT !.port.prepared = TRUE])
Am243xJump(l) == [l EXCEPT !.port.jumped = TRUE]
HandoffPrepare(l, entry, fails) ==
    IF l.where = "fake" THEN FakePrepare(l, entry, fails) ELSE Am243xPrepare(l)
HandoffJump(l, entry) == IF l.where = "fake" THEN FakeJump(l, entry) ELSE Am243xJump(l)
HandoffReset(l) == FakeReset(l)

(* The caller goes on to pc, or forgets its table and goes to the reset.    *)
NoTable == [n |-> 0, entries |-> <<>>]
Onward(l, pc) == IF IsOk(l) THEN [l EXCEPT !.pc = pc] ELSE [l EXCEPT !.pc = "refused", !.out = NoTable]
Addresses32 == 0..Word - 1
LoaderAt(pc) == boot.kind = "loader" /\ boot.pc = pc

LoaderStarts ==
    LoaderAt("start") /\ \E recovery \in BOOLEAN : boot' = Onward(BootRun(BootInit(boot, recovery)), "header")
LoaderReadsHeader ==
    /\ LoaderAt("header")
    /\ \E wrong \in {"nothing", "magic", "version", "crc"}, n \in 0..MaxPartitions + 1 :
          boot' = Onward(ParseHeader(boot, wrong, n), "entries")
LoaderReadsEntry ==
    /\ LoaderAt("entries") /\ Len(boot.out.entries) < boot.out.n
    /\ \E type \in {"INVALID", "PRIMARY_APP", "SECONDARY_APP"}, offset \in Addresses32, size \in Addresses32 :
          boot' = Onward(ParseEntry(boot, [type |-> type, offset |-> offset, size |-> size]), "entries")
LoaderLooksUp ==
    /\ LoaderAt("entries") /\ Len(boot.out.entries) = boot.out.n
    /\ \E slot \in 0..2 : boot' = [Onward(LookupSlot(boot, slot), "image") EXCEPT !.out = NoTable]
LoaderReadsImage ==
    /\ LoaderAt("image")
    /\ \/ \E load \in Addresses32, size \in Addresses32, entry \in Addresses32 :
             LET l == HeaderParse(boot, "nothing", [load |-> load, size |-> size, entry |-> entry])
             IN  boot' = Onward(IF ValidateBounds(l.image, l.mem) THEN l ELSE Failed([l EXCEPT !.image = NoImage], "INVALID_IMAGE"),
                                "prepare")
       \/ \E wrong \in {"magic", "version", "size", "crc"} : boot' = Onward(HeaderParse(boot, wrong, NoImage), "prepare")
LoaderPrepares ==
    LoaderAt("prepare") /\ \E fails \in BOOLEAN : boot' = Onward(HandoffPrepare(boot, boot.image.entry, fails), "jump")
LoaderJumps == LoaderAt("jump") /\ boot' = [HandoffJump(boot, boot.image.entry) EXCEPT !.pc = "gone"]
LoaderResets == LoaderAt("refused") /\ boot' = [HandoffReset(boot) EXCEPT !.pc = "gone"]

(* A table that is accepted describes disjoint pieces of the storage, and   *)
(* whatever is started was prepared and lies in the memory for images, and  *)
(* its entry in it: as long as the sums of a table stay below a word, which *)
(* storage of half the address space or more does not give.                 *)
LoaderTruth(l) ==
    LET End(e) == e.offset + e.size
        got == l.out.entries IN
    /\ 2 * l.storage < Word =>
          /\ \A i \in DOMAIN got : End(got[i]) <= l.storage
          /\ \A i, j \in DOMAIN got : i < j => End(got[i]) <= got[j].offset \/ End(got[j]) <= got[i].offset
          /\ End(l.found) <= l.storage
    /\ l.image # NoImage => /\ l.mem[1] <= l.image.load /\ l.image.load + l.image.size <= l.mem[1] + l.mem[2]
                            /\ l.image.entry \in l.image.load..l.image.load + l.image.size - 1
    /\ l.port.jumped /\ l.where = "fake" => l.port.entry = l.image.entry

-----------------------------------------------------------------------------
(* The storage interface over the fake flash of the tests.  A cell is the   *)
(* set of its bits that are one; flash writes clear bits, erasing sets      *)
(* them.  Ghosts: want, what a memory would hold after the calls that were  *)
(* answered OK, and stray, that one of them went outside the buffer.        *)

Bits == {0, 1}
Cells(f) == 0..f.size - 1
FlashInit(size, ops) ==
    [kind |-> "flash", size |-> size, ops |-> ops, st |-> IF OnSector(size) THEN "OK" ELSE "INVALID_ARGUMENT",
     fail |-> {}, cell |-> [i \in 0..size - 1 |-> Bits], want |-> [i \in 0..size - 1 |-> Bits], got |-> <<>>,
     stray |-> FALSE, end |-> 0]

(* A range of n cells that fits; its cells, wherever they are.              *)
Fits(f, offset, n) == Sum32(offset, n) <= f.size
Stretch(offset, n) == offset..offset + n - 1
Straying(f, offset, n) == Stretch(offset, n) \ Cells(f) # {}

FakeRead(f, offset, n) ==
    IF "read" \in f.fail THEN Failed(f, "STORAGE_READ")
    ELSE IF ~Fits(f, offset, n) THEN Failed(f, "INVALID_ARGUMENT")
    ELSE IF Straying(f, offset, n) THEN Ok([f EXCEPT !.stray = TRUE, !.end = offset + n])
    ELSE Ok([f EXCEPT !.got = [k \in 1..n |-> f.cell[offset + k - 1]]])

(* All cells are checked before the first is written.                       *)
FakeWrite(f, offset, data) ==
    LET n == Len(data) IN
    IF "write" \in f.fail THEN Failed(f, "STORAGE_WRITE")
    ELSE IF ~Fits(f, offset, n) THEN Failed(f, "INVALID_ARGUMENT")
    ELSE IF Straying(f, offset, n) THEN Ok([f EXCEPT !.stray = TRUE, !.end = offset + n])
    ELSE IF \E k \in 1..n : ~(data[k] \subseteq f.cell[offset + k - 1]) THEN Failed(f, "STORAGE_WRITE")
    ELSE Ok([f EXCEPT !.cell = [i \in Cells(f) |-> IF i \in Stretch(offset, n) THEN @[i] \cap data[i - offset + 1] ELSE @[i]]])

FakeErase(f, offset, n) ==
    IF "erase" \in f.fail THEN Failed(f, "STORAGE_ERASE")
    ELSE IF ~OnSector(offset) \/ ~OnSector(n) \/ ~Fits(f, offset, n) THEN Failed(f, "INVALID_ARGUMENT")
    ELSE IF Straying(f, offset, n) THEN Ok([f EXCEPT !.stray = TRUE, !.end = offset + n])
    ELSE Ok([f EXCEPT !.cell = [i \in Cells(f) |-> IF i \in Stretch(offset, n) THEN Bits ELSE @[i]]])

(* A storage may lack an operation; a missing flush is none needed.         *)
StorageRead(f, offset, n) == IF "read" \in f.ops THEN FakeRead(f, offset, n) ELSE Failed(f, "UNSUPPORTED")
StorageWrite(f, offset, data) == IF "write" \in f.ops THEN FakeWrite(f, offset, data) ELSE Failed(f, "UNSUPPORTED")
StorageErase(f, offset, n) == IF "erase" \in f.ops THEN FakeErase(f, offset, n) ELSE Failed(f, "UNSUPPORTED")
StorageFlush(f) == Ok(f)
Inject(f, what, on) == [f EXCEPT !.fail = IF on THEN @ \cup {what} ELSE @ \ {what}]
ResetErrors(f) == [f EXCEPT !.fail = {}]

Wanting(f, offset, data) ==
    IF ~IsOk(f) \/ f.stray THEN f
    ELSE [f EXCEPT !.want = [i \in Cells(f) |-> IF i \in Stretch(offset, Len(data)) THEN data[i - offset + 1] ELSE @[i]]]

Flash == boot.kind = "flash" /\ ~boot.stray
Writes == UNION {[1..n -> {{}, {0}, Bits}] : n \in 1..2}
FlashReads == Flash /\ \E offset \in Addresses32, n \in 1..2 : boot' = StorageRead(boot, offset, n)
FlashWrites ==
    Flash /\ \E offset \in Addresses32, data \in Writes :
                boot' = Wanting([StorageWrite(boot, offset, data) EXCEPT !.got = <<>>], offset, data)
FlashErases ==
    Flash /\ \E offset \in Addresses32, n \in 1..4 :
                boot' = Wanting([StorageErase(boot, offset, n) EXCEPT !.got = <<>>], offset, [k \in 1..n |-> Bits])
FlashFlushes == Flash /\ boot' = StorageFlush(boot)
FlashBreaks ==
    /\ Flash
    /\ \/ \E what \in {"read", "write", "erase"}, on \in BOOLEAN : boot' = Inject(boot, what, on)
       \/ boot' = ResetErrors(boot)

(* What was answered OK is what the storage holds, what was refused changed *)
(* nothing; a call is only let outside the buffer where its end is beyond   *)
(* the last address.                                                        *)
FlashTruth(f) ==
    /\ f.cell = f.want
    /\ f.stray => f.end >= Word

-----------------------------------------------------------------------------
(* The start on AM243x.  A constructor sets the platform layer up, if the   *)
(* tool chain's start code runs constructors: the repository's own goes     *)
(* from the MPU straight to xBOOT_Main.  Whether the device resets when     *)
(* asked is up to the system firmware; its answer is not looked at.         *)

StartInit(ctors) ==
    [kind |-> "start", pc |-> "reset", ctors |-> ctors, st |-> "OK", dpl |-> FALSE, pm |-> "raw", irq |-> FALSE,
     walls |-> "closed", uart |-> "off", ready |-> FALSE, recovery |-> FALSE, ran |-> "no", refused |-> FALSE]

DplInit(s) == [s EXCEPT !.dpl = TRUE]
SystemInit(s) == [s EXCEPT !.irq = TRUE]
(* The UART of the log: what was set up stays when a later step fails.      *)
DriversOpen(s, broken) ==
    CASE broken = "uart init" -> Failed(s, "FAILURE")
      [] broken = "uart start" -> Failed([s EXCEPT !.uart = "initialised"], "FAILURE")
      [] OTHER -> Ok([s EXCEPT !.uart = "started"])
PortInit(s, isolated, broken) ==
    IF ~isolated /\ broken \in {"pm", "rm"} THEN Failed(s, "INVALID_STATE")
    ELSE LET p == [SystemInit(s) EXCEPT !.pm = IF isolated THEN "kept" ELSE "set", !.walls = "open"]
             d == DriversOpen(p, broken)
         IN  IF IsOk(d) THEN d ELSE Failed(d, "INVALID_STATE")
DeviceReset(s, refuses, next) ==
    IF refuses THEN [s EXCEPT !.pc = next, !.refused = TRUE] ELSE [StartInit(s.ctors) EXCEPT !.refused = s.refused]

Starting(pc) == boot.kind = "start" /\ boot.pc = pc
StartCode == Starting("reset") /\ boot' = [(IF boot.ctors THEN DplInit(boot) ELSE boot) EXCEPT !.pc = "port"]
MainOpensPort ==
    /\ Starting("port")
    /\ \E isolated \in BOOLEAN, broken \in {"nothing", "pm", "rm", "uart init", "uart start"} :
          LET s == PortInit(boot, isolated, broken) IN boot' = [s EXCEPT !.pc = IF IsOk(s) THEN "policy" ELSE "give up"]
MainGivesUp ==
    Starting("give up") /\ \E refuses \in BOOLEAN : boot' = DeviceReset(boot, refuses, "policy")
MainRuns ==
    Starting("policy") /\ LET s == BootRun(BootInit(boot, FALSE)) IN boot' = [s EXCEPT !.ran = s.st, !.pc = "over"]
MainResets ==
    Starting("over") /\ \E refuses \in BOOLEAN : boot' = DeviceReset(boot, refuses, "wait")

(* The policy runs on a device that is configured, opened and can log, with *)
(* interrupts on, unless a reset it needed was refused; the processor waits *)
(* for ever only then.                                                      *)
StartTruth(s) ==
    /\ s.ran # "no" /\ ~s.refused => s.pm # "raw" /\ s.walls = "open" /\ s.irq /\ s.uart = "started"
    /\ s.pc = "wait" => s.refused

-----------------------------------------------------------------------------
BootSteps == \/ DfuRequest \/ DfuStatusStage \/ DfuEvent \/ DfuMainLooks \/ DfuMainTakes \/ DfuMainClears \/ DfuMainEnds
             \/ LoaderStarts \/ LoaderReadsHeader \/ LoaderReadsEntry \/ LoaderLooksUp
             \/ LoaderReadsImage \/ LoaderPrepares \/ LoaderJumps \/ LoaderResets
             \/ FlashReads \/ FlashWrites \/ FlashErases \/ FlashFlushes \/ FlashBreaks
             \/ StartCode \/ MainOpensPort \/ MainGivesUp \/ MainRuns \/ MainResets

BootStart ==
    \/ \E mode \in {"dfu", "runtime"}, size \in 1..2 : boot = SetTransferSize(DfuInit(mode), size)
    \/ \E storage \in StorageSizes, start \in MemoryStarts, where \in {"fake", "am243x"} :
          boot = LoaderInit(storage, start, where)
    \/ \E ops \in {{"read"}, {"read", "write", "erase"}} : boot = FlashInit(2 * SectorBytes, ops)
    \/ \E ctors \in BOOLEAN : boot = StartInit(ctors)

(* What holds of the part in use (see above).                               *)
BootTruth ==
    CASE boot.kind = "dfu" -> DfuTruth(boot)
      [] boot.kind = "loader" -> LoaderTruth(boot)
      [] boot.kind = "flash" -> FlashTruth(boot)
      [] boot.kind = "start" -> StartTruth(boot)
      [] OTHER -> TRUE
=============================================================================
