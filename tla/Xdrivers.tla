------------------------------ MODULE Xdrivers ------------------------------
(* The peripheral drivers: UART, I2C, SPI, timer and GPIO, each the core of *)
(* src/drivers over the port of one of the two boards.  A behaviour has one *)
(* peripheral, the record drv.  A call that is refused changes nothing; the *)
(* status is kept where a property is about it.  A byte is the pair of the  *)
(* transfer it belongs to and its number in it.                             *)
EXTENDS XusbCalls

CONSTANTS
    MaxTransfers,       \* transfers of a peripheral in a behaviour
    MaxLength,          \* units of a transfer
    MaxArrivals,        \* bytes that reach the UART
    TimerWidth          \* values of a timer register

ASSUME DriversAssumption ==
    /\ {MaxTransfers, MaxLength, MaxArrivals} \subseteq Nat \ {0}
    /\ TimerWidth \in Nat \ {0, 1}

VARIABLE drv

Lengths == 1..MaxLength
Boards == {"ch32", "am243x"}
NoByte == <<0, 0>>
Idle == [op |-> "none"]

Refused(d, why) == d
Returned(d, st) == [d EXCEPT !.st = st]

-----------------------------------------------------------------------------
(* UART.  In hw are the interrupt enables, the data and the shift register  *)
(* of the sender, what the receiver holds and what is wrong with it; tx and *)
(* rx are the two directions of core and port.  Only the CH32H417 port uses *)
(* interrupts.  The receiver of the AM243x queues two bytes.                *)

NoUnits == [id |-> 0, n |-> 0, i |-> 0, busy |-> FALSE, core |-> FALSE]
UartReset == [txie |-> FALSE, tcie |-> FALSE, rxie |-> FALSE,
              dr |-> NoByte, sh |-> NoByte, tc |-> TRUE, rd |-> <<>>, bad |-> "none"]

UartOff(port) ==
    [kind |-> "uart", port |-> port, ready |-> FALSE, on |-> FALSE, call |-> Idle,
     tx |-> NoUnits, rx |-> NoUnits, got |-> <<>>, hw |-> UartReset,
     wire |-> <<>>, arrived |-> 0, started |-> 0, log |-> <<>>]

Held(u) == u.tx.core \/ u.rx.core

UartInit(u) == [u EXCEPT !.ready = TRUE, !.on = FALSE, !.tx.core = FALSE, !.rx.core = FALSE]

UartDeinit(u) ==
    IF ~u.ready THEN Refused(u, "NOT_INITIALIZED")
    ELSE IF Held(u) THEN Refused(u, "BUSY")
    ELSE [u EXCEPT !.ready = FALSE, !.on = FALSE, !.tx = NoUnits, !.rx = NoUnits,
                   !.hw = IF u.on THEN UartReset ELSE @]

(* The port's init may refuse the line settings.                            *)
UartCh32Start(u) == [u EXCEPT !.on = TRUE, !.hw.rxie = TRUE]
UartTiStart(u) == [u EXCEPT !.on = TRUE]
UartPortStart(u) == IF u.port = "ch32" THEN UartCh32Start(u) ELSE UartTiStart(u)

UartStart(u, accepted) ==
    IF ~u.ready THEN Refused(u, "NOT_INITIALIZED")
    ELSE IF u.on THEN Refused(u, "INVALID_STATE")
    ELSE IF ~accepted THEN Refused(u, "INVALID_ARG")
    ELSE UartPortStart(u)

UartPortStop(u) == [u EXCEPT !.on = FALSE, !.hw = [UartReset EXCEPT !.rd = u.hw.rd, !.bad = u.hw.bad]]

UartStop(u) ==
    IF ~u.on THEN Refused(u, "NOT_STARTED")
    ELSE IF Held(u) THEN Refused(u, "BUSY")
    ELSE UartPortStop(u)

(* A byte written to an idle sender goes straight to the shift register; to *)
(* a sender that still holds one, it replaces it.                           *)
Written(h, b) == IF h.sh = NoByte THEN [h EXCEPT !.sh = b, !.tc = FALSE]
                                  ELSE [h EXCEPT !.dr = b, !.tc = FALSE]
Txe(h) == h.dr = NoByte

Answer(u, d, ev, k) ==
    Append(u.log, [id |-> u[d].id, dir |-> d, ev |-> ev, k |-> k, n |-> u[d].n,
                   data |-> IF d = "rx" THEN u.got ELSE <<>>])

(* core_event_sink: every event ends the transfer of its direction.         *)
Event(u, d, ev, k) ==
    [u EXCEPT ![d] = [NoUnits EXCEPT !.id = u[d].id], !.log = Answer(u, d, ev, k),
              !.got = IF d = "rx" THEN <<>> ELSE @]

\* Fault: the transmission under way is not looked for.
UartTransmitAsyncUnchecked(u, n) ==
    IF ~u.on \/ u.port # "ch32" THEN Refused(u, "NOT_STARTED")
    ELSE [u EXCEPT !.started = @ + 1,
                   !.tx = [id |-> u.started + 1, n |-> n, i |-> 1, busy |-> TRUE, core |-> TRUE],
                   !.hw = [Written(@, <<u.started + 1, 1>>) EXCEPT !.txie = TRUE]]

UartTransmitAsync(u, n) ==
    IF ~u.on THEN Refused(u, "NOT_STARTED")
    ELSE IF u.tx.core THEN Refused(u, "BUSY")
    ELSE IF u.port # "ch32" THEN Refused(u, "UNSUPPORTED")
    ELSE LET id == u.started + 1 IN
         [u EXCEPT !.started = id,
                   !.tx = [id |-> id, n |-> n, i |-> 1, busy |-> TRUE, core |-> TRUE],
                   !.hw = [Written(@, <<id, 1>>) EXCEPT !.txie = TRUE]]

UartReceiveAsync(u, n) ==
    IF ~u.on THEN Refused(u, "NOT_STARTED")
    ELSE IF u.rx.core THEN Refused(u, "BUSY")
    ELSE IF u.port # "ch32" THEN Refused(u, "UNSUPPORTED")
    ELSE LET id == u.started + 1 IN
         [u EXCEPT !.started = id,
                   !.rx = [id |-> id, n |-> n, i |-> 0, busy |-> TRUE, core |-> TRUE]]

(* The interrupt handler: an error ends it; else the receive, the transmit  *)
(* and the completion branch, all on the flags read at its start.           *)
IrqPending(h) ==
    \/ h.rxie /\ (h.rd # <<>> \/ h.bad # "none")
    \/ h.txie /\ Txe(h)
    \/ h.tcie /\ h.tc

IrqError(u) ==
    LET v == [u EXCEPT !.hw.rd = <<>>, !.hw.bad = "none"]
    IN  IF u.rx.busy THEN Event(v, "rx", u.hw.bad, u.rx.i) ELSE v

IrqReceive(u, h) ==
    IF ~h.rxie \/ h.rd = <<>> THEN u
    ELSE LET v == [u EXCEPT !.hw.rd = <<>>]
             w == [v EXCEPT !.got = Append(@, Head(h.rd)), !.rx.i = @ + 1]
         IN  IF ~(u.rx.busy /\ u.rx.i < u.rx.n) THEN v
             ELSE IF w.rx.i < w.rx.n THEN w
             ELSE Event(w, "rx", "COMPLETE", w.rx.i)

\* Fault: the completion interrupt is not enabled after the last byte.
IrqTransmitSilent(u, h) ==
    IF ~h.txie \/ ~Txe(h) THEN u
    ELSE IF ~(u.tx.busy /\ u.tx.i < u.tx.n) THEN [u EXCEPT !.hw.txie = FALSE]
    ELSE [u EXCEPT !.tx.i = @ + 1, !.hw = Written(@, <<u.tx.id, u.tx.i + 1>>)]

IrqTransmit(u, h) ==
    IF ~h.txie \/ ~Txe(h) THEN u
    ELSE IF ~(u.tx.busy /\ u.tx.i < u.tx.n) THEN [u EXCEPT !.hw.txie = FALSE]
    ELSE LET v == [u EXCEPT !.tx.i = @ + 1, !.hw = Written(@, <<u.tx.id, u.tx.i + 1>>)]
         IN  IF v.tx.i < v.tx.n THEN v ELSE [v EXCEPT !.hw.txie = FALSE, !.hw.tcie = TRUE]

IrqComplete(u, h) ==
    IF ~h.tcie \/ ~h.tc THEN u
    ELSE LET v == [u EXCEPT !.hw.tcie = FALSE, !.hw.tc = FALSE]
         IN  IF u.tx.busy THEN Event(v, "tx", "COMPLETE", u.tx.i) ELSE v

IrqHandler(u) ==
    IF u.hw.bad # "none" THEN IrqError(u)
    ELSE IrqComplete(IrqTransmit(IrqReceive(u, u.hw), u.hw), u.hw)

(* Blocking calls poll; between two polls an interrupt may run.  A poll     *)
(* that finds nothing may be the one that exhausts the guard.               *)
UartTransmit(u, n) ==
    IF ~u.on THEN Refused(u, "NOT_STARTED")
    ELSE IF u.tx.core THEN Refused(u, "BUSY")
    ELSE LET id == u.started + 1 IN
         [u EXCEPT !.started = id, !.tx = [NoUnits EXCEPT !.id = id, !.n = n, !.core = TRUE],
                   !.call = [op |-> "transmit"]]

UartReceive(u, n) ==
    IF ~u.on THEN Refused(u, "NOT_STARTED")
    ELSE IF u.rx.core THEN Refused(u, "BUSY")
    ELSE LET id == u.started + 1 IN
         [u EXCEPT !.started = id, !.rx = [NoUnits EXCEPT !.id = id, !.n = n, !.core = TRUE],
                   !.call = [op |-> "receive"]]

Ended(u, d, st) == [Event(u, d, st, u[d].i) EXCEPT !.call = Idle]

UartSends(u) ==
    CASE u.tx.i < u.tx.n /\ Txe(u.hw) -> [u EXCEPT !.tx.i = @ + 1, !.hw = Written(@, <<u.tx.id, u.tx.i + 1>>)]
      [] u.tx.i = u.tx.n /\ u.hw.tc -> Ended(u, "tx", "OK")
      [] OTHER -> Ended(u, "tx", "TIMEOUT")
UartReads(u) ==
    IF u.hw.rd = <<>> THEN Ended(u, "rx", "TIMEOUT")
    ELSE LET v == [u EXCEPT !.rx.i = @ + 1, !.got = Append(@, Head(u.hw.rd)), !.hw.rd = Tail(@), !.hw.bad = "none"]
         IN  IF v.rx.i < v.rx.n THEN v ELSE Ended(v, "rx", "OK")
UartPoll(u) == IF u.call.op = "transmit" THEN UartSends(u) ELSE UartReads(u)

(* An abort looks at the core's flag, then stops the port: what the          *)
(* interrupt does in between is not seen again.                             *)
UartAbort(u, d) ==
    IF ~u.on THEN Refused(u, "NOT_STARTED")
    ELSE IF ~u[d].core THEN u
    ELSE IF u.port # "ch32" THEN Refused(u, "UNSUPPORTED")
    ELSE [u EXCEPT !.call = [op |-> "abort", dir |-> d, done |-> None]]

AbortCounts(u) ==
    LET v == IF u.call.dir = "tx" THEN [u EXCEPT !.hw.txie = FALSE, !.hw.tcie = FALSE] ELSE u
    IN  [v EXCEPT !.call.done = u[u.call.dir].i]

AbortEnds(u) == [Event(u, u.call.dir, "ABORTED", u.call.done) EXCEPT !.call = Idle]

(* The line: the sender shifts one byte out, a byte arrives, good or with a   *)
(* parity or framing error, which the handler treats alike.                 *)
ShiftedOut(u) ==
    [u EXCEPT !.wire = Append(@, u.hw.sh), !.hw.sh = u.hw.dr, !.hw.dr = NoByte, !.hw.tc = u.hw.dr = NoByte]

ReceiverDepth(port) == IF port = "ch32" THEN 1 ELSE 2

ByteArrives(u, damage) ==
    LET byte == u.arrived + 1
        room == Len(u.hw.rd) < ReceiverDepth(u.port)
        bad  == IF u.port # "ch32" \/ u.hw.bad # "none" THEN u.hw.bad
                ELSE IF room THEN damage ELSE "ORE"
    IN  [u EXCEPT !.arrived = byte, !.hw.bad = bad,
                  !.hw.rd = IF room THEN Append(@, byte) ELSE @]

-----------------------------------------------------------------------------
(* The actions of the UART.  The application is one thread; the call back of *)
(* an event may start the next transfer of its direction, n units long.      *)

InUart == drv.kind = "uart"
AtRest(d) == d.call = Idle
Restarted(u, before, n) ==
    IF n = 0 \/ u.started = MaxTransfers THEN u
    ELSE IF before.tx.core /\ ~u.tx.core THEN UartTransmitAsync(u, n)
    ELSE IF before.rx.core /\ ~u.rx.core THEN UartReceiveAsync(u, n)
    ELSE u

UartLifeCycle ==
    /\ InUart /\ AtRest(drv)
    /\ \/ ~drv.ready /\ drv' = UartInit(drv)
       \/ drv' = UartDeinit(drv)
       \/ \E accepted \in BOOLEAN : drv' = UartStart(drv, accepted)
       \/ drv' = UartStop(drv)

UartTransfer ==
    /\ InUart /\ AtRest(drv) /\ drv.started < MaxTransfers
    /\ \E n \in Lengths : \/ drv' = UartTransmitAsync(drv, n)
                          \/ drv' = UartReceiveAsync(drv, n)
                          \/ drv' = UartTransmit(drv, n)
                          \/ drv' = UartReceive(drv, n)

UartAborts ==
    /\ InUart
    /\ \/ AtRest(drv) /\ \E d \in {"tx", "rx"} : drv' = UartAbort(drv, d)
       \/ drv.call.op = "abort" /\ drv' = IF drv.call.done = None THEN AbortCounts(drv) ELSE AbortEnds(drv)

UartPolls == InUart /\ drv.call.op \in {"transmit", "receive"} /\ drv' = UartPoll(drv)

UartIrq ==
    /\ InUart /\ IrqPending(drv.hw)
    /\ \E n \in {0} \cup Lengths : drv' = Restarted(IrqHandler(drv), drv, n)

UartShifts == InUart /\ drv.on /\ drv.hw.sh # NoByte /\ drv' = ShiftedOut(drv)

UartArrives ==
    /\ InUart /\ drv.on /\ drv.arrived < MaxArrivals
    /\ \E damage \in {"none", "LINE"} : drv' = ByteArrives(drv, damage)

UartNext ==
    \/ UartLifeCycle \/ UartTransfer \/ UartAborts \/ UartPolls
    \/ UartIrq \/ UartShifts \/ UartArrives

UartFairness == WF_drv(UartPolls) /\ WF_drv(UartIrq) /\ WF_drv(UartShifts) /\ WF_drv(UartAborts /\ ~AtRest(drv))

-----------------------------------------------------------------------------
(* I2C and SPI share the shape of their cores: Init clears the context      *)
(* before the port has agreed.  ready and on are the core's flags, up and   *)
(* running the port's.                                                      *)

CoreInit(p) == [p EXCEPT !.ready = IsOk(p), !.on = FALSE]
CoreDeinit(d, p) ==
    IF ~d.ready THEN Ok(d) ELSE IF IsOk(p) THEN [p EXCEPT !.ready = FALSE, !.on = FALSE] ELSE p
CoreStart(d, p) ==
    IF ~d.ready THEN Returned(d, "NOT_INITIALIZED") ELSE IF d.on THEN Ok(d) ELSE [p EXCEPT !.on = IsOk(p)]
CoreStop(d, p) ==
    IF ~d.ready THEN Returned(d, "NOT_INITIALIZED") ELSE IF ~d.on THEN Ok(d) ELSE [p EXCEPT !.on = FALSE]
Usable(d) == IF ~d.ready THEN "NOT_INITIALIZED" ELSE IF ~d.on THEN "NOT_STARTED" ELSE "OK"

-----------------------------------------------------------------------------
(* I2C.  A call is one step: it waits at several points for the device, and *)
(* the device may fail it at one of them.  held: the bus saw a START and no *)
(* STOP; last is the latest transaction that had the bus.                   *)

I2cOff(port) ==
    [kind |-> "i2c", port |-> port, ready |-> FALSE, on |-> FALSE, up |-> FALSE, running |-> FALSE,
     st |-> "OK", call |-> Idle, held |-> FALSE, late |-> FALSE, started |-> 0,
     last |-> [st |-> "none", tx |-> 0, rx |-> 0, sent |-> 0, read |-> 0]]

(* works: the controller comes out of its reset in time.                    *)
I2cCh32Init(d) == [d EXCEPT !.up = TRUE, !.held = FALSE, !.st = "OK"]
I2cTiInit(d, works) ==
    IF d.up THEN Returned(d, "INVALID_STATE")
    ELSE IF ~works THEN Returned(d, "TIMEOUT")
    ELSE [d EXCEPT !.up = TRUE, !.running = FALSE, !.held = FALSE, !.st = "OK"]
I2cPortInit(d, works) == IF d.port = "ch32" THEN I2cCh32Init(d) ELSE I2cTiInit(d, works)
I2cPortDeinit(d) == [d EXCEPT !.up = FALSE, !.running = FALSE, !.held = FALSE, !.st = "OK"]
I2cPortStart(d) == [d EXCEPT !.running = TRUE, !.st = "OK"]
I2cPortStop(d) == [d EXCEPT !.running = FALSE, !.held = FALSE, !.st = "OK"]

I2cInit(d, works) == CoreInit(I2cPortInit(d, works))
I2cDeinit(d) == CoreDeinit(d, I2cPortDeinit(d))
I2cStart(d) == CoreStart(d, I2cPortStart(d))
I2cStop(d) == CoreStop(d, I2cPortStop(d))

(* Where a transaction of tx bytes out and rx bytes in waits.               *)
Repeat(point, n) == [i \in 1..n |-> [at |-> point, i |-> i]]
Ch32Points(tx, rx) ==
    (IF tx = 0 THEN <<>> ELSE Repeat("start", 1) \o Repeat("addr", 1) \o Repeat("txe", tx) \o Repeat("btf", 1))
    \o (IF rx = 0 THEN <<>> ELSE Repeat("restart", 1) \o Repeat("raddr", 1) \o Repeat("rxne", rx))
TiPoints(tx, rx) ==
    Repeat("xrdy", tx) \o (IF tx = 0 THEN <<>> ELSE Repeat("ardy", 1)) \o Repeat("rrdy", rx) \o Repeat("bf", 1)

Bytes(points, k, kinds) == Cardinality({i \in 1..k : points[i].at \in kinds})
Transaction(d, st, tx, rx, sent, read) ==
    [d EXCEPT !.st = st, !.started = @ + 1,
              !.last = [st |-> st, tx |-> tx, rx |-> rx, sent |-> sent, read |-> read]]

BusBusy(d) == [d EXCEPT !.st = "TIMEOUT", !.started = @ + 1]
Refusal(points, passed, k, why, kinds) ==
    IF /\ k # 0 /\ why = "NACK" /\ points[k].at \in kinds \cup {"btf", "ardy"}
       /\ Bytes(points, passed, kinds) > 0 THEN 1 ELSE 0

(* The CH32H417 port gives the bus back with a STOP on every way out but    *)
(* one: the wait for a byte that is not the last of a read.                 *)
Ch32Transfer(d, tx, rx, k, why) ==
    LET w == Ch32Points(tx, rx)
        passed == IF k = 0 THEN Len(w) ELSE k - 1
        sent == Bytes(w, passed, {"txe"}) - Refusal(w, passed, k, why, {"txe"})
    IN  IF d.held THEN BusBusy(d)
        ELSE [Transaction(d, IF k = 0 THEN "OK" ELSE why, tx, rx, sent, Bytes(w, passed, {"rxne"}))
              EXCEPT !.held = k # 0 /\ w[k].at = "rxne" /\ w[k].i < rx]

Ch32Fails(w, why) == why = "TIMEOUT" \/ (why = "NACK" /\ w.at \in {"addr", "txe", "btf", "raddr"})

(* The AM243x port always ends with a STOP and waits for the bus to be      *)
(* free, but looks for a NACK only while bytes are left to pass: one for    *)
(* the last byte of a write is found by the read that follows, if any.      *)
TiTransfer(d, tx, rx, k, why, freed) ==
    LET w == TiPoints(tx, rx)
        late == k # 0 /\ w[k].at = "ardy" /\ why = "NACK" /\ rx = 0
        passed == IF k = 0 \/ late THEN Len(w) ELSE k - 1
        st == IF k # 0 /\ ~late THEN why ELSE IF freed THEN "OK" ELSE "TIMEOUT"
        sent == Bytes(w, passed, {"xrdy"}) - Refusal(w, passed, k, why, {"xrdy"})
    IN  IF d.held THEN BusBusy(d)
        ELSE [Transaction(d, st, tx, rx, sent, Bytes(w, passed, {"rrdy"})) EXCEPT !.held = ~freed, !.late = late]

TiFails(w, why) ==
    IF w.at \in {"xrdy", "rrdy"} THEN TRUE ELSE IF w.at = "ardy" THEN why \in {"NACK", "TIMEOUT"} ELSE why = "TIMEOUT"

I2cFaults == {"NACK", "ARBITRATION_LOST", "BUS_ERROR", "TIMEOUT"}

-----------------------------------------------------------------------------
(* The actions of I2C.                                                      *)

InI2c == drv.kind = "i2c"

I2cLifeCycle ==
    /\ InI2c
    /\ \/ \E works \in BOOLEAN : drv' = I2cInit(drv, works)
       \/ drv' = I2cDeinit(drv)
       \/ drv' = I2cStart(drv)
       \/ drv' = I2cStop(drv)

(* Write, Read and Write_Read.                                              *)
I2cTransfer ==
    /\ InI2c /\ drv.started < MaxTransfers
    /\ \E tx, rx \in 0..MaxLength + 1 :
        /\ tx + rx > 0
        /\ IF Usable(drv) # "OK" THEN drv' = Returned(drv, Usable(drv))
           ELSE \/ /\ drv.port = "ch32"
                   /\ \/ drv' = Ch32Transfer(drv, tx, rx, 0, "none")
                      \/ \E k \in 1..Len(Ch32Points(tx, rx)), why \in I2cFaults :
                            /\ Ch32Fails(Ch32Points(tx, rx)[k], why)
                            /\ drv' = Ch32Transfer(drv, tx, rx, k, why)
                \/ /\ drv.port = "am243x"
                   /\ \E freed \in BOOLEAN :
                        \/ drv' = TiTransfer(drv, tx, rx, 0, "none", freed)
                        \/ \E k \in 1..Len(TiPoints(tx, rx)), why \in I2cFaults :
                            /\ TiFails(TiPoints(tx, rx)[k], why)
                            /\ TiPoints(tx, rx)[k].at = "bf" => ~freed
                            /\ drv' = TiTransfer(drv, tx, rx, k, why, freed)

I2cUnsupported == InI2c /\ drv' = Returned(drv, IF Usable(drv) = "OK" THEN "UNSUPPORTED" ELSE Usable(drv))
I2cFreed == InI2c /\ drv.held /\ drv.port = "am243x" /\ drv' = [drv EXCEPT !.held = FALSE]

I2cNext == I2cLifeCycle \/ I2cTransfer \/ I2cUnsupported \/ I2cFreed

-----------------------------------------------------------------------------
(* SPI.  The loop reads the status once, then writes and reads on what it   *)
(* saw, while the shift register moves on.  A word that comes back carries  *)
(* the name of the one it was exchanged for.  cut: a transfer was given up  *)
(* since the peripheral was reset.                                          *)

SpiReset == [dr |-> NoByte, sh |-> NoByte, tc |-> TRUE, rd |-> <<>>]
SpiOff(port) ==
    [kind |-> "spi", port |-> port, ready |-> FALSE, on |-> FALSE, up |-> FALSE, running |-> FALSE,
     st |-> "OK", call |-> Idle, hw |-> SpiReset, cs |-> FALSE, cut |-> FALSE, started |-> 0,
     last |-> [st |-> "none", id |-> 0, n |-> 0, got |-> <<>>, cut |-> FALSE]]

SpiCh32Init(d) == [d EXCEPT !.up = TRUE, !.hw = SpiReset, !.cut = FALSE, !.st = "OK"]
SpiTiInit(d, works) ==
    IF d.up THEN Returned(d, "INVALID_STATE")
    ELSE IF ~works THEN Returned(d, "TIMEOUT")
    ELSE [d EXCEPT !.up = TRUE, !.st = "OK"]
SpiPortInit(d, works) == IF d.port = "ch32" THEN SpiCh32Init(d) ELSE SpiTiInit(d, works)
SpiCh32Deinit(d) == [d EXCEPT !.up = FALSE, !.running = FALSE, !.hw = SpiReset, !.cut = FALSE, !.st = "OK"]
SpiTiDeinit(d, works) ==
    IF ~d.up THEN Returned(d, "NOT_INITIALIZED")
    ELSE IF ~works THEN Returned(d, "TIMEOUT")
    ELSE [d EXCEPT !.up = FALSE, !.running = FALSE, !.st = "OK"]
SpiPortDeinit(d, works) == IF d.port = "ch32" THEN SpiCh32Deinit(d) ELSE SpiTiDeinit(d, works)
SpiPortStart(d) == IF d.port = "am243x" /\ ~d.up THEN Returned(d, "NOT_INITIALIZED")
                   ELSE [d EXCEPT !.running = TRUE, !.st = "OK"]
SpiPortStop(d) == [d EXCEPT !.running = FALSE, !.st = "OK"]

SpiInit(d, works) == CoreInit(SpiPortInit(d, works))
SpiDeinit(d, works) == CoreDeinit(d, SpiPortDeinit(d, works))
SpiStart(d) == CoreStart(d, SpiPortStart(d))
SpiStop(d) == CoreStop(d, SpiPortStop(d))

(* fits: a clock rate that is not zero, a chip select the controller has.   *)
SpiBegins(d, n, fits) ==
    IF ~d.running THEN Returned(d, "NOT_STARTED")
    ELSE IF ~fits THEN Returned(d, "INVALID_ARG")
    ELSE [d EXCEPT !.started = @ + 1, !.cs = d.port = "am243x",
                   !.call = [op |-> "transfer", pc |-> "poll", n |-> n, tx |-> 0, rx |-> 0, got |-> <<>>,
                             txe |-> FALSE, rxne |-> FALSE]]
SpiTransfer(d, n, fits) == IF Usable(d) # "OK" THEN Returned(d, Usable(d)) ELSE SpiBegins(d, n, fits)

SpiMore(c) == c.tx < c.n \/ c.rx < c.n
SpiSees(d) ==
    /\ d.call.pc = "poll" /\ SpiMore(d.call)
    /\ (Txe(d.hw) /\ d.call.tx < d.call.n) \/ (d.hw.rd # <<>> /\ d.call.rx < d.call.n)
SpiPoll(d) == [d EXCEPT !.call.pc = "write", !.call.txe = Txe(d.hw), !.call.rxne = d.hw.rd # <<>>]

SpiWrite(d) ==
    LET c == d.call IN
    IF c.txe /\ c.tx < c.n
    THEN [d EXCEPT !.call.pc = "read", !.call.tx = @ + 1, !.hw = Written(@, <<d.started, c.tx + 1>>)]
    ELSE [d EXCEPT !.call.pc = "read"]

SpiRead(d) ==
    LET c == d.call IN
    IF c.rxne /\ c.rx < c.n
    THEN [d EXCEPT !.call.pc = "poll", !.call.rx = @ + 1, !.call.got = Append(@, Head(d.hw.rd)), !.hw.rd = <<>>]
    ELSE [d EXCEPT !.call.pc = "poll"]

SpiLast(d, st) ==
    [d EXCEPT !.st = st, !.call = Idle, !.cs = FALSE,
              !.last = [st |-> st, id |-> d.started, n |-> d.call.n, got |-> d.call.got, cut |-> d.cut]]

(* The CH32H417 port leaves what is still moving behind; the AM243x port    *)
(* switches the channel off, and reports a time-out whenever its guard is   *)
(* used up, also by the last word or by having none.                        *)
SpiEnd(d, expired) ==
    IF d.port = "am243x"
    THEN [SpiLast(d, IF expired \/ d.call.n = 0 THEN "TIMEOUT" ELSE "OK") EXCEPT !.hw = SpiReset]
    ELSE IF SpiMore(d.call) \/ ~d.hw.tc THEN [SpiLast(d, "TIMEOUT") EXCEPT !.cut = TRUE]
    ELSE SpiLast(d, "OK")

SpiShifted(d) ==
    LET h == d.hw
        rd == IF h.rd = <<>> THEN <<h.sh>> ELSE h.rd
    IN  [d EXCEPT !.hw = [sh |-> h.dr, dr |-> NoByte, tc |-> h.dr = NoByte, rd |-> rd]]

InSpi == drv.kind = "spi"

SpiLifeCycle ==
    /\ InSpi /\ AtRest(drv)
    /\ \/ \E works \in BOOLEAN : drv' = SpiInit(drv, works)
       \/ \E works \in BOOLEAN : drv' = SpiDeinit(drv, works)
       \/ drv' = SpiStart(drv)
       \/ drv' = SpiStop(drv)

SpiTransfers ==
    /\ InSpi /\ AtRest(drv) /\ drv.started < MaxTransfers
    /\ \E n \in 0..MaxLength + 1, fits \in BOOLEAN : drv' = SpiTransfer(drv, n, fits)

SpiLoops ==
    /\ InSpi /\ drv.call.op = "transfer"
    /\ \/ SpiSees(drv) /\ drv' = SpiPoll(drv)
       \/ drv.call.pc = "write" /\ drv' = SpiWrite(drv)
       \/ drv.call.pc = "read" /\ drv' = SpiRead(drv)

SpiEnds ==
    /\ InSpi /\ drv.call.op = "transfer" /\ drv.call.pc = "poll"
    /\ \E expired \in BOOLEAN : (SpiMore(drv.call) => expired) /\ drv' = SpiEnd(drv, expired)

SpiShifts ==
    /\ InSpi /\ drv.hw.sh # NoByte
    /\ drv.port = "am243x" => drv.hw.rd = <<>>
    /\ drv' = SpiShifted(drv)

SpiNext == SpiLifeCycle \/ SpiTransfers \/ SpiLoops \/ SpiEnds \/ SpiShifts

-----------------------------------------------------------------------------
(* The timer.  A register holds TimerWidth values, the counter of the       *)
(* AM243x TimerWidth of them; the period is in cycles of a clock of clk     *)
(* cycles per microsecond.                                                  *)

Scale[q \in Nat \X Nat] == IF q[2] < TimerWidth THEN q ELSE Scale[<<2 * q[1], q[2] \div 2>>]
LessOne(n) == IF n > 0 THEN n - 1 ELSE 0
Ch32Period(clk, us) ==
    LET s == Scale[<<clk, us>>] IN ((LessOne(s[1]) % TimerWidth) + 1) * ((LessOne(s[2]) % TimerWidth) + 1)
TiPeriod(clk, us) == TimerWidth - ((TimerWidth - ((clk * us) % TimerWidth)) % TimerWidth)

TimerOff(port) ==
    [kind |-> "timer", port |-> port, ready |-> FALSE, up |-> FALSE, call |-> Idle, counting |-> FALSE, enabled |-> FALSE,
     raised |-> FALSE, clk |-> 0, us |-> 0, period |-> 0]

(* Loading the registers of the CH32H417 raises the update flag by itself.  *)
TimerInit(d, clk, us) ==
    [d EXCEPT !.ready = TRUE, !.up = TRUE, !.counting = FALSE, !.enabled = TRUE, !.raised = d.port = "ch32",
              !.clk = clk, !.us = us, !.period = IF d.port = "ch32" THEN Ch32Period(clk, us) ELSE TiPeriod(clk, us)]
(* The AM243x port leaves the timer as it runs.                             *)
TimerDeinit(d) ==
    IF ~d.ready THEN d
    ELSE [d EXCEPT !.ready = FALSE, !.up = FALSE, !.counting = d.port = "am243x" /\ @, !.enabled = d.port = "am243x"]
TimerStart(d) == IF d.ready THEN [d EXCEPT !.counting = TRUE] ELSE d
TimerStop(d) == IF d.ready THEN [d EXCEPT !.counting = FALSE] ELSE d
TimerClearIrq(d) == IF d.ready THEN [d EXCEPT !.raised = FALSE] ELSE d

InTimer == drv.kind = "timer"
TimerNext ==
    /\ InTimer
    /\ \/ \E clk \in 1..4, us \in 0..4 * TimerWidth : drv' = TimerInit(drv, clk, us)
       \/ drv' = TimerDeinit(drv)
       \/ drv' = TimerStart(drv)
       \/ drv' = TimerStop(drv)
       \/ drv' = TimerClearIrq(drv)
       \/ drv.counting /\ drv' = [drv EXCEPT !.raised = TRUE]

-----------------------------------------------------------------------------
(* GPIO.  Two tasks, each with a pin of its own, share the registers of one *)
(* port: mode, speed and function are read, changed and written back, the   *)
(* output latch is set and cleared by a write that names the pin.  want is  *)
(* what the owner of a pin asked for; overlap: two configurations ran at    *)
(* the same time.                                                           *)

Pins == {1, 2}
AtReset == [cfg |-> "floating", speed |-> 0, af |-> 0]
Registers == DOMAIN AtReset
Wishes ==
    [mode : {"up", "down", "output"}, speed : {1}, af : {0}]
        \cup [mode : {"alternate"}, speed : {1}, af : {1, 16}]
Level(mode, before) == IF mode = "up" THEN 1 ELSE IF mode = "down" THEN 0 ELSE before

GpioOff ==
    [kind |-> "gpio", port |-> "ch32", ready |-> FALSE, call |-> Idle,
     reg |-> [r \in Registers |-> [p \in Pins |-> AtReset[r]]], out |-> [p \in Pins |-> 0],
     want |-> [p \in Pins |-> [cfg |-> "floating", speed |-> 0, af |-> 0, out |-> 0]], started |-> 0,
     task |-> [p \in Pins |-> Idle], overlap |-> FALSE]

GpioInit(g) == [g EXCEPT !.ready = TRUE]
GpioDeinit(g) == IF ~g.ready THEN Refused(g, "NOT_INITIALIZED") ELSE [g EXCEPT !.ready = FALSE]

(* The values of the registers; speed has one above its reset value.        *)
Wanted(w) == [cfg |-> w.mode, speed |-> w.speed, af |-> w.af]
ConfigurePin(g, p, w) ==
    IF ~g.ready THEN Refused(g, "NOT_INITIALIZED")
    ELSE [g EXCEPT !.started = @ + 1,
                   !.task[p] = [op |-> "configure", at |-> "cfg", seen |-> <<>>, wish |-> w],
                   !.overlap = @ \/ \E q \in Pins \ {p} : g.task[q].op = "configure"]

ReadRegister(g, p) == [g EXCEPT !.task[p].seen = g.reg[g.task[p].at]]

(* After the mode the speed; then the pull of an input, and the function of *)
(* an alternate pin, refused only now when it is none.                      *)
WriteRegister(g, p) ==
    LET t == g.task[p]
        v == [g EXCEPT !.reg[t.at] = [t.seen EXCEPT ![p] = Wanted(t.wish)[t.at]],
                      !.want[p][t.at] = IF g.overlap THEN @ ELSE Wanted(t.wish)[t.at]]
        last == t.at = "af" \/ (t.at = "speed" /\ t.wish.af \notin 1..15)
    IN  IF ~last THEN [v EXCEPT !.task[p].at = IF t.at = "cfg" THEN "speed" ELSE "af", !.task[p].seen = <<>>]
        ELSE [v EXCEPT !.task[p] = Idle, !.out[p] = Level(t.wish.mode, @), !.want[p].out = Level(t.wish.mode, @)]

PinWrite(g, p, level) == IF ~g.ready THEN Refused(g, "NOT_INITIALIZED")
                         ELSE [g EXCEPT !.started = @ + 1, !.out[p] = level, !.want[p].out = level]

(* Read the latch, then clear or set one bit of it.                         *)
PinToggle(g, p) == IF ~g.ready THEN Refused(g, "NOT_INITIALIZED")
                   ELSE [g EXCEPT !.started = @ + 1, !.task[p] = [op |-> "toggle", odr |-> g.out]]
Toggled(g, p) == [g EXCEPT !.task[p] = Idle, !.out[p] = 1 - g.task[p].odr[p], !.want[p].out = 1 - @]

InGpio == drv.kind = "gpio"

GpioLifeCycle ==
    /\ InGpio /\ \A p \in Pins : drv.task[p] = Idle
    /\ drv' = GpioInit(drv) \/ drv' = GpioDeinit(drv)

GpioCalls ==
    /\ InGpio /\ drv.started <= MaxTransfers
    /\ \E p \in Pins :
        /\ drv.task[p] = Idle
        /\ \/ \E w \in Wishes : drv' = ConfigurePin(drv, p, w)
           \/ \E level \in {0, 1} : drv' = PinWrite(drv, p, level)
           \/ drv' = PinToggle(drv, p)

GpioSteps ==
    /\ InGpio
    /\ \E p \in Pins :
        \/ drv.task[p].op = "toggle" /\ drv' = Toggled(drv, p)
        \/ /\ drv.task[p].op = "configure"
           /\ drv' = IF drv.task[p].seen = <<>> THEN ReadRegister(drv, p) ELSE WriteRegister(drv, p)

GpioNext == GpioLifeCycle \/ GpioCalls \/ GpioSteps

-----------------------------------------------------------------------------
(* All of them.                                                             *)

DriversInit ==
    drv \in {UartOff(b) : b \in Boards} \cup {I2cOff(b) : b \in Boards} \cup {SpiOff(b) : b \in Boards}
            \cup {TimerOff(b) : b \in Boards} \cup {GpioOff}

DriversNext == UartNext \/ I2cNext \/ SpiNext \/ TimerNext \/ GpioNext
DriversFairness == UartFairness /\ WF_drv(SpiLoops) /\ WF_drv(SpiEnds)

-----------------------------------------------------------------------------
(* What the drivers promise.                                                *)

SentOf(u, id) == {k \in Lengths : \E i \in DOMAIN u.wire : u.wire[i] = <<id, k>>}
Before(a, b) == a[1] < b[1] \/ (a[1] = b[1] /\ a[2] < b[2])
Consecutive(s) == \A i \in 1..Len(s) - 1 : s[i + 1] = s[i] + 1
Entries(u) == {u.log[i] : i \in DOMAIN u.log}

(* A finished transmission is on the wire whole, before the next and in     *)
(* order, a finished reception by interrupt has no hole, a transfer is      *)
(* answered once (an abort that lost the race answers it again), and none   *)
(* that core and port have forgotten is without an answer.                  *)
UartTruth(u) ==
    /\ \A i \in 1..Len(u.wire) - 1 : Before(u.wire[i], u.wire[i + 1])
    /\ \A id \in 1..u.started : \A k \in SentOf(u, id) : 1..k \subseteq SentOf(u, id)
    /\ \A e \in Entries(u) :
        /\ e.dir = "tx" /\ e.ev \in {"COMPLETE", "OK"} => SentOf(u, e.id) = 1..e.n /\ e.k = e.n
        /\ e.dir = "rx" /\ e.ev = "COMPLETE" => Len(e.data) = e.n /\ Consecutive(e.data)
    /\ \A i, j \in DOMAIN u.log :
        i < j /\ u.log[i].id = u.log[j].id => u.log[j].ev = "ABORTED" /\ u.log[i].ev # "ABORTED"
    /\ AtRest(u) => \A d \in {"tx", "rx"} : u[d].core = u[d].busy
    /\ \A id \in 1..u.started :
        \/ \E e \in Entries(u) : e.id = id
        \/ \E d \in {"tx", "rx"} : u[d].id = id /\ u[d].core

(* A transmission by interrupt of more than one byte comes to its end, and  *)
(* so does every blocking call and every abort.                             *)
UartAnswered ==
    /\ \A id \in 1..MaxTransfers :
        (InUart /\ drv.tx.id = id /\ drv.tx.core /\ drv.tx.n > 1)
            ~> (InUart /\ \E e \in Entries(drv) : e.id = id)
    /\ (InUart /\ ~AtRest(drv)) ~> (InUart /\ AtRest(drv))

(* A transaction that succeeded passed every byte both ways (the AM243x     *)
(* port may miss the refusal of the last byte it wrote); the bus is left    *)
(* occupied only after a time-out, for which a read of the CH32H417 port    *)
(* stopped short or the STOP of the AM243x port went unanswered; the core   *)
(* never believes in a port that is not there.                              *)
I2cTruth(d) ==
    LET l == d.last IN
    /\ l.st = "OK" => l.read = l.rx /\ (l.sent = l.tx \/ (d.late /\ l.sent = l.tx - 1))
    /\ d.held /\ d.port = "ch32" => l.st = "TIMEOUT" /\ l.read < l.rx - 1 /\ l.sent \in {0, l.tx}
    /\ d.held /\ d.port = "am243x" => l.st # "OK"
    /\ (d.ready => d.up) /\ (d.on => d.ready /\ d.running)

(* A transfer that succeeded read back the words it wrote, each once and in *)
(* order, whatever the loop and the shift register did to each other,       *)
(* unless an earlier one was cut short; the chip is selected only while a   *)
(* transfer runs.                                                           *)
SpiTruth(d) ==
    /\ d.last.st = "OK" /\ ~d.last.cut => d.last.got = [i \in 1..d.last.n |-> <<d.last.id, i>>]
    /\ d.cs => ~AtRest(d)
    /\ d.port = "am243x" => ~d.cut
    /\ (d.ready => d.up) /\ (d.on => d.ready /\ d.running)

SpiAnswered == (InSpi /\ ~AtRest(drv)) ~> (InSpi /\ AtRest(drv))

(* A timer is never slower than asked.  The CH32H417 timer is exact for a   *)
(* period that fits its register and else faster by less than the cycles    *)
(* its halvings drop, as long as its prescaler fits; that of the AM243x is  *)
(* exact while the counter is wide enough.  No timer counts once it is shut *)
(* down, but that of the AM243x.                                            *)
TimerTruth(d) ==
    LET wanted == d.clk * d.us
        s == Scale[<<d.clk, d.us>>]
    IN  /\ d.ready /\ d.us > 0 /\ d.port = "ch32" /\ s[1] <= TimerWidth =>
            /\ d.period <= wanted /\ wanted - d.period < s[1]
            /\ d.us < TimerWidth => d.period = wanted
        /\ d.ready /\ d.port = "am243x" /\ wanted \in 1..TimerWidth => d.period = wanted
        /\ d.port = "ch32" /\ d.counting => d.ready

(* The level of a pin is the one its owner asked for last, whatever the     *)
(* other task does meanwhile; so are its mode, speed and function, as long  *)
(* as no two configurations of the port overlapped.                         *)
GpioTruth(g) ==
    /\ \A p \in Pins : g.out[p] = g.want[p].out
    /\ ~g.overlap => \A p \in Pins, r \in Registers : g.reg[r][p] = g.want[p][r]

(* What holds of the peripheral in use (see above).                         *)
DriversTruth ==
    CASE drv.kind = "uart" -> UartTruth(drv)
      [] drv.kind = "i2c" -> I2cTruth(drv)
      [] drv.kind = "spi" -> SpiTruth(drv)
      [] drv.kind = "timer" -> TimerTruth(drv)
      [] drv.kind = "gpio" -> GpioTruth(drv)
      [] OTHER -> TRUE

DriversAnswered == UartAnswered /\ SpiAnswered
=============================================================================
