------------------------------- MODULE Xapps -------------------------------
(* The applications: the xBRIDGE channels, the xLOGIC analyser and the      *)
(* xUSBIP tables.  A behaviour has one of them, the record app.             *)
EXTENDS XusbCalls, SequencesExt

CONSTANTS
    MaxPayload,         \* xBRIDGE_MAX_PAYLOAD_BYTES
    QueueBytes,         \* xBRIDGE_UART_QUEUE_BYTES
    ChunkBytes,         \* bytes the UART bridge moves at a time
    MaxBytes,           \* bytes sent through the UART bridge, each way
    LineMax,            \* xBRIDGE_CAN_SLCAN_LINE_MAX
    MaxLines,           \* lines and CAN frames of a SLCAN session
    MaxSamples,         \* samples of a capture
    MaxArms,            \* captures, aborts and failed uploads
    MaxUrbs,            \* transfers a client submits
    UrbSlots,           \* xUSBIP_CONFIG_MAX_PENDING_URBS
    UrbTimeout,         \* xUSBIP_CONFIG_URB_TIMEOUT_MS
    ClockWidth          \* values of the millisecond clock

ASSUME AppsAssumption ==
    /\ {MaxPayload, ChunkBytes, MaxBytes, LineMax, MaxLines, MaxSamples, MaxArms, MaxUrbs, UrbSlots, UrbTimeout}
          \subseteq Nat \ {0}
    /\ QueueBytes \in Nat /\ QueueBytes >= 2
    /\ ClockWidth \in Nat /\ ClockWidth > UrbTimeout

VARIABLE app

-----------------------------------------------------------------------------
(* xBRIDGE, the channels that speak frames.  A frame f has got bytes of     *)
(* which its header claims length for the payload; its data holds n bytes   *)
(* to move, r bytes to read back, an index idx, a value and a flag.  An     *)
(* order ends as what was done with the peripheral, a status and the bytes  *)
(* of its answer; cs are the chips left selected, bits the resolution.      *)

HeaderBytes == 8
Frame(cmd, length, n, r, idx, value, keep) ==
    [cmd |-> cmd, length |-> length, got |-> HeaderBytes + length, n |-> n, r |-> r, idx |-> idx, value |-> value, keep |-> keep]

ParseFrame(f) ==
    IF f.got < HeaderBytes \/ HeaderBytes + f.length > f.got THEN "PARSE_ERROR"
    ELSE IF f.length > MaxPayload THEN "FRAME_TOO_LARGE" ELSE "OK"

NoOrder == [f |-> Frame("none", 0, 0, 0, 0, 0, FALSE), did |-> <<>>, status |-> "none", len |-> 0, replies |-> 0]
ChannelIdle(ch) ==
    [kind |-> "bridge", ch |-> ch, cs |-> {}, bits |-> 0, unit |-> 0, mode |-> "none", hz |-> 0, st |-> "OK", last |-> NoOrder]

(* A channel starts from zeroed memory; the converter's core takes it to    *)
(* measure 12 bits, and the debug port's to be clocked at 1 MHz.            *)
I2cChannel == ChannelIdle("i2c")
SpiChannel == ChannelIdle("spi")
QspiChannel == ChannelIdle("qspi")
GpioChannel == ChannelIdle("gpio")
PwmChannel == ChannelIdle("pwm")
AdcChannel == [ChannelIdle("adc") EXCEPT !.bits = 12, !.unit = 12]
DapChannel == [ChannelIdle("dap") EXCEPT !.hz = 1]

Concluded(b, f, did, status, len) ==
    [b EXCEPT !.last = [f |-> f, did |-> did, status |-> status, len |-> len, replies |-> 0]]
Refuse(b, f) == Concluded(b, f, <<>>, "ERROR", 0)
Do(b, f, works, len) ==
    Concluded(b, f, <<f.cmd, f.n>>, IF works THEN "OK" ELSE "ERROR", IF works THEN len ELSE 0)

(* Every channel's handlers check the payload against what they will read.  *)
I2cOrder(b, f, works) ==
    CASE f.cmd = "write" -> IF f.length < 4 \/ 4 + f.n > f.length THEN Refuse(b, f) ELSE Do(b, f, works, 0)
      [] f.cmd = "read" -> IF f.length < 4 \/ f.n > MaxPayload THEN Refuse(b, f) ELSE Do(b, f, works, f.n)
      [] f.cmd = "write_read" ->
            IF f.length < 6 \/ 6 + f.n > f.length \/ f.r > MaxPayload THEN Refuse(b, f) ELSE Do(b, f, works, f.r)
      [] f.cmd = "scan" -> Concluded(b, f, <<"scan", 0>>, "OK", IF works THEN f.r ELSE 0)
      [] f.cmd = "set_speed" -> IF f.length < 4 THEN Refuse(b, f) ELSE Do(b, f, works, 0)
      [] OTHER -> Refuse(b, f)

SpiTransferred(b, f, works, selects) ==
    IF ~selects THEN Concluded(b, f, <<"select", 0>>, "ERROR", 0)
    ELSE Do([b EXCEPT !.cs = IF f.keep THEN @ \cup {f.idx} ELSE @ \ {f.idx}], f, works, f.n)
SpiOrder(b, f, works, selects) ==
    CASE f.cmd = "transfer" ->
            IF f.length < 4 \/ 4 + f.n > f.length \/ f.n > MaxPayload THEN Refuse(b, f) ELSE SpiTransferred(b, f, works, selects)
      [] f.cmd \in {"cs_assert", "cs_deassert"} ->
            IF f.length < 1 THEN Refuse(b, f)
            ELSE Do(IF ~selects THEN b ELSE [b EXCEPT !.cs = IF f.cmd = "cs_assert" THEN @ \cup {f.idx} ELSE @ \ {f.idx}],
                    f, selects, 0)
      [] f.cmd = "set_mode" -> IF f.length < 2 THEN Refuse(b, f) ELSE Do(b, f, works, 0)
      [] f.cmd = "set_speed" -> IF f.length < 4 THEN Refuse(b, f) ELSE Do(b, f, works, 0)
      [] OTHER -> Refuse(b, f)

QspiOrder(b, f, works) ==       \* f.n is not compared with the payload
    CASE f.cmd = "transfer" -> IF f.length < 12 \/ f.n > MaxPayload THEN Refuse(b, f) ELSE Do(b, f, works, f.n)
      [] f.cmd = "set_speed" -> IF f.length < 4 THEN Refuse(b, f) ELSE Do(b, f, works, 0)
      [] OTHER -> Refuse(b, f)

GpioOrder(b, f, works) ==
    CASE f.cmd \in {"set_direction", "write", "set_pull"} -> IF f.length < 9 THEN Refuse(b, f) ELSE Do(b, f, works, 0)
      [] f.cmd = "read" -> IF f.length < 8 THEN Refuse(b, f) ELSE Do(b, f, works, 1)
      [] f.cmd = "toggle" -> IF f.length < 8 THEN Refuse(b, f) ELSE Do(b, f, works, 0)
      [] OTHER -> Refuse(b, f)

DutyMax == 2                    \* xBRIDGE_PWM_DUTY_MAX, scaled
PwmOrder(b, f, works) ==
    CASE f.cmd = "set_frequency" -> IF f.length < 8 THEN Refuse(b, f) ELSE Do(b, f, works, 0)
      [] f.cmd = "set_duty" -> IF f.length < 8 \/ f.value > DutyMax THEN Refuse(b, f) ELSE Do(b, f, works, 0)
      [] f.cmd \in {"enable", "disable"} -> IF f.length < 4 THEN Refuse(b, f) ELSE Do(b, f, works, 0)
      [] f.cmd = "set_polarity" -> IF f.length < 5 THEN Refuse(b, f) ELSE Do(b, f, works, 0)
      [] OTHER -> Refuse(b, f)

AdcChannels == 3                \* xBRIDGE_ADC_MAX_CHANNELS, scaled
AdcResolved(b, f, works) ==
    IF works THEN Do([b EXCEPT !.bits = f.value, !.unit = f.value], f, works, 0) ELSE Do(b, f, works, 0)
AdcOrder(b, f, works) ==
    CASE f.cmd = "read_single" -> IF f.length < 4 THEN Refuse(b, f) ELSE Do(b, f, works, 4)
      [] f.cmd = "read_multi" ->
            IF f.length < 4 \/ f.n \notin 1..AdcChannels THEN Refuse(b, f) ELSE Do(b, f, works, 4 * f.n)
      [] f.cmd = "set_resolution" ->
            IF f.length < 1 \/ f.value \notin {8, 10, 12, 16} THEN Refuse(b, f) ELSE AdcResolved(b, f, works)
      [] f.cmd = "set_reference" -> IF f.length < 1 THEN Refuse(b, f) ELSE Do(b, f, works, 0)
      [] f.cmd = "set_sample_rate" -> IF f.length < 4 THEN Refuse(b, f) ELSE Do(b, f, works, 0)
      [] OTHER -> Refuse(b, f)

DapOrder(b, f, works) ==        \* no header: length is the whole request
    CASE f.cmd = "connect" ->
            Concluded([b EXCEPT !.mode = IF f.length < 2 THEN "swd" ELSE IF f.value \in {"swd", "jtag"} THEN f.value ELSE "none"],
                      f, <<>>, "OK", 2)
      [] f.cmd = "disconnect" -> Concluded([b EXCEPT !.mode = "none"], f, <<>>, "OK", 2)
      [] f.cmd = "clock" ->
            Concluded(IF f.length < 5 THEN b ELSE [b EXCEPT !.hz = f.value], f, IF f.length < 5 THEN <<>> ELSE <<"clock", 0>>, "OK", 2)
      [] f.cmd = "sequence" -> Concluded(b, f, IF f.length < 2 + f.n THEN <<>> ELSE <<"sequence", f.n>>, "OK", 2)
      [] f.cmd = "reset" -> Concluded(b, f, <<"reset", 0>>, "OK", 3)
      [] f.cmd = "delay" -> Concluded(b, f, IF f.length < 3 THEN <<>> ELSE <<"delay", 0>>, "OK", 2)
      [] f.cmd \in {"info", "host_status"} -> Concluded(b, f, <<>>, "OK", 2)
      [] OTHER -> Concluded(b, f, <<>>, "ERROR", 2)

(* The answer is built and sent; a send that fails is the caller's error.   *)
Respond(b, sends) ==
    IF b.last.len > MaxPayload THEN Failed(b, "FRAME_TOO_LARGE")
    ELSE IF sends THEN [Ok(b) EXCEPT !.last.replies = 1] ELSE Failed(b, "USB")
FrameReceived(b, f, done) ==
    IF ParseFrame(f) = "OK" THEN done ELSE Failed(Concluded(b, f, <<>>, "none", 0), ParseFrame(f))
I2cReceive(b, f, works, sends) == FrameReceived(b, f, Respond(I2cOrder(b, f, works), sends))
SpiReceive(b, f, works, selects, sends) == FrameReceived(b, f, Respond(SpiOrder(b, f, works, selects), sends))
QspiReceive(b, f, works, sends) == FrameReceived(b, f, Respond(QspiOrder(b, f, works), sends))
GpioReceive(b, f, works, sends) == FrameReceived(b, f, Respond(GpioOrder(b, f, works), sends))
PwmReceive(b, f, works, sends) == FrameReceived(b, f, Respond(PwmOrder(b, f, works), sends))
AdcReceive(b, f, works, sends) == FrameReceived(b, f, Respond(AdcOrder(b, f, works), sends))
DapReceive(b, f, works, sends) ==
    IF f.length = 0 THEN Failed(Concluded(b, f, <<>>, "none", 0), "INVALID_ARGUMENT") ELSE Respond(DapOrder(b, f, works), sends)

Commands ==
    [i2c  |-> {"write", "read", "write_read", "scan", "set_speed", "unknown"},
     spi  |-> {"transfer", "cs_assert", "cs_deassert", "set_mode", "set_speed", "unknown"},
     qspi |-> {"transfer", "set_speed", "unknown"},
     gpio |-> {"set_direction", "write", "read", "set_pull", "toggle", "unknown"},
     pwm  |-> {"set_frequency", "set_duty", "enable", "disable", "set_polarity", "unknown"},
     adc  |-> {"read_single", "read_multi", "set_resolution", "set_reference", "set_sample_rate", "unknown"},
     dap  |-> {"info", "host_status", "connect", "disconnect", "clock", "sequence", "reset", "delay", "unknown"}]
Values(ch) ==
    CASE ch = "adc" -> {9, 16} [] ch = "dap" -> {"swd", "other"} [] ch = "pwm" -> {DutyMax, DutyMax + 1} [] OTHER -> {0}
Payloads == {0, 4, 5, 8, MaxPayload, MaxPayload + 1}
Frames(ch) ==
    {Frame(cmd, length, n, 1, idx, value, keep) : cmd \in Commands[ch], length \in Payloads, n \in {0, 1, MaxPayload - 3},
        idx \in IF ch = "spi" THEN {1, 2} ELSE {1}, value \in Values(ch), keep \in IF ch = "spi" THEN BOOLEAN ELSE {FALSE}}
        \cup {[Frame("unknown", 4, 0, 0, 1, 0, FALSE) EXCEPT !.got = n] : n \in {1, HeaderBytes + 3}}

BridgeReceives ==
    /\ app.kind = "bridge" /\ app.last = NoOrder
    /\ \E f \in Frames(app.ch), works, selects, sends \in BOOLEAN :
        \/ app.ch = "i2c" /\ app' = I2cReceive(app, f, works, sends)
        \/ app.ch = "spi" /\ app' = SpiReceive(app, f, works, selects, sends)
        \/ app.ch = "qspi" /\ app' = QspiReceive(app, f, works, sends)
        \/ app.ch = "gpio" /\ app' = GpioReceive(app, f, works, sends)
        \/ app.ch = "pwm" /\ app' = PwmReceive(app, f, works, sends)
        \/ app.ch = "adc" /\ app' = AdcReceive(app, f, works, sends)
        \/ app.ch = "dap" /\ app' = DapReceive(app, f, works, sends)
BridgeRests == app.kind = "bridge" /\ app.last # NoOrder /\ app' = [app EXCEPT !.last = NoOrder, !.st = "OK"]

-----------------------------------------------------------------------------
(* xBRIDGE, the serial port: two rings between USB and the UART.  Bytes are *)
(* numbered as they come; lost are those that an error or a closed port     *)
(* (DTR off) threw away.  A poll moves a chunk down, reads one, moves one   *)
(* up, and USB calls come between its parts.                                *)

Ring == [slot |-> [p \in 0..QueueBytes - 1 |-> 0], head |-> 0, tail |-> 0]
RingAvailable(r) == IF r.tail >= r.head THEN r.tail - r.head ELSE QueueBytes - r.head + r.tail
\* Fault: a full ring looks like an empty one.
RingFitsAll(r, n) == n <= QueueBytes - RingAvailable(r)
RingFits(r, n) == n <= QueueBytes - 1 - RingAvailable(r)
RingEnqueue(r, s) ==
    [r EXCEPT !.slot = [p \in DOMAIN @ |-> LET i == (p - r.tail) % QueueBytes IN IF i < Len(s) THEN s[i + 1] ELSE @[p]],
              !.tail = (@ + Len(s)) % QueueBytes]
RingTaken(r) == [i \in 1..(IF RingAvailable(r) < ChunkBytes THEN RingAvailable(r) ELSE ChunkBytes) |->
                    r.slot[(r.head + i - 1) % QueueBytes]]
RingDequeue(r) == [r EXCEPT !.head = (@ + Len(RingTaken(r))) % QueueBytes]

SerialInit ==
    [kind |-> "serial", dtr |-> FALSE, down |-> Ring, up |-> Ring, pc |-> "idle", n |-> 0, m |-> 0,
     atline |-> <<>>, athost |-> <<>>, lost |-> {}, missed |-> {}]

Numbers(from, k) == [i \in 1..k |-> from + i]
SerialReceive(u, k) ==
    LET s == Numbers(u.n, k) IN
    IF u.dtr /\ RingFits(u.down, k) THEN [u EXCEPT !.n = @ + k, !.down = RingEnqueue(@, s)]
    ELSE [u EXCEPT !.n = @ + k, !.lost = @ \cup ToSet(s)]
SerialLineState(u, dtr) == [u EXCEPT !.dtr = dtr]

PollDown(u, works) ==
    LET s == RingTaken(u.down)
        taken == [u EXCEPT !.down = RingDequeue(@)]
    IN  IF works THEN [taken EXCEPT !.atline = @ \o s, !.pc = "read"]
        ELSE [taken EXCEPT !.lost = @ \cup ToSet(s), !.pc = IF s = <<>> THEN "read" ELSE "idle"]
PollReads(u, k, works) ==
    LET s == Numbers(u.m, k) IN
    IF works /\ RingFits(u.up, k) THEN [u EXCEPT !.m = @ + k, !.up = RingEnqueue(@, s), !.pc = "up"]
    ELSE [u EXCEPT !.m = @ + k, !.missed = @ \cup ToSet(s), !.pc = IF k = 0 /\ works THEN "up" ELSE "idle"]
PollUp(u, works) ==
    LET s == RingTaken(u.up)
        taken == [u EXCEPT !.up = RingDequeue(@), !.pc = "idle"]
    IN  IF works THEN [taken EXCEPT !.athost = @ \o s] ELSE [taken EXCEPT !.missed = @ \cup ToSet(s)]

SerialSteps ==
    /\ app.kind = "serial"
    /\ \/ \E k \in 1..ChunkBytes : app.n + k <= MaxBytes /\ app' = SerialReceive(app, k)
       \/ \E dtr \in BOOLEAN : app' = SerialLineState(app, dtr)
       \/ \E works \in BOOLEAN : app.pc = "idle" /\ app' = PollDown(app, works)
       \/ \E k \in 0..ChunkBytes, works \in BOOLEAN :
            app.pc = "read" /\ app.m + k <= MaxBytes /\ app' = PollReads(app, k, works)
       \/ \E works \in BOOLEAN : app.pc = "up" /\ app' = PollUp(app, works)

-----------------------------------------------------------------------------
(* xBRIDGE, CAN as SLCAN lines.  The host's lines (said) are cut into USB   *)
(* packets; todo is what is still to be sent.  fails: the answer, frame or  *)
(* report that USB refuses, counting them all.                              *)

CR == "r"
Digit == [c \in {"0", "1", "9", "A", "Z", "S", "O", "C", "t", "T"} |->
            CASE c = "1" -> 1 [] c = "9" -> 9 [] c = "A" -> 10 [] OTHER -> 0]       \* hex_nibble
ParseHex(s) == FoldLeft(LAMBDA v, c : 16 * v + Digit[c], 0, s)
LinesOfHost ==
    {<<>>, <<"C">>, <<"O">>, <<"S", "1">>, <<"S", "A">>, <<"Z", "1">>, <<"A">>, <<"t", "0", "0", "1", "0">>,
     <<"t", "0", "1", "0", "1", "A", "1">>, <<"t", "0", "0", "0", "1", "A">>, <<"t", "0", "0", "0", "9", "1", "1">>,
     <<"t", "0", "0">>, <<"T", "0", "0", "0", "0", "0", "0", "1", "0", "0">>,
     <<"t", "0", "0", "0", "0", "0", "0", "0", "0", "0", "0", "0", "0", "0">>}

SlcanInit(fails) ==
    [kind |-> "slcan", line |-> <<>>, open |-> FALSE, unit |-> FALSE, rate |-> 0, stamps |-> FALSE, said |-> <<<<"O">>>>,
     todo |-> <<"O", CR>>, fails |-> fails, sends |-> 0, told |-> <<>>, bus |-> <<>>, st |-> "OK",
     rx |-> <<>>, m |-> 0, athost |-> <<>>]

SendAck(s, what) ==
    IF s.sends + 1 = s.fails THEN [s EXCEPT !.sends = @ + 1, !.st = "USB"]
    ELSE [s EXCEPT !.sends = @ + 1, !.told = Append(@, what), !.st = "OK"]

(* A t or T line: digits of the identifier, a length, its bytes.            *)
Transmitted(s, digits, works) ==
    LET len == Len(s.line)
        dlc == Digit[s.line[digits + 2]]
    IN  IF ~s.open \/ len < digits + 2 THEN SendAck(s, "bell")
        ELSE IF dlc > 8 \/ len < digits + 2 + (2 * dlc) \/ ~works THEN SendAck(s, "bell")
        ELSE SendAck([s EXCEPT !.bus = Append(@, [id |-> ParseHex(SubSeq(s.line, 2, digits + 1)), wide |-> digits = 8,
                                                 data |-> [i \in 1..dlc |-> ParseHex(SubSeq(s.line, digits + 1 + (2 * i),
                                                                                    digits + 2 + (2 * i)))]])],
                     "sent")

DispatchSlcan(s, works) ==
    IF s.line = <<>> THEN Ok(s) ELSE
    CASE s.line[1] = "O" -> SendAck(IF s.open \/ ~works THEN s ELSE [s EXCEPT !.open = TRUE, !.unit = TRUE], "cr")
      [] s.line[1] = "C" -> SendAck([s EXCEPT !.open = FALSE, !.unit = FALSE], "cr")
      [] s.line[1] = "S" -> SendAck([s EXCEPT !.rate = IF Len(s.line) >= 2 /\ s.line[2] \in {"0", "1"} /\ works
                                                       THEN Digit[s.line[2]] ELSE @], "cr")
      [] s.line[1] = "Z" -> SendAck([s EXCEPT !.stamps = IF Len(s.line) >= 2 THEN s.line[2] # "0" ELSE @], "cr")
      [] s.line[1] = "t" -> Transmitted(s, 3, works)
      [] s.line[1] = "T" -> Transmitted(s, 8, works)
      [] OTHER -> SendAck(s, "bell")

SlcanByte(s, c, works) ==
    IF c = CR THEN [DispatchSlcan(s, works) EXCEPT !.line = <<>>]
    ELSE IF Len(s.line) < LineMax THEN [s EXCEPT !.line = Append(@, c)] ELSE s
SlcanReceive(s, n, works) ==    \* the first n characters; an error drops the rest
    LET Take(a, c) == IF IsOk(a) THEN SlcanByte(a, c, works) ELSE a
    IN  [FoldLeft(Take, Ok(s), SubSeq(s.todo, 1, n)) EXCEPT !.todo = SubSeq(@, n + 1, Len(@))]

SlcanPoll(s) ==
    LET Report(a, k) == IF ~IsOk(a) THEN a
                        ELSE IF a.sends + 1 = a.fails THEN [a EXCEPT !.sends = @ + 1, !.st = "USB", !.rx = Tail(@)]
                        ELSE [a EXCEPT !.sends = @ + 1, !.athost = Append(@, k), !.rx = Tail(@)]
    IN  IF s.open THEN FoldLeft(Report, Ok(s), s.rx) ELSE Ok(s)

SlcanSteps ==
    /\ app.kind = "slcan"
    /\ \/ \E line \in LinesOfHost :
            /\ app.todo = <<>> /\ Len(app.said) < MaxLines
            /\ app' = [app EXCEPT !.said = Append(@, line), !.todo = line \o <<CR>>]
       \/ \E n \in 1..Len(app.todo), works \in BOOLEAN : app' = SlcanReceive(app, n, works)
       \/ app.m + 1 < MaxLines /\ app' = [app EXCEPT !.m = @ + 1, !.rx = Append(@, app.m + 1)]
       \/ app' = SlcanPoll(app)

-----------------------------------------------------------------------------
(* xLOGIC's command parser: SUMP bytes, five of which make a long command.  *)
(* A packet whose answer cannot be sent is given up there.                  *)

SumpReset == [ps |-> "CMD", cmd |-> 0, args |-> <<>>, count |-> 0]
SumpInit == [kind |-> "sump", parser |-> SumpReset, run |-> FALSE, reset |-> FALSE, zeros |-> 0, st |-> "OK"]
RESET == 0
RUN == 1
QUERY_ID == 2
SET_COUNTS == 129

ShortCommand(p, byte) == IF byte = RESET THEN SumpReset ELSE p
LongCommand(p) ==
    [p EXCEPT !.ps = "CMD", !.args = <<>>, !.count = IF p.cmd = SET_COUNTS THEN 4 * (p.args[1] + (256 * p.args[2]) + 1) ELSE @]
FeedByte(p, byte) ==
    IF p.ps = "CMD" THEN IF byte >= 128 THEN [p EXCEPT !.cmd = byte, !.args = <<>>, !.ps = "ARG"] ELSE ShortCommand(p, byte)
    ELSE LET q == [p EXCEPT !.args = Append(@, byte)] IN IF Len(q.args) = 4 THEN LongCommand(q) ELSE q

HandleEvent(l, byte, works) ==
    CASE byte = RESET -> [l EXCEPT !.run = FALSE, !.reset = TRUE]
      [] byte = RUN -> [l EXCEPT !.run = TRUE]
      [] byte = QUERY_ID -> IF works THEN l ELSE Failed(l, "TX")
      [] OTHER -> l
SumpByte(l, byte, works) ==
    LET fed == [l EXCEPT !.parser = FeedByte(@, byte), !.zeros = IF byte # RESET THEN 0 ELSE IF @ = 5 THEN 5 ELSE @ + 1]
    IN  IF l.parser.ps = "CMD" THEN HandleEvent(fed, byte, works) ELSE fed
ProcessRx(l, packet, works) ==
    FoldLeft(LAMBDA a, byte : IF IsOk(a) THEN SumpByte(a, byte, works) ELSE a, Ok(l), packet)
ClearRequests(l) == [l EXCEPT !.run = FALSE, !.reset = FALSE]

SumpBytes == {RESET, RUN, QUERY_ID, SET_COUNTS}
SumpSteps ==
    /\ app.kind = "sump"
    /\ \/ \E b \in SumpBytes, works \in BOOLEAN : app' = ProcessRx(app, <<b>>, works)
       \/ \E b, c \in SumpBytes, works \in BOOLEAN : app' = ProcessRx(app, <<b, c>>, works)
       \/ app' = ClearRequests(app)

-----------------------------------------------------------------------------
(* xLOGIC's capture core and the engine behind it.  A sample is <<k, i>>,   *)
(* the i-th of capture k; arms counts captures ordered and run is the one   *)
(* the engine works on.  The engine takes a command when it looks (cmd),    *)
(* its status stays until the next capture starts or a halt is taken.       *)
(* mixed: a DONE of another capture than the last was believed; tries: how  *)
(* often its samples were sent.                                             *)

LogicInit ==
    [kind |-> "logic", state |-> "IDLE", cap |-> 0, count |-> 0, buf |-> <<>>, offset |-> 0, cmd |-> "IDLE",
     status |-> "READY", got |-> 0, ring |-> <<>>, run |-> 0, todo |-> 0, arms |-> 0, mixed |-> FALSE, tries |-> 0,
     uploads |-> <<>>, ops |-> 0, st |-> "OK"]

PruArm(l, n) == [l EXCEPT !.offset = 0, !.got = 0, !.count = n, !.cmd = "ARM"]
Arm(l, n) ==
    IF l.state # "IDLE" THEN Failed(l, "INVALID_STATE")
    ELSE Ok([PruArm(l, n) EXCEPT !.cap = 0, !.buf = <<>>, !.state = "ARMED", !.arms = @ + 1, !.mixed = FALSE, !.tries = 0])
PruHalt(l) == [l EXCEPT !.cmd = "HALT"]
Abort(l) == Ok([PruHalt(l) EXCEPT !.state = "IDLE", !.cap = 0, !.buf = <<>>])

PollArmed(l) ==
    IF l.status = "OVERRUN" THEN Failed([l EXCEPT !.state = "ERROR"], "OVERRUN")
    ELSE IF l.status = "DONE" THEN Ok([l EXCEPT !.state = "DONE", !.mixed = l.run # l.arms])
    ELSE Ok(l)
AvailableBytes(l) == IF l.got <= l.offset THEN 0 ELSE l.got - l.offset
ReadSamples(l) ==
    LET room == MaxSamples - l.cap
        n == IF AvailableBytes(l) < room THEN AvailableBytes(l) ELSE room
    IN  [l EXCEPT !.buf = @ \o SubSeq(l.ring, l.offset + 1, l.offset + n), !.cap = @ + n, !.offset = @ + n]
SendSamples(l, works) ==        \* reversed where they are, then sent
    IF l.cap = 0 THEN Ok(l)
    ELSE LET turned == [l EXCEPT !.buf = Reverse(@), !.tries = @ + 1]
         IN  IF works THEN Ok([turned EXCEPT !.uploads = Append(@, [k |-> l.arms, n |-> l.count, mixed |-> l.mixed,
                                                                    tries |-> turned.tries, s |-> turned.buf])])
             ELSE Failed(turned, "TX")
PollDone(l, works) ==
    Then(SendSamples(ReadSamples(l), works), LAMBDA d : [d EXCEPT !.state = "IDLE", !.cap = 0, !.buf = <<>>])
Poll(l, works) ==
    CASE l.state = "IDLE" -> Ok(l)
      [] l.state = "ARMED" -> PollArmed(l)
      [] l.state = "DONE" -> PollDone(l, works)
      [] l.state = "ERROR" -> Failed(PruHalt(l), "INVALID_STATE")

EngineLooks(l) ==
    CASE l.cmd = "ARM" -> [l EXCEPT !.cmd = "IDLE", !.status = "RUNNING", !.run = l.arms, !.todo = l.count, !.got = 0, !.ring = <<>>]
      [] l.cmd = "HALT" -> [l EXCEPT !.cmd = "IDLE", !.status = "READY", !.todo = 0]
EngineStores(l) ==
    LET r == [l EXCEPT !.ring = Append(@, <<l.run, Len(@) + 1>>), !.got = Len(l.ring) + 1, !.todo = @ - 1]
    IN  IF r.todo = 0 THEN [r EXCEPT !.status = "DONE"] ELSE r

LogicSteps ==
    /\ app.kind = "logic"
    /\ \/ \E n \in 1..MaxSamples : app.ops < MaxArms /\ app' = Arm([app EXCEPT !.ops = @ + 1], n)
       \/ app.ops < MaxArms /\ app' = Abort([app EXCEPT !.ops = @ + 1])
       \/ app' = Poll(app, TRUE)
       \/ app.state = "DONE" /\ app.ops < MaxArms /\ app' = Poll([app EXCEPT !.ops = @ + 1], FALSE)
       \/ app.cmd # "IDLE" /\ app' = EngineLooks(app)
       \/ app.todo > 0 /\ app' = EngineStores(app)
       \/ app.todo > 0 /\ app' = [app EXCEPT !.status = "OVERRUN", !.todo = 0]

-----------------------------------------------------------------------------
(* xUSBIP: the table of a client's transfers.  The server behind it is not  *)
(* in the repository; it calls the table the way its header describes.  age *)
(* is how long a slot has really been taken, replies what the client got.   *)
(* The fields of a free slot are never read: they are blank here.           *)

Vacant == [state |-> "FREE", seq |-> 0, since |-> 0, age |-> 0]
UrbInit == [kind |-> "urbs", slot |-> [i \in 1..UrbSlots |-> Vacant], now |-> ClockWidth - 1, asked |-> 0,
            unlinked |-> {}, replies |-> [seq \in 1..MaxUrbs |-> <<>>], st |-> "OK"]
Busy(u) == {i \in 1..UrbSlots : u.slot[i].state # "FREE"}

Submit(u, seq) ==
    IF Busy(u) = 1..UrbSlots THEN Failed(u, "NO_URB_SLOT")
    ELSE Ok([u EXCEPT !.slot[First(1..UrbSlots \ Busy(u))] = [state |-> "SUBMITTED", seq |-> seq, since |-> u.now, age |-> 0]])
UrbComplete(u, i) == IF u.slot[i].state = "FREE" THEN Failed(u, "INVALID_STATE") ELSE Ok([u EXCEPT !.slot[i] = Vacant])
FindBySeqnum(u, seq) == {i \in Busy(u) : u.slot[i].seq = seq /\ \A j \in Busy(u) : u.slot[j].seq = seq => i <= j}
RequestUnlink(u, seq) ==
    LET S == {i \in Busy(u) : u.slot[i].state = "SUBMITTED" /\ u.slot[i].seq = seq}
    IN  IF S = {} THEN Failed(u, "URB_NOT_FOUND") ELSE Ok([u EXCEPT !.slot[First(S)].state = "PENDING_UNLINK"])
UrbFree(u, i) == [u EXCEPT !.slot[i] = Vacant]
Age(u, i) == (u.now - u.slot[i].since) % ClockWidth
FindExpired(u) ==               \* the oldest, the first of equals
    LET S == {i \in Busy(u) : Age(u, i) >= UrbTimeout}
    IN  {i \in S : \A j \in S : Age(u, j) < Age(u, i) \/ (Age(u, j) = Age(u, i) /\ i <= j)}

Reply(u, seq, what) == [u EXCEPT !.replies[seq] = Append(@, what)]
ServerSubmits(u) ==
    LET r == Submit([u EXCEPT !.asked = @ + 1], u.asked + 1) IN IF IsOk(r) THEN r ELSE Reply(r, r.asked, "refused")
ServerCompletes(u, i) ==
    LET was == u.slot[i] IN
    Then(UrbComplete(u, i), LAMBDA d : Reply(d, was.seq, IF was.state = "SUBMITTED" THEN "RET_SUBMIT" ELSE "RET_UNLINK"))
ServerUnlinks(u, seq) ==
    LET r == RequestUnlink([u EXCEPT !.unlinked = @ \cup {seq}], seq) IN IF IsOk(r) THEN r ELSE Reply(r, seq, "unlinked late")
ServerExpires(u, i) == Reply(UrbFree(u, i), u.slot[i].seq, IF u.slot[i].state = "SUBMITTED" THEN "expired" ELSE "RET_UNLINK")
Older(s) == [s EXCEPT !.age = @ + 1]
Ticked(u) ==
    [u EXCEPT !.now = (@ + 1) % ClockWidth, !.slot = [i \in DOMAIN @ |-> IF i \in Busy(u) THEN Older(@[i]) ELSE @[i]]]
UrbSteps ==
    /\ app.kind = "urbs"
    /\ \/ app.asked < MaxUrbs /\ app' = ServerSubmits(app)
       \/ \E i \in Busy(app) : app' = ServerCompletes(app, i)
       \/ \E seq \in 1..app.asked \ app.unlinked : app' = ServerUnlinks(app, seq)
       \/ \E i \in FindExpired(app) : app' = ServerExpires(app, i)
       \/ Busy(app) # {} /\ (\A i \in Busy(app) : app.slot[i].age < ClockWidth - 1) /\ app' = Ticked(app)

-----------------------------------------------------------------------------
(* xUSBIP on the wire.  A field is a value and a width; its bytes on the    *)
(* wire, most significant first, are the pairs of the value and 1, 2, ...   *)
(* A reader or writer does nothing when the field passes the buffer's end.  *)

U8(f) == [f |-> f, n |-> 1]
U16(f) == [f |-> f, n |-> 2]
U32(f) == [f |-> f, n |-> 4]
Raw(f, n) == [f |-> f, n |-> n]
Zeros(n) == Raw("zero", n)
WireBytes(field) == [k \in 1..field.n |-> IF field.f = "zero" THEN 0 ELSE <<field.f, k>>]

(* The structures of USB/IP, as the client lays them out.                   *)
OpCommonT(code, status) == <<U16("1.1.1"), U16(code), U32(status)>>
DeviceT(d) ==
    <<Raw(<<d, "path">>, 256), Raw(<<d, "busid">>, 32), U32(<<d, "busnum">>), U32(<<d, "devnum">>), U32(<<d, "speed">>),
      U16(<<d, "idVendor">>), U16(<<d, "idProduct">>), U16(<<d, "bcdDevice">>), U8(<<d, "class">>), U8(<<d, "subclass">>),
      U8(<<d, "protocol">>), U8(<<d, "configuration">>), U8(<<d, "configurations">>), U8(<<d, "interfaces">>)>>
BasicT(command) == <<U32(command), U32("seqnum"), U32("devid"), U32("direction"), U32("ep")>>
CmdSubmitT(command) ==
    BasicT(command) \o <<U32("transfer_flags"), U32("transfer_buffer_length"), U32("start_frame"), U32("number_of_packets"),
                         U32("interval"), Raw("setup", 8)>>
CmdUnlinkT(command) == BasicT(command) \o <<U32("unlink_seqnum"), Zeros(24)>>
RetSubmitT ==
    BasicT("RET_SUBMIT") \o <<U32("status"), U32("actual_length"), Zeros(4), Zeros(4), Zeros(4), Zeros(8)>>
RetUnlinkT == BasicT("RET_UNLINK") \o <<U32("status"), Zeros(24)>>
Wire(fields) == FoldLeft(LAMBDA bytes, field : bytes \o WireBytes(field), <<>>, fields)

WriteField(w, field) ==
    IF ~IsOk(w) \/ field.n = 0 THEN w
    ELSE IF Len(w.buf) + field.n > w.room THEN Failed(w, "BUFFER_TOO_SMALL")
    ELSE [w EXCEPT !.buf = @ \o WireBytes(field)]
Encode(w, fields) ==
    LET e == FoldLeft(WriteField, w, fields) IN IF IsOk(e) THEN [e EXCEPT !.written = Len(e.buf)] ELSE e

EncodeOpCommon(code, status) == <<U16("1.1.1"), U16(code), U32(status)>>
EncodeDevice(d) ==
    <<Raw(<<d, "path">>, 256), Raw(<<d, "busid">>, 32)>>
        \o [i \in 1..3 |-> U32(<<d, <<"busnum", "devnum", "speed">>[i]>>)]
        \o [i \in 1..3 |-> U16(<<d, <<"idVendor", "idProduct", "bcdDevice">>[i]>>)]
        \o [i \in 1..6 |-> U8(<<d, <<"class", "subclass", "protocol", "configuration", "configurations", "interfaces">>[i]>>)]
DevlistReply(w, interfaces) ==
    Encode(w, EncodeOpCommon("OP_REP_DEVLIST", "OK") \o <<U32(<<"devices", Len(interfaces)>>)>>
                 \o FlattenSeq([d \in DOMAIN interfaces |-> Append(EncodeDevice(d), Zeros(4 * interfaces[d]))]))
ImportReply(w, status, given) ==
    IF status # "OK" THEN Encode(w, EncodeOpCommon("OP_REP_IMPORT", status))
    ELSE IF given THEN Encode(w, EncodeOpCommon("OP_REP_IMPORT", status) \o EncodeDevice(1))
    ELSE Then([Encode(w, EncodeOpCommon("OP_REP_IMPORT", status)) EXCEPT !.written = 0], LAMBDA e : Failed(e, "NULL_POINTER"))
RetSubmit(w, n, given) ==
    IF n > 0 /\ ~given THEN Failed(w, "NULL_POINTER")
    ELSE Encode(w, <<U32("RET_SUBMIT"), U32("seqnum"), U32("devid"), U32("direction"), U32("ep"), U32("status"),
                     U32("actual_length"), Zeros(12), Zeros(8), Raw("data", n)>>)
RetUnlink(w) ==
    Encode(w, <<U32("RET_UNLINK"), U32("seqnum"), U32("devid"), U32("direction"), U32("ep"), U32("status"), Zeros(24)>>)

(* Decoding: what is read is noted under the name it is stored as.          *)
DataHeader == 48
ReadField(w, field) ==
    IF ~IsOk(w) THEN w
    ELSE IF w.pos + field.n > w.room THEN Failed(w, "INVALID_ARGUMENT")
    ELSE LET s == [w EXCEPT !.pos = @ + field.n]
         IN  IF field.f = "skipped" THEN s
             ELSE [s EXCEPT !.out = Append(@, [f |-> field.f, bytes |-> SubSeq(w.buf, w.pos + 1, w.pos + field.n)])]
ReadCommand(w) == SubSeq(w.buf, 1, 4)
DecodeOpCommon(w) ==
    IF w.room < 8 THEN Failed(w, "INVALID_ARGUMENT")
    ELSE LET r == FoldLeft(ReadField, w, <<U16("version"), U16("code"), U32("status")>>)
         IN  IF r.out[1].bytes # WireBytes(U16("1.1.1")) THEN Failed(r, "PROTO_VERSION") ELSE r
DecodeBasicHeader(w) ==
    IF w.room < DataHeader THEN Failed(w, "INVALID_ARGUMENT")
    ELSE IF ReadCommand(w) \notin {WireBytes(U32("CMD_SUBMIT")), WireBytes(U32("CMD_UNLINK"))} THEN Failed(w, "PROTO_OPCODE")
    ELSE ReadField(w, U32("command"))
DecodeFields(w, command, fields) ==
    IF w.room < DataHeader THEN Failed(w, "INVALID_ARGUMENT")
    ELSE IF ReadCommand(w) # WireBytes(U32(command)) THEN Failed(w, "PROTO_OPCODE")
    ELSE FoldLeft(ReadField, [w EXCEPT !.pos = 4], fields)
DecodeCmdSubmit(w) ==
    DecodeFields(w, "CMD_SUBMIT", <<U32("seqnum"), U32("devid"), U32("direction"), U32("ep"), U32("transfer_flags"),
                                    U32("transfer_buffer_length"), Raw("skipped", 8), U32("interval"), Raw("setup", 8)>>)
DecodeCmdUnlink(w) ==
    DecodeFields(w, "CMD_UNLINK", <<U32("seqnum"), U32("devid"), U32("direction"), U32("ep"), U32("unlink_seqnum")>>)

(* The messages of the server, to a byte more or less than they need, and   *)
(* those of a client, whole, cut short or with bytes after them.            *)
Replies ==
    {[op |-> "devlist", interfaces |-> s] : s \in {<<>>, <<1>>, <<2, 0>>}}
        \cup {[op |-> "import", status |-> status, given |-> given] : status \in {"OK", "FAILED"}, given \in BOOLEAN}
        \cup {[op |-> "ret_submit", n |-> n, given |-> given] : n \in {0, 1, 64}, given \in BOOLEAN}
        \cup {[op |-> "ret_unlink"]}
Expected(m) ==
    CASE m.op = "devlist" ->
            Wire(OpCommonT("OP_REP_DEVLIST", "OK") \o <<U32(<<"devices", Len(m.interfaces)>>)>>
                    \o FlattenSeq([d \in DOMAIN m.interfaces |-> Append(DeviceT(d), Zeros(4 * m.interfaces[d]))]))
      [] m.op = "import" -> Wire(OpCommonT("OP_REP_IMPORT", m.status) \o (IF m.status = "OK" THEN DeviceT(1) ELSE <<>>))
      [] m.op = "ret_submit" -> Wire(Append(RetSubmitT, Raw("data", m.n)))
      [] m.op = "ret_unlink" -> Wire(RetUnlinkT)
Missing(m) == m.op \in {"import", "ret_submit"} /\ ~m.given /\ (IF m.op = "import" THEN m.status = "OK" ELSE m.n > 0)
Asked ==
    {[op |-> "op_common", sent |-> <<U16(version), U16("code"), U32("status")>>] : version \in {"1.1.1", "other"}}
        \cup {[op |-> op, sent |-> CmdSubmitT(c)] : op \in {"basic", "cmd_submit"}, c \in {"CMD_SUBMIT", "other"}}
        \cup {[op |-> op, sent |-> CmdUnlinkT(c)] : op \in {"basic", "cmd_unlink"}, c \in {"CMD_UNLINK", "other"}}

NoMessage == [op |-> "none"]
WireInit == [kind |-> "wire", message |-> NoMessage, room |-> 0, buf |-> <<>>, pos |-> 0, out |-> <<>>, written |-> 0, st |-> "OK"]
ServerReplies(m, w) ==
    CASE m.op = "devlist" -> DevlistReply(w, m.interfaces)
      [] m.op = "import" -> ImportReply(w, m.status, m.given)
      [] m.op = "ret_submit" -> RetSubmit(w, m.n, m.given)
      [] m.op = "ret_unlink" -> RetUnlink(w)
ServerReads(m, w) ==
    CASE m.op = "op_common" -> DecodeOpCommon(w)
      [] m.op = "basic" -> DecodeBasicHeader(w)
      [] m.op = "cmd_submit" -> DecodeCmdSubmit(w)
      [] m.op = "cmd_unlink" -> DecodeCmdUnlink(w)
WireSteps ==
    /\ app.kind = "wire"
    /\ \/ \E m \in Replies, d \in -1..1 :
            app' = ServerReplies(m, [WireInit EXCEPT !.message = m, !.room = Len(Expected(m)) + d])
       \/ \E m \in Asked, d \in -1..1 :
            LET sent == Append(Wire(m.sent), <<"next", 1>>)
                room == Len(sent) - 1 + d
            IN  app' = ServerReads(m, [WireInit EXCEPT !.message = m, !.room = room, !.buf = SubSeq(sent, 1, room)])

-----------------------------------------------------------------------------
AppsInit ==
    \/ app \in {I2cChannel, SpiChannel, QspiChannel, GpioChannel, PwmChannel, AdcChannel, DapChannel}
    \/ app = SerialInit
    \/ \E fails \in 0..MaxLines + 1 : app = SlcanInit(fails)
    \/ app = SumpInit
    \/ app = LogicInit
    \/ app = UrbInit
    \/ app = WireInit

AppsNext == BridgeReceives \/ BridgeRests \/ SerialSteps \/ SlcanSteps \/ SumpSteps \/ LogicSteps \/ UrbSteps \/ WireSteps

-----------------------------------------------------------------------------
(* An order that a channel carried out was a whole frame, its bytes were    *)
(* all in it (QSPI excepted, which does not look), its answer fits and went *)
(* out once unless USB refused; a frame it could not parse did nothing.     *)
BytesBefore(ch, cmd) == IF ch = "dap" THEN 2 ELSE IF cmd = "write_read" THEN 6 ELSE 4
BridgeTruth(b) ==
    LET l == b.last IN
    /\ l.status = "none" <=> (l.did = <<>> /\ l.replies = 0 /\ (b.st \in {"PARSE_ERROR", "FRAME_TOO_LARGE", "INVALID_ARGUMENT"}
                                                                 \/ l.f.cmd = "none"))
    /\ l.did # <<>> /\ l.did[1] \in {"write", "write_read", "transfer", "sequence"} /\ b.ch \notin {"qspi", "gpio"}
            => BytesBefore(b.ch, l.f.cmd) + l.f.n <= l.f.length
    /\ l.len <= MaxPayload
    /\ l.status # "none" => (l.replies = 1 <=> b.st = "OK")
    /\ b.bits = b.unit
    /\ b.ch # "spi" => b.cs = {}

(* Bytes come out of the serial bridge in the order they went in, none      *)
(* twice, and one that is neither out nor on its way was in a packet that   *)
(* was refused, read into a full ring or lost with a failed call.           *)
InRing(r) == [i \in 1..RingAvailable(r) |-> r.slot[(r.head + i - 1) % QueueBytes]]
InOrder(s) == \A i \in 1..Len(s) - 1 : s[i] < s[i + 1]
SerialTruth(u) ==
    /\ InOrder(u.atline \o InRing(u.down)) /\ InOrder(u.athost \o InRing(u.up))
    /\ ToSet(u.atline \o InRing(u.down)) = 1..u.n \ u.lost
    /\ ToSet(u.athost \o InRing(u.up)) = 1..u.m \ u.missed

(* Every line the host finished is answered once, in order, unless USB      *)
(* refused an answer; the bus only carries frames the host asked for, each  *)
(* at most once and in order; frames from the bus are not reordered.        *)
FrameAsked(line) ==
    LET digits == IF line[1] = "t" THEN 3 ELSE 8
        dlc == Digit[line[digits + 2]]
    IN  [id |-> ParseHex(SubSeq(line, 2, digits + 1)), wide |-> line[1] = "T",
         data |-> [i \in 1..dlc |-> ParseHex(SubSeq(line, digits + 1 + (2 * i), digits + 2 + (2 * i)))]]
Complete(line) ==
    /\ line # <<>> /\ line[1] \in {"t", "T"}
    /\ LET digits == IF line[1] = "t" THEN 3 ELSE 8 IN
       Len(line) >= digits + 2 /\ Digit[line[digits + 2]] <= 8 /\ Len(line) >= digits + 2 + (2 * Digit[line[digits + 2]])
Finished(s) == IF s.todo = <<>> THEN s.said ELSE Front(s.said)
SlcanTruth(s) ==
    LET asked == SelectSeq(Finished(s), Complete)
        Lines == SelectSeq(Finished(s), LAMBDA l : l # <<>>)
    IN  /\ s.open = s.unit
        /\ \E f \in [1..Len(s.bus) -> 1..Len(asked)] :
              /\ \A i \in 1..Len(s.bus) : s.bus[i] = FrameAsked(asked[f[i]])
              /\ \A i, j \in 1..Len(s.bus) : i < j => f[i] < f[j]
        /\ s.fails = 0 => /\ Len(s.told) = Len(Lines)
                          /\ Len(SelectSeq(s.told, LAMBDA t : t = "sent")) = Len(s.bus)
                          /\ s.athost \o s.rx = [i \in 1..s.m |-> i]
        /\ InOrder(s.athost \o s.rx)

(* Whatever the parser was in the middle of, the five RESETs with which a   *)
(* SUMP client starts leave it between commands with everything cleared,    *)
(* and the reset is reported.                                               *)
SumpTruth(l) == l.zeros = 5 => l.parser = SumpReset

(* An upload whose DONE was the last capture's and that was sent at the     *)
(* first attempt holds that whole capture, newest sample first.             *)
LogicTruth(l) ==
    \A i \in DOMAIN l.uploads :
        LET u == l.uploads[i] IN ~u.mixed /\ u.tries = 1 => u.s = [j \in 1..u.n |-> <<u.k, u.n + 1 - j>>]

(* Every transfer a client submits is answered exactly once: it is in the   *)
(* table, in one slot and to be found there, until it is; so is an unlink,  *)
(* before, while or after the transfer ends.  The oldest of those that      *)
(* waited too long is found, also when the clock wrapped.                   *)
UrbAnswers == {"RET_SUBMIT", "refused", "expired", "RET_UNLINK"}
UrbTruth(u) ==
    LET Replied(seq, what) == Cardinality({i \in DOMAIN u.replies[seq] : u.replies[seq][i] \in what})
        Slots(seq) == Cardinality({i \in Busy(u) : u.slot[i].seq = seq})
    IN
    /\ \A seq \in 1..u.asked :
          /\ Replied(seq, UrbAnswers) + Slots(seq) = 1
          /\ \A i \in FindBySeqnum(u, seq) : Replied(seq, UrbAnswers) = 0
    /\ \A seq \in u.unlinked : Replied(seq, {"RET_UNLINK", "unlinked late"}) + Slots(seq) = 1
    /\ FindExpired(u) = {} <=> \A i \in Busy(u) : u.slot[i].age < UrbTimeout
    /\ \A i \in FindExpired(u), j \in Busy(u) : u.slot[j].age <= u.slot[i].age

(* A reply is written whole or not at all, to the byte in the layout of the *)
(* client's structures; what is read of a message is what the client put in *)
(* the field of that name, and one cut short or of another kind is refused. *)
WireTruth(w) ==
    /\ w.message \in Replies =>
          IF w.room < Len(Expected(w.message)) \/ Missing(w.message) THEN ~IsOk(w) /\ w.written = 0 /\ Len(w.buf) <= w.room
          ELSE IsOk(w) /\ w.written = Len(w.buf) /\ w.buf = Expected(w.message)
    /\ w.message \in Asked =>
          /\ IsOk(w) <=> w.room >= Len(Wire(w.message.sent)) /\ ~\E i \in 1..Len(w.message.sent) : w.message.sent[i].f = "other"
          /\ IsOk(w) => \A o \in ToSet(w.out) : \E i \in 1..Len(w.message.sent) :
                LET s == w.message.sent[i] IN
                o.bytes = WireBytes(s) /\ (o.f = s.f \/ <<o.f, i>> \in {<<"version", 1>>, <<"command", 1>>})

(* What holds of the application in use (see above).                        *)
AppsTruth ==
    CASE app.kind = "bridge" -> BridgeTruth(app)
      [] app.kind = "serial" -> SerialTruth(app)
      [] app.kind = "slcan" -> SlcanTruth(app)
      [] app.kind = "sump" -> SumpTruth(app)
      [] app.kind = "logic" -> LogicTruth(app)
      [] app.kind = "urbs" -> UrbTruth(app)
      [] app.kind = "wire" -> WireTruth(app)
      [] OTHER -> TRUE
=============================================================================
