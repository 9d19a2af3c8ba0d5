------------------------------- MODULE Xtools -------------------------------
(* Diagnostics: the xTRACE recorder with its framing and the host's reader, *)
(* the tracker that rebuilds task states from a trace, the xFAULT handler   *)
(* and xSHELL.  A behaviour has one of them, the record tool.               *)
EXTENDS XusbCalls, SequencesExt

CONSTANTS
    MaxEvents,          \* events recorded, task events tracked
    RingCapacity,       \* bytes of the trace ring
    Tracked,            \* tasks
    MaxChunk,           \* COBS: bytes of a chunk without a zero
    Addresses,          \* xFAULT: what a frame pointer can hold
    StackEnds,          \* where a stack can begin and end
    MaxDepth,           \* xFAULT_MAX_BACKTRACE_DEPTH
    RetryLimit,         \* xFAULT_WRITE_RETRY_LIMIT
    LineLength,         \* characters a shell line can hold
    MaxArgs             \* xSHELL_MAX_ARGS

ASSUME ToolsAssumption ==
    /\ {MaxEvents, MaxChunk, MaxDepth, RetryLimit, LineLength, MaxArgs} \subseteq Nat \ {0}
    /\ RingCapacity \in Nat /\ RingCapacity >= 16
    /\ Tracked \subseteq Nat /\ Addresses \subseteq Nat /\ StackEnds \subseteq Nat

VARIABLE tool

-----------------------------------------------------------------------------
(* xTRACE.  A record is a length, an identifier, a time and its arguments;  *)
(* a byte of the ring is the record it belongs to with its place in it.     *)
(* An event is named by the number of its attempt; stamp[id] is when that   *)
(* was.  The clock has TicksPerUs ticks to the host's microsecond.  torn:   *)
(* the ring was reset under a flush or in the middle of a record.           *)

TicksPerUs == 3
Blank == <<[ev |-> "none"], 0>>
Leb(n) == IF n < 128 THEN 1 ELSE 2          \* leb128_size
Classes == {"core", "base", "module"}       \* of identifiers, as the filter tells them apart

Boot(ts) == [ev |-> "BOOT", delta |-> ts, n |-> TicksPerUs, extra |-> 0]
Gap(delta, n) == [ev |-> "GAP", delta |-> delta, n |-> n, extra |-> 0]
Occurrence(id, delta, extra) == [ev |-> "EVENT", delta |-> delta, n |-> id, extra |-> extra]
Size(r) == 2 + Leb(r.delta) + (IF r.ev = "EVENT" THEN r.extra ELSE Leb(r.n))

TraceInit(policy, start, enabled) ==
    [kind |-> "trace", policy |-> policy, buf |-> [p \in 0..RingCapacity - 1 |-> Blank], rp |-> 0, wp |-> 0,
     dropped |-> 0, gap |-> FALSE, last |-> start, now |-> start, enabled |-> enabled, mask |-> Classes,
     stamp |-> <<>>, out |-> <<>>, call |-> [op |-> "none"], torn |-> FALSE]

Available(t) ==
    IF t.wp >= t.rp THEN RingCapacity - (t.wp - t.rp) - 1 ELSE t.rp - t.wp - 1
Put(t, r) ==
    [t EXCEPT !.buf = [p \in 0..RingCapacity - 1 |->
                        LET i == (p - t.wp) % RingCapacity IN IF i < Size(r) THEN <<r, i + 1>> ELSE @[p]],
              !.wp = (@ + Size(r)) % RingCapacity]
Booted(t) == IF t.enabled THEN Put(t, Boot(t.now)) ELSE t

RingBytes(t) == [i \in 1..(t.wp - t.rp) % RingCapacity |-> t.buf[(t.rp + i - 1) % RingCapacity]]
RecordCount(t) == Cardinality({i \in DOMAIN RingBytes(t) : RingBytes(t)[i][2] = 1})

(* A record that does not fit is dropped and the loss told by a GAP later;  *)
(* or the ring is emptied and starts afresh with BOOT and GAP.              *)
\* Fault: no GAP is asked for.
DropUntold(t) == [t EXCEPT !.dropped = @ + 1]
Drop(t) == [t EXCEPT !.dropped = @ + 1, !.gap = TRUE]
Overwrite(t, ts, id, extra) ==
    LET lost == t.dropped + RecordCount(t)
        need == Size(Boot(ts)) + Size(Gap(0, lost)) + Size(Occurrence(id, 0, extra))
        cut  == RingBytes(t) # <<>> /\ RingBytes(t)[1][2] # 1
        empty == [t EXCEPT !.rp = t.wp, !.torn = @ \/ cut \/ t.call.op # "none", !.dropped = 0, !.gap = FALSE, !.last = ts]
    IN  IF need >= RingCapacity THEN Drop(t)
        ELSE Put(Put(Put(empty, Boot(ts)), Gap(0, lost)), Occurrence(id, 0, extra))

EmitStart(t, ts, id, extra) ==
    LET delta == ts - t.last
        need  == (IF t.gap THEN Size(Gap(delta, t.dropped)) ELSE 0) + Size(Occurrence(id, delta, extra))
        told  == [Put(t, Gap(delta, t.dropped)) EXCEPT !.dropped = 0, !.gap = FALSE]
    IN  IF Available(t) < need
        THEN IF t.policy = "OVERWRITE" THEN Overwrite(t, ts, id, extra) ELSE Drop(t)
        ELSE IF t.gap THEN [Put(told, Occurrence(id, 0, extra)) EXCEPT !.last = ts]
        ELSE [Put(t, Occurrence(id, delta, extra)) EXCEPT !.last = ts]

(* The clock ticks on, then the event is recorded under the lock.           *)
Emit(t, ticks, class, extra) ==
    LET now == t.now + ticks IN
    IF ~(t.enabled /\ class \in t.mask \cup {"other"}) THEN t
    ELSE EmitStart([t EXCEPT !.now = now, !.stamp = Append(@, now)], now, Len(t.stamp) + 1, extra)

FilterEvent(t, class, on) == [t EXCEPT !.mask = IF on THEN @ \cup {class} ELSE @ \ {class}]
FilterAll(t, on) == [t EXCEPT !.mask = IF on THEN Classes ELSE {"core"}]
FilterModule(t, word0, on) ==
    [t EXCEPT !.mask = IF on THEN @ \cup (IF word0 THEN {"core", "base"} ELSE {"module"})
                       ELSE IF word0 THEN (@ \ {"base"}) \cup {"core"} ELSE @ \ {"module"}]

(* Flush takes no lock: it looks at both positions, has the transport take  *)
(* some of the bytes up to the end of the buffer, and moves on from where   *)
(* the read position is by then.                                            *)
FlushLooks(t) ==
    IF t.rp = t.wp THEN [t EXCEPT !.call = [op |-> "none"]]
    ELSE [t EXCEPT !.call = [op |-> "write", from |-> t.rp, n |-> IF t.wp > t.rp THEN t.wp - t.rp ELSE RingCapacity - t.rp]]
FlushWrites(t, n) ==
    [t EXCEPT !.out = @ \o [i \in 1..n |-> t.buf[t.call.from + i - 1]],
              !.call = IF n = 0 THEN [op |-> "none"] ELSE [op |-> "move", n |-> n]]
FlushMoves(t) == [t EXCEPT !.rp = (@ + t.call.n) % RingCapacity, !.call = [op |-> "look"]]

(* The host: a stream is read record by record, a record with the length at *)
(* its head; the decoder keeps a clock in microseconds.                     *)
ReadRecords(s) == [i \in 1..Len(SelectSeq(s, LAMBDA b : b[2] = Size(b[1]))) |->
                        SelectSeq(s, LAMBDA b : b[2] = Size(b[1]))[i][1]]
Aligned(s) ==
    \A i \in DOMAIN s : /\ s[i][2] > 1 => i > 1 /\ s[i - 1] = <<s[i][1], s[i][2] - 1>>
                        /\ s[i][2] = 1 /\ i > 1 => s[i - 1][2] = Size(s[i - 1][1])

Decode(log, r) ==
    LET at == IF r.ev = "BOOT" THEN r.delta \div TicksPerUs ELSE log.at + r.delta \div TicksPerUs
    IN  [at |-> at, lost |-> log.lost + (IF r.ev = "GAP" THEN r.n ELSE 0),
         seen |-> IF r.ev # "EVENT" THEN log.seen ELSE Append(log.seen, [id |-> r.n, at |-> at, lost |-> log.lost])]
DecodeAll(s) == FoldLeft(Decode, [at |-> 0, lost |-> 0, seen |-> <<>>], ReadRecords(s))

-----------------------------------------------------------------------------
(* COBS frames of bytes that are zero or not.                               *)

CobsEncode[s \in Seq(Nat)] ==
    LET zeros == {i \in DOMAIN s : s[i] = 0}
        run == Min({MaxChunk, IF zeros = {} THEN Len(s) ELSE Min(zeros) - 1})
        chunk == <<run + 1>> \o SubSeq(s, 1, run)
    IN  IF run = MaxChunk THEN chunk \o CobsEncode[SubSeq(s, run + 1, Len(s))]
        ELSE IF run < Len(s) THEN chunk \o CobsEncode[SubSeq(s, run + 2, Len(s))]
        ELSE chunk

(* Also cobs_decode of the host.                                            *)
CobsDecode[s \in Seq(Nat)] ==
    IF s = <<>> \/ s[1] = 0 \/ s[1] > Len(s) THEN <<>>
    ELSE LET rest == SubSeq(s, s[1] + 1, Len(s))
             zero == IF s[1] # MaxChunk + 1 /\ rest # <<>> THEN <<0>> ELSE <<>>
         IN  SubSeq(s, 2, s[1]) \o zero \o CobsDecode[rest]

CobsStart == [kind |-> "cobs", sent |-> <<>>]

-----------------------------------------------------------------------------
(* TaskStateTracker, fed with the events the kernel records for two tasks.  *)
(* real is what the kernel knows; cause the events it still owes.           *)

TrackerStart ==
    [kind |-> "tracker", real |-> [t \in Tracked |-> "new"], current |-> None, owed |-> <<>>, events |-> 0,
     open |-> [t \in Tracked |-> "none"], running |-> None, isr |-> <<>>, drawn |-> <<>>]

Begin(k, t, state) == [k EXCEPT !.open[t] = state]
Process(k, e) ==
    CASE e.op = "KERNEL_START" -> [Begin(k, e.t, "RUNNING") EXCEPT !.running = e.t]
      [] e.op = "TASK_SWITCH" ->
            LET v == IF k.open[e.prev] = "RUNNING" THEN Begin(k, e.prev, "READY") ELSE k
            IN  [Begin(v, e.t, "RUNNING") EXCEPT !.running = e.t]
      [] e.op = "TASK_BLOCK" -> [Begin(k, e.t, "BLOCKED") EXCEPT !.running = IF @ = e.t THEN None ELSE @]
      [] e.op \in {"TASK_READY", "TASK_TIMEOUT"} -> Begin(k, e.t, "READY")
      [] e.op = "TASK_EXIT" -> Begin(k, e.t, "none")
      [] e.op = "ISR_ENTER" -> IF k.running = None THEN k ELSE [k EXCEPT !.isr = Append(@, k.running)]
      [] e.op = "ISR_EXIT" -> IF k.isr = <<>> THEN k
                              ELSE [k EXCEPT !.isr = Front(@), !.drawn = Append(@, Last(k.isr))]
      [] OTHER -> k

Happening(op, t) == [op |-> op, t |-> t, prev |-> t]
Happens(k, t, state, e) == Process([k EXCEPT !.real[t] = state, !.events = @ + 1], e)

(* The kernel: the first task starts, others are created ready, the running *)
(* one blocks or ends, a blocked one becomes ready, and the switch follows. *)
KernelStarts(k, t) == [Happens(k, t, "running", Happening("KERNEL_START", t)) EXCEPT !.current = t]
KernelCreates(k, t) == Happens(k, t, "ready", Happening("TASK_CREATE", t))
KernelBlocks(k) == Happens(k, k.current, "blocked", Happening("TASK_BLOCK", k.current))
KernelEnds(k) == Happens(k, k.current, "gone", Happening("TASK_EXIT", k.current))
KernelReadies(k, t, late) ==
    Process(Happens(k, t, "ready", Happening(IF late THEN "TASK_TIMEOUT" ELSE "TASK_READY", t)), Happening("TASK_READY", t))
KernelSwitches(k, t) ==
    LET prev == k.current
        v == IF k.real[prev] = "running" THEN Happens(k, prev, "ready", Happening("TASK_READY", prev)) ELSE k
    IN  [Happens(v, t, "running", [op |-> "TASK_SWITCH", prev |-> prev, t |-> t]) EXCEPT !.current = t]
KernelIsr(k, op) == Process([k EXCEPT !.events = @ + 1], Happening(op, None))

-----------------------------------------------------------------------------
(* xFAULT on the Cortex-R5.  A word has two addresses, the stack reaches    *)
(* from limit up to base; a frame is the address of its last word: the      *)
(* return address is one word below it, the next frame three.               *)

StackBounds == [base : StackEnds, limit : StackEnds]
Unset == [base |-> 0, limit |-> 0]
FaultStart ==
    [kind |-> "fault", cfg |-> "none", bounds |-> Unset, pc |-> "idle", frame |-> 0, trace |-> <<>>, at |-> 1,
     off |-> 0, retry |-> 0, failed |-> FALSE, flushed |-> FALSE]

BoundsAreValid(b) == b.limit < b.base
(* A configuration with an output that has no write function is refused     *)
(* first, then the bounds; none at all clears it.                           *)
FatalConfigSet(f, cfg, b) ==
    IF cfg = "broken" \/ (b # Unset /\ ~BoundsAreValid(b)) THEN f ELSE [f EXCEPT !.cfg = cfg, !.bounds = b]

RangeInStack(a, length, b) == a >= b.limit /\ b.base >= length /\ a <= b.base - length
Readable(a, b) == a # 0 /\ a % 2 = 0 /\ RangeInStack(a - 6, 8, b)

(* The CP15 registers first; a failure there ends it.  no context: only halt. *)
FatalEntry(f, frame, cp15) ==
    IF ~cp15 THEN [f EXCEPT !.pc = "halted", !.failed = TRUE]
    ELSE [f EXCEPT !.frame = frame, !.trace = <<>>,
                   !.pc = IF f.bounds # Unset THEN "capture" ELSE IF f.cfg = "output" THEN "dump" ELSE "halted"]

(* One frame: what is read there is anything.                               *)
Capture(f, next) ==
    LET v == [f EXCEPT !.trace = Append(@, f.frame), !.frame = next]
        done == IF f.cfg = "output" THEN "dump" ELSE "halted"
    IN  IF Len(f.trace) = MaxDepth \/ ~Readable(f.frame, f.bounds) THEN [f EXCEPT !.pc = done]
        ELSE IF next = 0 \/ next % 2 # 0 \/ next <= f.frame THEN [v EXCEPT !.pc = done]
        ELSE v

(* The dump: a start and a type, nine lines of registers, two of CP15, the  *)
(* frames between two marks.  A line is written in pieces of one or two.    *)
DumpLines(f) == 15 + Len(f.trace)
OutputWriteAll(f, outcome) ==
    IF outcome \in {"error", "over"} \/ (outcome = "zero" /\ f.retry + 1 >= RetryLimit)
    THEN [f EXCEPT !.pc = "halted", !.failed = TRUE]
    ELSE IF outcome = "zero" THEN [f EXCEPT !.retry = @ + 1]
    ELSE IF outcome = "part" /\ f.off = 0 THEN [f EXCEPT !.off = 1, !.retry = 0]
    ELSE [f EXCEPT !.at = @ + 1, !.off = 0, !.retry = 0, !.pc = IF f.at = DumpLines(f) THEN "flush" ELSE "dump"]
FlushOutput(f) == [f EXCEPT !.pc = "halted", !.flushed = TRUE]

-----------------------------------------------------------------------------
(* xSHELL.  typed is the line as its user sees it, lost that a character of *)
(* it found no room, mended that one was deleted after that.                *)

Letters == {"h", "e", " ", "'"}
NotRun == [st |-> "none", argv |-> <<>>, typed |-> <<>>, exact |-> TRUE]
ShellStart ==
    [kind |-> "shell", state |-> "READY", cmds |-> <<>>, line |-> <<>>, over |-> FALSE, skip |-> FALSE,
     typed |-> <<>>, lost |-> FALSE, mended |-> FALSE, ran |-> NotRun]

(* The builtins are two commands, help and echo.                            *)
CmdRegister(s, path) ==
    IF Len(s.cmds) >= 2 THEN s
    ELSE IF path \in Range(s.cmds) THEN s ELSE [s EXCEPT !.cmds = Append(@, path)]

Spaces(s) == {i \in DOMAIN s : s[i] = " "}
Quotes(s) == {i \in 2..Len(s) : s[i] = "'"}
(* parse_tokens: a quoted token ends at the quote, another at a space.      *)
ParseTokens[s \in Seq(Letters), argv \in Seq(Seq(Letters))] ==
    IF s = <<>> THEN [st |-> "OK", argv |-> argv]
    ELSE IF s[1] = " " THEN ParseTokens[Tail(s), argv]
    ELSE IF Len(argv) >= MaxArgs THEN [st |-> "BUFFER_FULL", argv |-> <<>>]
    ELSE IF s[1] = "'"
    THEN IF Quotes(s) = {} THEN [st |-> "INVALID_ARG", argv |-> <<>>]
         ELSE ParseTokens[SubSeq(s, Min(Quotes(s)) + 1, Len(s)), Append(argv, SubSeq(s, 2, Min(Quotes(s)) - 1))]
    ELSE LET n == IF Spaces(s) = {} THEN Len(s) ELSE Min(Spaces(s)) - 1
         IN  ParseTokens[SubSeq(s, n + 2, Len(s)), Append(argv, SubSeq(s, 1, n))]
ParseLine(s) == LET r == ParseTokens[s, <<>>] IN IF r.st = "OK" /\ r.argv = <<>> THEN [r EXCEPT !.st = "NO_COMMAND"] ELSE r

(* xCLI_Execute_Line and xCMD_Dispatch.                                     *)
ExecuteLine(s) ==
    LET r == ParseLine(s.line)
        st == IF r.st # "OK" THEN r.st ELSE IF r.argv[1] \in Range(s.cmds) THEN "OK" ELSE "NOT_FOUND"
    IN  [s EXCEPT !.ran = [st |-> st, argv |-> r.argv, typed |-> s.typed, exact |-> ~s.mended]]

DispatchLine(s) ==
    [(IF s.over THEN s ELSE ExecuteLine(s))
        EXCEPT !.line = <<>>, !.over = FALSE, !.typed = <<>>, !.lost = FALSE, !.mended = FALSE]

Backspace(s) ==
    LET v == [s EXCEPT !.typed = IF @ = <<>> THEN @ ELSE Front(@), !.mended = s.lost]
    IN  IF s.line = <<>> THEN v ELSE [v EXCEPT !.line = Front(@), !.over = FALSE]

ProcessByte(s, c) ==
    LET v == [s EXCEPT !.skip = FALSE, !.ran = NotRun] IN
    IF s.skip /\ c = "LF" THEN v
    ELSE IF c \in {"CR", "LF"} THEN DispatchLine([v EXCEPT !.skip = c = "CR"])
    ELSE IF c = "BS" THEN Backspace(v)
    ELSE IF Len(s.line) >= LineLength THEN [v EXCEPT !.over = TRUE, !.lost = TRUE, !.typed = Append(@, c)]
    ELSE [v EXCEPT !.line = Append(@, c), !.typed = Append(@, c)]

Moves(s, from, to) == IF s.state = from THEN [s EXCEPT !.state = to] ELSE s

-----------------------------------------------------------------------------
(* The actions.                                                             *)

Tool(kind) == tool.kind = kind

(* An event may be recorded at any time, also by an interrupt while a flush *)
(* is under way.                                                            *)
TraceEmits ==
    /\ Tool("trace") /\ Len(tool.stamp) < (IF tool.mask = Classes THEN MaxEvents ELSE 1)
    /\ \E ticks \in {1, 130}, extra \in {0, 6}, class \in Classes \cup {"other"} :
        /\ tool.now + ticks < 300
        /\ tool' = Emit(tool, ticks, class, extra)

TraceFilters ==
    /\ Tool("trace") /\ tool.stamp = <<>> /\ tool.policy = "DROP" /\ tool.out = <<>>
    /\ \E on \in BOOLEAN :
        \/ \E c \in Classes : tool' = FilterEvent(tool, c, on)
        \/ tool' = FilterAll(tool, on)
        \/ \E word0 \in BOOLEAN : tool' = FilterModule(tool, word0, on)

TraceFlushes ==
    /\ Tool("trace")
    /\ \/ tool.call.op \in {"none", "look"} /\ tool' = FlushLooks(tool)
       \/ tool.call.op = "write" /\ \E n \in {0, 2, tool.call.n} : n <= tool.call.n /\ tool' = FlushWrites(tool, n)
       \/ tool.call.op = "move" /\ tool' = FlushMoves(tool)

CobsGrows ==
    /\ Tool("cobs") /\ Len(tool.sent) < 2 * MaxChunk + 2
    /\ \E b \in {0, 1} : tool' = [tool EXCEPT !.sent = Append(@, b)]

TrackerSteps ==
    /\ Tool("tracker") /\ tool.events < 3 * MaxEvents
    /\ \/ tool.current = None /\ \E t \in Tracked : tool' = KernelStarts(tool, t)
       \/ /\ tool.current # None
          /\ \/ \E t \in Tracked : tool.real[t] = "new" /\ tool' = KernelCreates(tool, t)
             \/ tool.real[tool.current] = "running" /\ tool' \in {KernelBlocks(tool), KernelEnds(tool)}
             \/ \E t \in Tracked, late \in BOOLEAN : tool.real[t] = "blocked" /\ tool' = KernelReadies(tool, t, late)
             \/ \E t \in Tracked : tool.real[t] = "ready" /\ tool' = KernelSwitches(tool, t)
             \/ \E op \in {"ISR_ENTER", "ISR_EXIT"} : tool' = KernelIsr(tool, op)

FaultConfigures ==
    /\ Tool("fault") /\ tool.pc = "idle"
    /\ \E cfg \in {"none", "plain", "output", "broken"}, b \in StackBounds : tool' = FatalConfigSet(tool, cfg, b)

FaultHappens ==
    /\ Tool("fault") /\ tool.pc = "idle"
    /\ \E frame \in Addresses, cp15 \in BOOLEAN : tool' = FatalEntry(tool, frame, cp15)

FaultSteps ==
    /\ Tool("fault")
    /\ \/ tool.pc = "capture" /\ \E next \in Addresses : tool' = Capture(tool, next)
       \/ tool.pc = "dump" /\ \E o \in {"all", "part", "zero", "error", "over"} : tool' = OutputWriteAll(tool, o)
       \/ tool.pc = "flush" /\ tool' = FlushOutput(tool)

ShellLifeCycle ==
    /\ Tool("shell")
    /\ \/ \E c \in {"h", "e"} : tool' = CmdRegister(tool, <<c>>)
       \/ tool' = Moves(tool, "READY", "RUNNING")
       \/ tool' = Moves(tool, "RUNNING", "STOPPED")

ShellProcess ==
    /\ Tool("shell") /\ tool.state = "RUNNING" /\ Len(tool.typed) <= LineLength + 1
    /\ \E c \in Letters \cup {"CR", "LF", "BS"} : tool' = ProcessByte(tool, c)

ToolsInit ==
    tool \in {Booted(TraceInit(p, start, on)) : p \in {"DROP", "OVERWRITE"}, start \in {1}, on \in BOOLEAN}
             \cup {CobsStart, TrackerStart, FaultStart, ShellStart}

ToolsNext ==
    \/ TraceEmits \/ TraceFilters \/ TraceFlushes \/ CobsGrows \/ TrackerSteps
    \/ FaultConfigures \/ FaultHappens \/ FaultSteps \/ ShellLifeCycle \/ ShellProcess

ToolsFairness == WF_tool(FaultSteps)

-----------------------------------------------------------------------------
(* What the tools promise.                                                  *)

(* What the host has and will have by the end of the flush under way.       *)
Stream(t) == t.out \o RingBytes(IF t.call.op = "move" THEN FlushMoves(t) ELSE t)

(* Whatever was lost to a full ring or split between two flushes, the host  *)
(* reads whole records in the order of the events, dates each within one    *)
(* microsecond per record (a tick count is rounded down record by record),  *)
(* and is told of every loss: of how many events under the DROP policy,     *)
(* with flushes interrupted anywhere; of the fact of it under OVERWRITE,    *)
(* where nothing is claimed once the ring was reset in the middle.          *)
TraceTruth(t) ==
    LET s == Stream(t)
        log == DecodeAll(s)
        seen == log.seen
    IN  ~t.torn =>
        /\ Aligned(s)
        /\ \A i \in DOMAIN seen :
            LET before == IF i = 1 THEN [id |-> 0, lost |-> 0] ELSE seen[i - 1]
                skipped == seen[i].id - before.id - 1
            IN  /\ seen[i].at <= t.stamp[seen[i].id] \div TicksPerUs
                /\ t.stamp[seen[i].id] \div TicksPerUs - seen[i].at < Len(ReadRecords(s))
                /\ skipped >= 0
                /\ t.policy = "DROP" => seen[i].lost - before.lost = skipped
                /\ t.policy = "OVERWRITE" /\ skipped > 0 => seen[i].lost > before.lost
        /\ t.policy = "DROP" /\ t.enabled => Len(t.stamp) = Len(seen) + log.lost + t.dropped

(* A frame has no zero in it, is not longer than the bound in the header    *)
(* says, and gives back the payload; a frame cut short gives a prefix.      *)
CobsTruth(c) ==
    LET e == CobsEncode[c.sent] IN
    /\ 0 \notin ToSet(e) /\ Len(e) + 1 <= Len(c.sent) + Len(c.sent) \div MaxChunk + 2
    /\ CobsDecode[e] = c.sent
    /\ \A n \in 0..Len(e) : IsPrefix(CobsDecode[SubSeq(e, 1, n)], c.sent)

(* From a trace without losses the host finds the running and the blocked   *)
(* tasks as the kernel has them; a ready task it may not know yet.          *)
TrackerTruth(k) ==
    \A t \in Tracked :
        CASE k.real[t] = "running" -> k.open[t] = "RUNNING" /\ k.running = t
          [] k.real[t] = "blocked" -> k.open[t] = "BLOCKED"
          [] k.real[t] = "ready" -> k.open[t] \in {"READY", "none"}
          [] OTHER -> k.open[t] = "none"

(* The walk reads nothing outside the stack, climbs, and is bounded; a dump *)
(* that did not fail is whole.                                              *)
FaultTruth(f) ==
    /\ Len(f.trace) <= MaxDepth
    /\ \A i \in DOMAIN f.trace : f.trace[i] - 6 >= f.bounds.limit /\ f.trace[i] + 2 <= f.bounds.base
    /\ \A i \in 1..Len(f.trace) - 1 : f.trace[i] < f.trace[i + 1]
    /\ f.bounds # Unset => f.bounds.limit < f.bounds.base
    /\ f.pc = "halted" /\ f.cfg = "output" /\ ~f.failed => f.at = DumpLines(f) + 1 /\ f.flushed

(* Independent of how the line is cut up: gap, word or inside quotes.       *)
Cut(acc, c) ==
    CASE acc.in = "gap" -> IF c = " " THEN acc ELSE [acc EXCEPT !.in = IF c = "'" THEN "quotes" ELSE "word",
                                                                !.cur = IF c = "'" THEN <<>> ELSE <<c>>]
      [] acc.in = "word" /\ c = " " -> [in |-> "gap", cur |-> <<>>, argv |-> Append(acc.argv, acc.cur)]
      [] acc.in = "quotes" /\ c = "'" -> [in |-> "gap", cur |-> <<>>, argv |-> Append(acc.argv, acc.cur)]
      [] OTHER -> [acc EXCEPT !.cur = Append(@, c)]
Words(s) == LET e == FoldLeft(Cut, [in |-> "gap", cur |-> <<>>, argv |-> <<>>], s)
            IN  IF e.in = "quotes" THEN <<>> ELSE IF e.in = "word" THEN Append(e.argv, e.cur) ELSE e.argv

(* A command runs only for the line its user sees, cut up at spaces and     *)
(* quotes, unless characters the shell had no room for were deleted again;  *)
(* a command name is registered once.                                       *)
ShellTruth(s) ==
    /\ s.ran.st = "OK" /\ s.ran.exact => s.ran.argv = Words(s.ran.typed)
    /\ s.ran.st # "none" /\ s.ran.exact => (s.ran.st \in {"OK", "NOT_FOUND"} <=> Len(Words(s.ran.typed)) \in 1..MaxArgs)
    /\ \A i, j \in DOMAIN s.cmds : i # j => s.cmds[i] # s.cmds[j]

(* What holds of the tool in use (see above).                               *)
ToolsTruth ==
    CASE Tool("trace") -> TraceTruth(tool)
      [] Tool("cobs") -> CobsTruth(tool)
      [] Tool("tracker") -> TrackerTruth(tool)
      [] Tool("fault") -> FaultTruth(tool)
      [] Tool("shell") -> ShellTruth(tool)
      [] OTHER -> TRUE

(* A fault ends in the halt, whatever the output does.                      *)
FaultHalts == (Tool("fault") /\ tool.pc # "idle") ~> (Tool("fault") /\ tool.pc = "halted")
=============================================================================
