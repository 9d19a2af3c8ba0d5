----------------------------- MODULE XusbdClass -----------------------------
(* The controller driver of the USB device stack (xusbd_drv.c of the       *)
(* CH32H417) and the class drivers above it: their registration, the       *)
(* requests and the data the stack routes to them, and the bulk-only mass  *)
(* storage function.  HID keeps two settings and accepts what it does not  *)
(* know; CDC and WinUSB keep nothing and hand everything to the            *)
(* application, which refuses the requests.                                *)
EXTENDS XusbCalls

CONSTANTS InterfaceLimit, EndpointLimit, DiskBlocks, Word

-----------------------------------------------------------------------------
(* The CH32H417 controller driver.  The stack is one record d; d.dcd is    *)
(* the controller and its driver:                                          *)
(*   addr, up     the address it answers to; is_connected of the driver    *)
(*   req_in       the direction latched from the last SETUP packet         *)
(*   ep0, sent    what endpoint 0 is armed with, and the data it sends     *)
(*   enabled, halted, rx, tx    the other endpoints: an armed OUT endpoint *)
(*                and the payload an IN endpoint holds out                 *)
(*   irq          a status stage whose interrupt has not been serviced     *)

IdleDcd ==
    [on |-> FALSE, up |-> FALSE, addr |-> 0, req_in |-> FALSE, ep0 |-> "idle",
     sent |-> Nothing, enabled |-> {}, halted |-> {}, irq |-> FALSE,
     rx |-> [e \in OutAddress |-> FALSE], tx |-> [e \in InAddress |-> Nothing]]

Dropped(dcd, e) ==
    IF e \in OutAddress THEN [dcd EXCEPT !.rx[e] = FALSE] ELSE [dcd EXCEPT !.tx[e] = Nothing]

(* usbss_controller_reset_init forgets the endpoints and the address.      *)
ControllerReset(d) == [d EXCEPT !.dcd = [IdleDcd EXCEPT !.on = d.dcd.on]]

DcdInit(d) ==
    IF d.dcd.on THEN Ok(d) ELSE [Ok(d) EXCEPT !.dcd = [IdleDcd EXCEPT !.on = TRUE]]
DcdDeinit(d) == [Ok(d) EXCEPT !.dcd = IdleDcd]

DcdSetAddress(d, addr) == [Ok(d) EXCEPT !.dcd.addr = addr]

DcdEndpointInit(d, e) ==
    IF e = EP0 THEN Ok(d)
    ELSE [Ok(d) EXCEPT !.dcd = [Dropped(@, e) EXCEPT !.enabled = @ \cup {e}, !.halted = @ \ {e}]]

DcdEndpointDeinit(d, e) ==
    IF e = EP0 THEN Ok(d)
    ELSE [Ok(d) EXCEPT !.dcd = [Dropped(@, e) EXCEPT !.enabled = @ \ {e}, !.halted = @ \ {e}]]

DcdReceive(d, e) ==
    IF e = EP0 THEN [Ok(d) EXCEPT !.dcd.ep0 = "out"]
    ELSE IF e \notin d.dcd.enabled THEN Failed(d, "INSUFFICIENT_BUFFER_SIZE")
    ELSE IF d.dcd.rx[e] THEN Failed(d, "EP_BUSY")
    ELSE [Ok(d) EXCEPT !.dcd.rx[e] = TRUE]

(* On endpoint 0 an empty packet is the status stage of an OUT request.    *)
DcdSend(d, e, payload) ==
    IF e = EP0 THEN [Ok(d) EXCEPT !.dcd.ep0 = IF payload = Nothing THEN "ack" ELSE "in",
                                  !.dcd.sent = payload]
    ELSE IF e \notin d.dcd.enabled THEN Failed(d, "INSUFFICIENT_BUFFER_SIZE")
    ELSE IF d.dcd.tx[e] # Nothing THEN Failed(d, "EP_BUSY")
    ELSE [Ok(d) EXCEPT !.dcd.tx[e] = payload]

DcdStall(d, e) ==
    IF e = EP0 THEN [Ok(d) EXCEPT !.dcd.ep0 = "stall"]
    ELSE [Ok(d) EXCEPT !.dcd.halted = @ \cup {e}]

(* Clearing a halt drops what the endpoint was armed with.                 *)
DcdClearStall(d, e) ==
    IF e = EP0 THEN [Ok(d) EXCEPT !.dcd.ep0 = IF @ = "stall" THEN "idle" ELSE @]
    ELSE [Ok(d) EXCEPT !.dcd = [Dropped(@, e) EXCEPT !.halted = @ \ {e}]]

-----------------------------------------------------------------------------
(* The classes.                                                            *)

(* What init_instance asks for, in the order it asks.                      *)
Needs == [msc |-> <<"interface", "in", "out">>,
          hid |-> <<"interface", "int">>,
          cdc |-> <<"interface", "interface", "int2", "out2", "in2">>,
          win |-> <<"interface", "out2", "in2">>]

CountOf(d, addresses) == Cardinality({e \in addresses : d.owner[e] # "none"})

(* d.owner and d.ifaces are the endpoint and interface maps.               *)
ClassAllocate(d, c, what) ==
    IF what = "interface"
    THEN IF Len(d.ifaces) >= InterfaceLimit THEN Failed(d, "RESOURCE_EXHAUSTED")
         ELSE [Ok(d) EXCEPT !.ifaces = Append(@, c)]
    ELSE IF CountOf(d, IF what \in InAddress THEN InAddress ELSE OutAddress) >= EndpointLimit
         THEN Failed(d, "RESOURCE_EXHAUSTED")
    ELSE [Ok(d) EXCEPT !.owner[what] = c]

InitInstance(d, c) ==
    While(Ok(d), Len(Needs[c]), LAMBDA g, i : ClassAllocate(g, c, Needs[c][i + 1]))

(* What it allocates is in the two maps; a failed registration gives back  *)
(* what it had allocated.                                                  *)
ClassRegister(d, c) ==
    IF d.started THEN Failed(d, "ALREADY_INITIALIZED")
    ELSE Either(InitInstance(d, c),
                LAMBDA g : [Ok(d) EXCEPT !.ifaces = g.ifaces, !.owner = g.owner, !.classes = Append(@, c),
                                         !.life = IF @ = "INITIALIZED" THEN "CLASSES_REGISTERED" ELSE @],
                LAMBDA g : Failed(d, g.st))

-----------------------------------------------------------------------------
(* Bulk-only transport.  app says what the application's next callback     *)
(* answers.                                                                *)
NoBot == [state |-> "IDLE", tag |-> 0, status |-> "FAILED", residue |-> 0, sense |-> FALSE,
          cmd |-> NoCommand]

BotStartCbw(d) == DcdReceive([d EXCEPT !.bot.state = "WAIT_CBW"], "out")

BotSendCsw(d) ==
    DcdSend([d EXCEPT !.bot.state = "SEND_CSW"], "in",
            [op |-> "CSW", tag |-> d.bot.tag, status |-> d.bot.status, residue |-> d.bot.residue])

BotEndpoints(d) == Then(DcdEndpointInit(d, "out"), LAMBDA g : DcdEndpointInit(g, "in"))

BotReset(d) ==
    Then(BotEndpoints(d), LAMBDA a :
    Then(DcdClearStall(a, "in"), LAMBDA b :
    Then(DcdClearStall(b, "out"), LAMBDA c :
        BotStartCbw([c EXCEPT !.bot.sense = FALSE]))))

(* The end of the range is computed in 32 bits.                            *)
BlockInRange(cmd) == (cmd.lba + 1) % Word <= DiskBlocks

Passed(d) == [d EXCEPT !.bot.status = "PASSED"]
Sensed(d) == [d EXCEPT !.bot.sense = TRUE]

(* A READ or a WRITE is one block, so cmd.n = 1 is the right length.       *)
ScsiBlock(d, cmd, app) ==
    IF ~BlockInRange(cmd) THEN Sensed(d)
    ELSE IF cmd.n # 1 THEN d
    ELSE IF app THEN Passed(d) ELSE Sensed(d)

ScsiCommand(d, cmd, app) ==
    CASE cmd.op \in {"Read10", "Write10"} -> ScsiBlock(d, cmd, app)
      [] cmd.op = "Inquiry" -> IF app THEN Passed(d) ELSE Sensed(d)
      [] cmd.op = "RequestSense" -> [Passed(d) EXCEPT !.bot.sense = FALSE]
      [] cmd.op \in {"ReadCapacity", "TestUnitReady"} -> Passed(d)
      [] OTHER -> d

(* The application fills the whole of the answer.                          *)
BotData(d, cmd) ==
    [op |-> "DATA", n |-> cmd.n,
     val |-> IF cmd.op = "Read10" THEN d.disk ELSE IF cmd.op = "RequestSense" THEN d.bot.sense ELSE 1]

BotDataPhase(d, payload) ==
    LET cmd == d.bot.cmd
    IN  IF cmd.n = 0 THEN BotSendCsw(d)
        ELSE IF DataIn(cmd) THEN DcdSend([d EXCEPT !.bot.state = "DATA_IN"], "in", payload)
        ELSE DcdReceive([d EXCEPT !.bot.state = "DATA_OUT"], "out")

(* Anything but a command wrapper halts both endpoints.                    *)
BotCommand(d, payload, app) ==
    IF payload.op # "CBW"
    THEN Then(DcdStall([d EXCEPT !.bot.state = "ERROR", !.bot.status = "FAILED"], "in"),
              LAMBDA g : DcdStall(g, "out"))
    ELSE LET cmd == payload.cmd
             got == [d EXCEPT !.bot = [@ EXCEPT !.status = "FAILED", !.tag = payload.tag,
                                                !.cmd = cmd, !.residue = 0]]
         IN  Always(ScsiCommand(got, cmd, app), LAMBDA g :
                IF g.bot.status = "PASSED" THEN BotDataPhase(g, BotData(d, cmd))
                ELSE BotSendCsw([g EXCEPT !.bot.residue = cmd.n]))

(* Mutant: the answer of WRITE_COMPLETE is not looked at.                  *)
BotWriteUnchecked(d, payload, app) ==
    BotSendCsw(IF app THEN [d EXCEPT !.disk = payload.val] ELSE d)

BotDataReceived(d, payload, app) ==
    BotSendCsw(IF app THEN [d EXCEPT !.disk = payload.val]
               ELSE Sensed([d EXCEPT !.bot.status = "FAILED"]))

BotReceived(d, payload, app) ==
    CASE d.bot.state = "WAIT_CBW" -> BotCommand(d, payload, app)
      [] d.bot.state = "DATA_OUT" -> BotDataReceived(d, payload, app)
      [] OTHER -> Ok(d)

BotTransmitted(d) ==
    CASE d.bot.state = "SEND_CSW" -> BotStartCbw(d)
      [] d.bot.state = "DATA_IN" -> BotSendCsw(d)
      [] OTHER -> Ok(d)

-----------------------------------------------------------------------------
(* Bus events.                                                             *)
(* DcdEndpointInit and DcdEndpointDeinit of all the endpoints S.           *)
Emptied(dcd, S) ==
    [dcd EXCEPT !.rx = [e \in OutAddress |-> e \notin S /\ @[e]],
                !.tx = [e \in InAddress |-> IF e \in S THEN Nothing ELSE @[e]],
                !.halted = @ \ S]
Opened(d, S) == [Ok(d) EXCEPT !.dcd = [Emptied(@, S) EXCEPT !.enabled = @ \cup S]]
Closed(d, S) == [Ok(d) EXCEPT !.dcd = [Emptied(@, S) EXCEPT !.enabled = @ \ S]]

BotBusEvent(d, event) ==
    CASE event = "CONNECT" ->
            Then(BotEndpoints(d), LAMBDA g : BotStartCbw([g EXCEPT !.bot.sense = FALSE]))
      [] event \in {"RESET", "DISCONNECT"} -> [Ok(d) EXCEPT !.bot.state = "IDLE"]
      [] OTHER -> Ok(d)

(* CDC, and WinUSB and HID with fewer endpoints; the application's own     *)
(* answer is not waited for.                                               *)
EndpointsBusEvent(d, owned, event) ==
    CASE event = "CONNECT" -> Opened(d, owned)
      [] event \in {"RESET", "DISCONNECT"} -> Closed(d, owned)
      [] OTHER -> Ok(d)

(* Every class is told, whatever the others answer; no two share an        *)
(* endpoint, so that their order makes no difference.                      *)
ClassBusEventProcess(d, event) ==
    LET owned == {e \in Address : d.owner[e] \notin {"none", "msc"}}
        told == EndpointsBusEvent(d, owned, event)
    IN  Ok(IF \E i \in DOMAIN d.classes : d.classes[i] = "msc" THEN BotBusEvent(told, event) ELSE told)

-----------------------------------------------------------------------------
(* Control requests.  A request is a record: op, and for some the addr,    *)
(* value, endpoint (ep) or interface (index) it is about.                  *)
AnswerIn(d, response) == [Ok(d) EXCEPT !.response = response]

MscControlIn(d) ==
    IF d.req.op = "GetMaxLun" THEN AnswerIn(d, Request("lun"))
    ELSE Failed(d, "INVALID_CLASS_REQ")

MscControlOut(d) ==
    IF d.req.op = "BulkReset" THEN BotReset(d) ELSE Failed(d, "INVALID_CLASS_REQ")

HidControlIn(d) ==
    AnswerIn(d, CASE d.req.op = "GetProtocol" -> [op |-> "protocol", val |-> d.hid.protocol]
                  [] d.req.op = "GetInterface" -> [op |-> "setting", val |-> d.hid.alt]
                  [] d.req.op = "GetReportDescriptor" -> Request("report")
                  [] OTHER -> Nothing)

HidControlOut(d) ==
    CASE d.req.op = "SetProtocol" -> [Ok(d) EXCEPT !.hid.protocol = d.req.value]
      [] d.req.op = "SetInterface" -> [Ok(d) EXCEPT !.hid.alt = d.req.value]
      [] OTHER -> Ok(d)

ClassControlIn(d, c) ==
    CASE c = "msc" -> MscControlIn(d)
      [] c = "hid" -> HidControlIn(d)
      [] OTHER -> Failed(d, "INVALID_CLASS_REQ")

ClassControlOut(d, c) ==
    CASE c = "msc" -> MscControlOut(d)
      [] c = "hid" -> HidControlOut(d)
      [] OTHER -> Failed(d, "INVALID_CLASS_REQ")

(* The class that owns the interface the request names.                    *)
RecipientClass(d) ==
    IF d.req.index < Len(d.ifaces) THEN d.ifaces[d.req.index + 1] ELSE "none"

Routed(d, Handle(_, _)) ==
    LET c == RecipientClass(d)
    IN  IF c = "none" THEN Failed(d, "INVALID_CLASS_REQ")
        ELSE Then(Handle(d, c), LAMBDA g : [g EXCEPT !.cls = c])

ClassInRequest(d) == Routed(d, ClassControlIn)
ClassOutRequest(d) == Routed(d, ClassControlOut)

ClassDataReceived(d, e, payload, app) ==
    CASE d.owner[e] = "none" -> Failed(d, "INVALID_CLASS_REQ")
      [] d.owner[e] = "msc" -> BotReceived(d, payload, app)
      [] OTHER -> Ok(d)

ClassDataSent(d, e) ==
    CASE d.owner[e] = "none" -> Failed(d, "INVALID_CLASS_REQ")
      [] d.owner[e] = "msc" -> BotTransmitted(d)
      [] OTHER -> Ok(d)

(* None of these drivers has a handler for the end of a control transfer.  *)
ClassControlComplete(d) == [Ok(d) EXCEPT !.cls = "none"]

HidSendReport(d) == DcdSend(d, "int", Request("REPORT"))
=============================================================================
