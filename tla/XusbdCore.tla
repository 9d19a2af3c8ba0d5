----------------------------- MODULE XusbdCore -----------------------------
(* The USB device stack above the class drivers: the control transfer of   *)
(* endpoint 0, the standard requests, the events of the controller driver  *)
(* and the lifecycle calls.                                                *)
EXTENDS XusbdClass

InitializedDevice ==
    [st |-> "OK", started |-> FALSE, life |-> "INITIALIZED", addressed |-> FALSE, addr |-> 0,
     configured |-> FALSE, phase |-> "IDLE", req |-> Nothing, response |-> Nothing, cls |-> "none",
     wake |-> FALSE, classes |-> <<>>, ifaces |-> <<>>, owner |-> [e \in Address |-> "none"],
     bot |-> NoBot, disk |-> 0, hid |-> [protocol |-> 1, alt |-> 0], dcd |-> IdleDcd]

(* Requests by direction; SetReport is the one with an OUT data stage.     *)
InRequests == {"DeviceHeader", "Device", "ConfigHeader", "Config", "GetString", "GetStatus",
               "GetConfiguration", "GetInterface", "GetMaxLun", "GetProtocol", "GetReportDescriptor"}
IsInRequest(req) == req.op \in InRequests
HasOutData(req) == req.op = "SetReport"

(* The interfaces and endpoints the class drivers describe.                *)
ClassItems == [
    msc |-> <<[kind |-> "interface", cls |-> "msc", alt |-> 0, n |-> 2],
              [kind |-> "endpoint", addr |-> "out"], [kind |-> "endpoint", addr |-> "in"]>>,
    hid |-> <<[kind |-> "interface", cls |-> "hid", alt |-> 0, n |-> 1],
              [kind |-> "endpoint", addr |-> "int"]>>,
    cdc |-> <<[kind |-> "interface", cls |-> "other", alt |-> 0, n |-> 1],
              [kind |-> "endpoint", addr |-> "int2"],
              [kind |-> "interface", cls |-> "other", alt |-> 0, n |-> 2],
              [kind |-> "endpoint", addr |-> "out2"], [kind |-> "endpoint", addr |-> "in2"]>>,
    win |-> <<[kind |-> "interface", cls |-> "other", alt |-> 0, n |-> 2],
              [kind |-> "endpoint", addr |-> "out2"], [kind |-> "endpoint", addr |-> "in2"]>>]

BuildConfig(classes) ==
    LET upto[n \in 0 .. Len(classes)] == IF n = 0 THEN <<>> ELSE upto[n - 1] \o ClassItems[classes[n]]
    IN  upto[Len(classes)]

Described(items) == [op |-> "descriptor", good |-> TRUE, items |-> items]

-----------------------------------------------------------------------------
(* The standard requests.                                                  *)
GetDescriptor(d) ==
    CASE d.req.op = "GetReportDescriptor" -> ClassInRequest(d)
      [] d.req.op = "Config" -> AnswerIn(d, Described(BuildConfig(d.classes)))
      [] OTHER -> AnswerIn(d, Described(<<>>))

ClearFeature(d) ==
    CASE d.req.op = "ClearIn" -> DcdClearStall(d, "in")
      [] d.req.op = "ClearOut" -> DcdClearStall(d, "out")
      [] d.req.op = "ClearWake" -> [Ok(d) EXCEPT !.wake = FALSE]

SetFeature(d) ==
    IF d.req.op = "SetHalt" THEN DcdStall(d, d.req.ep) ELSE [Ok(d) EXCEPT !.wake = TRUE]

(* Mutant: the address is used at once, not after the status stage.        *)
SetAddressAtOnce(d) == [DcdSetAddress(d, d.req.addr) EXCEPT !.addr = d.req.addr]
SetAddressRequest(d) == [Ok(d) EXCEPT !.addr = d.req.addr]

GetConfiguration(d) ==
    IF ~d.configured /\ ~d.addressed THEN Failed(d, "REQ_GET_CONFIG_NOT_ADDRESSED")
    ELSE AnswerIn(d, [op |-> "configuration", val |-> d.configured])

SetConfigurationRequest(d) ==
    IF ~d.addressed THEN Failed(d, "REQ_SET_CONFIG_NOT_ADDRESSED")
    ELSE CASE d.req.op = "SetConfiguration" -> [Ok(d) EXCEPT !.configured = TRUE]
           [] d.req.op = "Unconfigure" -> [Ok(d) EXCEPT !.configured = FALSE]
           [] OTHER -> Failed(d, "REQ_SET_CONFIG_NOT_SUPPORTED")

(* Of the device: whether it may wake the host.                            *)
GetStatus(d) == AnswerIn(d, [op |-> "status", val |-> d.wake])

(* A class that refuses is answered for, if the interface exists.          *)
GetInterface(d) ==
    Either(ClassInRequest(d), LAMBDA g : g,
           LAMBDA g : IF g.req.index < Len(g.ifaces)
                      THEN AnswerIn(g, [op |-> "setting", val |-> 0]) ELSE g)
SetInterface(d) ==
    Either(ClassOutRequest(d), LAMBDA g : g,
           LAMBDA g : IF g.req.value = 0 /\ g.req.index < Len(g.ifaces) THEN Ok(g) ELSE g)

StandardRequest(d) ==
    LET op == d.req.op
    IN  CASE op \in {"DeviceHeader", "Device", "ConfigHeader", "Config", "GetString",
                     "GetReportDescriptor"} -> GetDescriptor(d)
          [] op = "GetStatus" -> GetStatus(d)
          [] op \in {"ClearIn", "ClearOut", "ClearWake"} -> ClearFeature(d)
          [] op \in {"SetHalt", "SetWake"} -> SetFeature(d)
          [] op = "SetAddress" -> SetAddressRequest(d)
          [] op = "GetConfiguration" -> GetConfiguration(d)
          [] op \in {"SetConfiguration", "Unconfigure", "SetConfiguration2"} -> SetConfigurationRequest(d)
          [] op = "GetInterface" -> GetInterface(d)
          [] op = "SetInterface" -> SetInterface(d)
          [] OTHER -> Failed(d, "UNSUPPORTED_REQUEST")

(* A class sees an OUT request with data when the data is there.           *)
SetupDispatch(d) ==
    CASE d.req.op \in {"GetMaxLun", "GetProtocol"} -> ClassInRequest(d)
      [] HasOutData(d.req) -> Ok(d)
      [] d.req.op \in {"BulkReset", "SetProtocol"} -> ClassOutRequest(d)
      [] OTHER -> StandardRequest(d)

-----------------------------------------------------------------------------
(* The control transfer.                                                   *)
Idle(d) == [d EXCEPT !.phase = "IDLE"]

SetupDataStage(d) ==
    IF IsInRequest(d.req) THEN DcdSend([d EXCEPT !.phase = "IN"], EP0, d.response)
    ELSE IF HasOutData(d.req) THEN DcdReceive([d EXCEPT !.phase = "OUT"], EP0)
    ELSE DcdSend([d EXCEPT !.phase = "OUT_STATUS"], EP0, Nothing)

(* A new SETUP packet ends what endpoint 0 was doing.                      *)
SetupProcess(d, req) ==
    LET taken == [d EXCEPT !.req = req, !.response = Nothing, !.dcd.ep0 = "idle",
                           !.dcd.sent = Nothing, !.dcd.req_in = IsInRequest(req)]
    IN  Either(SetupDispatch(taken),
               LAMBDA g : Either(SetupDataStage(g), LAMBDA s : s, LAMBDA s : Idle(s)),
               LAMBDA g : Idle(DcdStall(g, EP0)))

StatusPhaseComplete(d) ==
    CASE d.req.op = "SetAddress" ->
            Then(DcdSetAddress(d, d.addr), LAMBDA g : [g EXCEPT !.addressed = TRUE])
      [] d.req.op \in {"SetConfiguration", "Unconfigure", "SetConfiguration2"} ->
            [Ok(d) EXCEPT !.life = IF d.configured THEN "CONFIGURED" ELSE "STARTED"]
      [] OTHER -> Ok(d)

ControlComplete(d) == Then(StatusPhaseComplete(d), LAMBDA g : ClassControlComplete(g))

OutDataReceived(d) ==
    Either(ClassOutRequest(d),
           LAMBDA g : DcdSend([g EXCEPT !.phase = "OUT_STATUS"], EP0, Nothing),
           LAMBDA g : Idle(DcdStall(g, EP0)))

Ep0DataReceived(d) ==
    CASE d.phase = "OUT" -> OutDataReceived(d)
      [] d.phase = "IN" -> ControlComplete(Idle(d))
      [] OTHER -> Ok(d)

Ep0DataSent(d) == IF d.phase = "OUT_STATUS" THEN ControlComplete(Idle(d)) ELSE Ok(d)

(* The interrupt of a status stage; endpoint 0 is cleared after it.        *)
StatusInterrupt(d) ==
    [(IF d.dcd.req_in THEN Ep0DataReceived(d) ELSE Ep0DataSent(d))
        EXCEPT !.dcd.irq = FALSE, !.dcd.ep0 = "idle"]

-----------------------------------------------------------------------------
(* The link: U0 is reported once, SS.Inactive and a reset clear the        *)
(* controller before the stack is told.                                    *)
Ep0Configure(d) == Idle(Then(DcdEndpointInit(d, EP0), LAMBDA g : [g EXCEPT !.dcd.ep0 = "idle"]))

LinkUp(d) ==
    IF d.dcd.up THEN d
    ELSE Then(Ep0Configure([d EXCEPT !.dcd.up = TRUE]),
              LAMBDA g : ClassBusEventProcess(g, "CONNECT"))

LinkInactive(d) == ClassBusEventProcess(ControllerReset(d), "DISCONNECT")

LinkReset(d) ==
    ClassBusEventProcess(
        [ControllerReset(d) EXCEPT !.addressed = FALSE, !.addr = 0, !.configured = FALSE,
                                   !.phase = "IDLE", !.life = "STARTED"], "RESET")

UsbdStart(d) ==
    IF d.classes = <<>> THEN Failed(d, "INVALID_CONFIGURATION")
    ELSE Then(DcdInit(d), LAMBDA g : [g EXCEPT !.started = TRUE, !.life = "STARTED"])

UsbdStop(d) ==
    IF ~d.started THEN Failed(d, "NOT_INITIALIZED")
    ELSE [DcdDeinit(d) EXCEPT !.started = FALSE, !.configured = FALSE, !.addressed = FALSE,
                              !.addr = 0, !.phase = "IDLE", !.life = "STOPPED"]
=============================================================================
