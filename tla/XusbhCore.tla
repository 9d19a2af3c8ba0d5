----------------------------- MODULE XusbhCore -----------------------------
(* The core of the USB host stack: the device, interface and endpoint      *)
(* pools, the topology built from a configuration descriptor, enumeration  *)
(* (one transfer and one state that the process calls move forward), the   *)
(* root ports, the events the controller driver calls back with, and the   *)
(* lifecycle calls.                                                        *)
EXTENDS XusbhClass

CONSTANTS ControlTimeout, Settle, Debounce

NoDevice == [used |-> FALSE, port |-> 0, addr |-> 0, state |-> "none"]
NoInterface == [used |-> FALSE, dev |-> 0, cls |-> "other", count |-> 0, driver |-> "none"]
NoEndpoint == [used |-> FALSE, dev |-> 0, iface |-> 0, addr |-> NoAddress]
NoEnumeration ==
    [active |-> FALSE, port |-> 0, dev |-> 0, xfer |-> 0, assigned |-> 0, step |-> "IDLE",
     wait |-> FALSE, timeout |-> 0, settle |-> 0]

-----------------------------------------------------------------------------
DeviceAllocate(h, p) ==
    IF FreeIn(h.dev) = {} THEN Failed(h, "RESOURCE_EXHAUSTED")
    ELSE LET d == First(FreeIn(h.dev))
         IN [Ok(h) EXCEPT !.x = d, !.dev[d] = [used |-> TRUE, port |-> p, addr |-> 0,
                                               state |-> "ATTACHED"]]

ReleaseInterfaces(h, d) ==
    LET gone == {i \in Interface : h.iface[i].used /\ h.iface[i].dev = d}
    IN  [h EXCEPT !.iface = [i \in Interface |-> IF i \in gone THEN NoInterface ELSE @[i]],
                  !.ep = [e \in Endpoint |-> IF @[e].used /\ @[e].iface \in gone
                                             THEN NoEndpoint ELSE @[e]]]

(* Mutant: the slots of the device go before the drivers are stopped.      *)
DeviceReleaseUnbound(h, d) ==
    [ReleaseInterfaces(ReleaseTransfersForDevice(h, h.dev[d].addr), d)
        EXCEPT !.dev[d] = NoDevice,
               !.port = [p \in Port |-> IF @[p].dev = d THEN [@[p] EXCEPT !.dev = None] ELSE @[p]]]

DeviceRelease(h, d) ==
    Always(UnbindDevice(h, d), LAMBDA g :
    Always(ReleaseTransfersForDevice(g, g.dev[d].addr), LAMBDA r :
        [Ok(ReleaseInterfaces(r, d))
            EXCEPT !.dev[d] = NoDevice,
                   !.port = [p \in Port |-> IF @[p].dev = d THEN [@[p] EXCEPT !.dev = None]
                                            ELSE @[p]]]))

-----------------------------------------------------------------------------
(* The topology.  The parser knows the interface it is in, the endpoints   *)
(* that interface announced, and whether it skips an alternate setting.    *)
Parser == [current |-> None, expected |-> 0, skipping |-> FALSE, count |-> 0]

Complete(h, parser) ==
    IF parser.current # None /\ h.iface[parser.current].count # parser.expected
    THEN Failed(h, "UNSUPPORTED_DESCRIPTOR") ELSE Ok(h)

StoreInterface(h, d, item, parser) ==
    Then(Complete(h, parser), LAMBDA g :
        IF item.alt # 0 THEN g
        ELSE IF FreeIn(g.iface) = {} THEN Failed(g, "RESOURCE_EXHAUSTED")
        ELSE LET i == First(FreeIn(g.iface))
             IN [g EXCEPT !.x = i, !.iface[i] = [NoInterface EXCEPT !.used = TRUE, !.dev = d,
                                                                    !.cls = item.cls]])

AfterInterface(g, item, parser) ==
    IF item.alt # 0 THEN [Parser EXCEPT !.skipping = TRUE, !.count = parser.count]
    ELSE [current |-> g.x, expected |-> item.n, skipping |-> FALSE, count |-> parser.count + 1]

StoreEndpoint(h, d, item, parser) ==
    IF parser.current = None
    THEN IF parser.skipping THEN Ok(h) ELSE Failed(h, "UNSUPPORTED_DESCRIPTOR")
    ELSE IF \/ h.iface[parser.current].count >= parser.expected
            \/ item.addr \notin Bulk \cup Interrupt
            \/ \E e \in Endpoint : h.ep[e].used /\ h.ep[e].dev = d /\ h.ep[e].addr = item.addr
         THEN Failed(h, "UNSUPPORTED_DESCRIPTOR")
    ELSE IF FreeIn(h.ep) = {} THEN Failed(h, "RESOURCE_EXHAUSTED")
    ELSE LET e == First(FreeIn(h.ep))
         IN [Ok(h) EXCEPT !.ep[e] = [used |-> TRUE, dev |-> d, iface |-> parser.current,
                                     addr |-> item.addr],
                          !.iface[parser.current].count = @ + 1]

(* The stack and its parser take one item after the other.                  *)
StoreItem(h, d, item, parser) ==
    IF item.kind = "endpoint" THEN [h |-> StoreEndpoint(h, d, item, parser), parser |-> parser]
    ELSE CHOOSE r \in {[h |-> g, parser |-> IF IsOk(g) THEN AfterInterface(g, item, parser) ELSE parser] :
                            g \in {StoreInterface(h, d, item, parser)}} : TRUE
StoreItems(h, d, items) ==
    LET after[n \in 0 .. Len(items)] ==
            IF n = 0 THEN [h |-> Ok(h), parser |-> Parser]
            ELSE Always(after[n - 1], LAMBDA s :
                    IF IsOk(s.h) THEN StoreItem(s.h, d, items[n], s.parser) ELSE s)
    IN  Always(after[Len(items)], LAMBDA s :
            Then(Then(s.h, LAMBDA g : Complete(g, s.parser)), LAMBDA g :
                IF s.parser.count = 0 THEN Failed(g, "UNSUPPORTED_DESCRIPTOR") ELSE g))

BuildTopology(h, d, items) ==
    Either(StoreItems(ReleaseInterfaces(h, d), d, items), LAMBDA g : g,
           LAMBDA g : ReleaseInterfaces(g, d))

-----------------------------------------------------------------------------
EnumTransferRelease(h) ==
    IF h.xfer[h.enum.xfer].used THEN TransferRelease(h, h.enum.xfer) ELSE Ok(h)

EnumFail(h, st) ==
    Failed([EnumTransferRelease(h) EXCEPT !.port[h.enum.port].state = "ERROR",
                                          !.enum.active = FALSE, !.enum.wait = FALSE,
                                          !.enum.step = "ERROR"], st)

Waiting(h) == [h EXCEPT !.enum.wait = TRUE, !.enum.timeout = ControlTimeout]

(* A step's request is submitted to the device at its current address.     *)
EnumSubmit(h, step) ==
    IF ~h.dev[h.enum.dev].used \/ ~h.xfer[h.enum.xfer].used THEN EnumFail(h, "INVALID_OBJECT")
    ELSE LET what == IF step = "SetAddress" THEN [op |-> step, addr |-> h.enum.assigned]
                     ELSE Request(step)
         IN  EitherEnd(StoppedIn(TransferSubmit(
                           Prepared([h EXCEPT !.enum.step = step], h.enum.xfer,
                                    h.dev[h.enum.dev].addr, EP0, what), h.enum.xfer),
                           "enum", None, None),
                       LAMBDA s : Waiting(s), LAMBDA s : EnumFail(s, s.st))

NextStep(h, step) == [Ok(h) EXCEPT !.enum.step = step, !.enum.wait = FALSE]
Parsed(h, step) == IF h.buffer.good THEN NextStep(h, step) ELSE EnumFail(h, "UNSUPPORTED_DESCRIPTOR")

AddressSet(h) ==
    [NextStep(h, "Settle") EXCEPT !.dev[h.enum.dev].addr = h.enum.assigned,
                                  !.dev[h.enum.dev].state = "ADDRESSED",
                                  !.enum.settle = Settle]

TopologyBuilt(h) ==
    IF ~h.buffer.good THEN EnumFail(h, "UNSUPPORTED_DESCRIPTOR")
    ELSE Either(BuildTopology(h, h.enum.dev, h.buffer.items),
                LAMBDA g : NextStep(g, "SetConfiguration"),
                LAMBDA g : EnumFail(g, "UNSUPPORTED_DESCRIPTOR"))

Configured(bound, d) ==
    EitherEnd(bound,
              LAMBDA g : [NextStep(g, "COMPLETE") EXCEPT !.dev[d].state = "CONFIGURED",
                                                         !.port[g.enum.port].state = "CONFIGURED",
                                                         !.enum.active = FALSE],
              LAMBDA g : EnumFail(g, g.st))
ConfigurationSet(h) ==
    Configured(Then(EnumTransferRelease(h), LAMBDA g : BindDevice(g, g.enum.dev)), h.enum.dev)

EnumComplete(h) ==
    IF ~h.dev[h.enum.dev].used THEN EnumFail(h, "INVALID_OBJECT")
    ELSE CASE h.enum.step = "DeviceHeader" -> Parsed(h, "SetAddress")
           [] h.enum.step = "SetAddress" -> AddressSet(h)
           [] h.enum.step = "Device" -> Parsed(h, "ConfigHeader")
           [] h.enum.step = "ConfigHeader" -> Parsed(h, "Config")
           [] h.enum.step = "Config" -> TopologyBuilt(h)
           [] h.enum.step = "SetConfiguration" -> ConfigurationSet(h)

(* Mutant: a transfer that is never completed is waited for.               *)
EnumWaitForever(h) ==
    LET t == h.xfer[h.enum.xfer]
    IN  IF t.submitted THEN Ok(h)
        ELSE IF HasError(t) THEN EnumFail(h, "UNSUPPORTED_DESCRIPTOR")
        ELSE EnumComplete(h)

EnumWait(h) ==
    LET t == h.xfer[h.enum.xfer]
    IN  IF ~t.used THEN EnumFail(h, "INVALID_OBJECT")
        ELSE IF t.submitted
             THEN IF h.enum.timeout = 0 THEN EnumFail(h, "TIMEOUT")
                  ELSE [Ok(h) EXCEPT !.enum.timeout = @ - 1]
        ELSE IF HasError(t) THEN EnumFail(h, "UNSUPPORTED_DESCRIPTOR")
        ELSE EnumComplete(h)

EnumerationStart(h, p) ==
    IF h.enum.active THEN Failed(h, "INVALID_STATE")
    ELSE Then(DeviceAllocate(h, p), LAMBDA g :
         LET d == g.x
         IN  Either(TransferAllocate(g),
                LAMBDA t : [t EXCEPT !.port[p].dev = d,
                                     !.enum = [NoEnumeration EXCEPT !.active = TRUE, !.port = p,
                                                  !.dev = d, !.xfer = t.x, !.assigned = d + 1,
                                                  !.step = "DeviceHeader"]],
                LAMBDA t : Failed(DeviceRelease(t, d), t.st)))

EnumerationProcess(h, p) ==
    IF h.enum.port # p THEN Failed(h, "INVALID_ARGUMENT")
    ELSE IF ~h.enum.active THEN Ok(h)
    ELSE IF h.enum.step = "Settle"
         THEN IF h.enum.settle > 0 THEN [Ok(h) EXCEPT !.enum.settle = @ - 1]
              ELSE EnumSubmit(h, "Device")
    ELSE IF h.enum.wait THEN EnumWait(h)
    ELSE EnumSubmit(h, h.enum.step)

EnumerationAbort(h, p) ==
    IF h.enum.port # p THEN h
    ELSE [EnumTransferRelease(h) EXCEPT !.enum = NoEnumeration]

-----------------------------------------------------------------------------
(* The root ports.                                                         *)

NoPort == [state |-> "DISCONNECTED", reset |-> FALSE, debounce |-> 0, dev |-> None]

InitializedHost ==
    [started |-> FALSE, st |-> "OK", x |-> None,
     port |-> [p \in Port |-> NoPort],
     dev |-> [d \in Device |-> NoDevice],
     iface |-> [i \in Interface |-> NoInterface],
     ep |-> [e \in Endpoint |-> NoEndpoint],
     xfer |-> [t \in Transfer |-> NoTransfer],
     enum |-> NoEnumeration, buffer |-> Nothing, task |-> NoCall,
     msc |-> NoMsc, hid |-> [k \in Hid |-> NoHid], hcd |-> IdleController]

-----------------------------------------------------------------------------
DisconnectCleanup(h, p) ==
    Always(Every(h, MaxDevices, LAMBDA v, d :
                IF v.dev[d].used /\ v.dev[d].port = p THEN DeviceRelease(v, d) ELSE v),
           LAMBDA g : [Ok(EnumerationAbort(g, p)) EXCEPT !.port[p] = NoPort])

PortError(h, p) == [h EXCEPT !.port[p].state = "ERROR"]

(* Only a port that has nothing to lose starts over.                       *)
PortConnected(h, p) ==
    IF h.port[p].state \in {"DISCONNECTED", "ERROR"}
    THEN [h EXCEPT !.port[p] = [NoPort EXCEPT !.state = "CONNECTED", !.debounce = Debounce]]
    ELSE h

PortResumed(h, p) ==
    IF h.port[p].state = "SUSPENDED" THEN [h EXCEPT !.port[p].state = "ENABLED"] ELSE h

PortEvent(h, p, event) ==
    CASE event = "CONNECTED" -> PortConnected(h, p)
      [] event = "DISCONNECTED" -> DisconnectCleanup(h, p)
      [] event = "RESET_COMPLETE" -> [h EXCEPT !.port[p].reset = TRUE]
      [] event = "SUSPENDED" -> [h EXCEPT !.port[p].state = "SUSPENDED"]
      [] event = "RESUMED" -> PortResumed(h, p)
      [] event = "OVERCURRENT" -> PortError(h, p)

(* status is what xUSBH_HCD_Get_Port_Status reports.                       *)
ProcessConnected(h, p, status) ==
    IF status.overcurrent THEN PortError(Ok(h), p)
    ELSE IF ~status.connected THEN DisconnectCleanup(h, p)
    ELSE IF h.port[p].debounce > 0 THEN [Ok(h) EXCEPT !.port[p].debounce = @ - 1]
    ELSE [Ok(h) EXCEPT !.port[p].state = "POWERED"]

(* The reset is started after the driver's call, whatever it called back   *)
(* with in the meantime.                                                   *)
Resetting(h, p) == [h EXCEPT !.port[p].reset = FALSE, !.port[p].state = "RESETTING"]
ProcessPowered(h, p, driver) ==
    LET called == IF driver = "am243x" THEN PortEvent(h, p, "RESET_COMPLETE") ELSE h
    IN  IF h.task.stop THEN [StopIn(called, "reset") EXCEPT !.task.i = p]
        ELSE Resetting(Ok(called), p)

ProcessResetting(h, p, status) ==
    IF ~h.port[p].reset THEN Ok(h)
    ELSE IF ~status.connected THEN DisconnectCleanup(h, p)
    ELSE IF status.overcurrent THEN PortError(Ok(h), p)
    ELSE [Ok(h) EXCEPT !.port[p].state = "ENABLED"]

Enumerating(h, p) == [h EXCEPT !.port[p].state = "ENUMERATING"]
ProcessEnabled(h, p) ==
    Either(EnumerationStart(h, p),
           LAMBDA g : IF g.task.stop THEN [StopIn(g, "start") EXCEPT !.task.i = p]
                      ELSE Enumerating(g, p),
           LAMBDA g : PortError(g, p))

PortProcess(h, p, status, driver) ==
    CASE h.port[p].state = "CONNECTED" -> ProcessConnected(h, p, status)
      [] h.port[p].state = "POWERED" -> ProcessPowered(h, p, driver)
      [] h.port[p].state = "RESETTING" -> ProcessResetting(h, p, status)
      [] h.port[p].state = "ENABLED" -> ProcessEnabled(h, p)
      [] h.port[p].state \in {"DISCONNECTED", "ENUMERATING"} -> EnumerationProcess(h, p)
      [] OTHER -> Ok(h)

(* The first port that reports an error ends the call.                     *)
PortsProcess(h, status, driver) ==
    While(Ok(h), RootPorts, LAMBDA v, p : PortProcess(v, p, status[p], driver))

HostProcess(h, status, driver) ==
    IF ~h.started THEN Failed(h, "NOT_STARTED") ELSE PortsProcess(h, status, driver)

(* The rest of a call that was stopped, whatever happened in between; a    *)
(* call is stopped once.  Of the loop over the ports nothing is left: the   *)
(* model has one root port.                                                *)
HostResume(h) ==
    LET task == h.task
        g == [Ok(h) EXCEPT !.task = NoCall]
    IN  CASE task.at = "reset" -> Resetting(g, task.i)
          [] task.at = "start" -> Enumerating(g, task.i)
          [] task.at = "app" -> Submitted(g, task.x)
          [] task.at = "enum" -> Waiting(Submitted(g, task.x))
          [] task.at = "bind" -> Configured(BindResume(g, task), task.dev)

(* What is left when a call returns or stops: not its status and its output. *)
Returned(h) == [h EXCEPT !.task.stop = FALSE, !.st = "OK", !.x = None]

(* The driver is initialised, started and given its interrupts, and the    *)
(* other way round.  Both clear its context, with the transfers that it    *)
(* was working on; the stack keeps all it has.                             *)
HcdStart(h) == [Ok(h) EXCEPT !.hcd = IdleController]
HcdStop(h) == [Ok(h) EXCEPT !.hcd = IdleController]

HostStart(h) ==
    IF h.started THEN Failed(h, "ALREADY_STARTED")
    ELSE [HcdStart(h) EXCEPT !.started = TRUE]

HostStop(h) ==
    IF ~h.started THEN Failed(h, "NOT_STARTED") ELSE [HcdStop(h) EXCEPT !.started = FALSE]
=============================================================================
