----------------------------- MODULE XusbhClass -----------------------------
(* The transfer pool of the USB host stack, the controller driver it       *)
(* submits to, and the class drivers above it: how they are bound to the   *)
(* interfaces of a device and how completed transfers reach them, mass     *)
(* storage (one instance, xUSBH_MSC_MAX_INSTANCES) and boot HID.  The stack *)
(* is one record h; a call is a function of it and leaves its status in    *)
(* h.st:                                                                   *)
(*   h.port, h.dev, h.iface, h.ep, h.xfer   the pools of xUSBH_Context_t   *)
(*   h.enum   the enumeration              h.buffer  the control buffer    *)
(*   h.msc, h.hid   the class instances    h.x       an output parameter   *)
(*   h.hcd    the controller: the transfer each endpoint works on, the     *)
(*            enabled endpoints, the stage of the control transfer and     *)
(*            how it ended, and the endpoints whose device went away while *)
(*            they worked                                                  *)
(*   h.task   the call of the task, where an interrupt stopped it: the      *)
(*            window at, and the locals that the rest of the call uses      *)
EXTENDS XusbCalls

CONSTANTS
    RootPorts, MaxDevices, MaxInterfaces, MaxEndpoints, MaxTransfers, MaxHid, MaxTag

Port == 0 .. RootPorts - 1
Device == 0 .. MaxDevices - 1
Interface == 0 .. MaxInterfaces - 1
Endpoint == 0 .. MaxEndpoints - 1
Transfer == 0 .. MaxTransfers - 1

FreeIn(pool) == {i \in DOMAIN pool : ~pool[i].used}

NoTransfer ==
    [used |-> FALSE, submitted |-> FALSE, addr |-> 0, ep |-> EP0,
     what |-> Nothing, last |-> "COMPLETE", full |-> FALSE]

IdleController ==
    [slot |-> [e \in Address |-> None], enabled |-> {}, configuring |-> FALSE,
     stage |-> "idle", reply |-> Nothing, gone |-> {}]

-----------------------------------------------------------------------------
(* Interrupts of the controller driver may come in the middle of a call of *)
(* the task (and not the other way round).  A call with stop set is         *)
(* stopped at the first window it gets to: behind a submit of the driver    *)
(* before the transfer is marked as submitted ("enum", "bind", "app", by    *)
(* who submitted it), behind the request of a port reset ("reset"), behind  *)
(* the start of the enumeration ("start").                                 *)
NoCall == [stop |-> FALSE, at |-> "none", x |-> None, dev |-> None, i |-> None]
Submitting == {"enum", "bind", "app"}

Stopped(h) == h.st = "STOPPED"
StopIn(h, at) == Failed([h EXCEPT !.task.stop = FALSE, !.task.at = at], "STOPPED")
StoppedIn(h, at, d, i) ==
    IF Stopped(h) THEN [h EXCEPT !.task = [@ EXCEPT !.at = at, !.dev = d, !.i = i]] ELSE h

(* Where a call stopped, neither branch has begun.                         *)
EitherEnd(h, Next(_), Else(_)) ==
    Either(h, LAMBDA v : Next(v), LAMBDA v : IF Stopped(v) THEN v ELSE Else(v))

-----------------------------------------------------------------------------
(* The controller driver.                                                  *)
EndpointOf(h, addr, e) ==
    LET owner == {d \in Device : h.dev[d].used /\ h.dev[d].addr = addr}
    IN  IF owner = {} THEN {}
        ELSE {i \in Endpoint : /\ h.ep[i].used
                               /\ h.ep[i].dev = First(owner)
                               /\ h.ep[i].addr = e}

HcdEndpoint(h, t) ==
    IF t.ep = EP0 THEN EP0
    ELSE IF EndpointOf(h, t.addr, t.ep) = {} THEN NoAddress ELSE t.ep

(* SET_CONFIGURATION is completed only once the endpoints are enabled.     *)
HcdSubmit(h, x) ==
    LET t == h.xfer[x]
        e == HcdEndpoint(h, t)
    IN  IF e = NoAddress THEN Failed(h, "INVALID_OBJECT")
        ELSE IF h.hcd.slot[e] # None \/ (e # EP0 /\ e \notin h.hcd.enabled)
             THEN Failed(h, "INVALID_STATE")
        ELSE IF e = EP0
             THEN [Ok(h) EXCEPT !.hcd.slot[e] = x, !.hcd.stage = "setup",
                                !.hcd.configuring = (t.what.op = "SetConfiguration")]
        ELSE [Ok(h) EXCEPT !.hcd.slot[e] = x]

HcdCancel(h, x) ==
    LET e == HcdEndpoint(h, h.xfer[x])
    IN  IF e = NoAddress THEN Failed(h, "INVALID_OBJECT")
        ELSE IF e = EP0
             THEN [Ok(h) EXCEPT !.hcd.slot[e] = None, !.hcd.gone = @ \ {e},
                                !.hcd.configuring = FALSE, !.hcd.stage = "idle"]
        ELSE [Ok(h) EXCEPT !.hcd.slot[e] = None, !.hcd.gone = @ \ {e}]

(* The endpoints of the device whose SET_CONFIGURATION went through.       *)
ConfiguredEndpoints(h, x) ==
    LET owner == {d \in Device : h.dev[d].used /\ h.dev[d].addr = h.xfer[x].addr}
    IN  {h.ep[i].addr : i \in {j \in Endpoint : h.ep[j].used /\ h.ep[j].dev \in owner}}

-----------------------------------------------------------------------------
(* The pool.                                                               *)
TransferAllocate(h) ==
    IF FreeIn(h.xfer) = {} THEN Failed([h EXCEPT !.x = None], "RESOURCE_EXHAUSTED")
    ELSE LET i == First(FreeIn(h.xfer))
         IN [Ok(h) EXCEPT !.xfer[i] = [NoTransfer EXCEPT !.used = TRUE], !.x = i]

CancelIfSubmitted(h, x) ==
    IF ~h.xfer[x].submitted THEN Ok(h)
    ELSE Then(HcdCancel(h, x), LAMBDA g : [g EXCEPT !.xfer[x].submitted = FALSE])

TransferRelease(h, x) ==
    IF ~h.xfer[x].used THEN Failed(h, "INVALID_OBJECT")
    ELSE Then(CancelIfSubmitted(h, x), LAMBDA g : [g EXCEPT !.xfer[x] = NoTransfer])

(* The mark is set whatever became of the transfer in the meantime.        *)
Submitted(h, x) == [h EXCEPT !.xfer[x].submitted = TRUE]

TransferSubmit(h, x) ==
    IF ~h.started THEN Failed(h, "NOT_STARTED")
    ELSE IF ~h.xfer[x].used THEN Failed(h, "INVALID_OBJECT")
    ELSE IF h.xfer[x].submitted THEN Failed(h, "INVALID_STATE")
    ELSE Then(HcdSubmit(h, x), LAMBDA g :
        IF g.task.stop THEN [StopIn(g, "app") EXCEPT !.task.x = x] ELSE Submitted(g, x))

(* The fields a caller fills in before it submits.                         *)
Prepared(h, x, addr, e, what) ==
    [h EXCEPT !.xfer[x] = [@ EXCEPT !.addr = addr, !.ep = e, !.what = what,
                                    !.last = "COMPLETE", !.full = FALSE]]

(* Mutant: the slots are cleared without telling the controller.           *)
ReleaseTransfersQuietly(h, addr) ==
    [h EXCEPT !.xfer = [x \in Transfer |->
        IF @[x].used /\ @[x].addr = addr THEN NoTransfer ELSE @[x]]]

ReleaseTransfersForDevice(h, addr) ==
    Every(h, MaxTransfers, LAMBDA v, x :
        IF v.xfer[x].used /\ v.xfer[x].addr = addr
        THEN [CancelIfSubmitted(v, x) EXCEPT !.xfer[x] = NoTransfer] ELSE v)

-----------------------------------------------------------------------------
(* The class drivers.                                                      *)
Hid == 0 .. MaxHid - 1

NoMsc == [used |-> FALSE, iface |-> 0, state |-> "none", error |-> "none", xfer |-> None,
          next |-> 0, tag |-> 0, cmd |-> NoCommand, csw |-> Nothing, got |-> None,
          block |-> TRUE]
NoHid == [used |-> FALSE, iface |-> 0, ep |-> 0, xfer |-> None]

EndpointsOf(h, i, addrs) ==
    {e \in Endpoint : h.ep[e].used /\ h.ep[e].iface = i /\ h.ep[e].addr \in addrs}

-----------------------------------------------------------------------------
(* Mass storage, bulk only.                                                *)
MscStart(h, i) ==
    IF EndpointsOf(h, i, {"in"}) = {} \/ EndpointsOf(h, i, {"out"}) = {}
    THEN Failed(h, "INVALID_OBJECT")
    ELSE IF h.msc.used THEN Failed(h, "RESOURCE_EXHAUSTED")
    ELSE [Ok(h) EXCEPT !.msc = [NoMsc EXCEPT !.used = TRUE, !.iface = i, !.state = "READY",
                                             !.next = 1]]

MscStop(h, i) ==
    IF ~(h.msc.used /\ h.msc.iface = i) THEN Ok(h)
    ELSE Then(IF h.msc.xfer = None THEN Ok(h) ELSE TransferRelease(h, h.msc.xfer),
              LAMBDA g : [g EXCEPT !.msc = NoMsc])

MscAddress(h) == h.dev[h.iface[h.msc.iface].dev].addr

MscSubmit(h, e, what, state) ==
    TransferSubmit(Prepared([h EXCEPT !.msc.state = state], h.msc.xfer, MscAddress(h), e, what),
                   h.msc.xfer)

Forgotten(h) == [h EXCEPT !.msc.xfer = None, !.msc.tag = 0, !.msc.cmd = NoCommand]
MscRelease(h) ==
    IF h.msc.xfer = None THEN Forgotten(Ok(h)) ELSE Forgotten(TransferRelease(h, h.msc.xfer))

MscEnd(h, state, error) == MscRelease([h EXCEPT !.msc.state = state, !.msc.error = error])

(* The tags wrap to 1, past 0.                                             *)
NextTag(t) == IF t = MaxTag THEN 1 ELSE t + 1

(* xUSBH_MSC_Read_Blocks and its siblings; a block operation also needs    *)
(* the block size.                                                         *)
MscCommand(h, cmd) ==
    IF ~h.msc.used THEN Failed(h, "INVALID_OBJECT")
    ELSE IF h.msc.state # "READY" \/ h.msc.xfer # None THEN Failed(h, "INVALID_STATE")
    ELSE IF cmd.op \in {"Read10", "Write10"} /\ ~h.msc.block THEN Failed(h, "INVALID_STATE")
    ELSE Then(TransferAllocate(h), LAMBDA g :
        LET started == [g EXCEPT !.msc = [@ EXCEPT !.xfer = g.x, !.error = "none", !.cmd = cmd,
                                                   !.tag = g.msc.next, !.next = NextTag(g.msc.next)]]
        IN  EitherEnd(MscSubmit(started, "out", [op |-> "CBW", tag |-> g.msc.next, cmd |-> cmd], "COMMAND"),
                      LAMBDA s : s,
                      LAMBDA s : Failed([MscRelease(s) EXCEPT !.msc.state = "READY"], s.st)))

MscStatusPhase(h) ==
    MscSubmit([h EXCEPT !.msc.csw = Nothing], "in", Request("CSW"), "STATUS")

MscDataPhase(h) ==
    LET cmd == h.msc.cmd
    IN  IF cmd.n = 0 THEN MscStatusPhase(h)
        ELSE IF DataIn(cmd)
             THEN MscSubmit(h, "in", [op |-> "DATA", n |-> cmd.n, val |-> None], "DATA_IN")
        ELSE MscSubmit(h, "out", [op |-> "DATA", n |-> cmd.n, val |-> cmd.val], "DATA_OUT")

(* Mutant: any wrapper that says "passed" ends the command.                *)
MscWrapperAnyTag(h) ==
    IF h.msc.csw.status = "PASSED" THEN MscEnd(h, "READY", "none")
    ELSE MscEnd(h, "RESET_RECOVERY", "PHASE_ERROR")

MscWrapper(h) ==
    LET csw == h.msc.csw
    IN  IF csw.op # "CSW" \/ csw.tag # h.msc.tag \/ csw.status = "PHASE_ERROR"
        THEN MscEnd(h, "RESET_RECOVERY", "PHASE_ERROR")
        ELSE IF csw.status = "FAILED" THEN MscEnd(h, "ERROR", "COMMAND_FAILED")
        ELSE IF csw.residue # 0 THEN MscEnd(h, "ERROR", "SHORT_TRANSFER")
        ELSE MscEnd(IF h.msc.cmd.op = "ReadCapacity" THEN [h EXCEPT !.msc.block = (h.msc.got # 0)]
                    ELSE h, "READY", "none")

(* Reset recovery: the class reset, then the two halts.  The interfaces of *)
(* one device fill the pool in the order of their numbers.                 *)
MscRequest(h, what, state) ==
    EitherEnd(MscSubmit(h, EP0, what, state), LAMBDA s : s,
              LAMBDA s : Failed(MscEnd(s, "RESET_RECOVERY", "RESET_RECOVERY_REQUIRED"), s.st))

MscResetRecovery(h) ==
    IF ~h.msc.used THEN Failed(h, "INVALID_OBJECT")
    ELSE IF h.msc.state # "RESET_RECOVERY" \/ h.msc.xfer # None THEN Failed(h, "INVALID_STATE")
    ELSE Then(TransferAllocate([h EXCEPT !.msc.error = "RESET_RECOVERY_REQUIRED"]), LAMBDA g :
            MscRequest([g EXCEPT !.msc.xfer = g.x], [op |-> "BulkReset", index |-> g.msc.iface],
                       "RESET_REQUEST"))

HasError(t) == t.last # "COMPLETE" \/ ~t.full
WithError(h, t) ==
    IF t.last = "STALLED"
    THEN [h EXCEPT !.msc.state = "RESET_RECOVERY", !.msc.error = "STALL"]
    ELSE IF t.last = "SHORT" \/ ~t.full
    THEN [h EXCEPT !.msc.state = "ERROR", !.msc.error = "SHORT_TRANSFER"]
    ELSE IF t.last # "COMPLETE"
    THEN [h EXCEPT !.msc.state = "RESET_RECOVERY", !.msc.error = "PHASE_ERROR"]
    ELSE [h EXCEPT !.msc.error = "none"]

MscComplete(h, i, x) ==
    IF ~(h.msc.used /\ h.msc.iface = i) THEN Ok(h)
    ELSE IF x # h.msc.xfer THEN WithError(Ok(h), h.xfer[x])
    ELSE IF HasError(h.xfer[x]) THEN MscRelease(WithError(h, h.xfer[x]))
    ELSE CASE h.msc.state = "COMMAND" -> MscDataPhase(h)
           [] h.msc.state \in {"DATA_IN", "DATA_OUT"} -> MscStatusPhase(h)
           [] h.msc.state = "STATUS" -> MscWrapper(h)
           [] h.msc.state = "RESET_REQUEST" -> MscRequest(h, Request("ClearIn"), "CLEAR_IN_HALT")
           [] h.msc.state = "CLEAR_IN_HALT" -> MscRequest(h, Request("ClearOut"), "CLEAR_OUT_HALT")
           [] h.msc.state = "CLEAR_OUT_HALT" -> MscEnd(h, "READY", "none")
           [] OTHER -> Ok(h)

-----------------------------------------------------------------------------
(* Boot HID: one interrupt transfer, submitted again by its completion.    *)
HidSubmit(h, k) ==
    LET e == h.ep[h.hid[k].ep]
    IN  TransferSubmit(Prepared(h, h.hid[k].xfer, h.dev[e.dev].addr, e.addr, Request("REPORT")),
                       h.hid[k].xfer)

HidStart(h, i) ==
    IF EndpointsOf(h, i, Interrupt) = {} THEN Failed(h, "INVALID_OBJECT")
    ELSE IF FreeIn(h.hid) = {} THEN Failed(h, "RESOURCE_EXHAUSTED")
    ELSE Then(TransferAllocate(h), LAMBDA g :
        LET k == First(FreeIn(g.hid))
            bound == [g EXCEPT !.hid[k] = [used |-> TRUE, iface |-> i, xfer |-> g.x,
                                           ep |-> First(EndpointsOf(g, i, Interrupt))]]
        IN  EitherEnd(HidSubmit(bound, k), LAMBDA s : s,
                      LAMBDA s : Failed([TransferRelease(s, s.hid[k].xfer) EXCEPT !.hid[k] = NoHid], s.st)))

HidOf(h, i) == {k \in Hid : h.hid[k].used /\ h.hid[k].iface = i}

HidStop(h, i) ==
    IF HidOf(h, i) = {} THEN Ok(h)
    ELSE LET k == First(HidOf(h, i))
         IN Then(TransferRelease(h, h.hid[k].xfer), LAMBDA g : [g EXCEPT !.hid[k] = NoHid])

(* An error ends the reports for good: nothing is submitted again.         *)
HidComplete(h, i, x) ==
    IF HidOf(h, i) = {} THEN Ok(h)
    ELSE LET k == First(HidOf(h, i))
         IN IF h.hid[k].xfer # x \/ HasError(h.xfer[x]) THEN Ok(h) ELSE HidSubmit(h, k)

-----------------------------------------------------------------------------
(* Binding.  No two of the registered drivers match one interface.         *)
ClassStart(h, i) ==
    CASE h.iface[i].cls = "msc" -> MscStart(h, i)
      [] h.iface[i].cls = "hid" -> HidStart(h, i)
      [] OTHER -> Ok(h)

Bound(h, i, driver) == [h EXCEPT !.iface[i].driver = driver]
BindInterface(h, i) ==
    Then(ClassStart(h, i), LAMBDA g :
        IF g.iface[i].cls = "other" THEN g ELSE Bound(g, i, g.iface[i].cls))

ClassStop(h, i) == IF h.iface[i].driver = "msc" THEN MscStop(h, i) ELSE HidStop(h, i)

UnbindDevice(h, d) ==
    IF ~h.dev[d].used THEN Failed(h, "INVALID_OBJECT")
    ELSE While(Ok(h), MaxInterfaces, LAMBDA v, i :
            IF v.iface[i].used /\ v.iface[i].dev = d /\ v.iface[i].driver # "none"
            THEN [ClassStop(v, i) EXCEPT !.iface[i].driver = "none"] ELSE v)

BindFrom(h, d, first) ==
    While(Ok(h), MaxInterfaces, LAMBDA v, i :
        IF i >= first /\ v.iface[i].used /\ v.iface[i].dev = d
        THEN EitherEnd(StoppedIn(BindInterface(v, i), "bind", d, i),
                       LAMBDA g : g, LAMBDA g : Failed(UnbindDevice(g, d), g.st))
        ELSE v)
BindDevice(h, d) ==
    IF ~h.dev[d].used THEN Failed(h, "INVALID_OBJECT") ELSE BindFrom(h, d, 0)

(* Only the start of a HID submits.                                        *)
BindResume(h, task) ==
    BindFrom(Bound(Submitted(h, task.x), task.i, "hid"), task.dev, task.i + 1)

-----------------------------------------------------------------------------
(* Completion.  A transfer of no known endpoint with a setup packet goes   *)
(* to every bound interface of its device.                                 *)
InterfaceComplete(h, i, x) ==
    CASE h.iface[i].driver = "msc" -> MscComplete(h, i, x)
      [] h.iface[i].driver = "hid" -> HidComplete(h, i, x)
      [] OTHER -> Ok(h)

ControlDispatch(h, d, x) ==
    While(Ok(h), MaxInterfaces, LAMBDA v, i :
        IF v.iface[i].used /\ v.iface[i].dev = d THEN InterfaceComplete(v, i, x) ELSE v)

ClassTransferComplete(h, x) ==
    LET t == h.xfer[x]
        owner == {d \in Device : h.dev[d].used /\ h.dev[d].addr = t.addr}
        known == EndpointOf(h, t.addr, t.ep)
    IN  IF known # {}
        THEN LET i == h.ep[First(known)].iface
             IN IF h.iface[i].used THEN InterfaceComplete(h, i, x) ELSE Ok(h)
        ELSE IF t.ep = EP0 /\ owner # {} THEN ControlDispatch(h, First(owner), x)
        ELSE Ok(h)

(* What an IN transfer brings: the control buffer, the data or the CSW.    *)
Stored(h, x, payload) ==
    LET op == h.xfer[x].what.op
    IN  IF payload.op = "none" THEN h
        ELSE IF op = "CSW" THEN [h EXCEPT !.msc.csw = payload]
        ELSE IF op = "DATA" THEN [h EXCEPT !.msc.got = payload.val]
        ELSE IF payload.op = "descriptor" THEN [h EXCEPT !.buffer = payload]
        ELSE h

(* hcd_event_callback, for a transfer the controller has let go of.        *)
TransferEvent(h, x, event, full, payload) ==
    IF ~h.xfer[x].used THEN h
    ELSE ClassTransferComplete(
            [Stored(h, x, payload) EXCEPT !.xfer[x] = [@ EXCEPT !.last = event, !.full = full,
                                                               !.submitted = FALSE]], x)
=============================================================================
