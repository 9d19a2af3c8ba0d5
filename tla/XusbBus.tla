------------------------------ MODULE XusbBus ------------------------------
(* The USB host stack h and the USB device stack d on one cable.  Three    *)
(* settings share the module: "pair", the two stacks against each other;   *)
(* "foreign", the host stack with a device that answers as it likes; "pc", *)
(* the device stack with a host that asks as it likes.                     *)
(* bus is the rest of the world:                                           *)
(*   todo             the classes the device has yet to register           *)
(*   plugged, seen    the cable, and what the host's driver last saw       *)
(*   resetting        a port reset the driver has not reported yet         *)
(*   ready            the device was reset since it was plugged in         *)
(*   stage, req       the control transfer of the arbitrary host           *)
(*   told             what the host was told of the device: the address    *)
(*                    and the configuration whose requests were answered   *)
(*   claim            what the host was told the medium holds              *)
(*   restarted        the host stack was stopped and started again         *)
(*   overtaken        the windows of the host's calls in which an          *)
(*                    interrupt came that the rest of the call undoes      *)
(*   the rest         budgets                                              *)
EXTENDS XusbhCore, XusbdCore

CONSTANTS
    Commands,         \* SCSI commands the host application issues
    PcRequests,       \* control requests of the arbitrary host
    PcPayloads,       \* what it sends on the bulk OUT endpoint
    ForeignItems,     \* configuration descriptors of the arbitrary device
    ClassLists,       \* the classes a device registers, in order
    MaxCommands, MaxFaults, MaxUnplugs, MaxRequests

VARIABLES h, d, bus
vars == <<h, d, bus>>

P == 0

FreshBus(setting, driver, list) ==
    [setting |-> setting, driver |-> driver, todo |-> list, plugged |-> FALSE, seen |-> FALSE,
     resetting |-> FALSE, ready |-> FALSE, stage |-> "idle", req |-> Nothing,
     told |-> [addr |-> 0, configured |-> FALSE], claim |-> None, restarted |-> FALSE,
     overtaken |-> {}, commands |-> 0, faults |-> 0, unplugs |-> 0, requests |-> 0]

Init ==
    /\ d = InitializedDevice
    /\ \/ /\ h = HostStart(InitializedHost)
          /\ bus \in {FreshBus("pair", "contract", list) : list \in ClassLists}
       \/ /\ h = HostStart(InitializedHost)
          /\ bus \in {FreshBus("foreign", driver, <<>>) : driver \in {"contract", "am243x"}}
       \/ /\ h = InitializedHost
          /\ bus \in {FreshBus("pc", "contract", list) : list \in ClassLists}

Setting(s) == bus.setting \in s
Forgotten0 == [addr |-> 0, configured |-> FALSE]

-----------------------------------------------------------------------------
(* The application of the device registers its classes and starts the      *)
(* stack; it may stop it and start it again.                               *)
Register ==
    /\ bus.todo # <<>>
    /\ d' = ClassRegister(d, Head(bus.todo))
    /\ bus' = [bus EXCEPT !.todo = Tail(@)]
    /\ UNCHANGED h

StartDevice ==
    /\ Setting({"pair", "pc"}) /\ bus.todo = <<>> /\ ~d.started
    /\ d' = UsbdStart(d)
    /\ UNCHANGED <<h, bus>>

StopDevice ==
    /\ Setting({"pc"}) /\ d.started /\ bus.unplugs < MaxUnplugs
    /\ d' = UsbdStop(d)
    /\ bus' = [bus EXCEPT !.unplugs = @ + 1, !.ready = FALSE, !.stage = "idle"]
    /\ UNCHANGED h

-----------------------------------------------------------------------------
(* The cable.  This host only meets a device that was started.             *)
Plug ==
    /\ ~bus.plugged /\ (Setting({"pair"}) => d.started)
    /\ bus' = [bus EXCEPT !.plugged = TRUE]
    /\ UNCHANGED <<h, d>>

(* The device learns of it at once and drops its address; the rest of what *)
(* it knows stays until the next reset.                                    *)
Unplug ==
    /\ bus.plugged /\ bus.unplugs < MaxUnplugs
    /\ bus' = [bus EXCEPT !.plugged = FALSE, !.ready = FALSE, !.unplugs = @ + 1,
                          !.stage = "idle"]
    /\ d' = IF d.started THEN LinkInactive(d) ELSE d
    /\ UNCHANGED h

DeviceLink ==
    /\ Setting({"pair", "pc"})
    /\ bus.plugged /\ d.started /\ ~bus.resetting /\ ~d.dcd.up
    /\ d' = LinkUp(d)
    /\ UNCHANGED <<h, bus>>

-----------------------------------------------------------------------------
(* The host: its periodic call, and the interrupts of its driver, which may *)
(* come in the middle of a call of the task.                               *)
TaskIdle == h.task.at = "none"
Call(Body(_)) ==
    /\ TaskIdle
    /\ \E stop \in BOOLEAN :
        h' = Returned(Body([h EXCEPT !.task.stop = stop]))

Looking ==
    /\ h.started
    /\ \/ h.port[P].state = "CONNECTED"
       \/ h.port[P].state = "RESETTING" /\ h.port[P].reset
ResetsPort(g) ==
    /\ bus.driver = "contract"
    /\ h.port[P].state = "POWERED" /\ (g.port[P].state = "RESETTING" \/ g.task.at = "reset")

Process ==
    \E overcurrent \in BOOLEAN :
        /\ Setting({"pair", "foreign"})
        /\ overcurrent => /\ Setting({"foreign"}) /\ bus.faults < MaxFaults
                          /\ h.port[P].state \in {"CONNECTED", "RESETTING"}
        /\ Call(LAMBDA g : HostProcess(g, [p \in Port |-> [connected |-> bus.plugged,
                                                           overcurrent |-> overcurrent]], bus.driver))
        /\ bus' = [bus EXCEPT
               !.faults = IF overcurrent THEN @ + 1 ELSE @,
               !.seen = IF Looking THEN bus.plugged ELSE @,
               !.resetting = IF ResetsPort(h') THEN TRUE ELSE @]
        /\ UNCHANGED d

Resume ==
    /\ h.task.at # "none"
    /\ h' = Returned(HostResume(h))
    /\ UNCHANGED <<d, bus>>

(* A device that goes away while the host starts to enumerate it or submits *)
(* a transfer to it; what the controller still works on can only fail.      *)
Connected ==
    /\ bus.plugged
    /\ h' = Returned(PortEvent(h, P, "CONNECTED"))
    /\ bus' = [bus EXCEPT !.seen = TRUE]
Disconnected ==
    /\ ~bus.plugged
    /\ LET g == Returned(PortEvent(h, P, "DISCONNECTED"))
       IN  h' = [g EXCEPT !.hcd.gone = {e \in Address : g.hcd.slot[e] # None}]
    /\ bus' = [bus EXCEPT !.seen = FALSE,
                          !.overtaken = @ \cup ({h.task.at} \ {"none", "reset"})]

PortInterrupt ==
    /\ Setting({"pair", "foreign"})
    /\ h.started /\ bus.seen # bus.plugged
    /\ Connected \/ Disconnected
    /\ UNCHANGED d

ResetComplete ==
    /\ h.started /\ bus.resetting
    /\ h' = PortEvent(h, P, "RESET_COMPLETE")
    /\ LET reported == [bus EXCEPT !.resetting = FALSE,
                                   !.overtaken = @ \cup ({h.task.at} \cap {"reset"})]
       IN IF bus.plugged /\ Setting({"pair"})
          THEN /\ d' = LinkReset(d)
               /\ bus' = [reported EXCEPT !.ready = TRUE, !.told = Forgotten0]
          ELSE /\ bus' = reported
               /\ UNCHANGED d

PowerEvent ==
    /\ Setting({"foreign"}) /\ h.started /\ bus.plugged /\ bus.faults < MaxFaults
    /\ \E event \in {"SUSPENDED", "RESUMED", "OVERCURRENT"} : h' = Returned(PortEvent(h, P, event))
    /\ bus' = [bus EXCEPT !.faults = @ + 1]
    /\ UNCHANGED d

(* The application of the host.  What an arbitrary device holds is nothing *)
(* to compare with.                                                        *)
Claim(g) ==
    IF Setting({"foreign"}) THEN None
    ELSE IF h.msc.state = "STATUS" /\ g.msc.state = "READY" /\ h.msc.cmd.op \in {"Read10", "Write10"}
    THEN IF h.msc.cmd.op = "Write10" THEN h.msc.cmd.val ELSE h.msc.got
    ELSE IF g.msc.state = "COMMAND" /\ g.msc.cmd.op = "Write10" THEN None
    ELSE bus.claim

IssueCommand ==
    /\ Setting({"pair", "foreign"}) /\ bus.commands < MaxCommands
    /\ \E cmd \in Commands : Call(LAMBDA g : MscCommand(g, cmd))
    /\ h'.msc # h.msc
    /\ bus' = [bus EXCEPT !.commands = @ + 1, !.claim = Claim(h')]
    /\ UNCHANGED d

Recover ==
    /\ Setting({"pair", "foreign"})
    /\ h.msc.state = "RESET_RECOVERY" /\ h.msc.xfer = None
    /\ Call(LAMBDA g : MscResetRecovery(g))
    /\ UNCHANGED <<d, bus>>

StopHost ==
    /\ Setting({"foreign"}) /\ bus.faults < MaxFaults /\ h.started /\ TaskIdle
    /\ h' = Returned(HostStop(h))
    /\ bus' = [bus EXCEPT !.faults = @ + 1]
    /\ UNCHANGED d

(* The driver starts with no device seen and polls the port at once.       *)
StartHost ==
    /\ Setting({"foreign"}) /\ ~h.started /\ TaskIdle
    /\ LET g == HostStart(h)
       IN h' = Returned(IF bus.plugged THEN PortEvent(g, P, "CONNECTED") ELSE g)
    /\ bus' = [bus EXCEPT !.seen = bus.plugged, !.resetting = FALSE, !.restarted = TRUE]
    /\ UNCHANGED d

-----------------------------------------------------------------------------
(* What the host's controller does with the transfers it was given.        *)
Working(e) == h.started /\ h.hcd.slot[e] # None
Given(e) == h.xfer[h.hcd.slot[e]]

(* The controller lets go of the transfer and calls back.  The endpoints   *)
(* of a configuration are enabled before its completion is told.           *)
LetGo(e, event) ==
    IF e = EP0
    THEN [h EXCEPT !.hcd = [@ EXCEPT !.slot[e] = None, !.gone = @ \ {e}, !.stage = "idle", !.configuring = FALSE,
                                     !.reply = Nothing, !.enabled = IF h.hcd.configuring /\ event = "COMPLETE"
                                                 THEN @ \cup ConfiguredEndpoints(h, h.hcd.slot[e])
                                                 ELSE @]]
    ELSE [h EXCEPT !.hcd.slot[e] = None, !.hcd.gone = @ \ {e}]

Finish(e, event, payload) ==
    /\ h' = Returned(TransferEvent(LetGo(e, event), h.hcd.slot[e], event, event = "COMPLETE", payload))
    /\ bus' = [bus EXCEPT !.claim = Claim(h')]

Break(e) ==
    /\ bus.faults < MaxFaults
    /\ h' = Returned(TransferEvent(LetGo(e, "ERROR"), h.hcd.slot[e], "ERROR", FALSE, Nothing))
    /\ bus' = [bus EXCEPT !.faults = @ + 1]

(* The transfer fails in the controller before it reaches the device, or   *)
(* between two stages of a control transfer.                               *)
TransferError(e) ==
    /\ Setting({"pair"}) /\ Working(e)
    /\ Break(e)
    /\ UNCHANGED d

-----------------------------------------------------------------------------
(* The two stacks: control transfers, stage by stage.  The device takes    *)
(* the interrupt of a status stage before the next SETUP packet.           *)
Listening(e) ==
    /\ Setting({"pair"}) /\ Working(e) /\ e \notin h.hcd.gone
    /\ bus.plugged /\ d.dcd.up /\ ~d.dcd.irq /\ d.dcd.addr = Given(e).addr

Stage(s) == h' = [h EXCEPT !.hcd.stage = s]

SetupStage ==
    /\ Listening(EP0) /\ h.hcd.stage = "setup"
    /\ d' = SetupProcess(d, Given(EP0).what)
    /\ Stage(IF IsInRequest(Given(EP0).what) THEN "data" ELSE "status")
    /\ UNCHANGED bus

DataStage ==
    /\ Listening(EP0) /\ h.hcd.stage = "data" /\ d.dcd.ep0 # "idle"
    /\ h' = IF d.dcd.ep0 = "stall" THEN [h EXCEPT !.hcd.stage = "stalled"]
            ELSE [h EXCEPT !.hcd.stage = "status", !.hcd.reply = d.dcd.sent]
    /\ UNCHANGED <<d, bus>>

Told(told, req) ==
    CASE req.op = "SetAddress" -> [told EXCEPT !.addr = req.addr]
      [] req.op = "SetConfiguration" -> [told EXCEPT !.configured = TRUE]
      [] req.op = "Unconfigure" -> [told EXCEPT !.configured = FALSE]
      [] OTHER -> told

StatusStage ==
    /\ Listening(EP0) /\ h.hcd.stage = "status"
    /\ LET answered == d.dcd.req_in \/ d.dcd.ep0 = "ack"
       IN  /\ Stage(IF answered THEN "done" ELSE "stalled")
           /\ d' = [d EXCEPT !.dcd.irq = answered]
           /\ bus' = [bus EXCEPT !.told = IF answered THEN Told(@, Given(EP0).what) ELSE @]

DeviceInterrupt ==
    /\ d.dcd.irq
    /\ d' = StatusInterrupt(d)
    /\ UNCHANGED <<h, bus>>

ControlDone ==
    /\ Setting({"pair"}) /\ Working(EP0) /\ h.hcd.stage \in {"done", "stalled"}
    /\ IF h.hcd.stage = "done" THEN Finish(EP0, "COMPLETE", h.hcd.reply)
       ELSE Finish(EP0, "STALLED", Nothing)
    /\ UNCHANGED d

(* The bulk and interrupt endpoints; a transfer may also fail after it     *)
(* reached the device.                                                     *)
Out(e) ==
    /\ Listening(e) /\ e \in OutAddress /\ (e \in d.dcd.halted \/ d.dcd.rx[e])
    /\ IF e \in d.dcd.halted THEN Finish(e, "STALLED", Nothing) /\ UNCHANGED d
       ELSE /\ \E app \in BOOLEAN :
                   d' = ClassDataReceived([d EXCEPT !.dcd.rx[e] = FALSE], e, Given(e).what, app)
            /\ Finish(e, "COMPLETE", Nothing) \/ Break(e)

(* A short packet ends the transfer; one that is too long is an error.     *)
InEvent(expected, payload) ==
    IF expected = payload.op THEN "COMPLETE"
    ELSE IF expected = "DATA" THEN "SHORT" ELSE "ERROR"

In(e) ==
    /\ Listening(e) /\ e \in InAddress /\ (e \in d.dcd.halted \/ d.dcd.tx[e] # Nothing)
    /\ IF e \in d.dcd.halted THEN Finish(e, "STALLED", Nothing) /\ UNCHANGED d
       ELSE /\ d' = ClassDataSent([d EXCEPT !.dcd.tx[e] = Nothing], e)
            /\ LET event == InEvent(Given(e).what.op, d.dcd.tx[e])
               IN \/ Finish(e, event, IF event = "COMPLETE" THEN d.dcd.tx[e] ELSE Nothing)
                  \/ Break(e)

(* The application of the device has a report to send.                     *)
DeviceReport ==
    /\ Setting({"pair"})
    /\ "int" \in d.dcd.enabled /\ d.dcd.tx["int"] = Nothing /\ d.dcd.addr # 0
    /\ d' = HidSendReport(d)
    /\ UNCHANGED <<h, bus>>

-----------------------------------------------------------------------------
(* An arbitrary device: it completes, cuts short, stalls or spoils what it *)
(* is asked, or never answers.                                             *)
Bad == [op |-> "descriptor", good |-> FALSE]
Wrapper(tag, status, residue) == [op |-> "CSW", tag |-> tag, status |-> status, residue |-> residue]

Answers(what) ==
    CASE what.op \in {"DeviceHeader", "Device", "ConfigHeader"} -> {Bad, Described(<<>>)}
      [] what.op = "Config" -> {Bad} \cup {Described(items) : items \in ForeignItems}
      [] what.op = "CSW" -> {Wrapper(0, "PASSED", 0), Wrapper(h.msc.tag, "PHASE_ERROR", 0),
                             Wrapper(h.msc.tag, "FAILED", 0), Wrapper(h.msc.tag, "PASSED", 1),
                             Wrapper(h.msc.tag, "PASSED", 0)}
      [] what.op = "DATA" -> {[op |-> "DATA", n |-> what.n, val |-> 0]}
      [] OTHER -> {Nothing}

ForeignAnswer(e) ==
    /\ Setting({"foreign"}) /\ Working(e) /\ bus.plugged
    /\ e \notin h.hcd.gone
    /\ h.hcd.configuring /\ e = EP0 => bus.driver = "contract"
    /\ \/ \E payload \in Answers(Given(e).what) : Finish(e, "COMPLETE", payload)
       \/ \E event \in {"SHORT", "STALLED", "ERROR"} : Finish(e, event, Nothing)
    /\ UNCHANGED d

(* What was left of a device that went away fails in the end, or never.    *)
Abandoned(e) ==
    /\ Working(e) /\ e \in h.hcd.gone
    /\ Finish(e, "ERROR", Nothing)
    /\ UNCHANGED d

-----------------------------------------------------------------------------
(* An arbitrary host: it may give up a control transfer at any stage.      *)
Asking ==
    /\ Setting({"pc"})
    /\ bus.ready /\ d.dcd.up /\ ~d.dcd.irq /\ d.dcd.addr = bus.told.addr

PcSetup ==
    /\ Asking /\ bus.requests < MaxRequests
    /\ \E req \in PcRequests :
        /\ d' = SetupProcess(d, req)
        /\ bus' = [bus EXCEPT !.requests = @ + 1, !.req = req,
                              !.stage = IF IsInRequest(req) \/ HasOutData(req) THEN "data" ELSE "status"]
    /\ UNCHANGED h

PcData ==
    /\ Asking /\ bus.stage = "data"
    /\ \/ d.dcd.ep0 = "out" /\ d' = Ep0DataReceived(d)
       \/ d.dcd.ep0 # "out" /\ UNCHANGED d
    /\ bus' = [bus EXCEPT !.stage = IF d.dcd.ep0 \in {"in", "ack", "out"} THEN "status" ELSE "idle"]
    /\ UNCHANGED h

PcStatus ==
    /\ Asking /\ bus.stage = "status"
    /\ \/ /\ d.dcd.req_in \/ d.dcd.ep0 = "ack"
          /\ d' = [d EXCEPT !.dcd.irq = TRUE]
          /\ bus' = [bus EXCEPT !.stage = "idle", !.told = Told(@, bus.req)]
       \/ /\ ~d.dcd.req_in /\ d.dcd.ep0 # "ack"
          /\ bus' = [bus EXCEPT !.stage = "idle"]
          /\ UNCHANGED d
    /\ UNCHANGED h

PcReset ==
    /\ Setting({"pc"}) /\ bus.plugged /\ d.started /\ bus.requests < MaxRequests
    /\ d' = LinkReset(d)
    /\ bus' = [bus EXCEPT !.requests = @ + 1, !.ready = TRUE, !.stage = "idle", !.told = Forgotten0]
    /\ UNCHANGED h

PcOut(e) ==
    /\ Asking /\ bus.commands < MaxCommands
    /\ e \in d.dcd.enabled \ d.dcd.halted /\ e \in OutAddress /\ d.dcd.rx[e]
    /\ \E payload \in PcPayloads, app \in BOOLEAN :
           d' = ClassDataReceived([d EXCEPT !.dcd.rx[e] = FALSE], e, payload, app)
    /\ bus' = [bus EXCEPT !.commands = @ + 1]
    /\ UNCHANGED h

PcIn(e) ==
    /\ Asking
    /\ e \in InAddress \ d.dcd.halted /\ d.dcd.tx[e] # Nothing
    /\ d' = ClassDataSent([d EXCEPT !.dcd.tx[e] = Nothing], e)
    /\ UNCHANGED <<h, bus>>

-----------------------------------------------------------------------------
Transaction(e) ==
    \/ TransferError(e) \/ Out(e) \/ In(e) \/ ForeignAnswer(e) \/ Abandoned(e)
    \/ PcOut(e) \/ PcIn(e)

Next ==
    \/ Register \/ StartDevice \/ StopDevice
    \/ Plug \/ Unplug \/ DeviceLink
    \/ Process \/ Resume \/ PortInterrupt \/ ResetComplete \/ PowerEvent
    \/ IssueCommand \/ Recover \/ StopHost \/ StartHost
    \/ SetupStage \/ DataStage \/ StatusStage \/ DeviceInterrupt \/ ControlDone \/ DeviceReport
    \/ PcSetup \/ PcData \/ PcStatus \/ PcReset
    \/ \E e \in Address : Transaction(e)

(* The application calls xUSBH_Process for ever, interrupts end and let the *)
(* call go on, and the contract of the driver has every port reset reported. *)
Spec ==
    /\ Init /\ [][Next]_vars
    /\ WF_vars(Process) /\ WF_vars(Resume) /\ WF_vars(ResetComplete)

-----------------------------------------------------------------------------
(* Who waits for transfer x: the enumeration, which has given its transfer *)
(* back when it binds the drivers, or one of the class instances.          *)
Owners(x) ==
    {o \in {<<"enum", 0>>} : h.enum.active /\ h.enum.xfer = x /\ h.task.at # "bind"}
        \cup {o \in {<<"msc", 0>>} : h.msc.used /\ h.msc.xfer = x}
        \cup {<<"hid", k>> : k \in {j \in Hid : h.hid[j].used /\ h.hid[j].xfer = x}}

(* The controller works only on transfers that are in use and submitted    *)
(* (or whose submit is on its way back), and each has exactly one owner, so *)
(* that its completion reaches whoever waits for it and nobody else:       *)
(* unplugging, timeouts and failed bindings release slots that the         *)
(* controller was given, in the middle of anything.  Once a disconnect has *)
(* come before the mark of a submit, this holds no longer:                 *)
(* transfer_cancel_if_submitted leaves that transfer with the controller.  *)
ControllerOwns ==
    bus.overtaken \cap Submitting = {} => \A e \in Address : Working(e) =>
        /\ Given(e).used
        /\ ~Given(e).submitted => h.task.at \in Submitting /\ h.task.x = h.hcd.slot[e]
        /\ Cardinality(Owners(h.hcd.slot[e])) = 1

(* Between interrupts, a device that was reset answers to the address the  *)
(* host gave it last and is configured exactly when the host was told so,  *)
(* wherever earlier requests were given up; and a device the host stack    *)
(* holds as addressed or configured is.                                    *)
AgreeOnAddress ==
    bus.ready =>
        /\ ~d.dcd.irq => /\ d.dcd.addr = bus.told.addr
                         /\ (d.life = "CONFIGURED") = bus.told.configured
        /\ \A x \in Device : Setting({"pair"}) /\ h.dev[x].used =>
            /\ h.dev[x].state \in {"ADDRESSED", "CONFIGURED"} => bus.told.addr = h.dev[x].addr
            /\ h.dev[x].state = "CONFIGURED" => bus.told.configured

(* When the host's mass storage driver reports a read or a write as done,  *)
(* the medium of the device holds what the host believes.                  *)
ClaimTrue == bus.claim # None => d.disk = bus.claim

Moving == {"CONNECTED", "POWERED", "RESETTING", "ENABLED", "ENUMERATING"}

(* A port that has begun to bring up a device ends CONFIGURED, ERROR or    *)
(* DISCONNECTED (or SUSPENDED), whatever the device answers and even if it *)
(* never does, and whatever comes in the middle of a call: every wait of   *)
(* the enumeration has a timeout.  Two interrupts undo that, and the port  *)
(* may stay where it is: RESET_COMPLETE before root_port_process_powered    *)
(* clears the flag, DISCONNECTED before root_port_process_enabled sets the  *)
(* state.                                                                  *)
PortSettles ==
    bus.driver = "contract" /\ h.started /\ h.port[P].state \in Moving
        ~> \/ h.port[P].state \notin Moving \/ ~h.started \/ bus.restarted
           \/ bus.overtaken \cap {"reset", "start"} # {}
=============================================================================
