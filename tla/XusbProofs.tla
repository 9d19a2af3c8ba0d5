----------------------------- MODULE XusbProofs -----------------------------
(* The USB device stack with a host that asks as it likes: when no request  *)
(* is on its way, both agree on the address and on the configuration.       *)
EXTENDS XusbBus, TLAPS

-----------------------------------------------------------------------------
(* A device is a record with the fields of InitializedDevice.               *)
IsController(c) ==
    c = [on |-> c.on, up |-> c.up, addr |-> c.addr, req_in |-> c.req_in, ep0 |-> c.ep0, sent |-> c.sent,
         enabled |-> c.enabled, halted |-> c.halted, irq |-> c.irq, rx |-> c.rx, tx |-> c.tx]
IsDevice(g) ==
    /\ g = [st |-> g.st, started |-> g.started, life |-> g.life, addressed |-> g.addressed, addr |-> g.addr,
            configured |-> g.configured, phase |-> g.phase, req |-> g.req, response |-> g.response,
            cls |-> g.cls, wake |-> g.wake, classes |-> g.classes, ifaces |-> g.ifaces, owner |-> g.owner,
            bot |-> g.bot, disk |-> g.disk, hid |-> g.hid, dcd |-> g.dcd]
    /\ IsController(g.dcd)

(* What a request leaves alone while it is looked at, and what the classes  *)
(* leave alone when they are given data or a request.                       *)
SameLink(g, v) ==
    /\ IsDevice(g)
    /\ g.started = v.started /\ g.life = v.life /\ g.phase = v.phase /\ g.req = v.req
    /\ g.dcd.up = v.dcd.up /\ g.dcd.addr = v.dcd.addr /\ g.dcd.req_in = v.dcd.req_in /\ g.dcd.irq = v.dcd.irq
SameControl(g, v) == SameLink(g, v) /\ g.addr = v.addr /\ g.configured = v.configured /\ g.dcd.ep0 = v.dcd.ep0

LEMMA StatusKeeps ==
    ASSUME NEW g, IsDevice(g), NEW s
    PROVE  /\ SameControl(Ok(g), g) /\ Ok(g).st = "OK"
           /\ SameControl(Failed(g, s), g) /\ Failed(g, s).st = s
  BY DEF IsDevice, IsController, SameControl, SameLink, Ok, Failed

LEMMA SameTransitive ==
    ASSUME NEW a, NEW b, NEW c, SameControl(b, a), SameControl(c, b)
    PROVE  SameControl(c, a)
  BY DEF SameControl, SameLink

LEMMA SameIsDevice ==
    ASSUME NEW a, NEW b, SameControl(b, a)
    PROVE  IsDevice(b) /\ SameLink(b, a)
  BY DEF SameControl, SameLink

LEMMA SameReflexive ==
    ASSUME NEW a, IsDevice(a)
    PROVE  SameControl(a, a)
  BY DEF SameControl, SameLink

-----------------------------------------------------------------------------
(* The controller driver, on every endpoint but endpoint 0.                 *)
LEMMA ReceiveKeeps ==
    ASSUME NEW g, IsDevice(g), NEW e \in Address \ {EP0}
    PROVE  SameControl(DcdReceive(g, e), g)
  BY DEF IsDevice, IsController, SameControl, SameLink, DcdReceive, Ok, Failed

LEMMA SendKeeps ==
    ASSUME NEW g, IsDevice(g), NEW e \in Address \ {EP0}, NEW payload
    PROVE  SameControl(DcdSend(g, e, payload), g)
  BY DEF IsDevice, IsController, SameControl, SameLink, DcdSend, Ok, Failed

LEMMA EndpointInitKeeps ==
    ASSUME NEW g, IsDevice(g), NEW e \in Address \ {EP0}
    PROVE  SameControl(DcdEndpointInit(g, e), g)
  BY DEF IsDevice, IsController, SameControl, SameLink, DcdEndpointInit, Ok, Dropped

LEMMA StallKeeps ==
    ASSUME NEW g, IsDevice(g), NEW e \in Address \ {EP0}
    PROVE  SameControl(DcdStall(g, e), g)
  BY DEF IsDevice, IsController, SameControl, SameLink, DcdStall, Ok

LEMMA ClearStallKeeps ==
    ASSUME NEW g, IsDevice(g), NEW e \in Address \ {EP0}
    PROVE  SameControl(DcdClearStall(g, e), g)
  BY DEF IsDevice, IsController, SameControl, SameLink, DcdClearStall, Ok, Dropped

LEMMA BulkEndpoints == {"in", "out", "int"} \subseteq Address \ {EP0}
  BY DEF Address, Bulk, Interrupt, EP0

LEMMA BotFieldKeeps ==
    ASSUME NEW g, IsDevice(g), NEW v
    PROVE  SameControl([g EXCEPT !.bot = v], g)
  BY DEF IsDevice, IsController, SameControl, SameLink

LEMMA DiskFieldKeeps ==
    ASSUME NEW g, IsDevice(g), NEW v
    PROVE  SameControl([g EXCEPT !.disk = v], g)
  BY DEF IsDevice, IsController, SameControl, SameLink

LEMMA HidFieldKeeps ==
    ASSUME NEW g, IsDevice(g), NEW v
    PROVE  SameControl([g EXCEPT !.hid = v], g)
  BY DEF IsDevice, IsController, SameControl, SameLink

LEMMA ClsFieldKeeps ==
    ASSUME NEW g, IsDevice(g), NEW v
    PROVE  SameControl([g EXCEPT !.cls = v], g)
  BY DEF IsDevice, IsController, SameControl, SameLink

LEMMA ResponseFieldKeeps ==
    ASSUME NEW g, IsDevice(g), NEW v
    PROVE  SameControl([g EXCEPT !.response = v], g)
  BY DEF IsDevice, IsController, SameControl, SameLink

LEMMA WakeFieldKeeps ==
    ASSUME NEW g, IsDevice(g), NEW v
    PROVE  SameControl([g EXCEPT !.wake = v], g)
  BY DEF IsDevice, IsController, SameControl, SameLink

LEMMA AddrFieldKeeps ==
    ASSUME NEW g, IsDevice(g), NEW v
    PROVE  SameLink([g EXCEPT !.addr = v], g) /\ [g EXCEPT !.addr = v].addr = v
  BY DEF IsDevice, IsController, SameLink

LEMMA ConfiguredFieldKeeps ==
    ASSUME NEW g, IsDevice(g), NEW v
    PROVE  SameLink([g EXCEPT !.configured = v], g) /\ [g EXCEPT !.configured = v].configured = v
  BY DEF IsDevice, IsController, SameLink

LEMMA ControllerKeeps ==
    ASSUME NEW g, IsDevice(g), NEW c, IsController(c), c.up = g.dcd.up, c.addr = g.dcd.addr, c.req_in = g.dcd.req_in,
           c.irq = g.dcd.irq, c.ep0 = g.dcd.ep0
    PROVE  SameControl([g EXCEPT !.dcd = c], g)
  BY DEF IsDevice, SameControl, SameLink

-----------------------------------------------------------------------------
(* The mass storage function.                                               *)
LEMMA BotEndpointsKeeps ==
    ASSUME NEW g, IsDevice(g)
    PROVE  SameControl(BotEndpoints(g), g)
<1>1. PICK a : a = DcdEndpointInit(g, "out")
  OBVIOUS
<1>2. SameControl(a, g)
  BY <1>1, EndpointInitKeeps, BulkEndpoints
<1>3. SameControl(DcdEndpointInit(a, "in"), a)
  BY <1>2, EndpointInitKeeps, SameIsDevice, BulkEndpoints
<1>4. BotEndpoints(g) = IF IsOk(a) THEN DcdEndpointInit(a, "in") ELSE a
  BY <1>1 DEF BotEndpoints, Then
<1> QED BY <1>2, <1>3, <1>4, SameTransitive

LEMMA BotStartKeeps ==
    ASSUME NEW g, IsDevice(g)
    PROVE  SameControl(BotStartCbw(g), g)
<1>1. PICK a : a = [g EXCEPT !.bot = [@ EXCEPT !.state = "WAIT_CBW"]]
  OBVIOUS
<1>2. SameControl(a, g)
  BY <1>1, BotFieldKeeps
<1>3. SameControl(DcdReceive(a, "out"), a)
  BY <1>2, ReceiveKeeps, SameIsDevice, BulkEndpoints
<1>4. BotStartCbw(g) = DcdReceive(a, "out")
  BY <1>1 DEF BotStartCbw
<1> QED BY <1>2, <1>3, <1>4, SameTransitive

LEMMA SendCswKeeps ==
    ASSUME NEW g, IsDevice(g)
    PROVE  SameControl(BotSendCsw(g), g)
<1>1. PICK a : a = [g EXCEPT !.bot = [@ EXCEPT !.state = "SEND_CSW"]]
  OBVIOUS
<1>2. PICK p : p = [op |-> "CSW", tag |-> g.bot.tag, status |-> g.bot.status, residue |-> g.bot.residue]
  OBVIOUS
<1>3. SameControl(a, g)
  BY <1>1, BotFieldKeeps
<1>4. SameControl(DcdSend(a, "in", p), a)
  BY <1>3, SendKeeps, SameIsDevice, BulkEndpoints
<1>5. BotSendCsw(g) = DcdSend(a, "in", p)
  BY <1>1, <1>2 DEF BotSendCsw
<1> QED BY <1>3, <1>4, <1>5, SameTransitive

LEMMA BotResetKeeps ==
    ASSUME NEW g, IsDevice(g)
    PROVE  SameControl(BotReset(g), g)
<1>1. PICK a : a = BotEndpoints(g)
  OBVIOUS
<1>2. PICK b : b = DcdClearStall(a, "in")
  OBVIOUS
<1>3. PICK c : c = DcdClearStall(b, "out")
  OBVIOUS
<1>4. PICK e : e = [c EXCEPT !.bot = [@ EXCEPT !.sense = FALSE]]
  OBVIOUS
<1>5. SameControl(a, g)
  BY <1>1, BotEndpointsKeeps
<1>6. SameControl(b, g)
  BY <1>2, <1>5, ClearStallKeeps, SameIsDevice, SameTransitive, BulkEndpoints
<1>7. SameControl(c, g)
  BY <1>3, <1>6, ClearStallKeeps, SameIsDevice, SameTransitive, BulkEndpoints
<1>8. SameControl(e, g)
  BY <1>4, <1>7, BotFieldKeeps, SameIsDevice, SameTransitive
<1>9. SameControl(BotStartCbw(e), g)
  BY <1>8, BotStartKeeps, SameIsDevice, SameTransitive
<1>10. BotReset(g) \in {a, b, c, BotStartCbw(e)}
  BY <1>1, <1>2, <1>3, <1>4 DEF BotReset, Then
<1> QED BY <1>5, <1>6, <1>7, <1>9, <1>10

LEMMA ScsiKeeps ==
    ASSUME NEW g, IsDevice(g), NEW cmd, NEW app
    PROVE  SameControl(ScsiCommand(g, cmd, app), g)
<1>1. /\ SameControl(Passed(g), g) /\ SameControl(Sensed(g), g) /\ SameControl(g, g)
      /\ SameControl([Passed(g) EXCEPT !.bot.sense = FALSE], g)
  BY BotFieldKeeps, SameReflexive, SameTransitive, SameIsDevice DEF Passed, Sensed
<1>2. ScsiBlock(g, cmd, app) \in {g, Passed(g), Sensed(g)}
  BY DEF ScsiBlock
<1>3. ScsiCommand(g, cmd, app) \in {ScsiBlock(g, cmd, app), Passed(g), Sensed(g), g, [Passed(g) EXCEPT !.bot.sense = FALSE]}
  BY DEF ScsiCommand
<1> QED BY <1>1, <1>2, <1>3

LEMMA DataPhaseKeeps ==
    ASSUME NEW g, IsDevice(g), NEW payload
    PROVE  SameControl(BotDataPhase(g, payload), g)
<1>1. PICK a : a = [g EXCEPT !.bot = [@ EXCEPT !.state = "DATA_IN"]]
  OBVIOUS
<1>2. PICK b : b = [g EXCEPT !.bot = [@ EXCEPT !.state = "DATA_OUT"]]
  OBVIOUS
<1>3. SameControl(DcdSend(a, "in", payload), g)
  BY <1>1, BotFieldKeeps, SendKeeps, SameIsDevice, SameTransitive, BulkEndpoints
<1>4. SameControl(DcdReceive(b, "out"), g)
  BY <1>2, BotFieldKeeps, ReceiveKeeps, SameIsDevice, SameTransitive, BulkEndpoints
<1>5. BotDataPhase(g, payload) \in {BotSendCsw(g), DcdSend(a, "in", payload), DcdReceive(b, "out")}
  BY <1>1, <1>2 DEF BotDataPhase
<1> QED BY <1>3, <1>4, <1>5, SendCswKeeps

LEMMA CommandKeeps ==
    ASSUME NEW g, IsDevice(g), NEW payload, NEW app
    PROVE  SameControl(BotCommand(g, payload, app), g)
<1>1. CASE payload.op # "CBW"
  <2>1. PICK a : a = [g EXCEPT !.bot = [[@ EXCEPT !.state = "ERROR"] EXCEPT !.status = "FAILED"]]
    OBVIOUS
  <2>2. PICK b : b = DcdStall(a, "in")
    OBVIOUS
  <2>3. SameControl(b, g)
    <3>1. SameControl(a, g)
      BY <2>1, BotFieldKeeps
    <3>2. SameControl(b, a)
      BY <2>2, <3>1, StallKeeps, SameIsDevice, BulkEndpoints
    <3> QED BY <3>1, <3>2, SameTransitive
  <2>4. SameControl(DcdStall(b, "out"), g)
    BY <2>3, StallKeeps, SameIsDevice, SameTransitive, BulkEndpoints
  <2>5. BotCommand(g, payload, app) \in {b, DcdStall(b, "out")}
    BY <1>1, <2>1, <2>2 DEF BotCommand, Then
  <2> QED BY <2>3, <2>4, <2>5
<1>2. CASE payload.op = "CBW"
  <2>1. PICK a : a = [g EXCEPT !.bot = [@ EXCEPT !.status = "FAILED", !.tag = payload.tag, !.cmd = payload.cmd, !.residue = 0]]
    OBVIOUS
  <2>2. PICK b : b = ScsiCommand(a, payload.cmd, app)
    OBVIOUS
  <2>3. SameControl(b, g)
    BY <2>1, <2>2, BotFieldKeeps, ScsiKeeps, SameIsDevice, SameTransitive
  <2>4. PICK c : c = [b EXCEPT !.bot = [@ EXCEPT !.residue = payload.cmd.n]]
    OBVIOUS
  <2>5. SameControl(BotSendCsw(c), g)
    BY <2>3, <2>4, BotFieldKeeps, SendCswKeeps, SameIsDevice, SameTransitive
  <2>6. PICK p : p = BotData(g, payload.cmd)
    OBVIOUS
  <2>7. SameControl(BotDataPhase(b, p), g)
    BY <2>3, DataPhaseKeeps, SameIsDevice, SameTransitive
  <2>8. BotCommand(g, payload, app) \in {BotDataPhase(b, p), BotSendCsw(c)}
    BY <1>2, <2>1, <2>2, <2>4, <2>6 DEF BotCommand, Always
  <2> QED BY <2>5, <2>7, <2>8
<1> QED BY <1>1, <1>2

LEMMA DataReceivedKeeps ==
    ASSUME NEW g, IsDevice(g), NEW payload, NEW app
    PROVE  SameControl(BotDataReceived(g, payload, app), g)
<1>1. PICK a : a = [g EXCEPT !.disk = payload.val]
  OBVIOUS
<1>2. SameControl(a, g)
  BY <1>1, DiskFieldKeeps
<1>3. PICK b : b = [g EXCEPT !.bot = [@ EXCEPT !.status = "FAILED"]]
  OBVIOUS
<1>4. PICK c : c = [b EXCEPT !.bot = [@ EXCEPT !.sense = TRUE]]
  OBVIOUS
<1>5. SameControl(c, g)
  BY <1>3, <1>4, BotFieldKeeps, SameIsDevice, SameTransitive
<1>6. BotDataReceived(g, payload, app) \in {BotSendCsw(a), BotSendCsw(c)}
  BY <1>1, <1>3, <1>4 DEF BotDataReceived, Sensed
<1> QED BY <1>2, <1>5, <1>6, SendCswKeeps, SameIsDevice, SameTransitive

LEMMA BotReceivedKeeps ==
    ASSUME NEW g, IsDevice(g), NEW payload, NEW app
    PROVE  SameControl(BotReceived(g, payload, app), g)
<1>1. BotReceived(g, payload, app) \in {BotCommand(g, payload, app), BotDataReceived(g, payload, app), Ok(g)}
  BY DEF BotReceived
<1> QED BY <1>1, CommandKeeps, DataReceivedKeeps, StatusKeeps

LEMMA BotTransmittedKeeps ==
    ASSUME NEW g, IsDevice(g)
    PROVE  SameControl(BotTransmitted(g), g)
<1>1. BotTransmitted(g) \in {BotStartCbw(g), BotSendCsw(g), Ok(g)}
  BY DEF BotTransmitted
<1> QED BY <1>1, BotStartKeeps, SendCswKeeps, StatusKeeps
-----------------------------------------------------------------------------
(* What the bus and the control requests tell the classes.                  *)
LEMMA EndpointsKeep ==
    ASSUME NEW g, IsDevice(g), NEW S
    PROVE  SameControl(Opened(g, S), g) /\ SameControl(Closed(g, S), g)
<1>1. PICK a : a = Ok(g)
  OBVIOUS
<1>2. SameControl(a, g)
  BY <1>1, StatusKeeps
<1>3. PICK rx, tx, halted : Emptied(a.dcd, S) = [a.dcd EXCEPT !.rx = rx, !.tx = tx, !.halted = halted]
  BY Zenon DEF Emptied
<1>4. ASSUME NEW E
      PROVE  SameControl([a EXCEPT !.dcd = [Emptied(@, S) EXCEPT !.enabled = E]], a)
  <2>1. PICK c : c = [Emptied(a.dcd, S) EXCEPT !.enabled = E]
    OBVIOUS
  <2>2. /\ IsController(c) /\ c.up = a.dcd.up /\ c.addr = a.dcd.addr /\ c.req_in = a.dcd.req_in
        /\ c.irq = a.dcd.irq /\ c.ep0 = a.dcd.ep0
    <3>1. PICK z : z = a.dcd
      OBVIOUS
    <3>2. IsController(z)
      BY <1>2, <3>1, SameIsDevice DEF IsDevice
    <3>3. PICK y : y = [z EXCEPT !.rx = rx, !.tx = tx, !.halted = halted]
      OBVIOUS
    <3>4. IsController(y) /\ y.up = z.up /\ y.addr = z.addr /\ y.req_in = z.req_in /\ y.irq = z.irq /\ y.ep0 = z.ep0
      BY <3>2, <3>3 DEF IsController
    <3>5. c = [y EXCEPT !.enabled = E]
      BY <1>3, <2>1, <3>1, <3>3
    <3>6. IsController(c) /\ c.up = y.up /\ c.addr = y.addr /\ c.req_in = y.req_in /\ c.irq = y.irq /\ c.ep0 = y.ep0
      BY <3>4, <3>5 DEF IsController
    <3> QED BY <3>1, <3>4, <3>6
  <2>3. SameControl([a EXCEPT !.dcd = c], a)
    BY <1>2, <2>2, SameIsDevice, ControllerKeeps
  <2> QED BY <2>1, <2>3
<1>5. PICK A, B : /\ Opened(g, S) = [a EXCEPT !.dcd = [Emptied(@, S) EXCEPT !.enabled = A]]
                  /\ Closed(g, S) = [a EXCEPT !.dcd = [Emptied(@, S) EXCEPT !.enabled = B]]
  BY <1>1, Zenon DEF Opened, Closed
<1> QED BY <1>2, <1>4, <1>5, SameTransitive

LEMMA BotEventKeeps ==
    ASSUME NEW g, IsDevice(g), NEW event
    PROVE  SameControl(BotBusEvent(g, event), g)
<1>1. PICK a : a = BotEndpoints(g)
  OBVIOUS
<1>2. PICK b : b = [a EXCEPT !.bot = [@ EXCEPT !.sense = FALSE]]
  OBVIOUS
<1>3. SameControl(a, g)
  BY <1>1, BotEndpointsKeeps
<1>4. SameControl(b, g)
  BY <1>2, <1>3, BotFieldKeeps, SameIsDevice, SameTransitive
<1>5. SameControl(BotStartCbw(b), g)
  BY <1>4, BotStartKeeps, SameIsDevice, SameTransitive
<1>6. PICK c : c = [Ok(g) EXCEPT !.bot = [@ EXCEPT !.state = "IDLE"]]
  OBVIOUS
<1>7. SameControl(c, g)
  BY <1>6, StatusKeeps, BotFieldKeeps, SameIsDevice, SameTransitive
<1>8. BotBusEvent(g, event) \in {a, BotStartCbw(b), c, Ok(g)}
  BY <1>1, <1>2, <1>6 DEF BotBusEvent, Then
<1> QED BY <1>3, <1>5, <1>7, <1>8, StatusKeeps

LEMMA BusEventKeeps ==
    ASSUME NEW g, IsDevice(g), NEW event
    PROVE  SameControl(ClassBusEventProcess(g, event), g) /\ ClassBusEventProcess(g, event).st = "OK"
<1>1. PICK S : S = {e \in Address : g.owner[e] \notin {"none", "msc"}}
  OBVIOUS
<1>2. PICK a : a = EndpointsBusEvent(g, S, event)
  OBVIOUS
<1>3. a \in {Opened(g, S), Closed(g, S), Ok(g)}
  BY <1>2 DEF EndpointsBusEvent
<1>4. SameControl(a, g)
  BY <1>3, EndpointsKeep, StatusKeeps
<1>5. SameControl(BotBusEvent(a, event), g)
  BY <1>4, BotEventKeeps, SameIsDevice, SameTransitive
<1>6. PICK b : b \in {a, BotBusEvent(a, event)} /\ ClassBusEventProcess(g, event) = Ok(b)
  BY <1>1, <1>2, Zenon DEF ClassBusEventProcess
<1>7. SameControl(b, g)
  BY <1>4, <1>5, <1>6
<1>8. SameControl(Ok(b), b) /\ Ok(b).st = "OK"
  BY <1>7, StatusKeeps, SameIsDevice
<1> QED BY <1>6, <1>7, <1>8, SameTransitive

LEMMA AnswerKeeps ==
    ASSUME NEW g, IsDevice(g), NEW response
    PROVE  SameControl(AnswerIn(g, response), g)
  BY StatusKeeps, ResponseFieldKeeps, SameIsDevice, SameTransitive DEF AnswerIn

LEMMA HidOfOkKeeps ==
    ASSUME NEW g, IsDevice(g), NEW v
    PROVE  SameControl([Ok(g) EXCEPT !.hid = v], g)
  BY StatusKeeps, HidFieldKeeps, SameIsDevice, SameTransitive

LEMMA ClassInKeeps ==
    ASSUME NEW g, IsDevice(g), NEW c
    PROVE  SameControl(ClassControlIn(g, c), g)
<1>1. PICK r : HidControlIn(g) = AnswerIn(g, r)
  BY DEF HidControlIn
<1>2. ClassControlIn(g, c) \in {AnswerIn(g, Request("lun")), Failed(g, "INVALID_CLASS_REQ"), AnswerIn(g, r)}
  BY <1>1 DEF ClassControlIn, MscControlIn
<1> QED BY <1>2, AnswerKeeps, StatusKeeps

LEMMA ClassOutKeeps ==
    ASSUME NEW g, IsDevice(g), NEW c
    PROVE  SameControl(ClassControlOut(g, c), g)
<1>1. PICK v, w : HidControlOut(g) \in {[Ok(g) EXCEPT !.hid = v], [Ok(g) EXCEPT !.hid = w], Ok(g)}
  <2>1. Ok(g).hid = g.hid
    BY DEF Ok, IsDevice
  <2>2. /\ [Ok(g) EXCEPT !.hid.protocol = g.req.value] = [Ok(g) EXCEPT !.hid = [Ok(g).hid EXCEPT !.protocol = g.req.value]]
        /\ [Ok(g) EXCEPT !.hid.alt = g.req.value] = [Ok(g) EXCEPT !.hid = [Ok(g).hid EXCEPT !.alt = g.req.value]]
    OBVIOUS
  <2> QED BY <2>2 DEF HidControlOut
<1>2. ClassControlOut(g, c) \in {BotReset(g), Failed(g, "INVALID_CLASS_REQ"), HidControlOut(g)}
  BY DEF ClassControlOut, MscControlOut
<1> QED BY <1>1, <1>2, HidOfOkKeeps, StatusKeeps, BotResetKeeps

LEMMA InRequestKeeps ==
    ASSUME NEW g, IsDevice(g)
    PROVE  SameControl(ClassInRequest(g), g)
<1>1. PICK c : c = RecipientClass(g)
  OBVIOUS
<1>2. PICK a : a = ClassControlIn(g, c)
  OBVIOUS
<1>3. SameControl(a, g) /\ SameControl([a EXCEPT !.cls = c], g)
  BY <1>2, ClassInKeeps, ClsFieldKeeps, SameIsDevice, SameTransitive
<1>4. ClassInRequest(g) \in {Failed(g, "INVALID_CLASS_REQ"), a, [a EXCEPT !.cls = c]}
  BY <1>1, <1>2 DEF ClassInRequest, Routed, Then
<1> QED BY <1>3, <1>4, StatusKeeps

LEMMA OutRequestKeeps ==
    ASSUME NEW g, IsDevice(g)
    PROVE  SameControl(ClassOutRequest(g), g)
<1>1. PICK c : c = RecipientClass(g)
  OBVIOUS
<1>2. PICK a : a = ClassControlOut(g, c)
  OBVIOUS
<1>3. SameControl(a, g) /\ SameControl([a EXCEPT !.cls = c], g)
  BY <1>2, ClassOutKeeps, ClsFieldKeeps, SameIsDevice, SameTransitive
<1>4. ClassOutRequest(g) \in {Failed(g, "INVALID_CLASS_REQ"), a, [a EXCEPT !.cls = c]}
  BY <1>1, <1>2 DEF ClassOutRequest, Routed, Then
<1> QED BY <1>3, <1>4, StatusKeeps

LEMMA ClassDataKeeps ==
    ASSUME NEW g, IsDevice(g), NEW e, NEW payload, NEW app
    PROVE  SameControl(ClassDataReceived(g, e, payload, app), g) /\ SameControl(ClassDataSent(g, e), g)
<1>1. /\ ClassDataReceived(g, e, payload, app) \in {Failed(g, "INVALID_CLASS_REQ"), BotReceived(g, payload, app), Ok(g)}
      /\ ClassDataSent(g, e) \in {Failed(g, "INVALID_CLASS_REQ"), BotTransmitted(g), Ok(g)}
  BY DEF ClassDataReceived, ClassDataSent
<1> QED BY <1>1, BotReceivedKeeps, BotTransmittedKeeps, StatusKeeps

-----------------------------------------------------------------------------
(* The standard requests.  One that was accepted is carried out when its    *)
(* status stage is over; until then it is remembered.                       *)
Remembered(g) ==
    /\ g.req.op = "SetAddress" => g.addr = g.req.addr
    /\ g.req.op = "SetConfiguration" => g.configured
    /\ g.req.op = "Unconfigure" => ~g.configured
    /\ g.req.op # "SetConfiguration2"

LEMMA SimpleRequests ==
    ASSUME NEW g, IsDevice(g), g.req.op \notin {"SetAddress", "SetConfiguration", "Unconfigure", "SetConfiguration2"},
           NEW a, SameLink(a, g)
    PROVE  Remembered(a)
  BY DEF Remembered, SameLink

LEMMA LinkTransitive ==
    ASSUME NEW a, NEW b, NEW c, SameLink(b, a), SameLink(c, b)
    PROVE  SameLink(c, a)
  BY DEF SameLink

LEMMA FieldsOfOk ==
    ASSUME NEW g, IsDevice(g), NEW v
    PROVE  /\ SameLink([Ok(g) EXCEPT !.wake = v], g)
           /\ SameLink([Ok(g) EXCEPT !.addr = v], g) /\ [Ok(g) EXCEPT !.addr = v].addr = v
           /\ SameLink([Ok(g) EXCEPT !.configured = v], g) /\ [Ok(g) EXCEPT !.configured = v].configured = v
<1>1. PICK a : a = Ok(g) /\ SameControl(a, g)
  BY StatusKeeps
<1>2. /\ SameLink([a EXCEPT !.wake = v], a)
      /\ SameLink([a EXCEPT !.addr = v], a) /\ [a EXCEPT !.addr = v].addr = v
      /\ SameLink([a EXCEPT !.configured = v], a) /\ [a EXCEPT !.configured = v].configured = v
  BY <1>1, SameIsDevice, WakeFieldKeeps, AddrFieldKeeps, ConfiguredFieldKeeps
<1> QED BY <1>1, <1>2, SameIsDevice, LinkTransitive

LEMMA FeatureKeeps ==
    ASSUME NEW g, IsDevice(g)
    PROVE  /\ g.req.op \in {"ClearIn", "ClearOut", "ClearWake"} => SameLink(ClearFeature(g), g)
           /\ SameLink(SetFeature(g), g)
<1>1. SameLink([Ok(g) EXCEPT !.wake = FALSE], g) /\ SameLink([Ok(g) EXCEPT !.wake = TRUE], g)
  BY FieldsOfOk
<1>2. SameLink(DcdStall(g, g.req.ep), g)
  BY DEF IsDevice, IsController, SameLink, Ok, DcdStall
<1>3. SameLink(DcdClearStall(g, "in"), g) /\ SameLink(DcdClearStall(g, "out"), g)
  BY ClearStallKeeps, BulkEndpoints, SameIsDevice
<1> QED BY <1>1, <1>2, <1>3 DEF ClearFeature, SetFeature

LEMMA AddressKept ==
    ASSUME NEW g, IsDevice(g), g.req.op = "SetAddress"
    PROVE  SameLink(SetAddressRequest(g), g) /\ Remembered(SetAddressRequest(g))
<1>1. SameLink(SetAddressRequest(g), g) /\ SetAddressRequest(g).addr = g.req.addr
  BY FieldsOfOk DEF SetAddressRequest
<1> QED BY <1>1 DEF SameLink, Remembered

LEMMA ConfigurationKept ==
    ASSUME NEW g, IsDevice(g), g.req.op \in {"SetConfiguration", "Unconfigure", "SetConfiguration2"}
    PROVE  /\ SameLink(SetConfigurationRequest(g), g)
           /\ SetConfigurationRequest(g).st = "OK" => Remembered(SetConfigurationRequest(g))
<1>1. /\ SameLink([Ok(g) EXCEPT !.configured = TRUE], g) /\ [Ok(g) EXCEPT !.configured = TRUE].configured = TRUE
      /\ SameLink([Ok(g) EXCEPT !.configured = FALSE], g) /\ [Ok(g) EXCEPT !.configured = FALSE].configured = FALSE
  BY FieldsOfOk
<1>2. \A s : SameLink(Failed(g, s), g) /\ Failed(g, s).st = s
  BY StatusKeeps, SameIsDevice
<1>3. CASE SetConfigurationRequest(g) \in {Failed(g, "REQ_SET_CONFIG_NOT_ADDRESSED"), Failed(g, "REQ_SET_CONFIG_NOT_SUPPORTED")}
  BY <1>2, <1>3
<1>4. CASE /\ g.req.op = "SetConfiguration"
           /\ SetConfigurationRequest(g) = [Ok(g) EXCEPT !.configured = TRUE]
  BY <1>1, <1>4 DEF Remembered, SameLink
<1>5. CASE /\ g.req.op = "Unconfigure"
           /\ SetConfigurationRequest(g) = [Ok(g) EXCEPT !.configured = FALSE]
  BY <1>1, <1>5 DEF Remembered, SameLink
<1> QED BY <1>3, <1>4, <1>5 DEF SetConfigurationRequest

LEMMA InterfaceKept ==
    ASSUME NEW g, IsDevice(g)
    PROVE  SameLink(GetInterface(g), g) /\ SameLink(SetInterface(g), g)
<1>1. PICK a : a = ClassInRequest(g)
  OBVIOUS
<1>2. PICK b : b = ClassOutRequest(g)
  OBVIOUS
<1>3. PICK r : r = [op |-> "setting", val |-> 0]
  OBVIOUS
<1>4. SameControl(a, g) /\ SameControl(AnswerIn(a, r), g)
  BY <1>1, InRequestKeeps, AnswerKeeps, SameIsDevice, SameTransitive
<1>5. SameControl(b, g) /\ SameControl(Ok(b), g)
  BY <1>2, OutRequestKeeps, StatusKeeps, SameIsDevice, SameTransitive
<1>6. GetInterface(g) \in {a, AnswerIn(a, r)} /\ SetInterface(g) \in {b, Ok(b)}
  BY <1>1, <1>2, <1>3 DEF GetInterface, SetInterface, Either
<1> QED BY <1>4, <1>5, <1>6, SameIsDevice

LEMMA StandardKept ==
    ASSUME NEW g, IsDevice(g)
    PROVE  /\ SameLink(StandardRequest(g), g)
           /\ StandardRequest(g).st = "OK" => Remembered(StandardRequest(g))
<1>1. CASE g.req.op = "SetAddress"
  BY <1>1, AddressKept DEF StandardRequest
<1>2. CASE g.req.op \in {"SetConfiguration", "Unconfigure", "SetConfiguration2"}
  BY <1>2, ConfigurationKept DEF StandardRequest
<1>3. CASE g.req.op \notin {"SetAddress", "SetConfiguration", "Unconfigure", "SetConfiguration2"}
  <2>1. PICK r : GetDescriptor(g) \in {ClassInRequest(g), AnswerIn(g, r)} \/ GetDescriptor(g) = AnswerIn(g, Described(<<>>))
    BY Zenon DEF GetDescriptor
  <2>2. SameLink(GetDescriptor(g), g)
    BY <2>1, InRequestKeeps, AnswerKeeps, SameIsDevice
  <2>3. SameLink(GetStatus(g), g) /\ SameLink(GetConfiguration(g), g)
    BY AnswerKeeps, StatusKeeps, SameIsDevice DEF GetStatus, GetConfiguration
  <2>4. SameLink(Failed(g, "UNSUPPORTED_REQUEST"), g)
    BY StatusKeeps, SameIsDevice
  <2>5. SameLink(StandardRequest(g), g)
    BY <1>3, <2>2, <2>3, <2>4, FeatureKeeps, InterfaceKept DEF StandardRequest
  <2> QED BY <1>3, <2>5, SimpleRequests
<1> QED BY <1>1, <1>2, <1>3

LEMMA DispatchKept ==
    ASSUME NEW g, IsDevice(g)
    PROVE  SameLink(SetupDispatch(g), g) /\ (SetupDispatch(g).st = "OK" => Remembered(SetupDispatch(g)))
<1>1. CASE g.req.op \in {"GetMaxLun", "GetProtocol", "SetReport", "BulkReset", "SetProtocol"}
  <2>1. SetupDispatch(g) \in {ClassInRequest(g), Ok(g), ClassOutRequest(g)}
    BY <1>1 DEF SetupDispatch, HasOutData
  <2>2. SameLink(SetupDispatch(g), g)
    BY <2>1, InRequestKeeps, OutRequestKeeps, StatusKeeps, SameIsDevice
  <2> QED BY <1>1, <2>2, SimpleRequests
<1>2. CASE g.req.op \notin {"GetMaxLun", "GetProtocol", "SetReport", "BulkReset", "SetProtocol"}
  BY <1>2, StandardKept DEF SetupDispatch, HasOutData
<1> QED BY <1>1, <1>2
-----------------------------------------------------------------------------
(* Endpoint 0.  Armed with an acknowledgement it stands for a request that  *)
(* was accepted; armed for data, for a request that has some.               *)
EndpointZero(g) ==
    /\ g.dcd.req_in => IsInRequest(g.req)
    /\ g.phase = "OUT" => HasOutData(g.req)
    /\ g.phase = "IN" => IsInRequest(g.req)
    /\ g.dcd.ep0 = "out" => g.phase = "OUT"
    /\ g.dcd.ep0 = "ack" /\ ~g.dcd.req_in => g.phase = "OUT_STATUS" /\ Remembered(g)

(* What the host must know of the device.                                   *)
Known(g) == [addr |-> g.dcd.addr, configured |-> (g.life = "CONFIGURED")]

LEMMA SameEndpointZero ==
    ASSUME NEW a, NEW b, SameControl(b, a), EndpointZero(a)
    PROVE  EndpointZero(b) /\ Known(b) = Known(a)
  BY DEF SameControl, SameLink, EndpointZero, Remembered, Known

Armed(r, g, phase, ep0) ==
    /\ IsDevice(r) /\ r.phase = phase /\ r.dcd.ep0 = ep0
    /\ r.started = g.started /\ r.life = g.life /\ r.req = g.req /\ r.addr = g.addr /\ r.configured = g.configured
    /\ r.dcd.up = g.dcd.up /\ r.dcd.addr = g.dcd.addr /\ r.dcd.req_in = g.dcd.req_in /\ r.dcd.irq = g.dcd.irq

LEMMA PhaseArms ==
    ASSUME NEW g, IsDevice(g), NEW phase
    PROVE  Armed([g EXCEPT !.phase = phase], g, phase, g.dcd.ep0)
  BY DEF IsDevice, IsController, Armed

LEMMA ControllerArms ==
    ASSUME NEW g, IsDevice(g), NEW c, IsController(c), c.up = g.dcd.up, c.addr = g.dcd.addr, c.req_in = g.dcd.req_in,
           c.irq = g.dcd.irq
    PROVE  Armed([g EXCEPT !.dcd = c], g, g.phase, c.ep0)
  BY DEF IsDevice, Armed

LEMMA SameArms ==
    ASSUME NEW g, NEW r, SameControl(r, g)
    PROVE  Armed(r, g, g.phase, g.dcd.ep0)
  BY DEF SameControl, SameLink, Armed

LEMMA ArmedTransitive ==
    ASSUME NEW a, NEW b, NEW c, NEW phase, NEW ep0, NEW p, NEW w, Armed(b, a, p, w), Armed(c, b, phase, ep0)
    PROVE  Armed(c, a, phase, ep0)
  BY DEF Armed

LEMMA Ep0Arms ==
    ASSUME NEW g, IsDevice(g), NEW w, NEW v
    PROVE  /\ Armed([Ok(g) EXCEPT !.dcd.ep0 = w], g, g.phase, w)
           /\ Armed([Ok(g) EXCEPT !.dcd.ep0 = w, !.dcd.sent = v], g, g.phase, w)
           /\ [Ok(g) EXCEPT !.dcd.ep0 = w].st = "OK" /\ [Ok(g) EXCEPT !.dcd.ep0 = w, !.dcd.sent = v].st = "OK"
<1>1. PICK b : b = Ok(g)
  OBVIOUS
<1>2. SameControl(b, g) /\ b.st = "OK" /\ IsDevice(b) /\ b.dcd = g.dcd
  BY <1>1, StatusKeeps, SameIsDevice DEF Ok, IsDevice
<1>3. PICK c : c = [b.dcd EXCEPT !.ep0 = w]
  OBVIOUS
<1>4. PICK e : e = [c EXCEPT !.sent = v]
  OBVIOUS
<1>5. IsController(c) /\ c.up = b.dcd.up /\ c.addr = b.dcd.addr /\ c.req_in = b.dcd.req_in /\ c.irq = b.dcd.irq /\ c.ep0 = w
  BY <1>2, <1>3 DEF IsDevice, IsController
<1>6. IsController(e) /\ e.up = c.up /\ e.addr = c.addr /\ e.req_in = c.req_in /\ e.irq = c.irq /\ e.ep0 = c.ep0
  BY <1>4, <1>5 DEF IsController
<1>7. PICK x : x = [b EXCEPT !.dcd = c]
  OBVIOUS
<1>8. PICK y : y = [b EXCEPT !.dcd = e]
  OBVIOUS
<1>9. Armed(x, g, g.phase, w) /\ Armed(y, g, g.phase, w)
  BY <1>2, <1>5, <1>6, <1>7, <1>8, ControllerArms, SameArms, ArmedTransitive DEF SameControl, SameLink, Armed
<1>10. x.st = "OK" /\ y.st = "OK"
  BY <1>2, <1>7, <1>8 DEF IsDevice
<1>11. [Ok(g) EXCEPT !.dcd.ep0 = w] = x
  BY <1>1, <1>3, <1>7
<1>12. [Ok(g) EXCEPT !.dcd.ep0 = w, !.dcd.sent = v] = y
  BY <1>1, <1>2, <1>3, <1>4, <1>8 DEF IsDevice
<1> QED BY <1>9, <1>10, <1>11, <1>12

LEMMA DataStageArms ==
    ASSUME NEW g, IsDevice(g), NEW phase, NEW payload
    PROVE  LET b == [g EXCEPT !.phase = phase] IN
           /\ Armed(DcdSend(b, EP0, payload), g, phase, IF payload = Nothing THEN "ack" ELSE "in")
           /\ DcdSend(b, EP0, payload).st = "OK"
           /\ Armed(DcdReceive(b, EP0), g, phase, "out") /\ DcdReceive(b, EP0).st = "OK"
<1>1. PICK b : b = [g EXCEPT !.phase = phase]
  OBVIOUS
<1>2. Armed(b, g, phase, b.dcd.ep0) /\ b.phase = phase /\ IsDevice(b)
  BY <1>1, PhaseArms DEF Armed
<1>3. PICK w : w = IF payload = Nothing THEN "ack" ELSE "in"
  OBVIOUS
<1>4. DcdSend(b, EP0, payload) = [Ok(b) EXCEPT !.dcd.ep0 = w, !.dcd.sent = payload]
  BY <1>3 DEF DcdSend
<1>5. DcdReceive(b, EP0) = [Ok(b) EXCEPT !.dcd.ep0 = "out"]
  BY DEF DcdReceive
<1>6. Armed(DcdSend(b, EP0, payload), b, phase, w) /\ DcdSend(b, EP0, payload).st = "OK"
  <2>1. PICK x : x = [Ok(b) EXCEPT !.dcd.ep0 = w, !.dcd.sent = payload]
    OBVIOUS
  <2>2. Armed(x, b, b.phase, w) /\ x.st = "OK"
    BY <1>2, <2>1, Ep0Arms, ZenonT(60)
  <2> QED BY <1>2, <1>4, <2>1, <2>2
<1>7. Armed(DcdReceive(b, EP0), b, phase, "out") /\ DcdReceive(b, EP0).st = "OK"
  BY <1>2, <1>5, Ep0Arms
<1>8. Armed(DcdSend(b, EP0, payload), g, phase, w) /\ Armed(DcdReceive(b, EP0), g, phase, "out")
  BY <1>2, <1>6, <1>7, ArmedTransitive
<1> QED BY <1>1, <1>3, <1>6, <1>7, <1>8

LEMMA StallArms ==
    ASSUME NEW g, IsDevice(g)
    PROVE  Armed(Idle(DcdStall(g, EP0)), g, "IDLE", "stall")
<1>1. PICK a : a = DcdStall(g, EP0)
  OBVIOUS
<1>2. Armed(a, g, g.phase, "stall")
  BY <1>1, Ep0Arms DEF DcdStall
<1>3. IsDevice(a) /\ a.dcd.ep0 = "stall"
  BY <1>2 DEF Armed
<1>4. Armed(Idle(a), a, "IDLE", "stall")
  BY <1>3, PhaseArms DEF Idle
<1> QED BY <1>1, <1>2, <1>4, ArmedTransitive

LEMMA IdleArms ==
    ASSUME NEW g, IsDevice(g)
    PROVE  Armed(Idle(g), g, "IDLE", g.dcd.ep0)
  BY PhaseArms DEF Idle
LEMMA AcknowledgedZero ==
    ASSUME NEW g, NEW r, Remembered(g), Armed(r, g, "OUT_STATUS", "ack"), r.dcd.req_in => IsInRequest(r.req)
    PROVE  EndpointZero(r)
  BY DEF EndpointZero, Remembered, Armed

LEMMA StalledZero ==
    ASSUME NEW g, NEW r, Armed(r, g, "IDLE", "stall"), r.dcd.req_in => IsInRequest(r.req)
    PROVE  EndpointZero(r)
  BY DEF EndpointZero, Armed

(* A SETUP packet.                                                          *)
SetupDone(r, g, req) ==
    /\ IsDevice(r) /\ EndpointZero(r)
    /\ r.started = g.started /\ r.life = g.life /\ r.req = req
    /\ r.dcd.up = g.dcd.up /\ r.dcd.addr = g.dcd.addr /\ r.dcd.irq = g.dcd.irq

Taken(g, req) ==
    [g EXCEPT !.req = req, !.response = Nothing, !.dcd.ep0 = "idle", !.dcd.sent = Nothing,
              !.dcd.req_in = IsInRequest(req)]

LEMMA SetupTaken ==
    ASSUME NEW g, IsDevice(g), NEW req, NEW t, t = Taken(g, req)
    PROVE  /\ IsDevice(t) /\ t.req = req /\ t.started = g.started /\ t.life = g.life
           /\ t.dcd.up = g.dcd.up /\ t.dcd.addr = g.dcd.addr /\ t.dcd.irq = g.dcd.irq
           /\ t.dcd.req_in = IsInRequest(req)
<1>1. PICK a : a = [[g EXCEPT !.req = req] EXCEPT !.response = Nothing]
  OBVIOUS
<1>2. IsDevice(a) /\ a.req = req /\ a.started = g.started /\ a.life = g.life /\ a.dcd = g.dcd
  BY <1>1 DEF IsDevice
<1>3. PICK c : c = [[[a.dcd EXCEPT !.ep0 = "idle"] EXCEPT !.sent = Nothing] EXCEPT !.req_in = IsInRequest(req)]
  OBVIOUS
<1>4. IsController(c) /\ c.up = a.dcd.up /\ c.addr = a.dcd.addr /\ c.irq = a.dcd.irq /\ c.req_in = IsInRequest(req)
  BY <1>2, <1>3 DEF IsDevice, IsController
<1>5. t = [a EXCEPT !.dcd = c]
  BY <1>1, <1>2, <1>3, ZenonT(60) DEF IsDevice, Taken
<1>6. IsDevice(t) /\ t.req = a.req /\ t.started = a.started /\ t.life = a.life /\ t.dcd = c
  BY <1>2, <1>4, <1>5 DEF IsDevice
<1> QED BY <1>2, <1>4, <1>6

LEMMA DataStageDone ==
    ASSUME NEW g, IsDevice(g), Remembered(g), g.dcd.req_in = IsInRequest(g.req)
    PROVE  SetupDone(SetupDataStage(g), g, g.req) /\ SetupDataStage(g).st = "OK"
<1>1. CASE IsInRequest(g.req)
  <2>1. PICK w, r : r = SetupDataStage(g) /\ Armed(r, g, "IN", w) /\ w \in {"ack", "in"} /\ r.st = "OK"
    BY <1>1, DataStageArms DEF SetupDataStage
  <2>2. EndpointZero(r)
    BY <1>1, <2>1 DEF EndpointZero, Armed
  <2> QED BY <2>1, <2>2 DEF SetupDone, Armed
<1>2. CASE ~IsInRequest(g.req) /\ HasOutData(g.req)
  <2>1. PICK r : r = SetupDataStage(g) /\ Armed(r, g, "OUT", "out") /\ r.st = "OK"
    BY <1>2, DataStageArms DEF SetupDataStage
  <2>2. EndpointZero(r)
    BY <1>2, <2>1 DEF EndpointZero, Armed
  <2> QED BY <2>1, <2>2 DEF SetupDone, Armed
<1>3. CASE ~IsInRequest(g.req) /\ ~HasOutData(g.req)
  <2>1. PICK r : r = SetupDataStage(g) /\ Armed(r, g, "OUT_STATUS", "ack") /\ r.st = "OK"
    BY <1>3, DataStageArms DEF SetupDataStage
  <2>2. EndpointZero(r)
    BY <1>3, <2>1, AcknowledgedZero DEF Armed
  <2> QED BY <2>1, <2>2 DEF SetupDone, Armed
<1> QED BY <1>1, <1>2, <1>3

LEMMA SetupKeeps ==
    ASSUME NEW g, IsDevice(g), NEW req
    PROVE  SetupDone(SetupProcess(g, req), g, req)
<1>0. PICK t : t = Taken(g, req)
  OBVIOUS
<1>1. /\ IsDevice(t) /\ t.req = req /\ t.started = g.started /\ t.life = g.life
      /\ t.dcd.up = g.dcd.up /\ t.dcd.addr = g.dcd.addr /\ t.dcd.irq = g.dcd.irq
      /\ t.dcd.req_in = IsInRequest(req)
  BY <1>0, SetupTaken
<1>2. PICK v : v = SetupDispatch(t)
  OBVIOUS
<1>3. SameLink(v, t) /\ (v.st = "OK" => Remembered(v)) /\ IsDevice(v)
  BY <1>1, <1>2, DispatchKept DEF SameLink
<1>4. CASE v.st = "OK"
  <2>1. PICK s : s = SetupDataStage(v)
    OBVIOUS
  <2>2. SetupDone(s, v, v.req) /\ s.st = "OK"
    BY <1>1, <1>3, <1>4, <2>1, DataStageDone DEF SameLink
  <2>3. SetupProcess(g, req) = s
    BY <1>0, <1>2, <1>4, <2>1, <2>2 DEF SetupProcess, Taken, Either, IsOk
  <2> QED BY <1>1, <1>3, <2>2, <2>3 DEF SetupDone, SameLink
<1>5. CASE v.st # "OK"
  <2>1. SetupProcess(g, req) = Idle(DcdStall(v, EP0))
    BY <1>0, <1>2, <1>5 DEF SetupProcess, Taken, Either, IsOk
  <2>2. PICK s : s = Idle(DcdStall(v, EP0)) /\ Armed(s, v, "IDLE", "stall")
    BY <1>3, StallArms
  <2>3. EndpointZero(s)
    BY <1>1, <1>3, <2>2, StalledZero DEF Armed, SameLink
  <2> QED BY <1>1, <1>3, <2>1, <2>2, <2>3 DEF SetupDone, SameLink, Armed
<1> QED BY <1>4, <1>5
-----------------------------------------------------------------------------
(* The end of a control transfer.                                           *)
Finished(r, g, told) ==
    /\ IsDevice(r) /\ EndpointZero(r) /\ Known(r) = told
    /\ r.started = g.started /\ r.req = g.req

LEMMA CompleteKeeps ==
    ASSUME NEW g, IsDevice(g), g.phase = "IDLE",
           IsInRequest(g.req) \/ Remembered(g)
    PROVE  LET r == ControlComplete(g) IN
           /\ IsDevice(r) /\ r.started = g.started /\ r.req = g.req /\ r.phase = "IDLE"
           /\ r.dcd.up = g.dcd.up /\ r.dcd.irq = g.dcd.irq /\ r.dcd.ep0 = g.dcd.ep0 /\ r.dcd.req_in = g.dcd.req_in
           /\ Known(r) = Told(Known(g), g.req)
<1>1. PICK s : s = StatusPhaseComplete(g)
  OBVIOUS
<1>2. ControlComplete(g) = IF s.st = "OK" THEN [Ok(s) EXCEPT !.cls = "none"] ELSE s
  BY <1>1 DEF ControlComplete, Then, IsOk, ClassControlComplete
<1>3. ASSUME IsDevice(s)
      PROVE  SameControl([Ok(s) EXCEPT !.cls = "none"], s)
  BY <1>3, StatusKeeps, ClsFieldKeeps, SameIsDevice, SameTransitive
<1>4. ASSUME IsDevice(s), s.started = g.started, s.req = g.req, s.phase = g.phase, s.dcd.up = g.dcd.up,
             s.dcd.irq = g.dcd.irq, s.dcd.ep0 = g.dcd.ep0, s.dcd.req_in = g.dcd.req_in, Known(s) = Told(Known(g), g.req)
      PROVE  LET r == ControlComplete(g) IN
             /\ IsDevice(r) /\ r.started = g.started /\ r.req = g.req /\ r.phase = "IDLE"
             /\ r.dcd.up = g.dcd.up /\ r.dcd.irq = g.dcd.irq /\ r.dcd.ep0 = g.dcd.ep0 /\ r.dcd.req_in = g.dcd.req_in
             /\ Known(r) = Told(Known(g), g.req)
  <2>1. PICK r : r = ControlComplete(g)
    OBVIOUS
  <2>2. SameControl(r, s)
    BY <1>2, <1>3, <1>4, <2>1, SameReflexive
  <2>3. Known(r) = Known(s)
    BY <2>2 DEF SameControl, SameLink, Known
  <2> QED BY <1>4, <2>1, <2>2, <2>3 DEF SameControl, SameLink
<1>5. CASE g.req.op = "SetAddress"
  <2>1. PICK a : a = DcdSetAddress(g, g.addr)
    OBVIOUS
  <2>0. PICK b : b = Ok(g)
    OBVIOUS
  <2>2. SameControl(b, g) /\ b.st = "OK" /\ b.dcd = g.dcd
    BY <2>0, StatusKeeps DEF Ok, IsDevice
  <2>3. PICK c : c = [b.dcd EXCEPT !.addr = g.addr]
    OBVIOUS
  <2>4. IsController(c) /\ c.up = g.dcd.up /\ c.addr = g.addr /\ c.irq = g.dcd.irq /\ c.ep0 = g.dcd.ep0
        /\ c.req_in = g.dcd.req_in
    BY <2>2, <2>3 DEF IsDevice, IsController
  <2>5. a = [b EXCEPT !.dcd = c]
    BY <2>0, <2>1, <2>3 DEF DcdSetAddress
  <2>6. /\ IsDevice(a) /\ a.started = b.started /\ a.req = b.req /\ a.phase = b.phase /\ a.dcd = c /\ a.life = b.life
        /\ a.st = "OK"
    BY <2>2, <2>4, <2>5, SameIsDevice DEF IsDevice
  <2>7. s = [a EXCEPT !.addressed = TRUE]
    BY <1>1, <1>5, <2>1, <2>6 DEF StatusPhaseComplete, Then, IsOk
  <2>8. IsDevice(s) /\ s.started = a.started /\ s.req = a.req /\ s.phase = a.phase /\ s.dcd = a.dcd /\ s.life = a.life
    BY <2>6, <2>7 DEF IsDevice
  <2>9. g.addr = g.req.addr
    BY <1>5 DEF Remembered, IsInRequest, InRequests
  <2>10. Known(s) = [addr |-> g.req.addr, configured |-> (g.life = "CONFIGURED")]
    BY <2>2, <2>4, <2>6, <2>8, <2>9 DEF Known, SameControl, SameLink
  <2>11. Told(Known(g), g.req) = [Known(g) EXCEPT !.addr = g.req.addr]
    BY <1>5 DEF Told
  <2>12. Known(s) = Told(Known(g), g.req)
    BY <2>10, <2>11 DEF Known
  <2> QED BY <1>4, <2>2, <2>4, <2>6, <2>8, <2>12 DEF SameControl, SameLink
<1>6. CASE g.req.op \in {"SetConfiguration", "Unconfigure", "SetConfiguration2"}
  <2>1. PICK b : b = Ok(g) /\ SameControl(b, g) /\ b.st = "OK" /\ IsDevice(b)
    BY StatusKeeps, SameIsDevice
  <2>2. PICK l : l = IF g.configured THEN "CONFIGURED" ELSE "STARTED"
    OBVIOUS
  <2>3. s = [b EXCEPT !.life = l]
    BY <1>1, <1>6, <2>1, <2>2 DEF StatusPhaseComplete
  <2>4. IsDevice(s) /\ s.started = b.started /\ s.req = b.req /\ s.phase = b.phase /\ s.dcd = b.dcd /\ s.life = l
    BY <2>1, <2>3 DEF IsDevice
  <2>5. s.dcd.addr = g.dcd.addr
    BY <2>1, <2>4 DEF SameControl, SameLink
  <2>6. Remembered(g)
    BY <1>6 DEF IsInRequest, InRequests
  <2>7. CASE g.req.op = "SetConfiguration"
    <3>1. (l = "CONFIGURED") = TRUE
      BY <2>2, <2>6, <2>7 DEF Remembered
    <3>2. Told(Known(g), g.req) = [Known(g) EXCEPT !.configured = TRUE]
      BY <2>7 DEF Told
    <3>3. Known(s) = [addr |-> g.dcd.addr, configured |-> TRUE]
      BY <2>4, <2>5, <3>1 DEF Known
    <3>4. Known(s) = Told(Known(g), g.req)
      BY <3>2, <3>3 DEF Known
    <3> QED BY <1>4, <2>1, <2>4, <3>4 DEF SameControl, SameLink
  <2>8. CASE g.req.op = "Unconfigure"
    <3>1. (l = "CONFIGURED") = FALSE
      BY <2>2, <2>6, <2>8 DEF Remembered
    <3>2. Told(Known(g), g.req) = [Known(g) EXCEPT !.configured = FALSE]
      BY <2>8 DEF Told
    <3>3. Known(s) = [addr |-> g.dcd.addr, configured |-> FALSE]
      BY <2>4, <2>5, <3>1 DEF Known
    <3>4. Known(s) = Told(Known(g), g.req)
      BY <3>2, <3>3 DEF Known
    <3> QED BY <1>4, <2>1, <2>4, <3>4 DEF SameControl, SameLink
  <2> QED BY <1>6, <2>6, <2>7, <2>8 DEF Remembered
<1>7. CASE g.req.op \notin {"SetAddress", "SetConfiguration", "Unconfigure", "SetConfiguration2"}
  <2>1. s = Ok(g) /\ SameControl(s, g)
    BY <1>1, <1>7, StatusKeeps DEF StatusPhaseComplete
  <2>2. Known(s) = Known(g) /\ Told(Known(g), g.req) = Known(g)
    BY <1>7, <2>1 DEF Known, Told, SameControl, SameLink
  <2> QED BY <1>4, <2>1, <2>2 DEF SameControl, SameLink
<1> QED BY <1>5, <1>6, <1>7

-----------------------------------------------------------------------------
(* The inductive invariant: between the answer to a status stage and its    *)
(* interrupt the host is one request ahead of the device, and only then.    *)
IsBus(b) ==
    b = [setting |-> b.setting, driver |-> b.driver, todo |-> b.todo, plugged |-> b.plugged, seen |-> b.seen,
         resetting |-> b.resetting, ready |-> b.ready, stage |-> b.stage, req |-> b.req, told |-> b.told,
         claim |-> b.claim, restarted |-> b.restarted, overtaken |-> b.overtaken, commands |-> b.commands, faults |-> b.faults,
         unplugs |-> b.unplugs, requests |-> b.requests]

Pending(g) == IF g.dcd.irq THEN Told(Known(g), g.req) ELSE Known(g)
Interrupted(g) == g.dcd.irq => g.dcd.up /\ (g.dcd.req_in \/ g.dcd.ep0 = "ack")
DeviceInv(g) == IsDevice(g) /\ EndpointZero(g) /\ g.dcd.irq \in BOOLEAN /\ Interrupted(g)
Joined(g, b) ==
    /\ IsBus(b) /\ b.setting \in {"pc", "foreign"}
    /\ b.stage # "idle" => b.req = g.req
    /\ b.ready => g.started /\ b.told = Pending(g)

UsbdInv == DeviceInv(d) /\ Joined(d, bus)

LEMMA SameInv ==
    ASSUME NEW a, NEW b, SameControl(b, a), DeviceInv(a)
    PROVE  DeviceInv(b) /\ Pending(b) = Pending(a) /\ b.started = a.started /\ b.req = a.req
<1>1. EndpointZero(b) /\ Known(b) = Known(a)
  BY SameEndpointZero DEF DeviceInv
<1>2. IsDevice(b) /\ b.dcd.irq = a.dcd.irq /\ b.dcd.up = a.dcd.up /\ b.dcd.req_in = a.dcd.req_in /\ b.dcd.ep0 = a.dcd.ep0
      /\ b.started = a.started /\ b.req = a.req
  BY DEF SameControl, SameLink
<1>3. Interrupted(b) /\ b.dcd.irq \in BOOLEAN
  BY <1>2, Zenon DEF DeviceInv, Interrupted
<1>4. Pending(b) = Pending(a)
  BY <1>1, <1>2, Zenon DEF Pending
<1> QED BY <1>1, <1>2, <1>3, <1>4 DEF DeviceInv

(* A device without a pending interrupt.                                    *)
Calm(g) == IsDevice(g) /\ EndpointZero(g) /\ g.dcd.irq = FALSE

LEMMA CalmInv ==
    ASSUME NEW g, Calm(g)
    PROVE  DeviceInv(g) /\ Pending(g) = Known(g)
  BY Zenon DEF Calm, DeviceInv, Interrupted, Pending

LEMMA InvCalm ==
    ASSUME NEW g, DeviceInv(g), ~g.dcd.irq
    PROVE  Calm(g)
  BY Zenon DEF Calm, DeviceInv

LEMMA SetupStep ==
    ASSUME NEW g, Calm(g), NEW req
    PROVE  LET r == SetupProcess(g, req) IN
           Calm(r) /\ Known(r) = Known(g) /\ r.started = g.started /\ r.req = req
<1>1. PICK r : r = SetupProcess(g, req)
  OBVIOUS
<1>2. SetupDone(r, g, req)
  BY <1>1, SetupKeeps DEF Calm
<1>3. Calm(r) /\ Known(r) = Known(g)
  BY <1>2 DEF SetupDone, Calm, Known
<1> QED BY <1>1, <1>2, <1>3 DEF SetupDone

(* The data of an OUT request.                                              *)
LEMMA OutDataStep ==
    ASSUME NEW g, Calm(g), g.dcd.ep0 = "out"
    PROVE  LET r == Ep0DataReceived(g) IN
           Calm(r) /\ Known(r) = Known(g) /\ r.started = g.started /\ r.req = g.req
<1>1. g.phase = "OUT" /\ g.req.op = "SetReport" /\ IsDevice(g)
  BY DEF Calm, EndpointZero, HasOutData
<1>2. Ep0DataReceived(g) = OutDataReceived(g)
  BY <1>1 DEF Ep0DataReceived
<1>3. PICK a : a = ClassOutRequest(g)
  OBVIOUS
<1>4. SameControl(a, g) /\ IsDevice(a) /\ SameLink(a, g) /\ Remembered(a)
  BY <1>1, <1>3, OutRequestKeeps, SameIsDevice, SimpleRequests
<1>5. (a.dcd.req_in => IsInRequest(a.req)) /\ a.dcd.irq = FALSE /\ Known(a) = Known(g)
  BY <1>4, SameEndpointZero DEF Calm, EndpointZero, SameControl, SameLink
<1>6. CASE a.st = "OK"
  <2>1. PICK r : r = DcdSend([a EXCEPT !.phase = "OUT_STATUS"], EP0, Nothing)
    OBVIOUS
  <2>2. Armed(r, a, "OUT_STATUS", "ack")
    BY <1>4, <2>1, DataStageArms
  <2>3. EndpointZero(r)
    BY <1>4, <1>5, <2>2, AcknowledgedZero DEF Armed
  <2>4. Calm(r) /\ Known(r) = Known(a)
    BY <1>5, <2>2, <2>3 DEF Armed, Calm, Known
  <2>5. OutDataReceived(g) = r
    BY <1>3, <1>6, <2>1 DEF OutDataReceived, Either, IsOk
  <2> QED BY <1>2, <1>4, <1>5, <2>2, <2>4, <2>5 DEF Armed, SameLink
<1>7. CASE a.st # "OK"
  <2>1. PICK r : r = Idle(DcdStall(a, EP0))
    OBVIOUS
  <2>2. Armed(r, a, "IDLE", "stall")
    BY <1>4, <2>1, StallArms
  <2>3. EndpointZero(r)
    BY <1>5, <2>2, StalledZero DEF Armed
  <2>4. Calm(r) /\ Known(r) = Known(a)
    BY <1>5, <2>2, <2>3 DEF Armed, Calm, Known
  <2>5. OutDataReceived(g) = r
    BY <1>3, <1>7, <2>1 DEF OutDataReceived, Either, IsOk
  <2> QED BY <1>2, <1>4, <1>5, <2>2, <2>4, <2>5 DEF Armed, SameLink
<1> QED BY <1>6, <1>7

(* The interrupt of a status stage.                                         *)
LEMMA Served ==
    ASSUME NEW g, IsDevice(g), NEW r, r = [g EXCEPT !.dcd.irq = FALSE, !.dcd.ep0 = "idle"]
    PROVE  /\ IsDevice(r) /\ r.started = g.started /\ r.req = g.req /\ r.phase = g.phase /\ Known(r) = Known(g)
           /\ r.dcd.req_in = g.dcd.req_in /\ r.dcd.irq = FALSE /\ r.dcd.ep0 = "idle"
<1>1. PICK c : c = [[g.dcd EXCEPT !.irq = FALSE] EXCEPT !.ep0 = "idle"]
  OBVIOUS
<1>2. IsController(c) /\ c.addr = g.dcd.addr /\ c.req_in = g.dcd.req_in /\ c.irq = FALSE /\ c.ep0 = "idle"
  BY <1>1 DEF IsDevice, IsController
<1>3. r = [g EXCEPT !.dcd = c]
  BY <1>1 DEF IsDevice
<1>4. IsDevice(r) /\ r.started = g.started /\ r.req = g.req /\ r.phase = g.phase /\ r.dcd = c /\ r.life = g.life
  BY <1>2, <1>3 DEF IsDevice
<1> QED BY <1>2, <1>4 DEF Known

LEMMA ServedCalm ==
    ASSUME NEW g, IsDevice(g), g.dcd.req_in => IsInRequest(g.req), g.phase = "OUT" => HasOutData(g.req),
           g.phase = "IN" => IsInRequest(g.req), NEW r, r = [g EXCEPT !.dcd.irq = FALSE, !.dcd.ep0 = "idle"]
    PROVE  Calm(r) /\ Known(r) = Known(g) /\ r.started = g.started /\ r.req = g.req
  BY Served, ZenonT(60) DEF Calm, EndpointZero

LEMMA CompletedServed ==
    ASSUME NEW g, DeviceInv(g), IsInRequest(g.req) \/ Remembered(g), NEW r,
           r = [ControlComplete(Idle(g)) EXCEPT !.dcd.irq = FALSE, !.dcd.ep0 = "idle"]
    PROVE  Calm(r) /\ Known(r) = Told(Known(g), g.req) /\ r.started = g.started /\ r.req = g.req
<1>1. PICK a : a = Idle(g)
  OBVIOUS
<1>2. Armed(a, g, "IDLE", g.dcd.ep0)
  BY <1>1, IdleArms DEF DeviceInv
<1>3. IsDevice(a) /\ a.phase = "IDLE" /\ (IsInRequest(a.req) \/ Remembered(a))
  BY <1>2 DEF Armed, Remembered
<1>4. a.req = g.req /\ a.started = g.started /\ Known(a) = Known(g) /\ (a.dcd.req_in => IsInRequest(a.req))
  BY <1>2 DEF Armed, Known, DeviceInv, EndpointZero
<1>5. PICK b : b = ControlComplete(a)
  OBVIOUS
<1>6. /\ IsDevice(b) /\ b.started = a.started /\ b.req = a.req /\ b.phase = "IDLE" /\ b.dcd.req_in = a.dcd.req_in
      /\ Known(b) = Told(Known(a), a.req)
  BY <1>3, <1>5, CompleteKeeps
<1>7. b.dcd.req_in => IsInRequest(b.req)
  BY <1>4, <1>6
<1>8. Calm(r) /\ Known(r) = Known(b) /\ r.started = b.started /\ r.req = b.req
  BY <1>1, <1>5, <1>6, <1>7, ServedCalm
<1> QED BY <1>4, <1>6, <1>8

LEMMA InRequestsTell ==
    ASSUME NEW k, NEW req, IsInRequest(req)
    PROVE  Told(k, req) = k
  BY DEF IsInRequest, InRequests, Told

LEMMA InterruptStep ==
    ASSUME NEW g, DeviceInv(g), g.dcd.irq
    PROVE  LET r == StatusInterrupt(g) IN
           Calm(r) /\ Known(r) = Told(Known(g), g.req) /\ r.started = g.started /\ r.req = g.req
<1>1. CASE g.dcd.req_in /\ g.phase = "IN"
  <2>1. IsInRequest(g.req)
    BY <1>1 DEF DeviceInv, EndpointZero
  <2>2. StatusInterrupt(g) = [ControlComplete(Idle(g)) EXCEPT !.dcd.irq = FALSE, !.dcd.ep0 = "idle"]
    BY <1>1 DEF StatusInterrupt, Ep0DataReceived
  <2> QED BY <2>1, <2>2, CompletedServed
<1>2. CASE g.dcd.req_in /\ g.phase # "IN"
  <2>1. IsInRequest(g.req) /\ g.phase # "OUT"
    BY <1>2 DEF DeviceInv, EndpointZero, HasOutData, IsInRequest, InRequests
  <2>2. StatusInterrupt(g) = [Ok(g) EXCEPT !.dcd.irq = FALSE, !.dcd.ep0 = "idle"]
    BY <1>2, <2>1 DEF StatusInterrupt, Ep0DataReceived
  <2>3. PICK a : a = Ok(g)
    OBVIOUS
  <2>4. SameControl(a, g)
    BY <2>3, StatusKeeps DEF DeviceInv
  <2>5. DeviceInv(a) /\ IsDevice(a) /\ EndpointZero(a) /\ Known(a) = Known(g) /\ a.started = g.started /\ a.req = g.req
    BY <2>4, SameInv, SameEndpointZero DEF DeviceInv
  <2>6. PICK r : r = [a EXCEPT !.dcd.irq = FALSE, !.dcd.ep0 = "idle"]
    OBVIOUS
  <2>7. Calm(r) /\ Known(r) = Known(a) /\ r.started = a.started /\ r.req = a.req
    BY <2>5, <2>6, ServedCalm DEF EndpointZero
  <2> QED BY <2>1, <2>2, <2>3, <2>5, <2>6, <2>7, InRequestsTell
<1>3. CASE ~g.dcd.req_in
  <2>1. g.phase = "OUT_STATUS" /\ Remembered(g)
    BY <1>3 DEF DeviceInv, EndpointZero, Interrupted
  <2>2. StatusInterrupt(g) = [ControlComplete(Idle(g)) EXCEPT !.dcd.irq = FALSE, !.dcd.ep0 = "idle"]
    BY <1>3, <2>1 DEF StatusInterrupt, Ep0DataSent
  <2> QED BY <2>1, <2>2, CompletedServed
<1> QED BY <1>1, <1>2, <1>3

(* The link.                                                                *)
LEMMA Ep0Quiet ==
    ASSUME NEW g, IsDevice(g), NEW b
    PROVE  LET r == Ep0Configure([g EXCEPT !.dcd.up = b]) IN
           /\ IsDevice(r) /\ r.phase = "IDLE" /\ r.st = "OK"
           /\ r.started = g.started /\ r.req = g.req /\ Known(r) = Known(g)
           /\ r.dcd.req_in = g.dcd.req_in /\ r.dcd.irq = g.dcd.irq /\ r.dcd.ep0 = "idle"
<1>1. PICK a : a = [g EXCEPT !.dcd.up = b]
  OBVIOUS
<1>2. PICK e : e = [a EXCEPT !.st = "OK"]
  OBVIOUS
<1>3. PICK f : f = [e EXCEPT !.dcd.ep0 = "idle"]
  OBVIOUS
<1>4. PICK r : r = [f EXCEPT !.phase = "IDLE"]
  OBVIOUS
<1>5. /\ IsDevice(a) /\ a.started = g.started /\ a.req = g.req /\ a.life = g.life
      /\ a.dcd.addr = g.dcd.addr /\ a.dcd.req_in = g.dcd.req_in /\ a.dcd.irq = g.dcd.irq
  BY <1>1 DEF IsDevice, IsController
<1>6. IsDevice(e) /\ e.st = "OK" /\ e.started = a.started /\ e.req = a.req /\ e.life = a.life /\ e.dcd = a.dcd
  BY <1>2, <1>5 DEF IsDevice
<1>7. /\ IsDevice(f) /\ f.st = "OK" /\ f.started = e.started /\ f.req = e.req /\ f.life = e.life
      /\ f.dcd.addr = e.dcd.addr /\ f.dcd.req_in = e.dcd.req_in /\ f.dcd.irq = e.dcd.irq /\ f.dcd.ep0 = "idle"
  BY <1>3, <1>6 DEF IsDevice, IsController
<1>8. /\ IsDevice(r) /\ r.st = "OK" /\ r.started = f.started /\ r.req = f.req /\ r.life = f.life /\ r.dcd = f.dcd
      /\ r.phase = "IDLE"
  BY <1>4, <1>7 DEF IsDevice
<1>9. Ep0Configure(a) = r
  <2>1. DcdEndpointInit(a, EP0) = e
    BY <1>2 DEF DcdEndpointInit, Ok
  <2>2. Ep0Configure(a) = Idle(f)
    BY <1>3, <1>6, <2>1 DEF Ep0Configure, Then, IsOk
  <2> QED BY <1>4, <2>2 DEF Idle
<1>10. Known(r) = Known(g)
  BY <1>5, <1>6, <1>7, <1>8 DEF Known
<1> QED BY <1>1, <1>5, <1>6, <1>7, <1>8, <1>9, <1>10

LEMMA LinkUpStep ==
    ASSUME NEW g, Calm(g)
    PROVE  LET r == LinkUp(g) IN
           Calm(r) /\ Known(r) = Known(g) /\ r.started = g.started /\ r.req = g.req
<1>1. PICK a : a = Ep0Configure([g EXCEPT !.dcd.up = TRUE])
  OBVIOUS
<1>2. /\ IsDevice(a) /\ a.phase = "IDLE" /\ a.st = "OK" /\ a.started = g.started /\ a.req = g.req /\ Known(a) = Known(g)
      /\ a.dcd.req_in = g.dcd.req_in /\ a.dcd.irq = g.dcd.irq /\ a.dcd.ep0 = "idle"
  BY <1>1, Ep0Quiet DEF Calm
<1>3. Calm(a)
  BY <1>2 DEF Calm, EndpointZero
<1>4. PICK b : b = ClassBusEventProcess(a, "CONNECT")
  OBVIOUS
<1>5. SameControl(b, a)
  BY <1>2, <1>4, BusEventKeeps
<1>6. EndpointZero(b) /\ Known(b) = Known(a)
  BY <1>3, <1>5, SameEndpointZero DEF Calm
<1>7. Calm(b) /\ Known(b) = Known(a) /\ b.started = a.started /\ b.req = a.req
  BY <1>3, <1>5, <1>6 DEF Calm, SameControl, SameLink
<1>8. Then(a, LAMBDA v : ClassBusEventProcess(v, "CONNECT")) = b
  BY <1>2, <1>4 DEF Then, IsOk
<1>9. LinkUp(g) = g \/ LinkUp(g) = b
  BY <1>1, <1>8, Zenon DEF LinkUp
<1> QED BY <1>2, <1>7, <1>9

(* A controller that forgets everything.                                    *)
LEMMA ResetController ==
    ASSUME NEW on
    PROVE  LET c == [IdleDcd EXCEPT !.on = on] IN
           /\ IsController(c) /\ IsController(IdleDcd) /\ c.addr = 0 /\ IdleDcd.addr = 0
           /\ c.irq = FALSE /\ c.req_in = FALSE /\ c.ep0 = "idle"
           /\ IdleDcd.irq = FALSE /\ IdleDcd.req_in = FALSE /\ IdleDcd.ep0 = "idle"
<1>1. PICK z : z = IdleDcd
  OBVIOUS
<1>2. PICK rx, tx : z = [on |-> FALSE, up |-> FALSE, addr |-> 0, req_in |-> FALSE, ep0 |-> "idle", sent |-> Nothing,
                         enabled |-> {}, halted |-> {}, irq |-> FALSE, rx |-> rx, tx |-> tx]
  BY <1>1, Zenon DEF IdleDcd
<1>3. IsController(z) /\ z.addr = 0 /\ z.irq = FALSE /\ z.req_in = FALSE /\ z.ep0 = "idle"
  BY <1>2 DEF IsController
<1>4. PICK c : c = [z EXCEPT !.on = on]
  OBVIOUS
<1>5. IsController(c) /\ c.addr = 0 /\ c.irq = FALSE /\ c.req_in = FALSE /\ c.ep0 = "idle"
  BY <1>3, <1>4 DEF IsController
<1> QED BY <1>1, <1>3, <1>4, <1>5

LEMMA QuietCalm ==
    ASSUME NEW g, EndpointZero(g), NEW r, IsDevice(r), r.dcd.irq = FALSE, r.dcd.req_in = FALSE, r.dcd.ep0 = "idle",
           r.req = g.req, r.phase = "IDLE" \/ r.phase = g.phase
    PROVE  Calm(r)
  BY DEF Calm, EndpointZero

LEMMA ControllerResetStep ==
    ASSUME NEW g, DeviceInv(g)
    PROVE  LET r == ControllerReset(g) IN
           /\ IsDevice(r) /\ r.dcd.addr = 0 /\ r.dcd.irq = FALSE /\ r.dcd.req_in = FALSE /\ r.dcd.ep0 = "idle"
           /\ r.started = g.started /\ r.req = g.req /\ r.phase = g.phase
<1>0. IsDevice(g)
  BY DEF DeviceInv
<1>1. PICK c : c = [IdleDcd EXCEPT !.on = g.dcd.on]
  OBVIOUS
<1>2. IsController(c) /\ c.addr = 0 /\ c.irq = FALSE /\ c.req_in = FALSE /\ c.ep0 = "idle"
  BY <1>1, ResetController
<1>3. PICK r : r = [g EXCEPT !.dcd = c]
  OBVIOUS
<1>4. IsDevice(r) /\ r.dcd = c /\ r.started = g.started /\ r.req = g.req /\ r.phase = g.phase
  BY <1>2, <1>3 DEF DeviceInv, IsDevice
<1>5. ControllerReset(g) = r
  BY <1>1, <1>3 DEF ControllerReset
<1> QED BY <1>2, <1>4, <1>5

LEMMA ToldCalm ==
    ASSUME NEW g, Calm(g), NEW event
    PROVE  LET r == ClassBusEventProcess(g, event) IN
           Calm(r) /\ Known(r) = Known(g) /\ r.started = g.started /\ r.req = g.req
<1>1. PICK r : r = ClassBusEventProcess(g, event)
  OBVIOUS
<1>2. SameControl(r, g)
  BY <1>1, BusEventKeeps DEF Calm
<1>3. EndpointZero(r) /\ Known(r) = Known(g)
  BY <1>2, SameEndpointZero DEF Calm
<1>4. Calm(r) /\ r.started = g.started /\ r.req = g.req
  BY <1>2, <1>3 DEF Calm, SameControl, SameLink
<1> QED BY <1>1, <1>3, <1>4

LEMMA InactiveStep ==
    ASSUME NEW g, DeviceInv(g)
    PROVE  LET r == LinkInactive(g) IN Calm(r) /\ r.started = g.started /\ r.req = g.req
<1>1. PICK a : a = ControllerReset(g)
  OBVIOUS
<1>2. /\ IsDevice(a) /\ a.dcd.irq = FALSE /\ a.dcd.req_in = FALSE /\ a.dcd.ep0 = "idle"
      /\ a.started = g.started /\ a.req = g.req /\ a.phase = g.phase
  BY <1>1, ControllerResetStep
<1>3. Calm(a)
  BY <1>2, QuietCalm DEF DeviceInv
<1>4. PICK r : r = ClassBusEventProcess(a, "DISCONNECT")
  OBVIOUS
<1>5. Calm(r) /\ r.started = a.started /\ r.req = a.req
  BY <1>3, <1>4, ToldCalm
<1> QED BY <1>1, <1>2, <1>4, <1>5 DEF LinkInactive

LEMMA ResetStep ==
    ASSUME NEW g, DeviceInv(g)
    PROVE  LET r == LinkReset(g) IN
           Calm(r) /\ Known(r) = Forgotten0 /\ r.started = g.started /\ r.req = g.req
<1>1. PICK a : a = ControllerReset(g)
  OBVIOUS
<1>2. /\ IsDevice(a) /\ a.dcd.addr = 0 /\ a.dcd.irq = FALSE /\ a.dcd.req_in = FALSE /\ a.dcd.ep0 = "idle"
      /\ a.started = g.started /\ a.req = g.req
  BY <1>1, ControllerResetStep
<1>3. PICK b : b = [a EXCEPT !.addressed = FALSE, !.addr = 0, !.configured = FALSE, !.phase = "IDLE", !.life = "STARTED"]
  OBVIOUS
<1>4. IsDevice(b) /\ b.dcd = a.dcd /\ b.started = a.started /\ b.req = a.req /\ b.phase = "IDLE" /\ b.life = "STARTED"
  BY <1>2, <1>3 DEF IsDevice
<1>5. Calm(b)
  <2>1. b.dcd.irq = FALSE /\ b.dcd.req_in = FALSE /\ b.dcd.ep0 = "idle" /\ b.req = g.req
    BY <1>2, <1>4
  <2> QED BY <1>4, <2>1, QuietCalm DEF DeviceInv
<1>6. Known(b) = Forgotten0
  BY <1>2, <1>4 DEF Known, Forgotten0
<1>7. PICK r : r = ClassBusEventProcess(b, "RESET")
  OBVIOUS
<1>8. Calm(r) /\ Known(r) = Known(b) /\ r.started = b.started /\ r.req = b.req
  BY <1>5, <1>7, ToldCalm
<1>9. LinkReset(g) = r
  BY <1>1, <1>3, <1>7 DEF LinkReset
<1> QED BY <1>2, <1>4, <1>6, <1>8, <1>9

LEMMA KeptInv ==
    ASSUME NEW g, DeviceInv(g), NEW r, IsDevice(r), r.dcd = g.dcd, r.phase = g.phase, r.req = g.req,
           r.addr = g.addr, r.configured = g.configured
    PROVE  DeviceInv(r)
<1>1. EndpointZero(r)
  BY DEF DeviceInv, EndpointZero, Remembered
<1>2. r.dcd.irq \in BOOLEAN /\ Interrupted(r)
  BY Zenon DEF DeviceInv, Interrupted
<1> QED BY <1>1, <1>2 DEF DeviceInv

LEMMA StartStep ==
    ASSUME NEW g, DeviceInv(g)
    PROVE  DeviceInv(UsbdStart(g)) /\ UsbdStart(g).req = g.req
<1>1. CASE g.classes = <<>>
  <2>1. PICK r : r = Failed(g, "INVALID_CONFIGURATION")
    OBVIOUS
  <2>2. SameControl(r, g)
    BY <2>1, StatusKeeps DEF DeviceInv
  <2> QED BY <1>1, <2>1, <2>2, SameInv DEF UsbdStart
<1>2. CASE g.classes # <<>>
  <2>1. PICK a : a = DcdInit(g)
    OBVIOUS
  <2>2. DeviceInv(a) /\ a.st = "OK" /\ a.req = g.req
    <3>1. PICK b : b = Ok(g)
      OBVIOUS
    <3>2. SameControl(b, g) /\ b.st = "OK"
      BY <3>1, StatusKeeps DEF DeviceInv
    <3>3. DeviceInv(b) /\ b.req = g.req
      BY <3>2, SameInv
    <3>4. PICK c : c = [IdleDcd EXCEPT !.on = TRUE]
      OBVIOUS
    <3>5. PICK e : e = [b EXCEPT !.dcd = c]
      OBVIOUS
    <3>6. IsController(c) /\ c.irq = FALSE /\ c.req_in = FALSE /\ c.ep0 = "idle"
      BY <3>4, ResetController
    <3>7. IsDevice(e) /\ e.dcd = c /\ e.req = b.req /\ e.phase = b.phase /\ e.st = "OK"
      BY <3>2, <3>3, <3>5, <3>6 DEF DeviceInv, IsDevice
    <3>8. DeviceInv(e)
      BY <3>3, <3>6, <3>7, QuietCalm, CalmInv DEF DeviceInv
    <3>9. a = b \/ a = e
      BY <2>1, <3>1, <3>4, <3>5, Zenon DEF DcdInit
    <3> QED BY <3>2, <3>3, <3>7, <3>8, <3>9
  <2>3. PICK r : r = [a EXCEPT !.started = TRUE, !.life = "STARTED"]
    OBVIOUS
  <2>4. /\ IsDevice(r) /\ r.dcd = a.dcd /\ r.phase = a.phase /\ r.req = a.req /\ r.addr = a.addr
        /\ r.configured = a.configured
    BY <2>2, <2>3 DEF DeviceInv, IsDevice
  <2>5. DeviceInv(r)
    BY <2>2, <2>4, KeptInv
  <2>6. UsbdStart(g) = r
    BY <1>2, <2>1, <2>2, <2>3 DEF UsbdStart, Then, IsOk
  <2> QED BY <2>2, <2>4, <2>5, <2>6
<1> QED BY <1>1, <1>2

LEMMA StopStep ==
    ASSUME NEW g, DeviceInv(g)
    PROVE  DeviceInv(UsbdStop(g)) /\ UsbdStop(g).req = g.req
<1>1. PICK a : a = Failed(g, "NOT_INITIALIZED")
  OBVIOUS
<1>2. DeviceInv(a) /\ a.req = g.req
  BY <1>1, StatusKeeps, SameInv DEF DeviceInv
<1>3. PICK b : b = Ok(g)
  OBVIOUS
<1>4. DeviceInv(b) /\ b.req = g.req
  BY <1>3, StatusKeeps, SameInv DEF DeviceInv
<1>5. PICK e : e = [b EXCEPT !.dcd = IdleDcd]
  OBVIOUS
<1>6. IsDevice(e) /\ e.dcd = IdleDcd /\ e.req = b.req
  BY <1>4, <1>5, ResetController DEF DeviceInv, IsDevice
<1>7. PICK r : r = [e EXCEPT !.started = FALSE, !.configured = FALSE, !.addressed = FALSE,
                             !.addr = 0, !.phase = "IDLE", !.life = "STOPPED"]
  OBVIOUS
<1>8. IsDevice(r) /\ r.dcd = IdleDcd /\ r.req = e.req /\ r.phase = "IDLE"
  BY <1>6, <1>7 DEF IsDevice
<1>9. DeviceInv(r)
  BY <1>4, <1>6, <1>8, ResetController, QuietCalm, CalmInv DEF DeviceInv
<1>10. UsbdStop(g) = a \/ UsbdStop(g) = r
  BY <1>1, <1>3, <1>5, <1>7, Zenon DEF UsbdStop, DcdDeinit
<1> QED BY <1>2, <1>4, <1>6, <1>8, <1>9, <1>10

LEMMA RegisterStep ==
    ASSUME NEW g, DeviceInv(g), NEW c
    PROVE  LET r == ClassRegister(g, c) IN
           DeviceInv(r) /\ r.started = g.started /\ r.req = g.req /\ (g.started => Pending(r) = Pending(g))
<1>1. CASE g.started
  <2>1. PICK r : r = Failed(g, "ALREADY_INITIALIZED")
    OBVIOUS
  <2>2. ClassRegister(g, c) = r
    BY <1>1, <2>1 DEF ClassRegister
  <2> QED BY <2>1, <2>2, StatusKeeps, SameInv DEF DeviceInv
<1>2. CASE ~g.started
  <2>1. PICK i : i = InitInstance(g, c)
    OBVIOUS
  <2>2. PICK a : a = Failed(g, i.st)
    OBVIOUS
  <2>3. PICK b : b = Ok(g)
    OBVIOUS
  <2>4. DeviceInv(a) /\ a.req = g.req /\ a.started = g.started
    BY <2>2, StatusKeeps, SameInv DEF DeviceInv
  <2>5. DeviceInv(b) /\ b.req = g.req /\ b.started = g.started
    BY <2>3, StatusKeeps, SameInv DEF DeviceInv
  <2>6. PICK r : r = [b EXCEPT !.ifaces = i.ifaces, !.owner = i.owner, !.classes = Append(@, c),
                               !.life = IF @ = "INITIALIZED" THEN "CLASSES_REGISTERED" ELSE @]
    OBVIOUS
  <2>7. /\ IsDevice(r) /\ r.dcd = b.dcd /\ r.phase = b.phase /\ r.req = b.req /\ r.addr = b.addr
        /\ r.configured = b.configured /\ r.started = b.started
    BY <2>5, <2>6 DEF DeviceInv, IsDevice
  <2>8. DeviceInv(r)
    BY <2>5, <2>7, KeptInv
  <2>9. ClassRegister(g, c) = IF i.st = "OK" THEN r ELSE a
    BY <1>2, <2>1, <2>2, <2>3, <2>6 DEF ClassRegister, Either, IsOk
  <2>10. ClassRegister(g, c) = r \/ ClassRegister(g, c) = a
    BY <2>9
  <2> QED BY <1>2, <2>4, <2>5, <2>7, <2>8, <2>10
<1> QED BY <1>1, <1>2

-----------------------------------------------------------------------------
(* The steps.                                                               *)
SameBus(b, a) ==
    /\ IsBus(b)
    /\ b.setting = a.setting /\ b.stage = a.stage /\ b.req = a.req /\ b.told = a.told /\ b.ready = a.ready

LEMMA SameJoined ==
    ASSUME NEW g, NEW a, NEW b, Joined(g, a), SameBus(b, a)
    PROVE  Joined(g, b)
  BY Zenon DEF Joined, SameBus

LEMMA MovedJoined ==
    ASSUME NEW g, NEW r, NEW a, NEW b, Joined(g, a), SameBus(b, a), r.req = g.req, r.started = g.started,
           a.ready => Pending(r) = Pending(g)
    PROVE  Joined(r, b)
  BY Zenon DEF Joined, SameBus

LEMMA BusFields ==
    ASSUME NEW b, IsBus(b), NEW v
    PROVE  /\ SameBus([b EXCEPT !.todo = v], b) /\ SameBus([b EXCEPT !.plugged = v], b)
           /\ SameBus([b EXCEPT !.seen = v], b) /\ SameBus([b EXCEPT !.resetting = v], b)
           /\ SameBus([b EXCEPT !.claim = v], b) /\ SameBus([b EXCEPT !.restarted = v], b)
           /\ SameBus([b EXCEPT !.overtaken = v], b)
           /\ SameBus([b EXCEPT !.commands = v], b) /\ SameBus([b EXCEPT !.faults = v], b)
           /\ SameBus([b EXCEPT !.unplugs = v], b) /\ SameBus([b EXCEPT !.requests = v], b)
<1>1. SameBus([b EXCEPT !.todo = v], b) /\ SameBus([b EXCEPT !.plugged = v], b) /\ SameBus([b EXCEPT !.seen = v], b)
  BY DEF IsBus, SameBus
<1>2. /\ SameBus([b EXCEPT !.resetting = v], b) /\ SameBus([b EXCEPT !.claim = v], b)
      /\ SameBus([b EXCEPT !.restarted = v], b) /\ SameBus([b EXCEPT !.overtaken = v], b)
  BY DEF IsBus, SameBus
<1>3. /\ SameBus([b EXCEPT !.commands = v], b) /\ SameBus([b EXCEPT !.faults = v], b)
      /\ SameBus([b EXCEPT !.unplugs = v], b) /\ SameBus([b EXCEPT !.requests = v], b)
  BY DEF IsBus, SameBus
<1> QED BY <1>1, <1>2, <1>3

LEMMA SameBusTransitive ==
    ASSUME NEW a, NEW b, NEW c, SameBus(b, a), SameBus(c, b)
    PROVE  SameBus(c, a)
  BY DEF SameBus

(* What the host stack and its driver do changes nothing of the device.     *)
HostActions ==
    \/ Plug \/ Process \/ Resume \/ PortInterrupt \/ PowerEvent \/ IssueCommand \/ Recover \/ StopHost \/ StartHost
    \/ ResetComplete \/ \E e \in Address : ForeignAnswer(e) \/ Abandoned(e)

LEMMA FinishBus ==
    ASSUME NEW e, NEW event, NEW payload, IsBus(bus), Finish(e, event, payload)
    PROVE  SameBus(bus', bus)
  BY BusFields DEF Finish

LEMMA HostSteps ==
    ASSUME IsBus(bus), ~Setting({"pair"}), HostActions
    PROVE  d' = d /\ SameBus(bus', bus)
<1>1. CASE Plug
  BY <1>1, BusFields DEF Plug
<1>2. CASE Process
  <2>1. PICK overcurrent \in BOOLEAN : bus' = [bus EXCEPT
             !.faults = IF overcurrent THEN @ + 1 ELSE @,
             !.seen = IF Looking THEN bus.plugged ELSE @,
             !.resetting = IF ResetsPort(h') THEN TRUE ELSE @]
    BY <1>2 DEF Process
  <2>2. PICK a : a = [bus EXCEPT !.faults = IF overcurrent THEN @ + 1 ELSE @]
    OBVIOUS
  <2>3. PICK b : b = [a EXCEPT !.seen = IF Looking THEN bus.plugged ELSE @]
    OBVIOUS
  <2>4. bus' = [b EXCEPT !.resetting = IF ResetsPort(h') THEN TRUE ELSE @]
    BY <2>1, <2>2, <2>3
  <2>5. SameBus(a, bus) /\ SameBus(b, a) /\ IsBus(b)
    <3>0. PICK f : a = [bus EXCEPT !.faults = f]
      BY <2>2
    <3>1. SameBus(a, bus) /\ IsBus(a)
      BY <3>0, BusFields, ZenonT(60) DEF SameBus
    <3>2. PICK s : b = [a EXCEPT !.seen = s]
      BY <2>3
    <3> QED BY <3>1, <3>2, BusFields, ZenonT(60) DEF SameBus
  <2>6. SameBus(bus', b)
    BY <2>4, <2>5, BusFields
  <2> QED BY <1>2, <2>5, <2>6, SameBusTransitive DEF Process
<1>3. CASE PortInterrupt
  <2>1. PICK a : a = [bus EXCEPT !.seen = FALSE]
    OBVIOUS
  <2>2. SameBus(a, bus) /\ IsBus(a)
    BY <2>1, BusFields, ZenonT(60) DEF SameBus
  <2>3. CASE Connected
    BY <1>3, <2>3, BusFields DEF PortInterrupt, Connected
  <2>4. CASE Disconnected
    <3>1. bus' = [a EXCEPT !.overtaken = @ \cup ({h.task.at} \ {"none", "reset"})]
      BY <2>1, <2>4 DEF Disconnected
    <3>2. SameBus(bus', a)
      BY <2>2, <3>1, BusFields
    <3> QED BY <1>3, <2>2, <3>2, SameBusTransitive DEF PortInterrupt
  <2> QED BY <1>3, <2>3, <2>4 DEF PortInterrupt
<1>4. CASE PowerEvent
  BY <1>4, BusFields DEF PowerEvent
<1>5. CASE IssueCommand
  <2>1. PICK a : a = [bus EXCEPT !.commands = @ + 1]
    OBVIOUS
  <2>2. bus' = [a EXCEPT !.claim = Claim(h')]
    BY <1>5, <2>1 DEF IssueCommand
  <2>3. SameBus(a, bus) /\ IsBus(a)
    BY <2>1, BusFields, ZenonT(60) DEF SameBus
  <2>4. SameBus(bus', a)
    BY <2>2, <2>3, BusFields
  <2> QED BY <1>5, <2>3, <2>4, SameBusTransitive DEF IssueCommand
<1>6. CASE Recover
  BY <1>6 DEF Recover, SameBus
<1>7. CASE StopHost
  BY <1>7, BusFields DEF StopHost
<1>8. CASE StartHost
  <2>1. PICK a : a = [bus EXCEPT !.seen = bus.plugged]
    OBVIOUS
  <2>2. PICK b : b = [a EXCEPT !.resetting = FALSE]
    OBVIOUS
  <2>3. bus' = [b EXCEPT !.restarted = TRUE]
    BY <1>8, <2>1, <2>2 DEF StartHost
  <2>4. SameBus(a, bus) /\ SameBus(b, a) /\ IsBus(b)
    <3>1. SameBus(a, bus) /\ IsBus(a)
      BY <2>1, BusFields, ZenonT(60) DEF SameBus
    <3> QED BY <2>2, <3>1, BusFields, ZenonT(60) DEF SameBus
  <2>5. SameBus(bus', b)
    BY <2>3, <2>4, BusFields
  <2> QED BY <1>8, <2>4, <2>5, SameBusTransitive DEF StartHost
<1>9. CASE ResetComplete
  <2>1. PICK a : a = [bus EXCEPT !.resetting = FALSE]
    OBVIOUS
  <2>2. bus' = [a EXCEPT !.overtaken = @ \cup ({h.task.at} \cap {"reset"})] /\ d' = d
    BY <1>9, <2>1 DEF ResetComplete
  <2>3. SameBus(a, bus) /\ IsBus(a)
    BY <2>1, BusFields, ZenonT(60) DEF SameBus
  <2>4. SameBus(bus', a)
    BY <2>2, <2>3, BusFields
  <2> QED BY <2>2, <2>3, <2>4, SameBusTransitive
<1>10. ASSUME NEW e \in Address, ForeignAnswer(e) \/ Abandoned(e)
       PROVE  d' = d /\ SameBus(bus', bus)
  BY <1>10, FinishBus DEF ForeignAnswer, Abandoned
<1>11. CASE Resume
  BY <1>11 DEF Resume, SameBus
<1> QED BY <1>1, <1>2, <1>3, <1>4, <1>5, <1>6, <1>7, <1>8, <1>9, <1>10, <1>11 DEF HostActions

LEMMA RegisterAct ==
    ASSUME UsbdInv, Register
    PROVE  UsbdInv'
<1>1. PICK c : d' = ClassRegister(d, c) /\ DeviceInv(d) /\ Joined(d, bus)
  BY DEF Register, UsbdInv
<1>2. PICK r : r = ClassRegister(d, c)
  OBVIOUS
<1>3. DeviceInv(r) /\ r.started = d.started /\ r.req = d.req /\ (d.started => Pending(r) = Pending(d))
  BY <1>1, <1>2, RegisterStep
<1>4. bus.ready => d.started
  BY <1>1 DEF Joined
<1>5. SameBus(bus', bus)
  BY <1>1, BusFields DEF Register, Joined
<1>6. Joined(r, bus')
  BY <1>1, <1>3, <1>4, <1>5, MovedJoined
<1> QED BY <1>1, <1>2, <1>3, <1>6 DEF UsbdInv

LEMMA StartAct ==
    ASSUME UsbdInv, StartDevice
    PROVE  UsbdInv'
<1>1. DeviceInv(d) /\ Joined(d, bus) /\ ~d.started /\ d' = UsbdStart(d) /\ bus' = bus
  BY DEF StartDevice, UsbdInv
<1>2. DeviceInv(d') /\ d'.req = d.req
  BY <1>1, StartStep
<1>3. Joined(d', bus')
  BY <1>1, <1>2, Zenon DEF Joined
<1> QED BY <1>2, <1>3 DEF UsbdInv

LEMMA StopAct ==
    ASSUME UsbdInv, StopDevice
    PROVE  UsbdInv'
<1>1. DeviceInv(d) /\ Joined(d, bus) /\ d' = UsbdStop(d)
  BY DEF StopDevice, UsbdInv
<1>2. DeviceInv(d') /\ d'.req = d.req
  BY <1>1, StopStep
<1>3. IsBus(bus') /\ bus'.setting = bus.setting /\ bus'.stage = "idle" /\ bus'.ready = FALSE
  BY <1>1 DEF StopDevice, Joined, IsBus
<1>4. Joined(d', bus')
  BY <1>1, <1>3, Zenon DEF Joined
<1> QED BY <1>2, <1>4 DEF UsbdInv

LEMMA UnplugAct ==
    ASSUME UsbdInv, Unplug
    PROVE  UsbdInv'
<1>1. DeviceInv(d) /\ Joined(d, bus) /\ (d' = LinkInactive(d) \/ d' = d)
  BY DEF Unplug, UsbdInv
<1>2. DeviceInv(d')
  BY <1>1, InactiveStep, CalmInv
<1>3. IsBus(bus') /\ bus'.setting = bus.setting /\ bus'.stage = "idle" /\ bus'.ready = FALSE
  BY <1>1 DEF Unplug, Joined, IsBus
<1>4. Joined(d', bus')
  BY <1>1, <1>3, Zenon DEF Joined
<1> QED BY <1>2, <1>4 DEF UsbdInv

LEMMA LinkAct ==
    ASSUME UsbdInv, DeviceLink
    PROVE  UsbdInv'
<1>1. DeviceInv(d) /\ Joined(d, bus) /\ d' = LinkUp(d) /\ bus' = bus /\ ~d.dcd.up
  BY DEF DeviceLink, UsbdInv
<1>2. Calm(d)
  BY <1>1, InvCalm DEF DeviceInv, Interrupted
<1>3. PICK r : r = LinkUp(d)
  OBVIOUS
<1>4. Calm(r) /\ Known(r) = Known(d) /\ r.started = d.started /\ r.req = d.req
  BY <1>2, <1>3, LinkUpStep
<1>5. DeviceInv(r) /\ Pending(r) = Pending(d)
  BY <1>2, <1>4, CalmInv
<1>6. SameBus(bus, bus)
  BY <1>1 DEF Joined, SameBus
<1>7. Joined(r, bus)
  BY <1>1, <1>4, <1>5, <1>6, MovedJoined
<1> QED BY <1>1, <1>3, <1>5, <1>7 DEF UsbdInv

LEMMA InterruptAct ==
    ASSUME UsbdInv, DeviceInterrupt
    PROVE  UsbdInv'
<1>1. DeviceInv(d) /\ Joined(d, bus) /\ d' = StatusInterrupt(d) /\ bus' = bus /\ d.dcd.irq
  BY DEF DeviceInterrupt, UsbdInv
<1>2. PICK r : r = StatusInterrupt(d)
  OBVIOUS
<1>3. Calm(r) /\ Known(r) = Told(Known(d), d.req) /\ r.started = d.started /\ r.req = d.req
  BY <1>1, <1>2, InterruptStep
<1>4. DeviceInv(r) /\ Pending(r) = Known(r)
  BY <1>3, CalmInv
<1>5. Pending(d) = Told(Known(d), d.req)
  BY <1>1, Zenon DEF Pending
<1>6. SameBus(bus, bus)
  BY <1>1 DEF Joined, SameBus
<1>7. Joined(r, bus)
  BY <1>1, <1>3, <1>4, <1>5, <1>6, MovedJoined
<1> QED BY <1>1, <1>2, <1>4, <1>7 DEF UsbdInv

(* The requests of the arbitrary host.                                      *)
LEMMA AskingCalm ==
    ASSUME UsbdInv, Asking
    PROVE  Calm(d) /\ d.dcd.up /\ Joined(d, bus) /\ IsBus(bus) /\ bus.ready
  BY InvCalm DEF UsbdInv, Asking, Joined

LEMMA SetupAct ==
    ASSUME UsbdInv, PcSetup
    PROVE  UsbdInv'
<1>1. Calm(d) /\ Joined(d, bus) /\ IsBus(bus)
  BY AskingCalm DEF PcSetup
<1>2. PICK req : /\ d' = SetupProcess(d, req)
                 /\ bus' = [bus EXCEPT !.requests = @ + 1, !.req = req,
                                       !.stage = IF IsInRequest(req) \/ HasOutData(req) THEN "data" ELSE "status"]
  BY DEF PcSetup
<1>3. PICK r : r = SetupProcess(d, req)
  OBVIOUS
<1>4. Calm(r) /\ Known(r) = Known(d) /\ r.started = d.started /\ r.req = req
  BY <1>1, <1>3, SetupStep
<1>5. DeviceInv(r) /\ Pending(r) = Pending(d)
  BY <1>1, <1>4, CalmInv
<1>6. PICK w : w = IF IsInRequest(req) \/ HasOutData(req) THEN "data" ELSE "status"
  OBVIOUS
<1>7. bus' = [bus EXCEPT !.requests = @ + 1, !.req = req, !.stage = w]
  BY <1>2, <1>6
<1>8. IsBus(bus') /\ bus'.setting = bus.setting /\ bus'.req = req /\ bus'.told = bus.told /\ bus'.ready = bus.ready
  BY <1>1, <1>7 DEF IsBus
<1>9. Joined(r, bus')
  BY <1>1, <1>4, <1>5, <1>8, Zenon DEF Joined
<1> QED BY <1>2, <1>3, <1>5, <1>9 DEF UsbdInv

LEMMA StagedJoined ==
    ASSUME NEW g, NEW r, NEW b, Joined(g, b), r.req = g.req, r.started = g.started, Pending(r) = Pending(g), NEW w,
           b.stage # "idle" \/ w = "idle"
    PROVE  Joined(r, [b EXCEPT !.stage = w])
<1>1. PICK c : c = [b EXCEPT !.stage = w]
  OBVIOUS
<1>2. IsBus(c) /\ c.setting = b.setting /\ c.req = b.req /\ c.told = b.told /\ c.ready = b.ready /\ c.stage = w
  BY <1>1 DEF Joined, IsBus
<1>3. Joined(r, c)
  BY <1>2, Zenon DEF Joined
<1> QED BY <1>1, <1>3

LEMMA DataAct ==
    ASSUME UsbdInv, PcData
    PROVE  UsbdInv'
<1>1. Calm(d) /\ Joined(d, bus) /\ bus.stage = "data"
  BY AskingCalm DEF PcData
<1>2. PICK w : bus' = [bus EXCEPT !.stage = w]
  BY DEF PcData
<1>3. PICK r : r = d'
  OBVIOUS
<1>4. Calm(r) /\ Known(r) = Known(d) /\ r.started = d.started /\ r.req = d.req
  <2>1. CASE d.dcd.ep0 = "out" /\ d' = Ep0DataReceived(d)
    BY <1>1, <1>3, <2>1, OutDataStep
  <2>2. CASE d' = d
    BY <1>1, <1>3, <2>2
  <2> QED BY <2>1, <2>2 DEF PcData
<1>5. DeviceInv(r) /\ Pending(r) = Pending(d)
  BY <1>1, <1>4, CalmInv
<1>6. Joined(r, bus')
  BY <1>1, <1>2, <1>4, <1>5, StagedJoined
<1> QED BY <1>3, <1>5, <1>6 DEF UsbdInv

(* The host knows of its request as soon as the status stage is answered.   *)
LEMMA AnsweredInv ==
    ASSUME NEW g, Calm(g), g.dcd.up, g.dcd.req_in \/ g.dcd.ep0 = "ack", NEW r, r = [g EXCEPT !.dcd.irq = TRUE]
    PROVE  DeviceInv(r) /\ Pending(r) = Told(Known(g), g.req) /\ r.started = g.started /\ r.req = g.req
<1>1. PICK c : c = [g.dcd EXCEPT !.irq = TRUE]
  OBVIOUS
<1>2. /\ IsController(c) /\ c.up = g.dcd.up /\ c.addr = g.dcd.addr /\ c.req_in = g.dcd.req_in /\ c.ep0 = g.dcd.ep0
      /\ c.irq = TRUE
  BY <1>1 DEF Calm, IsDevice, IsController
<1>3. r = [g EXCEPT !.dcd = c]
  BY <1>1
<1>4. /\ IsDevice(r) /\ r.dcd = c /\ r.started = g.started /\ r.req = g.req /\ r.phase = g.phase /\ r.life = g.life
      /\ r.addr = g.addr /\ r.configured = g.configured
  BY <1>2, <1>3 DEF Calm, IsDevice
<1>5. EndpointZero(r) /\ Known(r) = Known(g)
  BY <1>2, <1>4 DEF Calm, EndpointZero, Remembered, Known
<1>6. r.dcd.irq \in BOOLEAN /\ Interrupted(r)
  BY <1>2, <1>4, Zenon DEF Interrupted
<1>7. Pending(r) = Told(Known(g), g.req)
  BY <1>2, <1>4, <1>5, Zenon DEF Pending
<1> QED BY <1>4, <1>5, <1>6, <1>7 DEF DeviceInv

LEMMA StatusAct ==
    ASSUME UsbdInv, PcStatus
    PROVE  UsbdInv'
<1>1. Calm(d) /\ d.dcd.up /\ Joined(d, bus) /\ IsBus(bus) /\ bus.ready /\ bus.stage = "status"
  BY AskingCalm DEF PcStatus
<1>2. DeviceInv(d) /\ bus.req = d.req /\ bus.told = Known(d)
  BY <1>1, CalmInv DEF Joined
<1>3. CASE /\ d.dcd.req_in \/ d.dcd.ep0 = "ack"
           /\ d' = [d EXCEPT !.dcd.irq = TRUE]
           /\ bus' = [bus EXCEPT !.stage = "idle", !.told = Told(@, bus.req)]
  <2>1. PICK r : r = d'
    OBVIOUS
  <2>2. DeviceInv(r) /\ Pending(r) = Told(Known(d), d.req) /\ r.started = d.started /\ r.req = d.req
    BY <1>1, <1>3, <2>1, AnsweredInv
  <2>3. PICK k : k = Told(bus.told, bus.req)
    OBVIOUS
  <2>4. bus' = [bus EXCEPT !.stage = "idle", !.told = k]
    BY <1>1, <1>3, <2>3 DEF IsBus
  <2>5. IsBus(bus') /\ bus'.setting = bus.setting /\ bus'.stage = "idle" /\ bus'.told = k /\ bus'.ready = bus.ready
    BY <1>1, <2>4 DEF IsBus
  <2>6. Joined(r, bus')
    BY <1>1, <1>2, <2>2, <2>3, <2>5, Zenon DEF Joined
  <2> QED BY <2>1, <2>2, <2>6 DEF UsbdInv
<1>4. CASE bus' = [bus EXCEPT !.stage = "idle"] /\ d' = d
  BY <1>1, <1>2, <1>4, StagedJoined DEF UsbdInv
<1> QED BY <1>3, <1>4 DEF PcStatus

LEMMA ResetAct ==
    ASSUME UsbdInv, PcReset
    PROVE  UsbdInv'
<1>1. DeviceInv(d) /\ Joined(d, bus) /\ IsBus(bus) /\ d.started /\ d' = LinkReset(d)
  BY DEF PcReset, UsbdInv, Joined
<1>2. PICK r : r = LinkReset(d)
  OBVIOUS
<1>3. Calm(r) /\ Known(r) = Forgotten0 /\ r.started = d.started /\ r.req = d.req
  BY <1>1, <1>2, ResetStep
<1>4. DeviceInv(r) /\ Pending(r) = Forgotten0
  BY <1>3, CalmInv
<1>5. IsBus(bus') /\ bus'.setting = bus.setting /\ bus'.stage = "idle" /\ bus'.told = Forgotten0
  BY <1>1 DEF PcReset, IsBus
<1>6. Joined(r, bus')
  BY <1>1, <1>3, <1>4, <1>5, Zenon DEF Joined
<1> QED BY <1>1, <1>2, <1>4, <1>6 DEF UsbdInv

(* Bulk and interrupt data.                                                 *)
LEMMA TakenKeeps ==
    ASSUME NEW g, IsDevice(g), NEW e, NEW a, NEW b, a = [g EXCEPT !.dcd.rx[e] = FALSE], b = [g EXCEPT !.dcd.tx[e] = Nothing]
    PROVE  SameControl(a, g) /\ SameControl(b, g)
<1>1. PICK v : v = [g.dcd.rx EXCEPT ![e] = FALSE]
  OBVIOUS
<1>2. PICK w : w = [g.dcd.tx EXCEPT ![e] = Nothing]
  OBVIOUS
<1>3. PICK x : x = [g.dcd EXCEPT !.rx = v]
  OBVIOUS
<1>4. PICK y : y = [g.dcd EXCEPT !.tx = w]
  OBVIOUS
<1>5. /\ IsController(x) /\ x.up = g.dcd.up /\ x.addr = g.dcd.addr /\ x.req_in = g.dcd.req_in /\ x.irq = g.dcd.irq
      /\ x.ep0 = g.dcd.ep0
  BY <1>3 DEF IsDevice, IsController
<1>6. /\ IsController(y) /\ y.up = g.dcd.up /\ y.addr = g.dcd.addr /\ y.req_in = g.dcd.req_in /\ y.irq = g.dcd.irq
      /\ y.ep0 = g.dcd.ep0
  BY <1>4 DEF IsDevice, IsController
<1>7. a = [g EXCEPT !.dcd = x]
  BY <1>1, <1>3, Zenon
<1>8. b = [g EXCEPT !.dcd = y]
  BY <1>2, <1>4, Zenon
<1> QED BY <1>5, <1>6, <1>7, <1>8, ControllerKeeps, ZenonT(60)

LEMMA DataActs ==
    ASSUME UsbdInv, NEW e, PcOut(e) \/ PcIn(e)
    PROVE  UsbdInv'
<1>1. DeviceInv(d) /\ Joined(d, bus) /\ IsBus(bus) /\ IsDevice(d)
  BY DEF UsbdInv, Joined, DeviceInv
<1>2. SameControl(d', d)
  <2>1. CASE PcOut(e)
    <3>1. PICK payload, app : d' = ClassDataReceived([d EXCEPT !.dcd.rx[e] = FALSE], e, payload, app)
      BY <2>1 DEF PcOut
    <3>2. PICK a : a = [d EXCEPT !.dcd.rx[e] = FALSE]
      OBVIOUS
    <3>3. SameControl(a, d) /\ IsDevice(a)
      BY <1>1, <3>2, TakenKeeps, SameIsDevice
    <3>4. SameControl(ClassDataReceived(a, e, payload, app), a)
      BY <3>3, ClassDataKeeps
    <3> QED BY <3>1, <3>2, <3>3, <3>4, SameTransitive
  <2>2. CASE PcIn(e)
    <3>1. d' = ClassDataSent([d EXCEPT !.dcd.tx[e] = Nothing], e)
      BY <2>2 DEF PcIn
    <3>2. PICK a : a = [d EXCEPT !.dcd.tx[e] = Nothing]
      OBVIOUS
    <3>3. SameControl(a, d) /\ IsDevice(a)
      BY <1>1, <3>2, TakenKeeps, SameIsDevice
    <3>4. SameControl(ClassDataSent(a, e), a)
      BY <3>3, ClassDataKeeps
    <3> QED BY <3>1, <3>2, <3>3, <3>4, SameTransitive
  <2> QED BY <2>1, <2>2
<1>3. SameBus(bus', bus)
  <2>1. CASE PcOut(e)
    <3>1. bus' = [bus EXCEPT !.commands = @ + 1]
      BY <2>1, Zenon DEF PcOut
    <3> QED BY <1>1, <3>1, BusFields
  <2>2. CASE PcIn(e)
    <3>1. bus' = bus
      BY <2>2, Zenon DEF PcIn
    <3> QED BY <1>1, <3>1 DEF SameBus
  <2> QED BY <2>1, <2>2
<1>4. DeviceInv(d') /\ Pending(d') = Pending(d) /\ d'.started = d.started /\ d'.req = d.req
  BY <1>1, <1>2, SameInv
<1>5. Joined(d', bus')
  BY <1>1, <1>3, <1>4, MovedJoined
<1> QED BY <1>4, <1>5 DEF UsbdInv

-----------------------------------------------------------------------------
(* The device stack without this host stack.                                *)
DeviceSpec == Init /\ ~Setting({"pair"}) /\ [][Next]_vars

LEMMA UsbdInit == Init /\ ~Setting({"pair"}) => UsbdInv
<1> SUFFICES ASSUME Init, ~Setting({"pair"}) PROVE UsbdInv
  OBVIOUS
<1>1. d = InitializedDevice
  BY DEF Init
<1>2. PICK owner, bot, hid, dcd :
        /\ dcd = IdleDcd
        /\ d = [st |-> "OK", started |-> FALSE, life |-> "INITIALIZED", addressed |-> FALSE, addr |-> 0,
                configured |-> FALSE, phase |-> "IDLE", req |-> Nothing, response |-> Nothing, cls |-> "none",
                wake |-> FALSE, classes |-> <<>>, ifaces |-> <<>>, owner |-> owner, bot |-> bot, disk |-> 0,
                hid |-> hid, dcd |-> dcd]
  BY <1>1, Zenon DEF InitializedDevice
<1>3. IsController(dcd) /\ dcd.irq = FALSE /\ dcd.req_in = FALSE /\ dcd.ep0 = "idle"
  BY <1>2, ResetController
<1>4. IsDevice(d) /\ d.dcd = dcd /\ d.phase = "IDLE"
  BY <1>2, <1>3 DEF IsDevice
<1>5. Calm(d)
  BY <1>3, <1>4 DEF Calm, EndpointZero
<1>6. PICK setting, driver, list : bus = FreshBus(setting, driver, list) /\ setting \in {"pair", "pc", "foreign"}
  BY DEF Init
<1>7. IsBus(bus) /\ bus.setting = setting /\ bus.stage = "idle" /\ bus.ready = FALSE
  BY <1>6 DEF FreshBus, IsBus
<1>8. bus.setting \in {"pc", "foreign"}
  BY <1>6, <1>7 DEF Setting
<1>9. Joined(d, bus)
  BY <1>7, <1>8, Zenon DEF Joined
<1> QED BY <1>5, <1>9, CalmInv DEF UsbdInv

LEMMA UsbdNext == UsbdInv /\ [Next]_vars => UsbdInv'
<1> SUFFICES ASSUME UsbdInv, [Next]_vars PROVE UsbdInv'
  OBVIOUS
<1>1. bus.setting \in {"pc", "foreign"} /\ IsBus(bus)
  BY DEF UsbdInv, Joined
<1>2. ~Setting({"pair"})
  BY <1>1 DEF Setting
<1>3. CASE HostActions
  <2>1. d' = d /\ SameBus(bus', bus)
    BY <1>1, <1>2, <1>3, HostSteps
  <2> QED BY <2>1, SameJoined DEF UsbdInv
<1>4. CASE Register \/ StartDevice \/ StopDevice \/ Unplug \/ DeviceLink \/ DeviceInterrupt
  BY <1>4, RegisterAct, StartAct, StopAct, UnplugAct, LinkAct, InterruptAct
<1>5. CASE PcSetup \/ PcData \/ PcStatus \/ PcReset \/ \E e \in Address : PcOut(e) \/ PcIn(e)
  BY <1>5, SetupAct, DataAct, StatusAct, ResetAct, DataActs
<1>6. CASE UNCHANGED vars
  BY <1>6 DEF vars, UsbdInv
<1>7. ~SetupStage /\ ~DataStage /\ ~StatusStage /\ ~ControlDone /\ ~DeviceReport
  BY <1>2 DEF SetupStage, DataStage, StatusStage, ControlDone, DeviceReport, Listening
<1>8. \A e : ~TransferError(e) /\ ~Out(e) /\ ~In(e)
  BY <1>2 DEF TransferError, Out, In, Listening
<1>9. ASSUME Next PROVE UsbdInv'
  <2>1. CASE \E e \in Address : Transaction(e)
    BY <1>3, <1>5, <1>8, <2>1 DEF Transaction, HostActions
  <2> QED BY <1>3, <1>4, <1>5, <1>7, <1>9, <2>1 DEF Next, HostActions
<1> QED BY <1>6, <1>9

LEMMA UsbdAgrees == UsbdInv => AgreeOnAddress
<1> SUFFICES ASSUME UsbdInv PROVE AgreeOnAddress
  OBVIOUS
<1>1. Joined(d, bus) /\ IsBus(bus) /\ bus.setting \in {"pc", "foreign"}
  BY DEF UsbdInv, Joined
<1>2. ~Setting({"pair"})
  BY <1>1 DEF Setting
<1>3. ASSUME bus.ready, ~d.dcd.irq
      PROVE  d.dcd.addr = bus.told.addr /\ (d.life = "CONFIGURED") = bus.told.configured
  <2>1. bus.told = Known(d)
    BY <1>1, <1>3, Zenon DEF Joined, Pending
  <2> QED BY <2>1 DEF Known
<1> QED BY <1>2, <1>3 DEF AgreeOnAddress

(* With any host that resets the device before it asks, gives up requests   *)
(* where it likes and sends what it likes, the device answers to the        *)
(* address the host was last told it took, and is configured exactly when   *)
(* the host was told so, whenever no status stage waits for its interrupt:  *)
(* standard_set_address_process and standard_set_configuration_process only *)
(* remember what status_phase_complete_process carries out.                 *)
THEOREM DeviceAgreesOnAddress == DeviceSpec => []AgreeOnAddress
<1>1. UsbdInv => AgreeOnAddress
  BY UsbdAgrees
<1> QED BY <1>1, UsbdInit, UsbdNext, PTL DEF DeviceSpec
=============================================================================
