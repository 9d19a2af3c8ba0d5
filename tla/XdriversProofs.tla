--------------------------- MODULE XdriversProofs ---------------------------
(***************************************************************************)
(* Proofs about the peripheral drivers, for both ports and any lengths,    *)
(* numbers of transfers, faults and clock rates.  Each driver has an       *)
(* inductive invariant of its own, which says how its registers, the call  *)
(* in progress and what went over the line agree; the state is that of one *)
(* driver for good, so a step of one never disturbs another.               *)
(***************************************************************************)
EXTENDS Xdrivers, TLAPS, WellFoundedInduction, FiniteSetTheorems

(***************************************************************************)
(* GPIO.                                                                   *)
(***************************************************************************)

GpioRegisters == {"cfg", "speed", "af"}
GpioValues == {"floating", "up", "down", "output", "alternate", 0, 1, 16}
GpioWants == [GpioRegisters \cup {"out"} -> GpioValues]
GpioTasks ==
    [op: {"none"}]
        \cup [op: {"configure"}, at: GpioRegisters, seen: {<<>>} \cup [Pins -> GpioValues], wish: Wishes]
        \cup [op: {"toggle"}, odr: [Pins -> {0, 1}]]

GpioStates ==
    [kind: {"gpio"}, port: {"ch32"}, ready: BOOLEAN, call: {Idle},
     reg: [GpioRegisters -> [Pins -> GpioValues]], out: [Pins -> {0, 1}], want: [Pins -> GpioWants],
     started: Nat, task: [Pins -> GpioTasks], overlap: BOOLEAN]

\* A task that toggles is the only one that changes its pin, a task that has
\* read a register still knows it, unless two configurations overlapped.
GpioInv(g) ==
    /\ g \in GpioStates
    /\ \A p \in Pins : g.out[p] = g.want[p].out
    /\ \A p \in Pins : g.task[p].op = "toggle" => g.task[p].odr[p] = g.out[p]
    /\ ~g.overlap =>
        /\ \A p \in Pins, r \in GpioRegisters : g.reg[r][p] = g.want[p][r]
        /\ \A p, q \in Pins : g.task[p].op = "configure" /\ g.task[q].op = "configure" => p = q
        /\ \A p \in Pins : g.task[p].op = "configure" /\ g.task[p].seen # <<>> =>
                              g.task[p].seen = g.reg[g.task[p].at]

\* The registers that hold the configuration of a port.
LEMMA RegisterNames == Registers = GpioRegisters
BY DEF Registers, AtReset, GpioRegisters

\* A port after reset (GpioOff) satisfies the invariant.
LEMMA GpioBegins == GpioInv(GpioOff)
<1>1. PICK z : z = [p \in Pins |-> 0]
  OBVIOUS
<1>2. z \in [Pins -> {0, 1}] /\ \A p \in Pins : z[p] = 0
  BY <1>1
<1>3. PICK f \in GpioWants : f = [cfg |-> "floating", speed |-> 0, af |-> 0, out |-> 0]
  <2>1. [cfg |-> "floating", speed |-> 0, af |-> 0, out |-> 0] \in [{"cfg", "speed", "af", "out"} -> GpioValues]
    BY DEF GpioValues
  <2>2. GpioRegisters \cup {"out"} = {"cfg", "speed", "af", "out"}
    BY DEF GpioRegisters
  <2> QED BY <2>1, <2>2 DEF GpioWants
<1>4. PICK w \in [Pins -> GpioWants] : w = [p \in Pins |-> [cfg |-> "floating", speed |-> 0, af |-> 0, out |-> 0]]
  BY <1>3
<1>5. \A p \in Pins : w[p] = f
  BY <1>3, <1>4
<1>6. f.out = 0 /\ f["cfg"] = "floating" /\ f["speed"] = 0 /\ f["af"] = 0
  BY <1>3
<1>7. PICK t \in [Pins -> GpioTasks] : t = [p \in Pins |-> Idle]
  BY DEF GpioTasks, Idle
<1>8. \A p \in Pins : t[p].op = "none"
  BY <1>7 DEF Idle
<1>9. PICK r \in [GpioRegisters -> [Pins -> GpioValues]] : r = [x \in Registers |-> [p \in Pins |-> AtReset[x]]]
  <2>1. \A x \in GpioRegisters : AtReset[x] \in GpioValues
    BY DEF AtReset, GpioRegisters, GpioValues
  <2> QED BY <2>1, RegisterNames
<1>10. \A x \in GpioRegisters, p \in Pins : r[x][p] = f[x]
  BY <1>3, <1>9, RegisterNames DEF AtReset, GpioRegisters
<1>11. GpioOff = [kind |-> "gpio", port |-> "ch32", ready |-> FALSE, call |-> Idle, reg |-> r, out |-> z, want |-> w,
                  started |-> 0, task |-> t, overlap |-> FALSE]
  BY <1>1, <1>4, <1>7, <1>9 DEF GpioOff
<1>12. PICK g : g = GpioOff
  OBVIOUS
<1>13. g \in GpioStates
  BY <1>2, <1>11, <1>12 DEF GpioStates
<1>14. g.out = z /\ g.want = w /\ g.task = t /\ g.reg = r
  BY <1>11, <1>12
<1> QED BY <1>2, <1>5, <1>6, <1>8, <1>10, <1>12, <1>13, <1>14 DEF GpioInv

(***************************************************************************)
(* What a task asks for.                                                   *)
(***************************************************************************)
LEMMA WishesAreValues ==
    ASSUME NEW w \in Wishes, NEW r \in GpioRegisters
    PROVE  /\ Wanted(w)[r] \in GpioValues
           /\ \A b \in {0, 1} : Level(w.mode, b) \in {0, 1}
<1>1. /\ w.mode \in {"up", "down", "output", "alternate"}
      /\ w.speed \in {0, 1}
      /\ w.af \in {0, 1, 16}
  BY DEF Wishes
<1>2. Wanted(w)[r] \in GpioValues
  BY <1>1 DEF Wanted, GpioRegisters, GpioValues
<1>3. \A b \in {0, 1} : Level(w.mode, b) \in {0, 1}
  BY DEF Level
<1> QED BY <1>2, <1>3

(***************************************************************************)
(* A call and its steps change one task, and of the pins only its own.     *)
(***************************************************************************)
LEMMA ConfigureKeeps ==
    ASSUME NEW g, GpioInv(g), NEW p \in Pins, g.task[p] = Idle, NEW w \in Wishes
    PROVE  GpioInv(ConfigurePin(g, p, w))
<1>0. g \in GpioStates
  BY DEF GpioInv
<1>1. CASE ~g.ready
  BY <1>1 DEF ConfigurePin, Refused
<1>2. CASE g.ready
  <2>1. PICK x : x = [op |-> "configure", at |-> "cfg", seen |-> <<>>, wish |-> w]
    OBVIOUS
  <2>2. x \in GpioTasks /\ x.op = "configure" /\ x.seen = <<>>
    BY <2>1 DEF GpioTasks, GpioRegisters
  <2>3. PICK t : t = [g.task EXCEPT ![p] = x]
    OBVIOUS
  <2>4. t \in [Pins -> GpioTasks] /\ t[p] = x /\ \A q \in Pins : q # p => t[q] = g.task[q]
    BY <1>0, <2>2, <2>3 DEF GpioStates
  <2>5. PICK o \in BOOLEAN : o = (g.overlap \/ \E q \in Pins \ {p} : g.task[q].op = "configure")
    BY <1>0 DEF GpioStates
  <2>6. PICK n \in Nat : n = g.started + 1
    BY <1>0 DEF GpioStates
  <2>7. PICK e : e = [g EXCEPT !.started = n, !.task = t, !.overlap = o]
    OBVIOUS
  <2>8. ConfigurePin(g, p, w) = e
    BY <1>0, <1>2, <2>1, <2>3, <2>5, <2>6, <2>7 DEF ConfigurePin, GpioStates
  <2>9. e \in GpioStates
    BY <1>0, <2>4, <2>5, <2>6, <2>7 DEF GpioStates
  <2>10. e.task = t /\ e.overlap = o /\ e.reg = g.reg /\ e.out = g.out /\ e.want = g.want
    BY <1>0, <2>7 DEF GpioStates
  <2>11. ~o => ~g.overlap /\ \A q \in Pins \ {p} : g.task[q].op # "configure"
    BY <2>5
  <2>12. \A q \in Pins : t[q].op = "toggle" => q # p
    BY <2>2, <2>4
  <2>13. \A q \in Pins : e.task[q].op = "toggle" => e.task[q].odr[q] = e.out[q]
    BY <2>4, <2>10, <2>12 DEF GpioInv
  <2>14. ~o => \A q \in Pins : t[q].op = "configure" => q = p
    BY <2>4, <2>11
  <2>15. ~o => \A q \in Pins : t[q].op = "configure" => t[q].seen = <<>>
    BY <2>2, <2>4, <2>14
  <2> QED BY <2>8, <2>9, <2>10, <2>11, <2>13, <2>14, <2>15 DEF GpioInv
<1> QED BY <1>0, <1>1, <1>2 DEF GpioStates

\* Setting or clearing one pin (xDRV_GPIO_Write) keeps the invariant.
LEMMA PinWriteKeeps ==
    ASSUME NEW g, GpioInv(g), NEW p \in Pins, g.task[p] = Idle, NEW level \in {0, 1}
    PROVE  GpioInv(PinWrite(g, p, level))
<1>0. g \in GpioStates
  BY DEF GpioInv
<1>1. CASE ~g.ready
  BY <1>1 DEF PinWrite, Refused
<1>2. CASE g.ready
  <2>1. PICK z : z = [g.out EXCEPT ![p] = level]
    OBVIOUS
  <2>2. z \in [Pins -> {0, 1}] /\ z[p] = level /\ \A q \in Pins : q # p => z[q] = g.out[q]
    BY <1>0, <2>1 DEF GpioStates
  <2>3. g.want \in [Pins -> GpioWants] /\ g.want[p] \in GpioWants
    BY <1>0 DEF GpioStates
  <2>4. PICK f : f = [g.want[p] EXCEPT !.out = level]
    OBVIOUS
  <2>5. f \in GpioWants /\ f.out = level /\ \A r \in GpioRegisters : f[r] = g.want[p][r]
    BY <2>3, <2>4 DEF GpioWants, GpioValues, GpioRegisters
  <2>6. PICK w : w = [g.want EXCEPT ![p] = f]
    OBVIOUS
  <2>7. w \in [Pins -> GpioWants] /\ w[p] = f /\ \A q \in Pins : q # p => w[q] = g.want[q]
    BY <2>3, <2>5, <2>6
  <2>8. PICK n \in Nat : n = g.started + 1
    BY <1>0 DEF GpioStates
  <2>9. PICK e : e = [g EXCEPT !.started = n, !.out = z, !.want = w]
    OBVIOUS
  <2>10. PinWrite(g, p, level) = e
    BY <1>0, <1>2, <2>1, <2>4, <2>6, <2>8, <2>9 DEF PinWrite, GpioStates
  <2>11. e \in GpioStates
    BY <1>0, <2>2, <2>7, <2>8, <2>9 DEF GpioStates
  <2>12. e.task = g.task /\ e.overlap = g.overlap /\ e.reg = g.reg /\ e.out = z /\ e.want = w
    BY <1>0, <2>9 DEF GpioStates
  <2>13. \A q \in Pins : z[q] = w[q].out
    BY <2>2, <2>5, <2>7 DEF GpioInv
  <2>14. \A q \in Pins, r \in GpioRegisters : w[q][r] = g.want[q][r]
    BY <2>5, <2>7
  <2>15. \A q \in Pins : g.task[q].op = "toggle" => q # p
    BY DEF Idle
  <2>16. \A q \in Pins : g.task[q].op = "toggle" => g.task[q].odr[q] = z[q]
    BY <2>2, <2>15 DEF GpioInv
  <2> QED BY <2>10, <2>11, <2>12, <2>13, <2>14, <2>16 DEF GpioInv
<1> QED BY <1>0, <1>1, <1>2 DEF GpioStates

\* Reading the latch to toggle a pin (xDRV_GPIO_Toggle) keeps the invariant.
LEMMA ToggleKeeps ==
    ASSUME NEW g, GpioInv(g), NEW p \in Pins, g.task[p] = Idle
    PROVE  GpioInv(PinToggle(g, p))
<1>0. g \in GpioStates
  BY DEF GpioInv
<1>1. CASE ~g.ready
  BY <1>1 DEF PinToggle, Refused
<1>2. CASE g.ready
  <2>1. PICK x : x = [op |-> "toggle", odr |-> g.out]
    OBVIOUS
  <2>2. x \in GpioTasks /\ x.op = "toggle" /\ x.odr = g.out
    BY <1>0, <2>1 DEF GpioTasks, GpioStates
  <2>3. PICK t : t = [g.task EXCEPT ![p] = x]
    OBVIOUS
  <2>4. t \in [Pins -> GpioTasks] /\ t[p] = x /\ \A q \in Pins : q # p => t[q] = g.task[q]
    BY <1>0, <2>2, <2>3 DEF GpioStates
  <2>5. PICK n \in Nat : n = g.started + 1
    BY <1>0 DEF GpioStates
  <2>6. PICK e : e = [g EXCEPT !.started = n, !.task = t]
    OBVIOUS
  <2>7. PinToggle(g, p) = e
    BY <1>0, <1>2, <2>1, <2>3, <2>5, <2>6 DEF PinToggle, GpioStates
  <2>8. e \in GpioStates
    BY <1>0, <2>4, <2>5, <2>6 DEF GpioStates
  <2>9. e.task = t /\ e.overlap = g.overlap /\ e.reg = g.reg /\ e.out = g.out /\ e.want = g.want
    BY <1>0, <2>6 DEF GpioStates
  <2>10. \A q \in Pins : t[q].op = "toggle" => t[q].odr[q] = g.out[q]
    BY <2>2, <2>4 DEF GpioInv
  <2>11. \A q \in Pins : t[q].op = "configure" => q # p /\ t[q] = g.task[q]
    BY <2>2, <2>4
  <2> QED BY <2>7, <2>8, <2>9, <2>10, <2>11 DEF GpioInv
<1> QED BY <1>0, <1>1, <1>2 DEF GpioStates

\* Writing the pin that was read to be toggled keeps the invariant: only its
\* own task writes it.
LEMMA ToggledKeeps ==
    ASSUME NEW g, GpioInv(g), NEW p \in Pins, g.task[p].op = "toggle"
    PROVE  GpioInv(Toggled(g, p))
<1>0. g \in GpioStates /\ g.task[p] \in GpioTasks /\ g.want[p] \in GpioWants
  BY DEF GpioInv, GpioStates
<1>1. PICK t : t = [g.task EXCEPT ![p] = Idle]
  OBVIOUS
<1>2. Idle \in GpioTasks /\ Idle.op = "none"
  BY DEF GpioTasks, Idle
<1>3. t \in [Pins -> GpioTasks] /\ t[p] = Idle /\ \A q \in Pins : q # p => t[q] = g.task[q]
  BY <1>0, <1>1, <1>2 DEF GpioStates
<1>4. PICK b \in {0, 1} : b = 1 - g.task[p].odr[p]
  <2>1. g.task[p].odr[p] = g.out[p] /\ g.out[p] \in {0, 1}
    BY <1>0 DEF GpioInv, GpioStates
  <2> QED BY <2>1
<1>5. b = 1 - g.want[p].out
  BY <1>4 DEF GpioInv
<1>6. PICK f : f = [g.want[p] EXCEPT !.out = b]
  OBVIOUS
<1>7. f \in GpioWants /\ f.out = b /\ \A r \in GpioRegisters : f[r] = g.want[p][r]
  BY <1>0, <1>6 DEF GpioWants, GpioValues, GpioRegisters
<1>8. PICK w : w = [g.want EXCEPT ![p] = f]
  OBVIOUS
<1>9. w \in [Pins -> GpioWants] /\ w[p] = f /\ \A q \in Pins : q # p => w[q] = g.want[q]
  BY <1>0, <1>7, <1>8 DEF GpioStates
<1>10. PICK z : z = [g.out EXCEPT ![p] = b]
  OBVIOUS
<1>11. z \in [Pins -> {0, 1}] /\ z[p] = b /\ \A q \in Pins : q # p => z[q] = g.out[q]
  BY <1>0, <1>10 DEF GpioStates
<1>12. PICK e : e = [g EXCEPT !.task = t, !.out = z, !.want = w]
  OBVIOUS
<1>13. Toggled(g, p) = e
  BY <1>0, <1>1, <1>4, <1>5, <1>6, <1>8, <1>10, <1>12 DEF Toggled, GpioStates
<1>14. e \in GpioStates
  BY <1>0, <1>3, <1>9, <1>11, <1>12 DEF GpioStates
<1>15. e.task = t /\ e.overlap = g.overlap /\ e.reg = g.reg /\ e.out = z /\ e.want = w
  BY <1>0, <1>12 DEF GpioStates
<1>16. \A q \in Pins : z[q] = w[q].out
  BY <1>7, <1>9, <1>11 DEF GpioInv
<1>17. \A q \in Pins, r \in GpioRegisters : w[q][r] = g.want[q][r]
  BY <1>7, <1>9
<1>18. \A q \in Pins : t[q].op # "none" => q # p /\ t[q] = g.task[q]
  BY <1>2, <1>3
<1>19. \A q \in Pins : t[q].op = "toggle" => t[q].odr[q] = z[q]
  BY <1>11, <1>18 DEF GpioInv
<1>20. \A q \in Pins : t[q].op = "configure" => t[q] = g.task[q]
  BY <1>18
<1> QED BY <1>13, <1>14, <1>15, <1>16, <1>17, <1>19, <1>20 DEF GpioInv

\* The read of a configuration register before it is changed keeps the
\* invariant.
LEMMA ReadRegisterKeeps ==
    ASSUME NEW g, GpioInv(g), NEW p \in Pins, g.task[p].op = "configure"
    PROVE  GpioInv(ReadRegister(g, p))
<1>0. g \in GpioStates /\ g.task[p] \in GpioTasks
  BY DEF GpioInv, GpioStates
<1>1. g.task[p] \in [op: {"configure"}, at: GpioRegisters, seen: {<<>>} \cup [Pins -> GpioValues], wish: Wishes]
  BY <1>0 DEF GpioTasks
<1>2. PICK v \in [Pins -> GpioValues] : v = g.reg[g.task[p].at]
  BY <1>0, <1>1 DEF GpioStates
<1>3. PICK x : x = [g.task[p] EXCEPT !.seen = v]
  OBVIOUS
<1>4. x \in GpioTasks /\ x.op = "configure" /\ x.seen = v /\ x.at = g.task[p].at
  BY <1>1, <1>2, <1>3 DEF GpioTasks
<1>5. PICK t : t = [g.task EXCEPT ![p] = x]
  OBVIOUS
<1>6. t \in [Pins -> GpioTasks] /\ t[p] = x /\ \A q \in Pins : q # p => t[q] = g.task[q]
  BY <1>0, <1>4, <1>5 DEF GpioStates
<1>7. PICK e : e = [g EXCEPT !.task = t]
  OBVIOUS
<1>8. ReadRegister(g, p) = e
  BY <1>0, <1>2, <1>3, <1>5, <1>7 DEF ReadRegister, GpioStates
<1>9. e \in GpioStates
  BY <1>0, <1>6, <1>7 DEF GpioStates
<1>10. e.task = t /\ e.overlap = g.overlap /\ e.reg = g.reg /\ e.out = g.out /\ e.want = g.want
  BY <1>0, <1>7 DEF GpioStates
<1>11. \A q \in Pins : t[q].op = g.task[q].op
  BY <1>4, <1>6
<1>12. \A q \in Pins : t[q].op = "toggle" => t[q].odr[q] = g.out[q]
  BY <1>4, <1>6 DEF GpioInv
<1>13. ~g.overlap => \A q \in Pins : t[q].op = "configure" /\ t[q].seen # <<>> => t[q].seen = g.reg[t[q].at]
  BY <1>2, <1>4, <1>6 DEF GpioInv
<1> QED BY <1>8, <1>9, <1>10, <1>11, <1>12, <1>13 DEF GpioInv

\* The write that follows keeps the invariant: it puts back of the other pins
\* what it read.
LEMMA WriteRegisterKeeps ==
    ASSUME NEW g, GpioInv(g), NEW p \in Pins, g.task[p].op = "configure", g.task[p].seen # <<>>
    PROVE  GpioInv(WriteRegister(g, p))
<1>0. g \in GpioStates /\ g.task[p] \in GpioTasks /\ g.want[p] \in GpioWants
  BY DEF GpioInv, GpioStates
<1>1. PICK x : x = g.task[p]
  OBVIOUS
<1>2. x \in [op: {"configure"}, at: GpioRegisters, seen: {<<>>} \cup [Pins -> GpioValues], wish: Wishes]
  BY <1>0, <1>1 DEF GpioTasks
<1>3. PICK a \in GpioRegisters : a = x.at
  BY <1>2
<1>4. x.seen \in [Pins -> GpioValues] /\ x.wish \in Wishes
  BY <1>1, <1>2
<1>5. PICK b \in GpioValues : b = Wanted(x.wish)[a]
  BY <1>4, WishesAreValues
<1>6. PICK c \in GpioValues : c = IF g.overlap THEN g.want[p][a] ELSE b
  BY <1>0, <1>3, <1>5 DEF GpioWants
<1>7. PICK v : v = [x.seen EXCEPT ![p] = b]
  OBVIOUS
<1>8. v \in [Pins -> GpioValues] /\ v[p] = b /\ \A q \in Pins : q # p => v[q] = x.seen[q]
  BY <1>4, <1>5, <1>7
<1>9. PICK r : r = [g.reg EXCEPT ![a] = v]
  OBVIOUS
<1>10. /\ r \in [GpioRegisters -> [Pins -> GpioValues]] /\ r[a] = v
       /\ \A k \in GpioRegisters : k # a => r[k] = g.reg[k]
  BY <1>0, <1>8, <1>9 DEF GpioStates
<1>11. PICK f : f = [g.want[p] EXCEPT ![a] = c]
  OBVIOUS
<1>12. /\ f \in GpioWants /\ f[a] = c /\ f.out = g.want[p].out
       /\ \A k \in GpioRegisters : k # a => f[k] = g.want[p][k]
  BY <1>0, <1>3, <1>6, <1>11 DEF GpioWants, GpioRegisters
<1>13. PICK w : w = [g.want EXCEPT ![p] = f]
  OBVIOUS
<1>14. w \in [Pins -> GpioWants] /\ w[p] = f /\ \A q \in Pins : q # p => w[q] = g.want[q]
  BY <1>0, <1>12, <1>13 DEF GpioStates
<1>15. PICK d : d = [g EXCEPT !.reg = r, !.want = w]
  OBVIOUS
<1>16. d \in GpioStates
  BY <1>0, <1>10, <1>14, <1>15 DEF GpioStates
<1>17. /\ d.task = g.task /\ d.overlap = g.overlap /\ d.reg = r /\ d.out = g.out /\ d.want = w
  BY <1>0, <1>15 DEF GpioStates
<1>18. d = [g EXCEPT !.reg[x.at] = [x.seen EXCEPT ![p] = Wanted(x.wish)[x.at]],
                     !.want[p][x.at] = IF g.overlap THEN @ ELSE Wanted(x.wish)[x.at]]
  BY <1>0, <1>3, <1>5, <1>6, <1>7, <1>9, <1>11, <1>13, <1>15 DEF GpioStates
<1>19. PICK last \in BOOLEAN : last = (x.at = "af" \/ (x.at = "speed" /\ x.wish.af \notin 1..15))
  OBVIOUS
\* What holds of the registers, before the task moves on.
<1>20. ~g.overlap => \A q \in Pins, k \in GpioRegisters : r[k][q] = w[q][k]
  <2> SUFFICES ASSUME ~g.overlap, NEW q \in Pins, NEW k \in GpioRegisters PROVE r[k][q] = w[q][k]
    OBVIOUS
  <2>1. x.seen = g.reg[a]
    BY <1>1, <1>3 DEF GpioInv
  <2>2. g.reg[k][q] = g.want[q][k]
    BY DEF GpioInv
  <2>3. CASE k = a /\ q = p
    BY <1>6, <1>8, <1>10, <1>12, <1>14, <2>3
  <2>4. CASE k = a /\ q # p
    BY <1>8, <1>10, <1>14, <2>1, <2>2, <2>4
  <2>5. CASE k # a
    BY <1>10, <1>12, <1>14, <2>2, <2>5
  <2> QED BY <2>3, <2>4, <2>5
<1>21. \A q \in Pins : g.task[q].op = "toggle" => q # p
  OBVIOUS
<1>22. ~g.overlap => \A q \in Pins : q # p => g.task[q].op # "configure"
  BY DEF GpioInv
<1>23. CASE ~last
  <2>1. PICK n \in GpioRegisters : n = IF x.at = "cfg" THEN "speed" ELSE "af"
    BY DEF GpioRegisters
  <2>2. PICK y : y = [x EXCEPT !.at = n, !.seen = <<>>]
    OBVIOUS
  <2>3. y \in GpioTasks /\ y.op = "configure" /\ y.seen = <<>>
    BY <1>2, <2>1, <2>2 DEF GpioTasks
  <2>4. PICK t : t = [g.task EXCEPT ![p] = y]
    OBVIOUS
  <2>5. t \in [Pins -> GpioTasks] /\ t[p] = y /\ \A q \in Pins : q # p => t[q] = g.task[q]
    BY <1>0, <2>3, <2>4 DEF GpioStates
  <2>6. PICK e : e = [d EXCEPT !.task = t]
    OBVIOUS
  <2>7. e = [d EXCEPT !.task[p].at = IF x.at = "cfg" THEN "speed" ELSE "af", !.task[p].seen = <<>>]
    <3>1. [[g.task EXCEPT ![p] = [g.task[p] EXCEPT !.at = n]] EXCEPT
             ![p] = [[g.task EXCEPT ![p] = [g.task[p] EXCEPT !.at = n]][p] EXCEPT !.seen = <<>>]] = t
      BY <1>0, <1>1, <2>2, <2>4, ZenonT(60) DEF GpioStates
    <3> QED BY <1>16, <1>17, <2>1, <2>6, <3>1, ZenonT(60) DEF GpioStates
  <2>8. WriteRegister(g, p) = e
    BY <1>1, <1>18, <1>19, <1>23, <2>7, ZenonT(60) DEF WriteRegister
  <2>9. e \in GpioStates
    BY <1>16, <2>5, <2>6 DEF GpioStates
  <2>10. e.task = t /\ e.overlap = g.overlap /\ e.reg = r /\ e.out = g.out /\ e.want = w
    BY <1>16, <1>17, <2>6 DEF GpioStates
  <2>11. \A q \in Pins : g.out[q] = w[q].out
    BY <1>12, <1>14 DEF GpioInv
  <2>12. \A q \in Pins : t[q].op = "toggle" => t[q].odr[q] = g.out[q]
    BY <2>3, <2>5 DEF GpioInv
  <2>13. ~g.overlap => \A q \in Pins : t[q].op = "configure" => q = p /\ t[q].seen = <<>>
    BY <1>22, <2>3, <2>5
  <2> QED BY <1>20, <2>8, <2>9, <2>10, <2>11, <2>12, <2>13 DEF GpioInv
<1>24. CASE last
  <2>1. PICK t : t = [g.task EXCEPT ![p] = Idle]
    OBVIOUS
  <2>2. Idle \in GpioTasks /\ Idle.op = "none"
    BY DEF GpioTasks, Idle
  <2>3. t \in [Pins -> GpioTasks] /\ t[p] = Idle /\ \A q \in Pins : q # p => t[q] = g.task[q]
    BY <1>0, <2>1, <2>2 DEF GpioStates
  <2>4. PICK l \in {0, 1} : l = Level(x.wish.mode, g.out[p])
    <3>1. g.out[p] \in {0, 1}
      BY <1>0 DEF GpioStates
    <3>2. "cfg" \in GpioRegisters
      BY DEF GpioRegisters
    <3> QED BY <1>4, <3>1, <3>2, WishesAreValues
  <2>5. l = Level(x.wish.mode, f.out)
    BY <1>12, <2>4 DEF GpioInv
  <2>6. PICK z : z = [g.out EXCEPT ![p] = l]
    OBVIOUS
  <2>7. z \in [Pins -> {0, 1}] /\ z[p] = l /\ \A q \in Pins : q # p => z[q] = g.out[q]
    BY <1>0, <2>6 DEF GpioStates
  <2>8. PICK h : h = [f EXCEPT !.out = l]
    OBVIOUS
  <2>9. h \in GpioWants /\ h.out = l /\ \A k \in GpioRegisters : h[k] = f[k]
    BY <1>12, <2>8 DEF GpioWants, GpioValues, GpioRegisters
  <2>10. PICK m : m = [w EXCEPT ![p] = h]
    BY ZenonT(60)
  <2>11. m \in [Pins -> GpioWants] /\ m[p] = h /\ \A q \in Pins : q # p => m[q] = w[q]
    BY <1>14, <2>9, <2>10
  <2>12. PICK e : e = [d EXCEPT !.task = t, !.out = z, !.want = m]
    OBVIOUS
  <2>13. e = [d EXCEPT !.task[p] = Idle, !.out[p] = Level(x.wish.mode, @), !.want[p].out = Level(x.wish.mode, @)]
    BY <1>14, <1>16, <1>17, <2>1, <2>4, <2>5, <2>6, <2>8, <2>10, <2>12, ZenonT(60) DEF GpioStates
  <2>14. WriteRegister(g, p) = e
    BY <1>1, <1>18, <1>19, <1>24, <2>13, ZenonT(60) DEF WriteRegister
  <2>15. e \in GpioStates
    BY <1>16, <2>3, <2>7, <2>11, <2>12 DEF GpioStates
  <2>16. e.task = t /\ e.overlap = g.overlap /\ e.reg = r /\ e.out = z /\ e.want = m
    BY <1>16, <1>17, <2>12 DEF GpioStates
  <2>17. \A q \in Pins : z[q] = m[q].out
    BY <1>14, <2>7, <2>9, <2>11 DEF GpioInv
  <2>18. \A q \in Pins, k \in GpioRegisters : m[q][k] = w[q][k]
    BY <1>14, <2>9, <2>11
  <2>19. \A q \in Pins : t[q].op = "toggle" => t[q].odr[q] = z[q]
    BY <2>2, <2>3, <2>7 DEF GpioInv
  <2>20. ~g.overlap => \A q \in Pins : t[q].op # "configure"
    BY <1>22, <2>2, <2>3
  <2> QED BY <1>20, <2>14, <2>15, <2>16, <2>17, <2>18, <2>19, <2>20 DEF GpioInv
<1> QED BY <1>19, <1>23, <1>24

\* Every step of the GPIO driver keeps its invariant.
LEMMA GpioKept == GpioInv(drv) /\ GpioNext => GpioInv(drv')
<1> SUFFICES ASSUME GpioInv(drv), GpioNext PROVE GpioInv(drv')
  OBVIOUS
<1>0. drv \in GpioStates
  BY DEF GpioInv
<1>1. CASE GpioLifeCycle
  <2>1. PICK r \in BOOLEAN : drv' = [drv EXCEPT !.ready = r]
    <3>1. drv' = drv => drv' = [drv EXCEPT !.ready = drv.ready] /\ drv.ready \in BOOLEAN
      BY <1>0 DEF GpioStates
    <3> QED BY <1>1, <3>1 DEF GpioLifeCycle, GpioInit, GpioDeinit, Refused
  <2>2. drv' \in GpioStates
    BY <1>0, <2>1 DEF GpioStates
  <2>3. /\ drv'.task = drv.task /\ drv'.overlap = drv.overlap /\ drv'.reg = drv.reg /\ drv'.out = drv.out
        /\ drv'.want = drv.want
    BY <1>0, <2>1 DEF GpioStates
  <2> QED BY <2>2, <2>3 DEF GpioInv
<1>2. CASE GpioCalls
  BY <1>2, ConfigureKeeps, PinWriteKeeps, ToggleKeeps DEF GpioCalls
<1>3. CASE GpioSteps
  BY <1>3, ToggledKeeps, ReadRegisterKeeps, WriteRegisterKeeps DEF GpioSteps
<1> QED BY <1>1, <1>2, <1>3 DEF GpioNext

\* The invariant says of the GPIO driver what the runs check.
LEMMA GpioShows == ASSUME NEW g, GpioInv(g) PROVE GpioTruth(g)
BY RegisterNames DEF GpioInv, GpioTruth

(***************************************************************************)
(* SPI.                                                                    *)
(***************************************************************************)

Words == Nat \X Nat
SpiAnswers == {"none", "OK", "TIMEOUT", "NOT_INITIALIZED", "INVALID_STATE", "NOT_STARTED", "INVALID_ARG"}
SpiRuns == [op: {"transfer"}, pc: {"poll", "write", "read"}, n: Nat, tx: Nat, rx: Nat, got: Seq(Words),
            txe: BOOLEAN, rxne: BOOLEAN]
SpiRegisters == [dr: Words, sh: Words, tc: BOOLEAN, rd: Seq(Words)]

SpiStates ==
    [kind: {"spi"}, port: Boards, ready: BOOLEAN, on: BOOLEAN, up: BOOLEAN, running: BOOLEAN, st: SpiAnswers,
     call: {Idle} \cup SpiRuns, hw: SpiRegisters, cs: BOOLEAN, cut: BOOLEAN, started: Nat,
     last: [st: SpiAnswers, id: Nat, n: Nat, got: Seq(Words), cut: BOOLEAN]]

\* The registers of the controller: what is in the shift register is not done.
SpiRegistersAgree(h) ==
    /\ h.dr # NoByte => h.sh # NoByte
    /\ h.tc <=> h.sh = NoByte
    /\ Len(h.rd) \in {0, 1}

Units(w) == IF w = NoByte THEN 0 ELSE 1

\* Words are lost only by being overwritten on their way back; as long as none
\* is, they follow one another.
SpiFlow(c, h, id) ==
    /\ c.rx + Len(h.rd) + Units(h.sh) + Units(h.dr) <= c.tx
    /\ c.rx + Len(h.rd) + Units(h.sh) + Units(h.dr) = c.tx =>
        /\ \A i \in 1 .. c.rx : c.got[i] = <<id, i>>
        /\ h.rd # <<>> => h.rd[1] = <<id, c.rx + 1>>
        /\ h.sh # NoByte => h.sh = <<id, c.rx + Len(h.rd) + 1>>
        /\ h.dr # NoByte => h.dr = <<id, c.rx + Len(h.rd) + 2>>

\* What the loop has seen stays so until it acts on it.
SpiRunAgrees(c, h) ==
    /\ Len(c.got) = c.rx /\ c.rx <= c.n /\ c.tx <= c.n
    /\ c.pc = "write" /\ c.txe => h.dr = NoByte
    /\ c.pc \in {"write", "read"} /\ c.rxne => h.rd # <<>>

SpiLastAgrees(l) == l.st = "OK" /\ ~l.cut => l.got = [i \in 1 .. l.n |-> <<l.id, i>>]

SpiInv(d) ==
    /\ d \in SpiStates
    /\ (d.ready => d.up) /\ (d.on => d.ready /\ d.running)
    /\ d.port = "am243x" => ~d.cut
    /\ d.cs => d.call # Idle
    /\ SpiRegistersAgree(d.hw)
    /\ d.call = Idle /\ ~d.cut => d.hw = SpiReset
    /\ d.call # Idle => SpiRunAgrees(d.call, d.hw)
    /\ d.call # Idle /\ ~d.cut => SpiFlow(d.call, d.hw, d.started)
    /\ SpiLastAgrees(d.last)

\* The received words are none when their count is zero.
LEMMA EmptyHasNoLength ==
    ASSUME NEW S, NEW s \in Seq(S)
    PROVE  s = <<>> <=> Len(s) = 0
OBVIOUS

\* One word makes a sequence of words.
LEMMA OneWord ==
    ASSUME NEW w \in Words
    PROVE  <<w>> \in Seq(Words) /\ Len(<<w>>) = 1 /\ <<w>>[1] = w
OBVIOUS

\* The registers after reset hold no word of a transfer.
LEMMA SpiResetAgrees == SpiReset \in SpiRegisters /\ SpiRegistersAgree(SpiReset)
<1>1. NoByte \in Words
  BY DEF NoByte, Words
<1>2. <<>> \in Seq(Words) /\ Len(<<>>) = 0
  OBVIOUS
<1> QED BY <1>1, <1>2 DEF SpiReset, SpiRegisters, SpiRegistersAgree

\* A transfer that runs is not a driver at rest.
LEMMA RunsAreBusy == \A c \in SpiRuns : c # Idle /\ c.op = "transfer"
BY DEF SpiRuns, Idle

\* A driver that was not set up (SpiOff) satisfies the invariant.
LEMMA SpiOffAgrees ==
    ASSUME NEW b \in Boards
    PROVE  SpiInv(SpiOff(b))
<1>1. PICK h : h = SpiReset
  OBVIOUS
<1>2. h \in SpiRegisters
  BY <1>1, SpiResetAgrees
<1>3. PICK l : l = [st |-> "none", id |-> 0, n |-> 0, got |-> <<>>, cut |-> FALSE]
  OBVIOUS
<1>4. l \in [st: SpiAnswers, id: Nat, n: Nat, got: Seq(Words), cut: BOOLEAN] /\ l.st = "none"
  BY <1>3 DEF SpiAnswers
<1>5. PICK d : d = SpiOff(b)
  OBVIOUS
<1>6. d = [kind |-> "spi", port |-> b, ready |-> FALSE, on |-> FALSE, up |-> FALSE, running |-> FALSE,
           st |-> "OK", call |-> Idle, hw |-> h, cs |-> FALSE, cut |-> FALSE, started |-> 0, last |-> l]
  BY <1>1, <1>3, <1>5 DEF SpiOff
<1>7. d \in SpiStates
  BY <1>2, <1>4, <1>6 DEF SpiStates, SpiAnswers
<1>8. ~d.ready /\ ~d.on /\ ~d.cut /\ ~d.cs /\ d.call = Idle /\ d.hw = h /\ d.last = l
  BY <1>6
<1> QED BY <1>1, <1>4, <1>5, <1>7, <1>8, SpiResetAgrees DEF SpiInv, SpiLastAgrees

(***************************************************************************)
(* Calls of the life cycle come between transfers, and leave the registers *)
(* alone or reset them.                                                    *)
(***************************************************************************)
SpiTurned(d, r, o, u, w, s, h, c) ==
    [d EXCEPT !.ready = r, !.on = o, !.up = u, !.running = w, !.st = s, !.hw = h, !.cut = c]

\* Setting up, starting, stopping or shutting down, with or without a reset,
\* keeps the invariant.
LEMMA SpiTurns ==
    ASSUME NEW d, SpiInv(d), d.call = Idle, NEW r \in BOOLEAN, NEW o \in BOOLEAN, NEW u \in BOOLEAN,
           NEW w \in BOOLEAN, NEW s \in SpiAnswers, r => u, o => r /\ w
    PROVE  /\ SpiInv(SpiTurned(d, r, o, u, w, s, d.hw, d.cut))
           /\ SpiInv(SpiTurned(d, r, o, u, w, s, SpiReset, FALSE))
<1>0. d \in SpiStates
  BY DEF SpiInv
<1>1. PICK e : e = SpiTurned(d, r, o, u, w, s, d.hw, d.cut)
  OBVIOUS
<1>2. e \in SpiStates
  BY <1>0, <1>1, ZenonT(60) DEF SpiStates, SpiTurned
<1>3. /\ e.ready = r /\ e.on = o /\ e.up = u /\ e.running = w /\ e.port = d.port /\ e.cut = d.cut /\ e.cs = d.cs
      /\ e.call = d.call /\ e.hw = d.hw /\ e.started = d.started /\ e.last = d.last
  BY <1>0, <1>1 DEF SpiStates, SpiTurned
<1>4. SpiInv(e)
  BY <1>2, <1>3 DEF SpiInv
<1>5. PICK f : f = SpiTurned(d, r, o, u, w, s, SpiReset, FALSE)
  OBVIOUS
<1>6. f \in SpiStates
  BY <1>0, <1>5, SpiResetAgrees, ZenonT(60) DEF SpiStates, SpiTurned
<1>7. /\ f.ready = r /\ f.on = o /\ f.up = u /\ f.running = w /\ f.port = d.port /\ f.cut = FALSE /\ f.cs = d.cs
      /\ f.call = d.call /\ f.hw = SpiReset /\ f.started = d.started /\ f.last = d.last
  BY <1>0, <1>5 DEF SpiStates, SpiTurned
<1>8. SpiInv(f)
  BY <1>6, <1>7, SpiResetAgrees DEF SpiInv
<1> QED BY <1>1, <1>4, <1>5, <1>8

\* A call that only answers keeps the invariant.
LEMMA SpiStays ==
    ASSUME NEW d, SpiInv(d), NEW s \in SpiAnswers
    PROVE  SpiInv(SpiTurned(d, d.ready, d.on, d.up, d.running, s, d.hw, d.cut))
<1>0. d \in SpiStates
  BY DEF SpiInv
<1>1. PICK e : e = [d EXCEPT !.st = s]
  OBVIOUS
<1>2. e = SpiTurned(d, d.ready, d.on, d.up, d.running, s, d.hw, d.cut)
  BY <1>0, <1>1 DEF SpiStates, SpiTurned
<1>3. e \in SpiStates
  BY <1>0, <1>1 DEF SpiStates
<1>4. /\ e.ready = d.ready /\ e.on = d.on /\ e.up = d.up /\ e.running = d.running /\ e.port = d.port
      /\ e.cut = d.cut /\ e.cs = d.cs /\ e.call = d.call /\ e.hw = d.hw /\ e.started = d.started /\ e.last = d.last
  BY <1>0, <1>1 DEF SpiStates
<1> QED BY <1>2, <1>3, <1>4 DEF SpiInv

\* Every call of the life cycle (init, deinit, start, stop) keeps the
\* invariant.
LEMMA SpiLifeKeeps ==
    ASSUME SpiInv(drv), SpiLifeCycle
    PROVE  SpiInv(drv')
<1>0. PICK d : d = drv
  OBVIOUS
<1>1. SpiInv(d) /\ d \in SpiStates /\ d.call = Idle
  BY <1>0 DEF SpiInv, SpiLifeCycle, AtRest
<1>2. /\ d.port \in {"ch32", "am243x"} /\ d.ready \in BOOLEAN /\ d.on \in BOOLEAN /\ d.up \in BOOLEAN
      /\ d.running \in BOOLEAN /\ d.st \in SpiAnswers
  BY <1>1 DEF SpiStates, Boards
<1>3. (d.ready => d.up) /\ (d.on => d.ready /\ d.running) /\ (d.port = "am243x" => ~d.cut)
  BY <1>1 DEF SpiInv
<1>5. "OK" \in SpiAnswers /\ "TIMEOUT" \in SpiAnswers /\ "NOT_INITIALIZED" \in SpiAnswers /\ "INVALID_STATE" \in SpiAnswers
  BY DEF SpiAnswers
<1>6. ASSUME NEW works \in BOOLEAN PROVE SpiInv(SpiInit(d, works))
  <2>1. CASE d.port = "ch32"
    <3>1. SpiInit(d, works) = SpiTurned(d, TRUE, FALSE, TRUE, d.running, "OK", SpiReset, FALSE)
      BY <1>1, <2>1 DEF SpiInit, CoreInit, SpiPortInit, SpiCh32Init, IsOk, SpiStates, SpiTurned
    <3> QED BY <1>1, <1>2, SpiTurns, <1>5, <3>1, ZenonT(60)
  <2>2. CASE d.port = "am243x"
    <3>1. PICK s \in SpiAnswers, u \in BOOLEAN :
             /\ SpiTiInit(d, works) = [d EXCEPT !.up = u, !.st = s]
             /\ s = "OK" => u
      <4>1. CASE d.up
        <5>1. SpiTiInit(d, works) = [d EXCEPT !.up = d.up, !.st = "INVALID_STATE"]
          BY <1>1, <4>1 DEF SpiTiInit, Returned, SpiStates
        <5> QED BY <1>2, <1>5, <5>1
      <4>2. CASE ~d.up /\ ~works
        <5>1. SpiTiInit(d, works) = [d EXCEPT !.up = d.up, !.st = "TIMEOUT"]
          BY <1>1, <4>2 DEF SpiTiInit, Returned, SpiStates
        <5> QED BY <1>2, <1>5, <5>1
      <4>3. CASE ~d.up /\ works
        BY <1>5, <4>3 DEF SpiTiInit
      <4> QED BY <4>1, <4>2, <4>3
    <3>2. CASE s = "OK"
      <4>1. SpiInit(d, works) = SpiTurned(d, TRUE, FALSE, TRUE, d.running, s, d.hw, d.cut)
        BY <1>1, <2>2, <3>1, <3>2, ZenonT(60) DEF SpiInit, CoreInit, SpiPortInit, IsOk, SpiStates, SpiTurned
      <4> QED BY <1>1, <1>2, <4>1, SpiTurns, ZenonT(60)
    <3>3. CASE s # "OK"
      <4>1. SpiInit(d, works) = SpiTurned(d, FALSE, FALSE, u, d.running, s, d.hw, d.cut)
        BY <1>1, <2>2, <3>1, <3>3, ZenonT(60) DEF SpiInit, CoreInit, SpiPortInit, IsOk, SpiStates, SpiTurned
      <4> QED BY <1>1, <1>2, <4>1, SpiTurns, ZenonT(60)
    <3> QED BY <3>2, <3>3
  <2> QED BY <1>2, <2>1, <2>2
<1>7. d.cut \in BOOLEAN
  BY <1>1 DEF SpiStates
<1>8. ASSUME NEW works \in BOOLEAN PROVE SpiInv(SpiDeinit(d, works))
  <2>1. CASE ~d.ready
    <3>1. SpiDeinit(d, works) = SpiTurned(d, d.ready, d.on, d.up, d.running, "OK", d.hw, d.cut)
      BY <1>1, <2>1 DEF SpiDeinit, CoreDeinit, Ok, SpiStates, SpiTurned
    <3> QED BY <1>1, <1>5, SpiStays, <3>1
  <2>2. CASE d.ready /\ d.port = "ch32"
    <3>1. SpiDeinit(d, works) = SpiTurned(d, FALSE, FALSE, FALSE, FALSE, "OK", SpiReset, FALSE)
      BY <1>1, <2>2 DEF SpiDeinit, CoreDeinit, SpiPortDeinit, SpiCh32Deinit, IsOk, SpiStates, SpiTurned
    <3> QED BY <1>1, <1>2, SpiTurns, <1>5, <3>1, ZenonT(60)
  <2>3. CASE d.ready /\ d.port = "am243x" /\ ~works
    <3>1. SpiDeinit(d, works) = SpiTurned(d, d.ready, d.on, d.up, d.running, "TIMEOUT", d.hw, d.cut)
      BY <1>1, <1>3, <2>3 DEF SpiDeinit, CoreDeinit, SpiPortDeinit, SpiTiDeinit, IsOk, Returned, SpiStates, SpiTurned
    <3> QED BY <1>1, <1>5, SpiStays, <3>1
  <2>4. CASE d.ready /\ d.port = "am243x" /\ works
    <3>1. SpiDeinit(d, works) = SpiTurned(d, FALSE, FALSE, FALSE, FALSE, "OK", d.hw, d.cut)
      BY <1>1, <1>3, <2>4 DEF SpiDeinit, CoreDeinit, SpiPortDeinit, SpiTiDeinit, IsOk, Returned, SpiStates, SpiTurned
    <3> QED BY <1>1, <1>2, <1>3, SpiTurns, <1>5, <1>7, <3>1, ZenonT(60)
  <2> QED BY <1>2, <2>1, <2>2, <2>3, <2>4
<1>9. SpiInv(SpiStart(d))
  <2>1. CASE ~d.ready
    <3>1. SpiStart(d) = SpiTurned(d, d.ready, d.on, d.up, d.running, "NOT_INITIALIZED", d.hw, d.cut)
      BY <1>1, <2>1 DEF SpiStart, CoreStart, Returned, SpiStates, SpiTurned
    <3> QED BY <1>1, <1>5, SpiStays, <3>1
  <2>2. CASE d.ready /\ d.on
    <3>1. SpiStart(d) = SpiTurned(d, d.ready, d.on, d.up, d.running, "OK", d.hw, d.cut)
      BY <1>1, <2>2 DEF SpiStart, CoreStart, Ok, SpiStates, SpiTurned
    <3> QED BY <1>1, <1>5, SpiStays, <3>1
  <2>3. CASE d.ready /\ ~d.on
    <3>1. SpiStart(d) = SpiTurned(d, d.ready, TRUE, d.up, TRUE, "OK", d.hw, d.cut)
      BY <1>1, <1>3, <2>3 DEF SpiStart, CoreStart, SpiPortStart, IsOk, Returned, SpiStates, SpiTurned
    <3> QED BY <1>1, <1>2, <1>3, SpiTurns, <1>5, <1>7, <2>3, <3>1, ZenonT(60)
  <2> QED BY <1>2, <2>1, <2>2, <2>3
<1>10. SpiInv(SpiStop(d))
  <2>1. CASE ~d.ready
    <3>1. SpiStop(d) = SpiTurned(d, d.ready, d.on, d.up, d.running, "NOT_INITIALIZED", d.hw, d.cut)
      BY <1>1, <2>1 DEF SpiStop, CoreStop, Returned, SpiStates, SpiTurned
    <3> QED BY <1>1, <1>5, SpiStays, <3>1
  <2>2. CASE d.ready /\ ~d.on
    <3>1. SpiStop(d) = SpiTurned(d, d.ready, d.on, d.up, d.running, "OK", d.hw, d.cut)
      BY <1>1, <2>2 DEF SpiStop, CoreStop, Ok, SpiStates, SpiTurned
    <3> QED BY <1>1, <1>5, SpiStays, <3>1
  <2>3. CASE d.ready /\ d.on
    <3>1. SpiStop(d) = SpiTurned(d, d.ready, FALSE, d.up, FALSE, "OK", d.hw, d.cut)
      BY <1>1, <2>3 DEF SpiStop, CoreStop, SpiPortStop, SpiStates, SpiTurned
    <3> QED BY <1>1, <1>2, <1>3, SpiTurns, <1>5, <1>7, <3>1, ZenonT(60)
  <2> QED BY <1>2, <2>1, <2>2, <2>3
<1> QED BY <1>0, <1>6, <1>8, <1>9, <1>10 DEF SpiLifeCycle

(***************************************************************************)
(* A transfer begins with clean registers, unless one before it was cut    *)
(* short.                                                                  *)
(***************************************************************************)
LEMMA SpiTransferKeeps ==
    ASSUME NEW d, SpiInv(d), d.call = Idle, NEW n \in Nat, NEW fits \in BOOLEAN
    PROVE  SpiInv(SpiTransfer(d, n, fits))
<1>0. d \in SpiStates
  BY DEF SpiInv
<1>1. ASSUME NEW s \in SpiAnswers PROVE SpiInv(Returned(d, s))
  <2>1. /\ d.ready \in BOOLEAN /\ d.on \in BOOLEAN /\ d.up \in BOOLEAN /\ d.running \in BOOLEAN
    BY <1>0 DEF SpiStates
  <2>2. Returned(d, s) = SpiTurned(d, d.ready, d.on, d.up, d.running, s, d.hw, d.cut)
    BY <1>0 DEF Returned, SpiStates, SpiTurned
  <2>3. (d.ready => d.up) /\ (d.on => d.ready /\ d.running)
    BY DEF SpiInv
  <2> QED BY <2>2, SpiStays
<1>2. CASE Usable(d) # "OK"
  <2>1. Usable(d) \in SpiAnswers
    BY DEF Usable, SpiAnswers
  <2> QED BY <1>1, <1>2, <2>1 DEF SpiTransfer
<1>3. CASE ~d.running
  BY <1>1, <1>2, <1>3 DEF SpiTransfer, SpiBegins, SpiAnswers
<1>4. CASE ~fits
  BY <1>1, <1>2, <1>3, <1>4 DEF SpiTransfer, SpiBegins, SpiAnswers
<1>5. CASE Usable(d) = "OK" /\ d.running /\ fits
  <2>1. PICK c : c = [op |-> "transfer", pc |-> "poll", n |-> n, tx |-> 0, rx |-> 0, got |-> <<>>,
                      txe |-> FALSE, rxne |-> FALSE]
    OBVIOUS
  <2>2. c \in SpiRuns /\ c.pc = "poll" /\ c.n = n /\ c.tx = 0 /\ c.rx = 0 /\ c.got = <<>>
    BY <2>1 DEF SpiRuns
  <2>3. PICK k \in Nat : k = d.started + 1
    BY <1>0 DEF SpiStates
  <2>20. PICK s \in BOOLEAN : s = (d.port = "am243x")
    OBVIOUS
  <2>4. PICK e : e = [d EXCEPT !.started = k, !.cs = s, !.call = c]
    OBVIOUS
  <2>5. SpiTransfer(d, n, fits) = e
    BY <1>0, <1>5, <2>1, <2>3, <2>20, <2>4 DEF SpiTransfer, SpiBegins, SpiStates
  <2>6. e \in SpiStates
    BY <1>0, <2>2, <2>3, <2>20, <2>4 DEF SpiStates
  <2>7. /\ e.ready = d.ready /\ e.on = d.on /\ e.up = d.up /\ e.running = d.running /\ e.port = d.port
        /\ e.cut = d.cut /\ e.hw = d.hw /\ e.last = d.last /\ e.call = c /\ e.started = k
    BY <1>0, <2>4 DEF SpiStates
  <2>8. c # Idle
    BY <2>2, RunsAreBusy
  <2>9. SpiRunAgrees(c, d.hw)
    BY <2>2 DEF SpiRunAgrees
  <2>10. ~d.cut => SpiFlow(c, d.hw, k)
    <3> SUFFICES ASSUME ~d.cut PROVE SpiFlow(c, d.hw, k)
      OBVIOUS
    <3>1. d.hw = SpiReset
      BY DEF SpiInv
    <3>2. d.hw.rd = <<>> /\ d.hw.sh = NoByte /\ d.hw.dr = NoByte
      BY <3>1 DEF SpiReset
    <3> QED BY <2>2, <3>2 DEF SpiFlow, Units
  <2> QED BY <2>5, <2>6, <2>7, <2>8, <2>9, <2>10 DEF SpiInv
<1> QED BY <1>2, <1>3, <1>4, <1>5

(***************************************************************************)
(* The loop: what it saw when it polled still holds when it writes and     *)
(* reads, and a word written follows the one before.                       *)
(***************************************************************************)
LEMMA SpiMoves ==
    ASSUME NEW d, SpiInv(d), d.call # Idle, NEW c \in SpiRuns, NEW h \in SpiRegisters,
           SpiRegistersAgree(h), SpiRunAgrees(c, h), d.cut \/ SpiFlow(c, h, d.started),
           NEW e, e = [d EXCEPT !.call = c, !.hw = h]
    PROVE  SpiInv(e)
<1>0. d \in SpiStates
  BY DEF SpiInv
<1>1. e = [d EXCEPT !.call = c, !.hw = h]
  OBVIOUS
<1>2. e \in SpiStates
  BY <1>0, <1>1 DEF SpiStates
<1>3. /\ e.ready = d.ready /\ e.on = d.on /\ e.up = d.up /\ e.running = d.running /\ e.port = d.port
      /\ e.cut = d.cut /\ e.cs = d.cs /\ e.call = c /\ e.hw = h /\ e.started = d.started /\ e.last = d.last
  BY <1>0, <1>1 DEF SpiStates
<1> QED BY <1>1, <1>2, <1>3, RunsAreBusy DEF SpiInv

\* One look of the transfer loop at the status register keeps the invariant.
LEMMA SpiPollKeeps ==
    ASSUME NEW d, SpiInv(d), d.call.op = "transfer", SpiSees(d)
    PROVE  SpiInv(SpiPoll(d))
<1>0. d \in SpiStates /\ d.call # Idle
  BY DEF SpiInv, Idle
<1>1. PICK c \in SpiRuns : c = d.call
  BY <1>0 DEF SpiStates
<1>2. PICK h \in SpiRegisters : h = d.hw
  BY <1>0 DEF SpiStates
<1>3. PICK x \in BOOLEAN : x = (h.dr = NoByte)
  OBVIOUS
<1>4. PICK y \in BOOLEAN : y = (h.rd # <<>>)
  OBVIOUS
<1>5. PICK b : b = [c EXCEPT !.pc = "write", !.txe = x, !.rxne = y]
  OBVIOUS
<1>6. /\ b \in SpiRuns /\ b.n = c.n /\ b.tx = c.tx /\ b.rx = c.rx /\ b.got = c.got
      /\ b.txe = x /\ b.rxne = y
  BY <1>1, <1>3, <1>4, <1>5 DEF SpiRuns
<1>7. SpiPoll(d) = [d EXCEPT !.call = b, !.hw = h]
  BY <1>0, <1>1, <1>2, <1>3, <1>4, <1>5 DEF SpiPoll, SpiStates, SpiRuns, Txe
<1>8. SpiRunAgrees(b, h) /\ SpiRegistersAgree(h)
  BY <1>0, <1>1, <1>2, <1>3, <1>4, <1>6 DEF SpiInv, SpiRunAgrees
<1>9. d.cut \/ SpiFlow(b, h, d.started)
  BY <1>0, <1>1, <1>2, <1>6 DEF SpiInv, SpiFlow
<1>10. b \in SpiRuns /\ h \in SpiRegisters
  BY <1>2, <1>6
<1> QED BY <1>0, <1>7, <1>8, <1>9, <1>10, SpiMoves

\* Writing the next word to the data register keeps the invariant.
LEMMA SpiWriteKeeps ==
    ASSUME NEW d, SpiInv(d), d.call.op = "transfer", d.call.pc = "write"
    PROVE  SpiInv(SpiWrite(d))
<1>0. d \in SpiStates /\ d.call # Idle
  BY DEF SpiInv, Idle
<1>1. PICK c \in SpiRuns : c = d.call
  BY <1>0 DEF SpiStates
<1>2. PICK h \in SpiRegisters : h = d.hw
  BY <1>0 DEF SpiStates
<1>3. SpiRunAgrees(c, h) /\ SpiRegistersAgree(h) /\ (d.cut \/ SpiFlow(c, h, d.started))
  BY <1>0, <1>1, <1>2 DEF SpiInv
<1>4. c.pc = "write" /\ c.n \in Nat /\ c.tx \in Nat /\ c.rx \in Nat
  BY <1>1 DEF SpiRuns
<1>5. CASE c.txe /\ c.tx < c.n
  <2>1. h.dr = NoByte
    BY <1>3, <1>4, <1>5 DEF SpiRunAgrees
  <2>2. PICK n \in Nat : n = c.tx + 1
    BY <1>4
  <2>3. PICK w : w = <<d.started, n>>
    OBVIOUS
  <2>4. w \in Words /\ w # NoByte
    <3>1. d.started \in Nat
      BY <1>0 DEF SpiStates
    <3> QED BY <1>4, <2>2, <2>3, <3>1 DEF Words, NoByte
  <2>5. PICK k : k = Written(h, w)
    OBVIOUS
  <2>6. k \in SpiRegisters /\ k.rd = h.rd /\ k.tc = FALSE
    BY <1>2, <2>4, <2>5 DEF Written, SpiRegisters
  <2>7. /\ h.sh = NoByte => k.sh = w /\ k.dr = NoByte
        /\ h.sh # NoByte => k.sh = h.sh /\ k.dr = w
    BY <1>2, <2>1, <2>5 DEF Written, SpiRegisters
  <2>8. PICK b : b = [c EXCEPT !.pc = "read", !.tx = n]
    OBVIOUS
  <2>9. /\ b \in SpiRuns /\ b.n = c.n /\ b.tx = n /\ b.rx = c.rx /\ b.got = c.got
        /\ b.txe = c.txe /\ b.rxne = c.rxne /\ b.pc = "read"
    BY <1>1, <2>2, <2>8 DEF SpiRuns
  <2>10. SpiWrite(d) = [d EXCEPT !.call = b, !.hw = k]
    BY <1>0, <1>1, <1>2, <1>5, <2>2, <2>3, <2>5, <2>8 DEF SpiWrite, SpiStates, SpiRuns
  <2>11. SpiRegistersAgree(k)
    BY <1>3, <2>4, <2>6, <2>7 DEF SpiRegistersAgree
  <2>12. SpiRunAgrees(b, k)
    BY <1>3, <1>4, <1>5, <2>2, <2>6, <2>9 DEF SpiRunAgrees
  <2>13. d.cut \/ SpiFlow(b, k, d.started)
    <3> SUFFICES ASSUME ~d.cut PROVE SpiFlow(b, k, d.started)
      OBVIOUS
    <3>1. PICK l \in Nat : l = Len(h.rd)
      BY <1>2 DEF SpiRegisters
    <3>2. SpiFlow(c, h, d.started)
      BY <1>3
    <3>3. CASE h.sh = NoByte
      <4>1. Units(h.sh) = 0 /\ Units(h.dr) = 0 /\ Units(k.sh) = 1 /\ Units(k.dr) = 0
        BY <2>1, <2>4, <2>7, <3>3 DEF Units
      <4>2. b.rx + Len(k.rd) + Units(k.sh) + Units(k.dr) = c.rx + l + 1
        BY <1>4, <2>6, <2>9, <3>1, <4>1
      <4>3. c.rx + l <= c.tx
        BY <1>4, <3>1, <3>2, <4>1 DEF SpiFlow
      <4>4. CASE c.rx + l = c.tx
        <5>1. /\ \A i \in 1 .. c.rx : c.got[i] = <<d.started, i>>
              /\ h.rd # <<>> => h.rd[1] = <<d.started, c.rx + 1>>
          BY <1>4, <3>1, <3>2, <4>1, <4>4, SMTT(60) DEF SpiFlow
        <5>2. k.sh = <<d.started, c.rx + l + 1>>
          BY <2>2, <2>3, <2>7, <3>3, <4>4
        <5> QED BY <1>4, <2>1, <2>2, <2>6, <2>7, <2>9, <3>1, <3>3, <4>2, <4>3, <5>1, <5>2, SMTT(60) DEF SpiFlow
      <4>5. CASE c.rx + l < c.tx
        BY <1>4, <2>2, <2>9, <4>2, <4>5 DEF SpiFlow
      <4> QED BY <1>4, <4>3, <4>4, <4>5
    <3>4. CASE h.sh # NoByte
      <4>1. Units(h.sh) = 1 /\ Units(h.dr) = 0 /\ Units(k.sh) = 1 /\ Units(k.dr) = 1
        BY <2>1, <2>4, <2>7, <3>4 DEF Units
      <4>2. b.rx + Len(k.rd) + Units(k.sh) + Units(k.dr) = c.rx + l + 2
        BY <1>4, <2>6, <2>9, <3>1, <4>1
      <4>3. c.rx + l + 1 <= c.tx
        BY <1>4, <3>1, <3>2, <4>1 DEF SpiFlow
      <4>4. CASE c.rx + l + 1 = c.tx
        <5>1. /\ \A i \in 1 .. c.rx : c.got[i] = <<d.started, i>>
              /\ h.rd # <<>> => h.rd[1] = <<d.started, c.rx + 1>>
              /\ h.sh = <<d.started, c.rx + l + 1>>
          BY <1>4, <3>1, <3>2, <3>4, <4>1, <4>4 DEF SpiFlow
        <5>2. k.dr = <<d.started, c.rx + l + 2>>
          BY <1>4, <2>2, <2>3, <2>7, <3>1, <3>4, <4>4
        <5> QED BY <1>4, <2>2, <2>6, <2>7, <2>9, <3>1, <3>4, <4>2, <4>3, <5>1, <5>2, SMTT(60) DEF SpiFlow
      <4>5. CASE c.rx + l + 1 < c.tx
        BY <1>4, <2>2, <2>9, <4>2, <4>5 DEF SpiFlow
      <4> QED BY <1>4, <4>3, <4>4, <4>5
    <3> QED BY <3>3, <3>4
  <2> QED BY <1>0, <2>6, <2>9, <2>10, <2>11, <2>12, <2>13, SpiMoves, ZenonT(60)
<1>6. CASE ~(c.txe /\ c.tx < c.n)
  <2>1. PICK b : b = [c EXCEPT !.pc = "read"]
    OBVIOUS
  <2>2. /\ b \in SpiRuns /\ b.n = c.n /\ b.tx = c.tx /\ b.rx = c.rx /\ b.got = c.got
        /\ b.txe = c.txe /\ b.rxne = c.rxne /\ b.pc = "read"
    BY <1>1, <2>1 DEF SpiRuns
  <2>3. SpiWrite(d) = [d EXCEPT !.call = b, !.hw = h]
    BY <1>0, <1>1, <1>2, <1>6, <2>1 DEF SpiWrite, SpiStates, SpiRuns
  <2>4. SpiRunAgrees(b, h)
    BY <1>3, <1>4, <2>2 DEF SpiRunAgrees
  <2>5. d.cut \/ SpiFlow(b, h, d.started)
    BY <1>3, <2>2 DEF SpiFlow
  <2> QED BY <1>0, <1>3, <2>2, <2>3, <2>4, <2>5, SpiMoves, ZenonT(60)
<1> QED BY <1>5, <1>6

\* Reading a word from the data register keeps the invariant.
LEMMA SpiReadKeeps ==
    ASSUME NEW d, SpiInv(d), d.call.op = "transfer", d.call.pc = "read"
    PROVE  SpiInv(SpiRead(d))
<1>0. d \in SpiStates /\ d.call # Idle
  BY DEF SpiInv, Idle
<1>1. PICK c \in SpiRuns : c = d.call
  BY <1>0 DEF SpiStates
<1>2. PICK h \in SpiRegisters : h = d.hw
  BY <1>0 DEF SpiStates
<1>3. SpiRunAgrees(c, h) /\ SpiRegistersAgree(h) /\ (d.cut \/ SpiFlow(c, h, d.started))
  BY <1>0, <1>1, <1>2 DEF SpiInv
<1>4. c.pc = "read" /\ c.n \in Nat /\ c.tx \in Nat /\ c.rx \in Nat /\ c.got \in Seq(Words)
  BY <1>1 DEF SpiRuns
<1>5. CASE c.rxne /\ c.rx < c.n
  <2>1. h.rd # <<>>
    BY <1>3, <1>4, <1>5 DEF SpiRunAgrees
  <2>2. h.rd \in Seq(Words) /\ Len(h.rd) = 1
    <3>1. h.rd \in Seq(Words)
      BY <1>2 DEF SpiRegisters
    <3>2. Len(h.rd) \in {0, 1}
      BY <1>3 DEF SpiRegistersAgree
    <3>3. PICK l \in Nat : l = Len(h.rd)
      BY <3>1
    <3>4. l # 0
      BY <2>1, <3>1, <3>3, EmptyHasNoLength
    <3>5. l = 1
      BY <3>2, <3>3, <3>4
    <3> QED BY <3>1, <3>3, <3>5
  <2>3. PICK w \in Words : w = Head(h.rd)
    BY <2>1, <2>2
  <2>4. w = h.rd[1]
    BY <2>1, <2>2, <2>3
  <2>5. PICK n \in Nat : n = c.rx + 1
    BY <1>4
  <2>6. PICK g : g = Append(c.got, w)
    OBVIOUS
  <2>7. /\ g \in Seq(Words) /\ Len(g) = n
        /\ g[n] = w /\ \A i \in 1 .. c.rx : g[i] = c.got[i]
    BY <1>3, <1>4, <2>3, <2>5, <2>6 DEF SpiRunAgrees
  <2>8. PICK k : k = [h EXCEPT !.rd = <<>>]
    OBVIOUS
  <2>9. k \in SpiRegisters /\ k.rd = <<>> /\ k.sh = h.sh /\ k.dr = h.dr /\ k.tc = h.tc
    <3>1. <<>> \in Seq(Words)
      OBVIOUS
    <3> QED BY <1>2, <2>8, <3>1 DEF SpiRegisters
  <2>10. PICK b : b = [c EXCEPT !.pc = "poll", !.rx = n, !.got = g]
    OBVIOUS
  <2>11. /\ b \in SpiRuns /\ b.n = c.n /\ b.tx = c.tx /\ b.rx = n /\ b.got = g /\ b.pc = "poll"
    BY <1>1, <2>5, <2>7, <2>10 DEF SpiRuns
  <2>12. SpiRead(d) = [d EXCEPT !.call = b, !.hw = k]
    BY <1>0, <1>1, <1>2, <1>5, <2>3, <2>5, <2>6, <2>8, <2>10 DEF SpiRead, SpiStates, SpiRuns
  <2>13. SpiRegistersAgree(k)
    BY <1>3, <2>9 DEF SpiRegistersAgree
  <2>14. SpiRunAgrees(b, k)
    BY <1>3, <1>4, <1>5, <2>5, <2>7, <2>11 DEF SpiRunAgrees
  <2>15. d.cut \/ SpiFlow(b, k, d.started)
    <3> SUFFICES ASSUME ~d.cut PROVE SpiFlow(b, k, d.started)
      OBVIOUS
    <3>1. SpiFlow(c, h, d.started)
      BY <1>3
    <3>2. PICK u \in Nat : u = Units(h.sh) + Units(h.dr)
      BY DEF Units
    <3>3. Units(h.sh) \in Nat /\ Units(h.dr) \in Nat
      BY DEF Units
    <3>4. c.rx + Len(h.rd) + Units(h.sh) + Units(h.dr) = n + u
      BY <1>4, <2>2, <2>5, <3>2, <3>3
    <3>5. b.rx + Len(k.rd) + Units(k.sh) + Units(k.dr) = n + u
      BY <2>5, <2>9, <2>11, <3>2, <3>3
    <3>6. n + u <= c.tx
      BY <3>1, <3>4 DEF SpiFlow
    <3>7. CASE n + u = c.tx
      <4>1. /\ \A i \in 1 .. c.rx : c.got[i] = <<d.started, i>>
            /\ h.rd[1] = <<d.started, c.rx + 1>>
            /\ h.sh # NoByte => h.sh = <<d.started, c.rx + 1 + 1>>
            /\ h.dr # NoByte => h.dr = <<d.started, c.rx + 1 + 2>>
        BY <2>1, <2>2, <3>1, <3>4, <3>7 DEF SpiFlow
      <4>2. \A i \in 1 .. n : g[i] = <<d.started, i>>
        <5>1. g[n] = <<d.started, n>>
          BY <2>4, <2>5, <2>7, <4>1
        <5>2. \A i \in 1 .. n : i = n \/ i \in 1 .. c.rx
          BY <1>4, <2>5
        <5>3. \A i \in 1 .. c.rx : g[i] = <<d.started, i>>
          BY <2>7, <4>1
        <5> QED BY <5>1, <5>2, <5>3
      <4>3. /\ k.sh # NoByte => k.sh = <<d.started, n + 0 + 1>>
            /\ k.dr # NoByte => k.dr = <<d.started, n + 0 + 2>>
        BY <1>4, <2>5, <2>9, <4>1
      <4> QED BY <2>9, <2>11, <3>5, <3>6, <4>2, <4>3 DEF SpiFlow
    <3>8. CASE n + u # c.tx
      BY <2>11, <3>5, <3>6, <3>8 DEF SpiFlow
    <3> QED BY <3>7, <3>8
  <2> QED BY <1>0, <2>9, <2>11, <2>12, <2>13, <2>14, <2>15, SpiMoves, ZenonT(60)
<1>6. CASE ~(c.rxne /\ c.rx < c.n)
  <2>1. PICK b : b = [c EXCEPT !.pc = "poll"]
    OBVIOUS
  <2>2. /\ b \in SpiRuns /\ b.n = c.n /\ b.tx = c.tx /\ b.rx = c.rx /\ b.got = c.got
        /\ b.txe = c.txe /\ b.rxne = c.rxne /\ b.pc = "poll"
    BY <1>1, <2>1 DEF SpiRuns
  <2>3. SpiRead(d) = [d EXCEPT !.call = b, !.hw = h]
    BY <1>0, <1>1, <1>2, <1>6, <2>1 DEF SpiRead, SpiStates, SpiRuns
  <2>4. SpiRunAgrees(b, h)
    BY <1>3, <1>4, <2>2 DEF SpiRunAgrees
  <2>5. d.cut \/ SpiFlow(b, h, d.started)
    BY <1>3, <2>2 DEF SpiFlow
  <2> QED BY <1>0, <1>3, <2>2, <2>3, <2>4, <2>5, SpiMoves, ZenonT(60)
<1> QED BY <1>5, <1>6

(***************************************************************************)
(* A word moves through the shift register.  One that comes back while the *)
(* last is not yet read is lost.                                           *)
(***************************************************************************)
LEMMA SpiShiftKeeps ==
    ASSUME NEW d, SpiInv(d), d.hw.sh # NoByte
    PROVE  SpiInv(SpiShifted(d))
<1>0. d \in SpiStates
  BY DEF SpiInv
<1>2. PICK h \in SpiRegisters : h = d.hw
  BY <1>0 DEF SpiStates
<1>3. SpiRegistersAgree(h) /\ h.sh # NoByte
  BY <1>2 DEF SpiInv
<1>4. NoByte \in Words /\ h.dr \in Words /\ h.sh \in Words /\ h.rd \in Seq(Words)
  BY <1>2 DEF SpiRegisters, Words, NoByte
<1>20. PICK one \in Seq(Words) : one = <<h.sh>> /\ Len(one) = 1 /\ one[1] = h.sh
  BY <1>4, OneWord
<1>5. PICK r \in Seq(Words) : r = IF h.rd = <<>> THEN one ELSE h.rd
  BY <1>4, <1>20
<1>6. /\ r # <<>> /\ Len(r) = 1
      /\ h.rd = <<>> => r[1] = h.sh
      /\ h.rd # <<>> => r = h.rd
  <2>1. CASE h.rd = <<>>
    <3>1. r = one
      BY <1>5, <2>1
    <3>2. one # <<>>
      BY <1>20
    <3> QED BY <1>20, <2>1, <3>1, <3>2
  <2>2. CASE h.rd # <<>>
    <3>1. PICK l \in Nat : l = Len(h.rd)
      BY <1>4
    <3>2. l # 0
      BY <1>4, <2>2, <3>1, EmptyHasNoLength
    <3>3. Len(h.rd) \in {0, 1}
      BY <1>3 DEF SpiRegistersAgree
    <3>4. r = h.rd
      BY <1>5, <2>2
    <3>5. l = 1
      BY <3>1, <3>2, <3>3
    <3> QED BY <2>2, <3>1, <3>4, <3>5
  <2> QED BY <2>1, <2>2
<1>7. PICK t \in BOOLEAN : t = (h.dr = NoByte)
  OBVIOUS
<1>8. PICK k : k = [sh |-> h.dr, dr |-> NoByte, tc |-> t, rd |-> r]
  OBVIOUS
<1>9. k \in SpiRegisters /\ k.sh = h.dr /\ k.dr = NoByte /\ k.tc = t /\ k.rd = r
  BY <1>4, <1>7, <1>8 DEF SpiRegisters
<1>10. SpiRegistersAgree(k)
  <2>1. Len(k.rd) = 1
    BY <1>6, <1>9
  <2> QED BY <1>7, <1>9, <2>1 DEF SpiRegistersAgree
<1>11. PICK e : e = [d EXCEPT !.hw = k]
  OBVIOUS
<1>12. e = SpiShifted(d)
  BY <1>2, <1>5, <1>7, <1>8, <1>11, <1>20 DEF SpiShifted
<1>13. e \in SpiStates
  BY <1>0, <1>9, <1>11 DEF SpiStates
<1>14. /\ e.ready = d.ready /\ e.on = d.on /\ e.up = d.up /\ e.running = d.running /\ e.port = d.port
       /\ e.cut = d.cut /\ e.cs = d.cs /\ e.call = d.call /\ e.hw = k /\ e.started = d.started /\ e.last = d.last
  BY <1>0, <1>11 DEF SpiStates
<1>15. CASE d.call = Idle
  <2>1. d.cut
    BY <1>2, <1>3, <1>15 DEF SpiInv, SpiReset
  <2> QED BY <1>10, <1>12, <1>13, <1>14, <1>15, <2>1 DEF SpiInv
<1>16. CASE d.call # Idle
  <2>1. PICK c \in SpiRuns : c = d.call
    BY <1>0, <1>16 DEF SpiStates
  <2>2. SpiRunAgrees(c, h) /\ (d.cut \/ SpiFlow(c, h, d.started))
    BY <1>2, <1>16, <2>1 DEF SpiInv
  <2>3. c.n \in Nat /\ c.tx \in Nat /\ c.rx \in Nat
    BY <2>1 DEF SpiRuns
  <2>4. SpiRunAgrees(c, k)
    BY <1>6, <1>9, <2>2 DEF SpiRunAgrees
  <2>5. d.cut \/ SpiFlow(c, k, d.started)
    <3> SUFFICES ASSUME SpiFlow(c, h, d.started) PROVE SpiFlow(c, k, d.started)
      BY <2>2
    <3>1. Units(h.sh) = 1 /\ Units(k.dr) = 0 /\ Units(k.sh) = Units(h.dr) /\ Units(h.dr) \in {0, 1}
      BY <1>3, <1>9 DEF Units
    <3>2. CASE h.rd = <<>>
      <4>1. Len(h.rd) = 0
        BY <3>2
      <4>2. /\ c.rx + Len(h.rd) + Units(h.sh) + Units(h.dr) = c.rx + 1 + Units(h.dr)
            /\ c.rx + Len(k.rd) + Units(k.sh) + Units(k.dr) = c.rx + 1 + Units(h.dr)
        <5>1. Len(k.rd) = 1
          BY <1>6, <1>9
        <5>2. PICK m \in {0, 1} : m = Units(h.dr)
          BY <3>1
        <5>3. /\ c.rx + 0 + 1 + m = c.rx + 1 + m
              /\ c.rx + 1 + m + 0 = c.rx + 1 + m
          BY <2>3, <5>2
        <5> QED BY <3>1, <4>1, <5>1, <5>2, <5>3
      <4>3. ASSUME c.rx + 1 + Units(h.dr) = c.tx
            PROVE  /\ \A i \in 1 .. c.rx : c.got[i] = <<d.started, i>>
                   /\ h.sh = <<d.started, c.rx + 1>>
                   /\ h.dr # NoByte => h.dr = <<d.started, c.rx + 2>>
        <5>1. c.rx + 0 + 1 = c.rx + 1 /\ c.rx + 0 + 2 = c.rx + 2
          BY <2>3
        <5> QED BY <1>3, <4>1, <4>2, <4>3, <5>1 DEF SpiFlow
      <4>4. c.rx + 1 + 1 = c.rx + 2
        BY <2>3
      <4>5. r[1] = h.sh
        BY <1>6, <3>2
      <4> QED BY <1>6, <1>9, <4>2, <4>3, <4>4, <4>5 DEF SpiFlow
    <3>3. CASE h.rd # <<>>
      <4>1. Len(h.rd) = 1 /\ Len(k.rd) = 1
        BY <1>6, <1>9, <3>3
      <4>2. c.rx + 1 + 1 + Units(h.dr) <= c.tx
        BY <2>3, <3>1, <4>1 DEF SpiFlow
      <4>3. c.rx + Len(k.rd) + Units(k.sh) + Units(k.dr) < c.tx
        BY <2>3, <3>1, <4>1, <4>2
      <4>4. c.rx + Len(k.rd) + Units(k.sh) + Units(k.dr) \in Nat
        BY <2>3, <3>1, <4>1
      <4> QED BY <2>3, <4>3, <4>4 DEF SpiFlow
    <3> QED BY <3>2, <3>3
  <2> QED BY <1>9, <1>10, <1>12, <1>16, <2>1, <2>4, <2>5, <1>13, <1>14 DEF SpiInv
<1> QED BY <1>15, <1>16

(***************************************************************************)
(* The end of a transfer.  When all words were written and all read back,  *)
(* none is left on the way, and so none was lost.                          *)
(***************************************************************************)
LEMMA SpiEndKeeps ==
    ASSUME NEW d, SpiInv(d), d.call.op = "transfer", NEW expired \in BOOLEAN, SpiMore(d.call) => expired
    PROVE  SpiInv(SpiEnd(d, expired))
<1>0. d \in SpiStates /\ d.call # Idle /\ d.port \in {"ch32", "am243x"}
  BY DEF SpiInv, SpiStates, Boards, Idle
<1>1. PICK c \in SpiRuns : c = d.call
  BY <1>0 DEF SpiStates
<1>2. PICK h \in SpiRegisters : h = d.hw
  BY <1>0 DEF SpiStates
<1>3. SpiRunAgrees(c, h) /\ SpiRegistersAgree(h) /\ (d.cut \/ SpiFlow(c, h, d.started))
  BY <1>0, <1>1, <1>2 DEF SpiInv
<1>4. c.n \in Nat /\ c.tx \in Nat /\ c.rx \in Nat /\ c.got \in Seq(Words)
  BY <1>1 DEF SpiRuns
<1>5. ASSUME ~SpiMore(c), ~d.cut
      PROVE  /\ h.rd = <<>> /\ h.sh = NoByte /\ h.dr = NoByte
             /\ c.got = [i \in 1 .. c.n |-> <<d.started, i>>]
  <2>1. c.tx = c.n /\ c.rx = c.n /\ Len(c.got) = c.n
    BY <1>3, <1>4, <1>5 DEF SpiMore, SpiRunAgrees
  <2>2. Units(h.sh) \in {0, 1} /\ Units(h.dr) \in {0, 1}
    BY DEF Units
  <2>3. PICK l \in Nat : l = Len(h.rd)
    BY <1>2 DEF SpiRegisters
  <2>4. c.n + l + Units(h.sh) + Units(h.dr) <= c.n
    BY <1>3, <1>5, <2>1, <2>3 DEF SpiFlow
  <2>5. l = 0 /\ Units(h.sh) = 0 /\ Units(h.dr) = 0
    BY <1>4, <2>2, <2>3, <2>4
  <2>6. c.rx + Len(h.rd) + Units(h.sh) + Units(h.dr) = c.tx
    BY <1>4, <2>1, <2>3, <2>5
  <2>7. \A i \in 1 .. c.n : c.got[i] = <<d.started, i>>
    BY <1>3, <1>5, <2>1, <2>6 DEF SpiFlow
  <2>8. c.got = [i \in 1 .. c.n |-> <<d.started, i>>]
    <3>1. c.got = [i \in 1 .. Len(c.got) |-> c.got[i]]
      BY <1>4
    <3> QED BY <2>1, <2>7, <3>1
  <2>9. h.rd \in Seq(Words)
    BY <1>2 DEF SpiRegisters
  <2>10. h.rd = <<>>
    BY <2>3, <2>5, <2>9, EmptyHasNoLength
  <2>11. h.sh = NoByte /\ h.dr = NoByte
    BY <2>5 DEF Units
  <2> QED BY <2>8, <2>10, <2>11
<1>6. ASSUME NEW s \in {"OK", "TIMEOUT"}, NEW k \in SpiRegisters, SpiRegistersAgree(k), NEW b \in BOOLEAN,
             d.port = "am243x" => ~b, ~b => k = SpiReset, s = "OK" => ~SpiMore(c) /\ b = d.cut,
             NEW e, e = [SpiLast(d, s) EXCEPT !.hw = k, !.cut = b]
      PROVE  SpiInv(e)
  <2>1. PICK l : l = [st |-> s, id |-> d.started, n |-> c.n, got |-> c.got, cut |-> d.cut]
    OBVIOUS
  <2>2. /\ l \in [st: SpiAnswers, id: Nat, n: Nat, got: Seq(Words), cut: BOOLEAN]
        /\ l.st = s /\ l.id = d.started /\ l.n = c.n /\ l.got = c.got /\ l.cut = d.cut
    BY <1>0, <1>4, <2>1 DEF SpiStates, SpiAnswers
  <2>3. e = [d EXCEPT !.st = s, !.call = Idle, !.cs = FALSE, !.last = l, !.hw = k, !.cut = b]
    BY <1>0, <1>1, <1>6, <2>1 DEF SpiLast, SpiStates
  <2>4. e \in SpiStates
    BY <1>0, <1>6, <2>2, <2>3, ZenonT(60) DEF SpiStates, SpiAnswers
  <2>5. /\ e.ready = d.ready /\ e.on = d.on /\ e.up = d.up /\ e.running = d.running /\ e.port = d.port
        /\ e.cut = b /\ e.cs = FALSE /\ e.call = Idle /\ e.hw = k /\ e.last = l
    BY <1>0, <2>3 DEF SpiStates
  <2>6. SpiLastAgrees(l)
    BY <1>5, <1>6, <2>2 DEF SpiLastAgrees
  <2> QED BY <1>6, <2>4, <2>5, <2>6 DEF SpiInv
<1>7. CASE d.port = "am243x"
  <2>1. PICK s \in {"OK", "TIMEOUT"} : s = IF expired \/ c.n = 0 THEN "TIMEOUT" ELSE "OK"
    OBVIOUS
  <2>2. s = "OK" => ~SpiMore(c)
    BY <1>1, <2>1
  <2>3. d.cut = FALSE
    <3>1. d.cut \in BOOLEAN /\ ~d.cut
      BY <1>0, <1>7 DEF SpiInv, SpiStates
    <3> QED BY <3>1
  <2>4. PICK e : e = SpiEnd(d, expired)
    OBVIOUS
  <2>5. e = [SpiLast(d, s) EXCEPT !.hw = SpiReset]
    BY <1>1, <1>7, <2>1, <2>4 DEF SpiEnd
  <2>6. SpiLast(d, s).cut = FALSE /\ SpiLast(d, s) = [SpiLast(d, s) EXCEPT !.cut = FALSE]
    BY <1>0, <2>3 DEF SpiLast, SpiStates
  <2>7. e = [SpiLast(d, s) EXCEPT !.hw = SpiReset, !.cut = FALSE]
    BY <2>5, <2>6 DEF SpiLast
  <2>8. SpiInv(e)
    BY <1>6, <2>2, <2>3, <2>7, SpiResetAgrees
  <2> QED BY <2>4, <2>8
<1>8. CASE d.port = "ch32" /\ (SpiMore(d.call) \/ ~d.hw.tc)
  <2>1. PICK e : e = SpiEnd(d, expired)
    OBVIOUS
  <2>2. e = [SpiLast(d, "TIMEOUT") EXCEPT !.cut = TRUE]
    BY <1>8, <2>1 DEF SpiEnd
  <2>3. e = [SpiLast(d, "TIMEOUT") EXCEPT !.hw = h, !.cut = TRUE]
    BY <1>0, <1>2, <2>2 DEF SpiLast, SpiStates
  <2>4. SpiInv(e)
    BY <1>2, <1>3, <1>6, <1>8, <2>3
  <2> QED BY <2>1, <2>4
<1>9. CASE d.port = "ch32" /\ ~(SpiMore(d.call) \/ ~d.hw.tc)
  <2>1. PICK e : e = SpiEnd(d, expired)
    OBVIOUS
  <2>2. e = SpiLast(d, "OK")
    BY <1>9, <2>1 DEF SpiEnd
  <2>3. PICK b \in BOOLEAN : b = d.cut
    BY <1>0 DEF SpiStates
  <2>4. e = [SpiLast(d, "OK") EXCEPT !.hw = h, !.cut = b]
    BY <1>0, <1>2, <2>2, <2>3 DEF SpiLast, SpiStates
  <2>5. ASSUME ~b PROVE h = SpiReset
    <3>1. h.rd = <<>> /\ h.sh = NoByte /\ h.dr = NoByte
      BY <1>1, <1>5, <1>9, <2>3, <2>5
    <3>2. h.tc = TRUE
      <4>1. h.tc \in BOOLEAN /\ h.tc
        BY <1>2, <1>9 DEF SpiRegisters
      <4> QED BY <4>1
    <3> QED BY <1>2, <3>1, <3>2 DEF SpiRegisters, SpiReset
  <2>6. SpiInv(e)
    BY <1>1, <1>2, <1>3, <1>6, <1>9, <2>3, <2>4, <2>5
  <2> QED BY <2>1, <2>6
<1> QED BY <1>0, <1>7, <1>8, <1>9

\* Every step of the SPI driver and its shift register keeps the invariant.
LEMMA SpiKept == SpiInv(drv) /\ SpiNext => SpiInv(drv')
<1> SUFFICES ASSUME SpiInv(drv), SpiNext PROVE SpiInv(drv')
  OBVIOUS
<1>1. CASE SpiLifeCycle
  BY <1>1, SpiLifeKeeps
<1>2. CASE SpiTransfers
  <2>1. PICK n \in 0 .. MaxLength + 1, fits \in BOOLEAN : drv' = SpiTransfer(drv, n, fits)
    BY <1>2 DEF SpiTransfers
  <2>2. n \in Nat
    BY <2>1, DriversAssumption
  <2> QED BY <1>2, <2>1, <2>2, SpiTransferKeeps DEF SpiTransfers, AtRest
<1>3. CASE SpiLoops
  BY <1>3, SpiPollKeeps, SpiWriteKeeps, SpiReadKeeps DEF SpiLoops
<1>4. CASE SpiEnds
  BY <1>4, SpiEndKeeps DEF SpiEnds
<1>5. CASE SpiShifts
  BY <1>5, SpiShiftKeeps DEF SpiShifts
<1> QED BY <1>1, <1>2, <1>3, <1>4, <1>5 DEF SpiNext

\* The invariant says of the SPI driver what the runs check.
LEMMA SpiShows == ASSUME NEW d, SpiInv(d) PROVE SpiTruth(d)
BY DEF SpiInv, SpiTruth, SpiLastAgrees, AtRest

\* A set of numbers that is not empty has a least member.
LEMMA LeastNumber ==
    ASSUME NEW S \in SUBSET Nat, S # {}
    PROVE  \E x \in S : \A y \in S : x <= y
<1>1. PICK x \in S : \A y \in S : ~ (<<y, x>> \in OpToRel(<, Nat))
  BY NatLessThanWellFounded, WFMin
<1>2. ASSUME NEW y \in S PROVE x <= y
  <2>1. <<y, x>> \in Nat \X Nat /\ ~ (<<y, x>> \in OpToRel(<, Nat))
    BY <1>1
  <2>2. ~ (y < x)
    BY <2>1 DEF OpToRel
  <2> QED BY <2>2
<1> QED BY <1>2

\* The definition of Scale, for periods up to N.
Solves(f, N) ==
    f = [q \in Nat \X (0 .. N) |-> IF q[2] < TimerWidth THEN q ELSE f[<<2 * q[1], q[2] \div 2>>]]

\* Half of a period too long for the register is smaller, and loses one at
\* most.
LEMMA Halves ==
    ASSUME NEW a \in Nat, ~(a < TimerWidth)
    PROVE  /\ a \div 2 \in Nat /\ a \div 2 < a /\ a \div 2 > 0
           /\ 2 * (a \div 2) <= a /\ a <= 2 * (a \div 2) + 1
<1>1. a > 1
  BY DriversAssumption
<1> QED BY <1>1

\* A table of the halvings (xDRV_TIMER prescaler loop) obeys the loop at each
\* of its places.
LEMMA SolutionAt ==
    ASSUME NEW N \in Nat, NEW f, Solves(f, N), NEW p \in Nat, NEW a \in 0 .. N
    PROVE  f[<<p, a>>] = IF a < TimerWidth THEN <<p, a>> ELSE f[<<2 * p, a \div 2>>]
<1>1. <<p, a>> \in Nat \X (0 .. N)
  OBVIOUS
<1> QED BY <1>1 DEF Solves

\* Two tables of the halvings agree where both are defined.
LEMMA SolutionsAgree ==
    ASSUME NEW M \in Nat, NEW N \in Nat, NEW f, NEW g, Solves(f, M), Solves(g, N)
    PROVE  \A a \in Nat : a <= M /\ a <= N => \A p \in Nat : f[<<p, a>>] = g[<<p, a>>]
<1>1. PICK B : B = {a \in Nat : a <= M /\ a <= N /\ \E p \in Nat : f[<<p, a>>] # g[<<p, a>>]}
  OBVIOUS
<1>2. ASSUME B # {} PROVE FALSE
  <2>1. PICK a \in B : \A b \in B : a <= b
    BY <1>1, <1>2, LeastNumber
  <2>2. a \in Nat /\ a <= M /\ a <= N
    BY <1>1
  <2>3. PICK p \in Nat : f[<<p, a>>] # g[<<p, a>>]
    BY <1>1
  <2>4. a \in 0 .. M /\ a \in 0 .. N
    BY <2>2
  <2>5. ~(a < TimerWidth) /\ f[<<2 * p, a \div 2>>] # g[<<2 * p, a \div 2>>]
    BY <2>3, <2>4, SolutionAt
  <2>6. PICK b \in Nat : b = a \div 2 /\ b < a
    BY <2>2, <2>5, Halves
  <2>7. b <= M /\ b <= N /\ 2 * p \in Nat
    BY <2>2, <2>6
  <2>8. b \in B
    BY <1>1, <2>5, <2>6, <2>7
  <2> QED BY <2>1, <2>2, <2>6, <2>8
<1> QED BY <1>1, <1>2

\* There is a table of the halvings for periods up to any bound.
LEMMA SolutionsExist == \A N \in Nat : \E f : Solves(f, N)
<1>1. PICK B : B = {N \in Nat : ~\E f : Solves(f, N)}
  OBVIOUS
<1>2. ASSUME B # {} PROVE FALSE
  <2>1. PICK N \in B : \A b \in B : N <= b
    BY <1>1, <1>2, LeastNumber
  <2>2. N \in Nat /\ ~\E f : Solves(f, N)
    BY <1>1
  <2>3. CASE N = 0
    <3>1. PICK f : f = [q \in Nat \X (0 .. N) |-> q]
      OBVIOUS
    <3>2. \A q \in Nat \X (0 .. N) : q[2] < TimerWidth
      BY <2>3, DriversAssumption
    <3>3. Solves(f, N)
      BY <3>1, <3>2 DEF Solves
    <3> QED BY <2>2, <3>3
  <2>4. CASE N # 0
    <3>1. PICK M \in Nat : M = N - 1
      BY <2>2, <2>4
    <3>2. M \notin B
      BY <2>1, <2>2, <3>1
    <3>3. PICK f : Solves(f, M)
      BY <1>1, <3>2
    <3>4. PICK g : g = [q \in Nat \X (0 .. N) |-> IF q[2] < TimerWidth THEN q ELSE f[<<2 * q[1], q[2] \div 2>>]]
      OBVIOUS
    <3>5. ASSUME NEW q \in Nat \X (0 .. N), ~(q[2] < TimerWidth)
          PROVE  f[<<2 * q[1], q[2] \div 2>>] = g[<<2 * q[1], q[2] \div 2>>]
      <4>1. PICK p \in Nat, a \in Nat : p = 2 * q[1] /\ a = q[2] \div 2 /\ a < q[2] /\ q[2] <= N /\ q[2] \in Nat
        BY <2>2, <3>5, Halves
      <4>2. a \in 0 .. N /\ a \in 0 .. M
        BY <2>2, <3>1, <4>1
      <4>3. f[<<p, a>>] = IF a < TimerWidth THEN <<p, a>> ELSE f[<<2 * p, a \div 2>>]
        BY <3>3, <4>2, SolutionAt
      <4>4. g[<<p, a>>] = IF a < TimerWidth THEN <<p, a>> ELSE f[<<2 * p, a \div 2>>]
        <5>1. <<p, a>> \in Nat \X (0 .. N)
          BY <4>2
        <5> QED BY <3>4, <5>1
      <4> QED BY <4>1, <4>3, <4>4
    <3>6. Solves(g, N)
      BY <3>4, <3>5 DEF Solves
    <3> QED BY <2>2, <3>6
  <2> QED BY <2>3, <2>4
<1> QED BY <1>1, <1>2

\* So there is one for all periods: the loop that scales a period ends.
LEMMA ScaleExists ==
    \E f : f = [q \in Nat \X Nat |-> IF q[2] < TimerWidth THEN q ELSE f[<<2 * q[1], q[2] \div 2>>]]
<1>1. PICK up : up = [N \in Nat |-> CHOOSE f : Solves(f, N)]
  OBVIOUS
<1>2. \A N \in Nat : Solves(up[N], N)
  BY <1>1, SolutionsExist
<1>3. PICK f : f = [q \in Nat \X Nat |-> up[q[2]][q]]
  OBVIOUS
<1>4. ASSUME NEW q \in Nat \X Nat
      PROVE  up[q[2]][q] = IF q[2] < TimerWidth THEN q ELSE f[<<2 * q[1], q[2] \div 2>>]
  <2>1. PICK p \in Nat, a \in Nat : p = q[1] /\ a = q[2] /\ q = <<p, a>>
    OBVIOUS
  <2>2. Solves(up[a], a) /\ a \in 0 .. a
    BY <1>2
  <2>3. up[a][<<p, a>>] = IF a < TimerWidth THEN <<p, a>> ELSE up[a][<<2 * p, a \div 2>>]
    BY <2>2, SolutionAt
  <2>4. CASE a < TimerWidth
    BY <2>1, <2>3, <2>4
  <2>5. CASE ~(a < TimerWidth)
    <3>1. PICK b \in Nat : b = a \div 2 /\ b < a
      BY <2>5, Halves
    <3>2. PICK r \in Nat : r = 2 * p
      OBVIOUS
    <3>3. up[a][<<r, b>>] = up[b][<<r, b>>]
      BY <1>2, <3>1, SolutionsAgree
    <3>4. f[<<r, b>>] = up[b][<<r, b>>]
      <4>1. <<r, b>> \in Nat \X Nat
        OBVIOUS
      <4> QED BY <1>3, <4>1
    <3> QED BY <2>1, <2>3, <2>5, <3>1, <3>2, <3>3, <3>4
  <2> QED BY <2>4, <2>5
<1> QED BY <1>3, <1>4

\* Scale does what one turn of the prescaler loop does.
LEMMA ScaleAt ==
    ASSUME NEW p \in Nat, NEW a \in Nat
    PROVE  Scale[<<p, a>>] = IF a < TimerWidth THEN <<p, a>> ELSE Scale[<<2 * p, a \div 2>>]
<1>1. Scale = [q \in Nat \X Nat |-> IF q[2] < TimerWidth THEN q ELSE Scale[<<2 * q[1], q[2] \div 2>>]]
  BY ScaleExists DEF Scale
<1>2. <<p, a>> \in Nat \X Nat
  OBVIOUS
<1> QED BY <1>1, <1>2

(***************************************************************************)
(* Halving the period while the prescaler doubles loses less than one step *)
(* of the prescaler.                                                       *)
(***************************************************************************)
ScaledFrom(s, p, a) ==
    /\ s \in Nat \X Nat /\ s[2] < TimerWidth
    /\ a > 0 => s[2] > 0
    /\ a < TimerWidth => s = <<p, a>>
    /\ \E m \in Nat : m > 0 /\ s[1] = p * m /\ m * s[2] <= a /\ a < m * s[2] + m

\* However often a period is halved, the cycles lost are fewer than the
\* prescaler.
LEMMA ScaleLosesLittle == \A a \in Nat : \A p \in Nat : ScaledFrom(Scale[<<p, a>>], p, a)
<1>1. PICK B : B = {a \in Nat : \E p \in Nat : ~ScaledFrom(Scale[<<p, a>>], p, a)}
  OBVIOUS
<1>2. ASSUME B # {} PROVE FALSE
  <2>1. PICK a \in B : \A b \in B : a <= b
    BY <1>1, <1>2, LeastNumber
  <2>2. PICK p \in Nat : ~ScaledFrom(Scale[<<p, a>>], p, a)
    BY <1>1
  <2>3. a \in Nat
    BY <1>1
  <2>4. CASE a < TimerWidth
    <3>1. PICK s : s = <<p, a>>
      OBVIOUS
    <3>2. s \in Nat \X Nat /\ s[1] = p /\ s[2] = a
      BY <2>3, <3>1
    <3>3. 1 \in Nat /\ 1 > 0 /\ p = p * 1 /\ 1 * a <= a /\ a < 1 * a + 1
      BY <2>3
    <3>4. ScaledFrom(s, p, a)
      BY <2>4, <3>1, <3>2, <3>3 DEF ScaledFrom
    <3>5. Scale[<<p, a>>] = s
      BY <2>3, <2>4, <3>1, ScaleAt
    <3> QED BY <2>2, <3>4, <3>5
  <2>5. CASE ~(a < TimerWidth)
    <3>1. PICK b \in Nat : b = a \div 2 /\ b < a /\ b > 0 /\ 2 * b <= a /\ a <= 2 * b + 1
      BY <2>3, <2>5, Halves
    <3>2. PICK r \in Nat : r = 2 * p
      OBVIOUS
    <3>3. PICK s : s = Scale[<<r, b>>]
      OBVIOUS
    <3>4. ScaledFrom(s, r, b)
      <4>1. b \notin B
        BY <2>1, <2>3, <3>1
      <4> QED BY <1>1, <3>3, <4>1
    <3>5. PICK m \in Nat : m > 0 /\ s[1] = r * m /\ m * s[2] <= b /\ b < m * s[2] + m
      BY <3>4 DEF ScaledFrom
    <3>6. PICK x \in Nat : x = s[2]
      BY <3>4 DEF ScaledFrom
    <3>7. PICK y \in Nat : y = m * x
      OBVIOUS
    <3>8. PICK n \in Nat : n = 2 * m /\ n > 0
      BY <3>5
    <3>9. n * x = 2 * y
      <4>1. (2 * m) * x = 2 * (m * x)
        OBVIOUS
      <4> QED BY <3>7, <3>8, <4>1
    <3>10. y <= b /\ b < y + m
      BY <3>5, <3>6, <3>7
    <3>11. n * x <= a /\ a < n * x + n
      BY <2>3, <3>1, <3>8, <3>9, <3>10
    <3>12. s[1] = p * n
      <4>1. (2 * p) * m = p * (2 * m)
        OBVIOUS
      <4> QED BY <3>2, <3>5, <3>8, <4>1
    <3>13. ScaledFrom(s, p, a)
      <4>1. s \in Nat \X Nat /\ s[2] < TimerWidth /\ s[2] > 0
        BY <3>1, <3>4 DEF ScaledFrom
      <4> QED BY <2>5, <3>6, <3>8, <3>11, <3>12, <4>1 DEF ScaledFrom
    <3>14. Scale[<<p, a>>] = s
      BY <2>3, <2>5, <3>1, <3>2, <3>3, ScaleAt
    <3> QED BY <2>2, <3>13, <3>14
  <2> QED BY <2>4, <2>5
<1> QED BY <1>1, <1>2

\* A number below the width of the register is its own remainder, the width
\* has none.
LEMMA Remainders ==
    ASSUME NEW w \in Nat \ {0}
    PROVE  /\ \A x \in Nat : x < w => x % w = x
           /\ w % w = 0
OBVIOUS

\* The period the CH32H417 port programs.
LEMMA Ch32PeriodIsClose ==
    ASSUME NEW p \in Nat \ {0}, NEW a \in Nat \ {0}, NEW s, s = Scale[<<p, a>>], s[1] <= TimerWidth
    PROVE  /\ Ch32Period(p, a) <= p * a /\ p * a - Ch32Period(p, a) < s[1]
           /\ a < TimerWidth => Ch32Period(p, a) = p * a
<1>1. ScaledFrom(s, p, a)
  BY ScaleLosesLittle
<1>2. PICK m \in Nat : m > 0 /\ s[1] = p * m /\ m * s[2] <= a /\ a < m * s[2] + m
  BY <1>1 DEF ScaledFrom
<1>3. PICK x \in Nat : x = s[1]
  BY <1>1 DEF ScaledFrom
<1>4. PICK y \in Nat : y = s[2]
  BY <1>1 DEF ScaledFrom
<1>5. x > 0 /\ x <= TimerWidth /\ y > 0 /\ y < TimerWidth
  <2>1. p * m > 0
    BY <1>2
  <2> QED BY <1>1, <1>2, <1>3, <1>4, <2>1 DEF ScaledFrom
<1>6. TimerWidth \in Nat \ {0}
  BY DriversAssumption
<1>7. (LessOne(x) % TimerWidth) + 1 = x /\ (LessOne(y) % TimerWidth) + 1 = y
  <2>1. LessOne(x) = x - 1 /\ LessOne(y) = y - 1
    BY <1>5 DEF LessOne
  <2>2. x - 1 \in Nat /\ y - 1 \in Nat /\ x - 1 < TimerWidth /\ y - 1 < TimerWidth
    BY <1>5, <1>6
  <2>3. (x - 1) % TimerWidth = x - 1 /\ (y - 1) % TimerWidth = y - 1
    BY <1>6, <2>2, Remainders
  <2> QED BY <2>1, <2>2, <2>3
<1>8. Ch32Period(p, a) = x * y
  BY <1>3, <1>4, <1>7 DEF Ch32Period
<1>9. PICK z \in Nat : z = m * y
  OBVIOUS
<1>10. x * y = p * z
  <2>1. (p * m) * y = p * (m * y)
    OBVIOUS
  <2> QED BY <1>2, <1>3, <1>9, <2>1
<1>11. z <= a /\ a < z + m
  BY <1>2, <1>4, <1>9
<1>12. PICK k \in Nat : a = z + k /\ k < m
  <2>1. a - z \in Nat /\ a = z + (a - z) /\ a - z < m
    BY <1>11
  <2> QED BY <2>1
<1>13. p * a = p * z + p * k /\ p * k \in Nat /\ p * k < p * m
  BY <1>12
<1>14. x * y <= p * a /\ p * a - x * y < x
  <2>1. PICK u \in Nat, v \in Nat : u = p * z /\ v = p * k
    OBVIOUS
  <2>2. p * a = u + v /\ x * y = u /\ v < x
    BY <1>2, <1>3, <1>10, <1>13, <2>1
  <2> QED BY <2>2
<1>15. ASSUME a < TimerWidth PROVE x = p /\ y = a
  BY <1>1, <1>3, <1>4, <1>15 DEF ScaledFrom
<1> QED BY <1>3, <1>8, <1>14, <1>15

\* The period the AM243x port programs.
LEMMA TiPeriodIsExact ==
    ASSUME NEW p \in Nat, NEW a \in Nat, p * a \in 1 .. TimerWidth
    PROVE  TiPeriod(p, a) = p * a
<1>1. PICK x \in Nat : x = p * a /\ x > 0 /\ x <= TimerWidth
  OBVIOUS
<1>2. TimerWidth \in Nat \ {0}
  BY DriversAssumption
<1>3. CASE x = TimerWidth
  <2>1. x % TimerWidth = 0 /\ (TimerWidth - 0) % TimerWidth = 0
    BY <1>2, <1>3, Remainders
  <2> QED BY <1>1, <1>2, <1>3, <2>1 DEF TiPeriod
<1>4. CASE x < TimerWidth
  <2>1. x % TimerWidth = x
    BY <1>2, <1>4, Remainders
  <2>2. PICK y \in Nat : y = TimerWidth - x /\ y < TimerWidth
    BY <1>1, <1>2, <1>4
  <2>3. y % TimerWidth = y
    BY <1>2, <2>2, Remainders
  <2>4. TimerWidth - y = x
    BY <1>2, <2>2
  <2> QED BY <1>1, <2>1, <2>2, <2>3, <2>4 DEF TiPeriod
<1> QED BY <1>1, <1>2, <1>3, <1>4

(***************************************************************************)
(* The invariant: the period is what Init programmed.                      *)
(***************************************************************************)
TimerStates ==
    [kind: {"timer"}, port: Boards, ready: BOOLEAN, up: BOOLEAN, call: {Idle}, counting: BOOLEAN, enabled: BOOLEAN,
     raised: BOOLEAN, clk: Nat, us: Nat, period: Int]

TimerInv(d) ==
    /\ d \in TimerStates
    /\ d.ready => d.clk > 0 /\ d.period = IF d.port = "ch32" THEN Ch32Period(d.clk, d.us) ELSE TiPeriod(d.clk, d.us)
    /\ d.port = "ch32" /\ d.counting => d.ready

\* A timer that was not set up (TimerOff) satisfies the invariant.
LEMMA TimerBegins ==
    ASSUME NEW b \in Boards
    PROVE  TimerInv(TimerOff(b))
<1>1. PICK d : d = TimerOff(b)
  OBVIOUS
<1>2. d \in TimerStates /\ ~d.ready /\ ~d.counting
  BY <1>1 DEF TimerOff, TimerStates
<1> QED BY <1>1, <1>2 DEF TimerInv

\* What both ports program is a number.
LEMMA PeriodsAreNumbers ==
    ASSUME NEW p \in Nat, NEW a \in Nat
    PROVE  Ch32Period(p, a) \in Int /\ TiPeriod(p, a) \in Int
<1>1. TimerWidth \in Nat \ {0}
  BY DriversAssumption
<1>2. TiPeriod(p, a) \in Int
  <2>1. PICK x \in Nat : x = p * a
    OBVIOUS
  <2>2. x % TimerWidth \in Int
    BY <1>1
  <2>3. (TimerWidth - (x % TimerWidth)) % TimerWidth \in Int
    BY <1>1, <2>2
  <2> QED BY <1>1, <2>1, <2>3 DEF TiPeriod
<1>3. PICK s : s = Scale[<<p, a>>]
  OBVIOUS
<1>4. PICK x \in Nat, y \in Nat : x = LessOne(s[1]) /\ y = LessOne(s[2])
  <2>1. s[1] \in Nat /\ s[2] \in Nat
    BY <1>3, ScaleLosesLittle DEF ScaledFrom
  <2> QED BY <2>1 DEF LessOne
<1>5. PICK u \in Int, v \in Int : u = x % TimerWidth /\ v = y % TimerWidth
  BY <1>1
<1>6. Ch32Period(p, a) = (u + 1) * (v + 1)
  BY <1>3, <1>4, <1>5 DEF Ch32Period
<1> QED BY <1>2, <1>6

\* Every step of the timer driver keeps its invariant.
LEMMA TimerKept ==
    ASSUME TimerInv(drv), TimerNext
    PROVE  TimerInv(drv')
<1>0. PICK d \in TimerStates : d = drv /\ TimerInv(d)
  BY DEF TimerInv
<1>1. CASE \E clk \in 1..4, us \in 0..4 * TimerWidth : drv' = TimerInit(drv, clk, us)
  <2>1. TimerWidth \in Nat
    BY DriversAssumption
  <2>2. PICK c \in Nat, u \in Nat : c > 0 /\ drv' = TimerInit(d, c, u)
    BY <1>0, <1>1, <2>1
  <2>3. PICK t \in Int : t = IF d.port = "ch32" THEN Ch32Period(c, u) ELSE TiPeriod(c, u)
    BY PeriodsAreNumbers
  <2>4. PICK r \in BOOLEAN : r = (d.port = "ch32")
    OBVIOUS
  <2>5. PICK e : e = [d EXCEPT !.ready = TRUE, !.up = TRUE, !.counting = FALSE, !.enabled = TRUE, !.raised = r,
                               !.clk = c, !.us = u, !.period = t]
    OBVIOUS
  <2>6. drv' = e
    BY <2>2, <2>3, <2>4, <2>5 DEF TimerInit
  <2>7. e \in TimerStates /\ e.port = d.port /\ e.clk = c /\ e.us = u /\ e.period = t /\ ~e.counting
    BY <2>5 DEF TimerStates
  <2> QED BY <2>2, <2>3, <2>6, <2>7 DEF TimerInv
<1>2. ASSUME NEW r \in BOOLEAN, NEW u \in BOOLEAN, NEW c \in BOOLEAN, NEW n \in BOOLEAN, NEW x \in BOOLEAN,
             drv' = [d EXCEPT !.ready = r, !.up = u, !.counting = c, !.enabled = n, !.raised = x],
             r => d.ready, d.port = "ch32" /\ c => r
      PROVE  TimerInv(drv')
  <2>1. PICK e : e = [d EXCEPT !.ready = r, !.up = u, !.counting = c, !.enabled = n, !.raised = x]
    OBVIOUS
  <2>2. /\ e \in TimerStates /\ e.port = d.port /\ e.clk = d.clk /\ e.us = d.us /\ e.period = d.period
        /\ e.ready = r /\ e.counting = c
    <3>1. e \in TimerStates
      BY <2>1, ZenonT(60) DEF TimerStates
    <3> QED BY <2>1, <3>1 DEF TimerStates
  <2> QED BY <1>0, <1>2, <2>1, <2>2 DEF TimerInv
<1>3. /\ d.ready \in BOOLEAN /\ d.up \in BOOLEAN /\ d.counting \in BOOLEAN /\ d.enabled \in BOOLEAN /\ d.raised \in BOOLEAN
      /\ d.port \in {"ch32", "am243x"} /\ (d.port = "ch32" /\ d.counting => d.ready)
  BY <1>0 DEF TimerInv, TimerStates, Boards
<1>4. CASE drv' = drv
  BY <1>0, <1>4
<1>5. CASE d.ready /\ drv' = TimerDeinit(drv)
  <2>1. CASE d.port = "ch32"
    <3>1. drv' = [d EXCEPT !.ready = FALSE, !.up = FALSE, !.counting = FALSE, !.enabled = FALSE, !.raised = d.raised]
      BY <1>0, <1>3, <1>5, <2>1 DEF TimerDeinit, TimerStates
    <3> QED BY <1>2, <1>3, <3>1
  <2>2. CASE d.port = "am243x"
    <3>1. drv' = [d EXCEPT !.ready = FALSE, !.up = FALSE, !.counting = d.counting, !.enabled = TRUE, !.raised = d.raised]
      BY <1>0, <1>3, <1>5, <2>2 DEF TimerDeinit, TimerStates
    <3> QED BY <1>2, <1>3, <2>2, <3>1
  <2> QED BY <1>3, <2>1, <2>2
<1>6. CASE d.ready /\ drv' = TimerStart(drv)
  <2>1. drv' = [d EXCEPT !.ready = d.ready, !.up = d.up, !.counting = TRUE, !.enabled = d.enabled, !.raised = d.raised]
    BY <1>0, <1>6 DEF TimerStart, TimerStates
  <2> QED BY <1>2, <1>3, <1>6, <2>1
<1>7. CASE d.ready /\ drv' = TimerStop(drv)
  <2>1. drv' = [d EXCEPT !.ready = d.ready, !.up = d.up, !.counting = FALSE, !.enabled = d.enabled, !.raised = d.raised]
    BY <1>0, <1>7 DEF TimerStop, TimerStates
  <2> QED BY <1>2, <1>3, <1>7, <2>1
<1>8. CASE d.ready /\ drv' = TimerClearIrq(drv)
  <2>1. drv' = [d EXCEPT !.ready = d.ready, !.up = d.up, !.counting = d.counting, !.enabled = d.enabled, !.raised = FALSE]
    BY <1>0, <1>8 DEF TimerClearIrq, TimerStates
  <2> QED BY <1>2, <1>3, <1>8, <2>1
<1>9. CASE drv.counting /\ drv' = [drv EXCEPT !.raised = TRUE]
  <2>1. drv' = [d EXCEPT !.ready = d.ready, !.up = d.up, !.counting = d.counting, !.enabled = d.enabled, !.raised = TRUE]
    BY <1>0, <1>9 DEF TimerStates
  <2> QED BY <1>2, <1>3, <2>1
<1> QED BY <1>0, <1>1, <1>4, <1>5, <1>6, <1>7, <1>8, <1>9
        DEF TimerNext, TimerDeinit, TimerStart, TimerStop, TimerClearIrq

\* The invariant says of the timer driver what the runs check.
LEMMA TimerShows ==
    ASSUME NEW d, TimerInv(d)
    PROVE  TimerTruth(d)
<1>1. d.clk \in Nat /\ d.us \in Nat /\ d.port \in {"ch32", "am243x"}
  BY DEF TimerInv, TimerStates, Boards
<1>2. PICK s : s = Scale[<<d.clk, d.us>>]
  OBVIOUS
<1>3. ASSUME d.ready, d.us > 0, d.port = "ch32", s[1] <= TimerWidth
      PROVE  /\ d.period <= d.clk * d.us /\ d.clk * d.us - d.period < s[1]
             /\ d.us < TimerWidth => d.period = d.clk * d.us
  <2>1. d.period = Ch32Period(d.clk, d.us) /\ d.clk \in Nat \ {0} /\ d.us \in Nat \ {0}
    BY <1>1, <1>3 DEF TimerInv
  <2> QED BY <1>2, <1>3, <2>1, Ch32PeriodIsClose
<1>4. ASSUME d.ready, d.port = "am243x", d.clk * d.us \in 1 .. TimerWidth
      PROVE  d.period = d.clk * d.us
  <2>1. d.period = TiPeriod(d.clk, d.us)
    BY <1>4 DEF TimerInv
  <2> QED BY <1>1, <1>4, <2>1, TiPeriodIsExact
<1> QED BY <1>2, <1>3, <1>4 DEF TimerTruth, TimerInv

(***************************************************************************)
(* I2C.  Where a transaction waits, and how many bytes have passed by then. *)
(***************************************************************************)
PointNames == {"start", "addr", "txe", "btf", "restart", "raddr", "rxne", "xrdy", "ardy", "rrdy", "bf"}
Points == [at: PointNames, i: Nat]

\* s has len points; those from number o + 1 to o + n, and no others, are p.
Lies(s, len, o, n, p) ==
    /\ s \in Seq(Points) /\ Len(s) = len
    /\ \A j \in 1 .. len :
        /\ s[j].at = p <=> o < j /\ j <= o + n
        /\ s[j].at = p => s[j].i = j - o

\* s has len points, none of them p.
Lacks(s, len, p) ==
    /\ s \in Seq(Points) /\ Len(s) = len
    /\ \A j \in 1 .. len : s[j].at # p

\* Points that are all alike lie where they stand.
LEMMA RepeatLies ==
    ASSUME NEW p \in PointNames, NEW n \in Nat
    PROVE  Lies(Repeat(p, n), n, 0, n, p) /\ \A q : q # p => Lacks(Repeat(p, n), n, q)
<1>1. PICK s : s = [i \in 1 .. n |-> [at |-> p, i |-> i]]
  OBVIOUS
<1>2. \A j \in 1 .. n : s[j] \in Points /\ s[j].at = p /\ s[j].i = j
  BY <1>1 DEF Points
<1>3. s \in Seq(Points) /\ Len(s) = n
  BY <1>1, <1>2
<1>4. \A j \in 1 .. n : 0 < j /\ j <= 0 + n /\ j = j - 0
  OBVIOUS
<1>5. Lies(s, n, 0, n, p)
  BY <1>2, <1>3, <1>4, Zenon DEF Lies
<1>6. \A q : q # p => Lacks(s, n, q)
  BY <1>2, <1>3, Zenon DEF Lacks
<1>7. s = Repeat(p, n)
  BY <1>1 DEF Repeat
<1> QED BY <1>5, <1>6, <1>7, Zenon

\* Of no points, none lies anywhere.
LEMMA NothingLies ==
    ASSUME NEW p, NEW o
    PROVE  Lies(<<>>, 0, o, 0, p) /\ Lacks(<<>>, 0, p)
<1>1. <<>> \in Seq(Points) /\ Len(<<>>) = 0 /\ 1 .. 0 = {}
  OBVIOUS
<1> QED BY <1>1 DEF Lies, Lacks

\* Where a point is missing it takes no place.
LEMMA LacksLies ==
    ASSUME NEW s, NEW len \in Nat, NEW p, Lacks(s, len, p), NEW o \in Nat
    PROVE  Lies(s, len, o, 0, p)
<1>1. \A j \in 1 .. len : ~(o < j /\ j <= o + 0)
  OBVIOUS
<1> QED BY <1>1 DEF Lies, Lacks

IsJoin(w, s, k, t, l) ==
    /\ w \in Seq(Points) /\ Len(w) = k + l
    /\ \A j \in 1 .. k : w[j] = s[j]
    /\ \A j \in 1 .. k + l : ~(j \in 1 .. k) => j - k \in 1 .. l /\ w[j] = t[j - k]

\* Two sequences of points, one after the other.
LEMMA Joined ==
    ASSUME NEW s, NEW k \in Nat, NEW t, NEW l \in Nat,
           s \in Seq(Points) /\ Len(s) = k /\ t \in Seq(Points) /\ Len(t) = l
    PROVE  IsJoin(s \o t, s, k, t, l)
BY DEF IsJoin

\* What both parts lack the whole lacks.
LEMMA LacksJoined ==
    ASSUME NEW s, NEW k \in Nat, NEW t, NEW l \in Nat, NEW p, Lacks(s, k, p), Lacks(t, l, p)
    PROVE  Lacks(s \o t, k + l, p)
<1>1. s \in Seq(Points) /\ Len(s) = k /\ t \in Seq(Points) /\ Len(t) = l
  BY DEF Lacks
<1>2. PICK w : w = s \o t
  OBVIOUS
<1>3. /\ w \in Seq(Points) /\ Len(w) = k + l
      /\ \A j \in 1 .. k : w[j] = s[j]
      /\ \A j \in 1 .. k + l : ~(j \in 1 .. k) => j - k \in 1 .. l /\ w[j] = t[j - k]
  <2>1. IsJoin(s \o t, s, k, t, l)
    BY <1>1, Joined, Zenon
  <2>2. IsJoin(w, s, k, t, l)
    BY <1>2, <2>1, Zenon
  <2> QED BY <2>2, Zenon DEF IsJoin
<1>4. \A j \in 1 .. k + l : w[j].at # p
  BY <1>3, Zenon DEF Lacks
<1> QED BY <1>2, <1>3, <1>4, Zenon DEF Lacks

\* The places of a point in the first part stay as they were.
LEMMA LiesBefore ==
    ASSUME NEW s, NEW k \in Nat, NEW t, NEW l \in Nat, NEW p, NEW o \in Nat, NEW n \in Nat,
           Lies(s, k, o, n, p), o + n <= k, Lacks(t, l, p)
    PROVE  Lies(s \o t, k + l, o, n, p)
<1>1. s \in Seq(Points) /\ Len(s) = k /\ t \in Seq(Points) /\ Len(t) = l
  BY DEF Lacks, Lies
<1>2. PICK w : w = s \o t
  OBVIOUS
<1>3. /\ w \in Seq(Points) /\ Len(w) = k + l
      /\ \A j \in 1 .. k : w[j] = s[j]
      /\ \A j \in 1 .. k + l : ~(j \in 1 .. k) => j - k \in 1 .. l /\ w[j] = t[j - k]
  <2>1. IsJoin(s \o t, s, k, t, l)
    BY <1>1, Joined, Zenon
  <2>2. IsJoin(w, s, k, t, l)
    BY <1>2, <2>1, Zenon
  <2> QED BY <2>2, Zenon DEF IsJoin
<1>4. ASSUME NEW j \in 1 .. k + l
      PROVE  /\ w[j].at = p <=> o < j /\ j <= o + n
             /\ w[j].at = p => w[j].i = j - o
  <2>1. CASE j \in 1 .. k
    BY <1>3, <2>1, Zenon DEF Lies
  <2>2. CASE ~(j \in 1 .. k)
    <3>1. w[j].at # p
      BY <1>3, <2>2, Zenon DEF Lacks
    <3>2. ~(j <= o + n)
      BY <2>2
    <3> QED BY <3>1, <3>2, Zenon
  <2> QED BY <2>1, <2>2
<1> QED BY <1>2, <1>3, <1>4, Zenon DEF Lies

\* Those in the second part move by the length of the first.
LEMMA LiesAfter ==
    ASSUME NEW s, NEW k \in Nat, NEW t, NEW l \in Nat, NEW p, NEW o \in Nat, NEW n \in Nat,
           Lacks(s, k, p), Lies(t, l, o, n, p)
    PROVE  Lies(s \o t, k + l, k + o, n, p)
<1>1. s \in Seq(Points) /\ Len(s) = k /\ t \in Seq(Points) /\ Len(t) = l
  BY DEF Lacks, Lies
<1>2. PICK w : w = s \o t
  OBVIOUS
<1>3. /\ w \in Seq(Points) /\ Len(w) = k + l
      /\ \A j \in 1 .. k : w[j] = s[j]
      /\ \A j \in 1 .. k + l : ~(j \in 1 .. k) => j - k \in 1 .. l /\ w[j] = t[j - k]
  <2>1. IsJoin(s \o t, s, k, t, l)
    BY <1>1, Joined, Zenon
  <2>2. IsJoin(w, s, k, t, l)
    BY <1>2, <2>1, Zenon
  <2> QED BY <2>2, Zenon DEF IsJoin
<1>4. ASSUME NEW j \in 1 .. k + l
      PROVE  /\ w[j].at = p <=> k + o < j /\ j <= (k + o) + n
             /\ w[j].at = p => w[j].i = j - (k + o)
  <2>1. CASE j \in 1 .. k
    <3>1. w[j].at # p
      BY <1>3, <2>1, Zenon DEF Lacks
    <3>2. ~(k + o < j)
      BY <2>1
    <3> QED BY <3>1, <3>2, Zenon
  <2>2. CASE ~(j \in 1 .. k)
    <3>1. PICK i \in 1 .. l : i = j - k /\ w[j] = t[i]
      BY <1>3, <2>2, Zenon
    <3>2. /\ t[i].at = p <=> o < i /\ i <= o + n
          /\ t[i].at = p => t[i].i = i - o
      BY <3>1, Zenon DEF Lies
    <3>3. (o < i <=> k + o < j) /\ (i <= o + n <=> j <= (k + o) + n) /\ i - o = j - (k + o)
      BY <3>1
    <3> QED BY <3>1, <3>2, <3>3, Zenon
  <2> QED BY <2>1, <2>2
<1> QED BY <1>2, <1>3, <1>4, Zenon DEF Lies

\* The names of the points at which a transaction waits.
LEMMA AllPointsNamed ==
    PointNames = {"start", "addr", "txe", "btf", "restart", "raddr", "rxne", "xrdy", "ardy", "rrdy", "bf"}
BY DEF PointNames

\* Two single points before a run of n.
LEMMA OpenedLies ==
    ASSUME NEW a \in PointNames, NEW b \in PointNames, NEW p \in PointNames, NEW n \in Nat, a # p, b # p
    PROVE  /\ Lies(Repeat(a, 1) \o Repeat(b, 1) \o Repeat(p, n), 2 + n, 2, n, p)
           /\ \A q : q \notin {a, b, p} => Lacks(Repeat(a, 1) \o Repeat(b, 1) \o Repeat(p, n), 2 + n, q)
<1>0. 1 \in Nat /\ 2 \in Nat /\ 0 \in Nat /\ 1 + 1 = 2 /\ 2 + 0 = 2
  OBVIOUS
<1>1. \A q : q # a => Lacks(Repeat(a, 1), 1, q)
  BY <1>0, RepeatLies, Zenon
<1>2. \A q : q # b => Lacks(Repeat(b, 1), 1, q)
  BY <1>0, RepeatLies, Zenon
<1>3. ASSUME NEW q, q # a, q # b PROVE Lacks(Repeat(a, 1) \o Repeat(b, 1), 2, q)
  <2>1. Lacks(Repeat(a, 1), 1, q) /\ Lacks(Repeat(b, 1), 1, q)
    BY <1>1, <1>2, <1>3, Zenon
  <2>2. Lacks(Repeat(a, 1) \o Repeat(b, 1), 1 + 1, q)
    BY <1>0, <2>1, LacksJoined, Zenon
  <2> QED BY <1>0, <2>2, Zenon
<1>4. Lies(Repeat(a, 1) \o Repeat(b, 1) \o Repeat(p, n), 2 + n, 2, n, p)
  <2>1. Lacks(Repeat(a, 1) \o Repeat(b, 1), 2, p)
    BY <1>3, Zenon
  <2>2. Lies(Repeat(p, n), n, 0, n, p)
    BY RepeatLies, Zenon
  <2>3. Lies((Repeat(a, 1) \o Repeat(b, 1)) \o Repeat(p, n), 2 + n, 2 + 0, n, p)
    BY <1>0, <2>1, <2>2, LiesAfter, Zenon
  <2> QED BY <1>0, <2>3, Zenon
<1>5. ASSUME NEW q, q \notin {a, b, p} PROVE Lacks(Repeat(a, 1) \o Repeat(b, 1) \o Repeat(p, n), 2 + n, q)
  <2>0. q # a /\ q # b /\ q # p
    BY <1>5, Zenon
  <2>1. Lacks(Repeat(a, 1) \o Repeat(b, 1), 2, q)
    BY <1>3, <2>0, Zenon
  <2>2. Lacks(Repeat(p, n), n, q)
    BY <2>0, RepeatLies, Zenon
  <2>3. Lacks((Repeat(a, 1) \o Repeat(b, 1)) \o Repeat(p, n), 2 + n, q)
    BY <1>0, <2>1, <2>2, LacksJoined, Zenon
  <2> QED BY <2>3, Zenon
<1> QED BY <1>4, <1>5, Zenon

\* A single point.
LEMMA OneLies ==
    ASSUME NEW a \in PointNames
    PROVE  Lies(Repeat(a, 1), 1, 0, 1, a) /\ \A q : q # a => Lacks(Repeat(a, 1), 1, q)
<1>1. 1 \in Nat
  OBVIOUS
<1> QED BY <1>1, RepeatLies, Zenon

Writes(tx) == Repeat("start", 1) \o Repeat("addr", 1) \o Repeat("txe", tx) \o Repeat("btf", 1)
Reads(rx) == Repeat("restart", 1) \o Repeat("raddr", 1) \o Repeat("rxne", rx)

\* In a write the waits for the transmitter follow START and address, one for
\* each byte.
LEMMA WritesLie ==
    ASSUME NEW tx \in Nat
    PROVE  Lies(Writes(tx), tx + 3, 2, tx, "txe") /\ Lacks(Writes(tx), tx + 3, "rxne")
<1>0. "start" \in PointNames /\ "addr" \in PointNames /\ "txe" \in PointNames /\ "btf" \in PointNames
  BY AllPointsNamed
<1>1. PICK s : s = Repeat("start", 1) \o Repeat("addr", 1) \o Repeat("txe", tx)
  OBVIOUS
<1>2. Lies(s, 2 + tx, 2, tx, "txe") /\ Lacks(s, 2 + tx, "rxne")
  <2>1. "start" # "txe" /\ "addr" # "txe" /\ "rxne" \notin {"start", "addr", "txe"}
    OBVIOUS
  <2>2. /\ Lies(Repeat("start", 1) \o Repeat("addr", 1) \o Repeat("txe", tx), 2 + tx, 2, tx, "txe")
        /\ Lacks(Repeat("start", 1) \o Repeat("addr", 1) \o Repeat("txe", tx), 2 + tx, "rxne")
    BY <1>0, <2>1, OpenedLies, Zenon
  <2> QED BY <1>1, <2>2, Zenon
<1>3. Lacks(Repeat("btf", 1), 1, "txe") /\ Lacks(Repeat("btf", 1), 1, "rxne")
  <2>1. "txe" # "btf" /\ "rxne" # "btf"
    OBVIOUS
  <2> QED BY <1>0, <2>1, OneLies, Zenon
<1>4. 2 + tx \in Nat /\ 1 \in Nat /\ 2 \in Nat /\ 2 + tx <= 2 + tx /\ (2 + tx) + 1 = tx + 3
  OBVIOUS
<1>5. Lies(s \o Repeat("btf", 1), (2 + tx) + 1, 2, tx, "txe")
  BY <1>2, <1>3, <1>4, LiesBefore, Zenon
<1>6. Lacks(s \o Repeat("btf", 1), (2 + tx) + 1, "rxne")
  BY <1>2, <1>3, <1>4, LacksJoined, Zenon
<1>7. s \o Repeat("btf", 1) = Writes(tx)
  BY <1>1, Zenon DEF Writes
<1> QED BY <1>4, <1>5, <1>6, <1>7, Zenon

\* In a read the waits for the receiver follow START and address, one for each
\* byte.
LEMMA ReadsLie ==
    ASSUME NEW rx \in Nat
    PROVE  Lies(Reads(rx), 2 + rx, 2, rx, "rxne") /\ Lacks(Reads(rx), 2 + rx, "txe")
<1>0. "restart" \in PointNames /\ "raddr" \in PointNames /\ "rxne" \in PointNames
  BY AllPointsNamed
<1>1. "restart" # "rxne" /\ "raddr" # "rxne" /\ "txe" \notin {"restart", "raddr", "rxne"}
  OBVIOUS
<1> QED BY <1>0, <1>1, OpenedLies, Zenon DEF Reads

\* A transaction of the CH32H417 port, its write of m points before its read.
LEMMA Ch32PointsLie ==
    ASSUME NEW tx \in Nat, NEW rx \in Nat
    PROVE  \E len, m \in Nat :
              /\ len = m + (IF rx = 0 THEN 0 ELSE 2 + rx) /\ m = IF tx = 0 THEN 0 ELSE tx + 3
              /\ Lies(Ch32Points(tx, rx), len, 2, tx, "txe") /\ Lies(Ch32Points(tx, rx), len, m + 2, rx, "rxne")
<1>0. 0 \in Nat /\ 2 \in Nat
  OBVIOUS
<1>10. PICK a : a = IF tx = 0 THEN <<>> ELSE Writes(tx)
  OBVIOUS
<1>1. PICK m \in Nat :
         /\ m = IF tx = 0 THEN 0 ELSE tx + 3
         /\ Lies(a, m, 2, tx, "txe") /\ Lacks(a, m, "rxne")
  <2>1. CASE tx = 0
    <3>1. Lies(<<>>, 0, 2, 0, "txe") /\ Lacks(<<>>, 0, "rxne")
      BY NothingLies, Zenon
    <3> QED BY <1>0, <1>10, <2>1, <3>1, Zenon
  <2>2. CASE tx # 0
    <3>1. tx + 3 \in Nat
      OBVIOUS
    <3>2. Lies(Writes(tx), tx + 3, 2, tx, "txe") /\ Lacks(Writes(tx), tx + 3, "rxne")
      BY WritesLie, Zenon
    <3> QED BY <1>10, <2>2, <3>1, <3>2, Zenon
  <2> QED BY <2>1, <2>2, Zenon
<1>20. PICK b : b = IF rx = 0 THEN <<>> ELSE Reads(rx)
  OBVIOUS
<1>2. PICK l \in Nat :
         /\ l = IF rx = 0 THEN 0 ELSE 2 + rx
         /\ Lies(b, l, 2, rx, "rxne") /\ Lacks(b, l, "txe")
  <2>1. CASE rx = 0
    <3>1. Lies(<<>>, 0, 2, 0, "rxne") /\ Lacks(<<>>, 0, "txe")
      BY NothingLies, Zenon
    <3> QED BY <1>0, <1>20, <2>1, <3>1, Zenon
  <2>2. CASE rx # 0
    <3>1. 2 + rx \in Nat
      OBVIOUS
    <3>2. Lies(Reads(rx), 2 + rx, 2, rx, "rxne") /\ Lacks(Reads(rx), 2 + rx, "txe")
      BY ReadsLie, Zenon
    <3> QED BY <1>20, <2>2, <3>1, <3>2, Zenon
  <2> QED BY <2>1, <2>2, Zenon
<1>3. a \o b = Ch32Points(tx, rx)
  BY <1>10, <1>20, Zenon DEF Ch32Points, Writes, Reads
<1>4. Lies(a \o b, m + l, m + 2, rx, "rxne")
  BY <1>0, <1>1, <1>2, LiesAfter, Zenon
<1>5. Lies(a \o b, m + l, 2, tx, "txe")
  <2>1. CASE tx = 0
    <3>1. Lacks(a, m, "txe")
      <4>1. Lies(a, m, 2, 0, "txe")
        BY <1>1, <2>1, Zenon
      <4>2. \A j \in 1 .. m : ~(2 < j /\ j <= 2 + 0)
        OBVIOUS
      <4> QED BY <4>1, <4>2, Zenon DEF Lies, Lacks
    <3>2. Lacks(a \o b, m + l, "txe")
      BY <1>1, <1>2, <3>1, LacksJoined, Zenon
    <3>3. m + l \in Nat
      BY <1>1, <1>2
    <3>4. Lies(a \o b, m + l, 2, 0, "txe")
      BY <1>0, <3>2, <3>3, LacksLies, Zenon
    <3> QED BY <2>1, <3>4, Zenon
  <2>2. CASE tx # 0
    <3>1. 2 + tx <= m
      BY <1>1, <2>2
    <3> QED BY <1>0, <1>1, <1>2, <3>1, LiesBefore, Zenon
  <2> QED BY <2>1, <2>2, Zenon
<1>6. PICK len \in Nat : len = m + l
  OBVIOUS
<1>7. len = m + (IF rx = 0 THEN 0 ELSE 2 + rx)
  BY <1>2, <1>6
<1> QED BY <1>1, <1>3, <1>4, <1>5, <1>6, <1>7, Zenon

\* A transaction of the AM243x port.
LEMMA TiPointsLie ==
    ASSUME NEW tx \in Nat, NEW rx \in Nat
    PROVE  \E len, m \in Nat :
              /\ tx <= m /\ len = m + rx + 1
              /\ Lies(TiPoints(tx, rx), len, 0, tx, "xrdy") /\ Lies(TiPoints(tx, rx), len, m, rx, "rrdy")
<1>0. 0 \in Nat /\ 1 \in Nat
  OBVIOUS
<1>1. "xrdy" \in PointNames /\ "ardy" \in PointNames /\ "rrdy" \in PointNames /\ "bf" \in PointNames
  BY AllPointsNamed
<1>2. /\ "xrdy" # "ardy" /\ "xrdy" # "rrdy" /\ "xrdy" # "bf" /\ "rrdy" # "xrdy" /\ "rrdy" # "ardy" /\ "rrdy" # "bf"
  OBVIOUS
<1>3. PICK a : a = IF tx = 0 THEN <<>> ELSE Repeat("ardy", 1)
  OBVIOUS
<1>4. PICK k \in Nat : Lacks(a, k, "xrdy") /\ Lacks(a, k, "rrdy")
  <2>1. CASE tx = 0
    <3>1. Lacks(<<>>, 0, "xrdy") /\ Lacks(<<>>, 0, "rrdy")
      BY NothingLies, Zenon
    <3> QED BY <1>0, <1>3, <2>1, <3>1, Zenon
  <2>2. CASE tx # 0
    <3>1. Lacks(Repeat("ardy", 1), 1, "xrdy") /\ Lacks(Repeat("ardy", 1), 1, "rrdy")
      BY <1>1, <1>2, OneLies, Zenon
    <3> QED BY <1>0, <1>3, <2>2, <3>1, Zenon
  <2> QED BY <2>1, <2>2, Zenon
<1>5. Lies(Repeat("xrdy", tx), tx, 0, tx, "xrdy") /\ Lacks(Repeat("xrdy", tx), tx, "rrdy")
  BY <1>1, <1>2, RepeatLies, Zenon
<1>6. Lies(Repeat("rrdy", rx), rx, 0, rx, "rrdy") /\ Lacks(Repeat("rrdy", rx), rx, "xrdy")
  BY <1>1, <1>2, RepeatLies, Zenon
<1>7. Lacks(Repeat("bf", 1), 1, "xrdy") /\ Lacks(Repeat("bf", 1), 1, "rrdy")
  BY <1>1, <1>2, OneLies, Zenon
<1>8. PICK m \in Nat : m = tx + k
  OBVIOUS
<1>9. PICK r \in Nat : r = m + rx
  OBVIOUS
<1>10. 0 + tx <= tx /\ 0 + tx <= m /\ 0 + tx <= r /\ m + 0 = m /\ m + rx <= r
  BY <1>8, <1>9
<1>11. Lies(Repeat("xrdy", tx) \o a, m, 0, tx, "xrdy") /\ Lacks(Repeat("xrdy", tx) \o a, m, "rrdy")
  <2>1. Lies(Repeat("xrdy", tx) \o a, tx + k, 0, tx, "xrdy")
    BY <1>0, <1>4, <1>5, <1>10, LiesBefore, Zenon
  <2>2. Lacks(Repeat("xrdy", tx) \o a, tx + k, "rrdy")
    BY <1>4, <1>5, LacksJoined, Zenon
  <2> QED BY <1>8, <2>1, <2>2, Zenon
<1>12. PICK s : s = Repeat("xrdy", tx) \o a
  OBVIOUS
<1>13. Lies(s, m, 0, tx, "xrdy") /\ Lacks(s, m, "rrdy")
  BY <1>11, <1>12, Zenon
<1>14. Lies(s \o Repeat("rrdy", rx), m + rx, 0, tx, "xrdy") /\ Lies(s \o Repeat("rrdy", rx), m + rx, m + 0, rx, "rrdy")
  <2>1. Lies(s \o Repeat("rrdy", rx), m + rx, 0, tx, "xrdy")
    BY <1>0, <1>6, <1>10, <1>13, LiesBefore, Zenon
  <2>2. Lies(s \o Repeat("rrdy", rx), m + rx, m + 0, rx, "rrdy")
    BY <1>0, <1>6, <1>13, LiesAfter, Zenon
  <2> QED BY <2>1, <2>2, Zenon
<1>15. PICK t : t = s \o Repeat("rrdy", rx)
  OBVIOUS
<1>16. Lies(t, r, 0, tx, "xrdy") /\ Lies(t, r, m, rx, "rrdy")
  BY <1>9, <1>10, <1>14, <1>15, Zenon
<1>17. Lies(t \o Repeat("bf", 1), r + 1, 0, tx, "xrdy") /\ Lies(t \o Repeat("bf", 1), r + 1, m, rx, "rrdy")
  <2>1. Lies(t \o Repeat("bf", 1), r + 1, 0, tx, "xrdy")
    BY <1>0, <1>7, <1>10, <1>16, LiesBefore, Zenon
  <2>2. Lies(t \o Repeat("bf", 1), r + 1, m, rx, "rrdy")
    BY <1>0, <1>7, <1>10, <1>16, LiesBefore, Zenon
  <2> QED BY <2>1, <2>2, Zenon
<1>18. t \o Repeat("bf", 1) = TiPoints(tx, rx)
  BY <1>3, <1>12, <1>15, Zenon DEF TiPoints
<1>19. PICK len \in Nat : len = r + 1
  OBVIOUS
<1>20. tx <= m /\ len = m + rx + 1
  BY <1>8, <1>9, <1>19
<1> QED BY <1>17, <1>18, <1>19, <1>20, Zenon

\* The bytes that have passed at the first k points.
LEMMA Counted ==
    ASSUME NEW s, NEW len \in Nat, NEW o \in Nat, NEW n \in Nat, NEW p, Lies(s, len, o, n, p), NEW k \in 0 .. len
    PROVE  Bytes(s, k, {p}) = IF k <= o THEN 0 ELSE IF k >= o + n THEN n ELSE k - o
<1>1. PICK m \in Nat : m = IF k <= o THEN o ELSE IF k >= o + n THEN o + n ELSE k
  OBVIOUS
<1>2. ASSUME NEW i \in 1 .. k PROVE s[i].at = p <=> i \in o + 1 .. m
  <2>1. i \in 1 .. len
    OBVIOUS
  <2>2. s[i].at = p <=> o < i /\ i <= o + n
    BY <2>1 DEF Lies
  <2> QED BY <1>1, <2>2
<1>3. \A i \in o + 1 .. m : i \in 1 .. k
  BY <1>1
<1>4. {i \in 1 .. k : s[i].at \in {p}} = o + 1 .. m
  BY <1>2, <1>3, Zenon
<1>5. Cardinality(o + 1 .. m) = IF o + 1 > m THEN 0 ELSE m - (o + 1) + 1
  <2>1. o + 1 \in Int /\ m \in Int
    OBVIOUS
  <2> QED BY <2>1, FS_Interval, Zenon
<1>6. Bytes(s, k, {p}) = IF o + 1 > m THEN 0 ELSE m - (o + 1) + 1
  BY <1>4, <1>5, Zenon DEF Bytes
<1> QED BY <1>1, <1>6

\* A refusal takes back one byte at most, and only a NACK does.
LEMMA RefusedAtMostOne ==
    ASSUME NEW w, NEW passed, NEW k, NEW why, NEW K
    PROVE  /\ Refusal(w, passed, k, why, K) \in {0, 1}
           /\ k = 0 \/ why # "NACK" => Refusal(w, passed, k, why, K) = 0
BY DEF Refusal

I2cAnswers == I2cFaults \cup {"none", "OK", "NOT_INITIALIZED", "INVALID_STATE", "NOT_STARTED", "UNSUPPORTED"}
I2cLast == [st: I2cAnswers, tx: Nat, rx: Nat, sent: Int, read: Int]
I2cStates ==
    [kind: {"i2c"}, port: Boards, ready: BOOLEAN, on: BOOLEAN, up: BOOLEAN, running: BOOLEAN, st: I2cAnswers,
     call: {Idle}, held: BOOLEAN, late: BOOLEAN, started: Nat, last: I2cLast]

\* What a transaction has left on the bus agrees with what it answered.
BusAgrees(port, held, late, l) ==
    /\ l.st = "OK" => l.read = l.rx /\ (l.sent = l.tx \/ (late /\ l.sent = l.tx - 1))
    /\ held /\ port = "ch32" => l.st = "TIMEOUT" /\ l.read < l.rx - 1 /\ l.sent \in {0, l.tx}
    /\ held /\ port = "am243x" => l.st # "OK"

I2cInv(d) ==
    /\ d \in I2cStates
    /\ (d.ready => d.up) /\ (d.on => d.ready /\ d.running)
    /\ BusAgrees(d.port, d.held, d.late, d.last)

\* The answers of the driver.
LEMMA I2cAnswerNames ==
    \A s : s \in I2cAnswers <=> s \in {"NACK", "ARBITRATION_LOST", "BUS_ERROR", "TIMEOUT", "none", "OK",
                                       "NOT_INITIALIZED", "INVALID_STATE", "NOT_STARTED", "UNSUPPORTED"}
BY DEF I2cAnswers, I2cFaults

\* A driver that was not set up (I2cOff) satisfies the invariant.
LEMMA I2cOffAgrees ==
    ASSUME NEW b \in Boards
    PROVE  I2cInv(I2cOff(b))
<1>1. PICK l : l = [st |-> "none", tx |-> 0, rx |-> 0, sent |-> 0, read |-> 0]
  OBVIOUS
<1>2. l \in I2cLast /\ l.st = "none"
  BY <1>1, I2cAnswerNames DEF I2cLast
<1>3. PICK d : d = I2cOff(b)
  OBVIOUS
<1>4. d = [kind |-> "i2c", port |-> b, ready |-> FALSE, on |-> FALSE, up |-> FALSE, running |-> FALSE,
           st |-> "OK", call |-> Idle, held |-> FALSE, late |-> FALSE, started |-> 0, last |-> l]
  BY <1>1, <1>3 DEF I2cOff
<1>5. d \in I2cStates
  BY <1>2, <1>4, I2cAnswerNames DEF I2cStates
<1>6. ~d.ready /\ ~d.on /\ ~d.held /\ d.last = l
  BY <1>4
<1> QED BY <1>2, <1>3, <1>5, <1>6 DEF I2cInv, BusAgrees

\* Calls of the life cycle, and the STOP that comes at last, release the bus or
\* leave it.
I2cTurned(d, r, o, u, w, s, h) ==
    [d EXCEPT !.ready = r, !.on = o, !.up = u, !.running = w, !.st = s, !.held = h]

\* Setting up, starting, stopping or shutting down keeps the invariant; the
\* bus is at most let go.
LEMMA I2cTurns ==
    ASSUME NEW d, I2cInv(d), NEW r \in BOOLEAN, NEW o \in BOOLEAN, NEW u \in BOOLEAN,
           NEW w \in BOOLEAN, NEW s \in I2cAnswers, r => u, o => r /\ w, NEW h \in BOOLEAN, h => d.held
    PROVE  I2cInv(I2cTurned(d, r, o, u, w, s, h))
<1>0. d \in I2cStates
  BY DEF I2cInv
<1>1. PICK e : e = I2cTurned(d, r, o, u, w, s, h)
  OBVIOUS
<1>2. e \in I2cStates
  BY <1>0, <1>1, ZenonT(60) DEF I2cStates, I2cTurned
<1>3. /\ e.ready = r /\ e.on = o /\ e.up = u /\ e.running = w /\ e.port = d.port /\ e.held = h
      /\ e.late = d.late /\ e.last = d.last
  BY <1>0, <1>1 DEF I2cStates, I2cTurned
<1>4. BusAgrees(d.port, h, d.late, d.last)
  BY DEF I2cInv, BusAgrees
<1> QED BY <1>1, <1>2, <1>3, <1>4 DEF I2cInv

\* A call that only answers keeps the invariant.
LEMMA I2cStays ==
    ASSUME NEW d, I2cInv(d), NEW s \in I2cAnswers
    PROVE  I2cInv([d EXCEPT !.st = s])
<1>0. d \in I2cStates
  BY DEF I2cInv
<1>1. PICK e : e = [d EXCEPT !.st = s]
  OBVIOUS
<1>2. e \in I2cStates
  BY <1>0, <1>1 DEF I2cStates
<1>3. /\ e.ready = d.ready /\ e.on = d.on /\ e.up = d.up /\ e.running = d.running /\ e.port = d.port
      /\ e.held = d.held /\ e.late = d.late /\ e.last = d.last
  BY <1>0, <1>1 DEF I2cStates
<1> QED BY <1>1, <1>2, <1>3 DEF I2cInv

\* Every call of the life cycle (init, deinit, start, stop) keeps the
\* invariant.
LEMMA I2cLifeKeeps ==
    ASSUME NEW d, I2cInv(d)
    PROVE  /\ \A works \in BOOLEAN : I2cInv(I2cInit(d, works))
           /\ I2cInv(I2cDeinit(d)) /\ I2cInv(I2cStart(d)) /\ I2cInv(I2cStop(d))
<1>1. d \in I2cStates
  BY DEF I2cInv
<1>2. /\ d.port \in {"ch32", "am243x"} /\ d.ready \in BOOLEAN /\ d.on \in BOOLEAN /\ d.up \in BOOLEAN
      /\ d.running \in BOOLEAN /\ d.held \in BOOLEAN
  BY <1>1 DEF I2cStates, Boards
<1>3. (d.ready => d.up) /\ (d.on => d.ready /\ d.running)
  BY DEF I2cInv
<1>5. "OK" \in I2cAnswers /\ "TIMEOUT" \in I2cAnswers /\ "NOT_INITIALIZED" \in I2cAnswers /\ "INVALID_STATE" \in I2cAnswers
  BY I2cAnswerNames
<1>6. ASSUME NEW works \in BOOLEAN PROVE I2cInv(I2cInit(d, works))
  <2>1. CASE d.port = "ch32"
    <3>1. I2cInit(d, works) = I2cTurned(d, TRUE, FALSE, TRUE, d.running, "OK", FALSE)
      BY <1>1, <2>1 DEF I2cInit, CoreInit, I2cPortInit, I2cCh32Init, IsOk, I2cStates, I2cTurned
    <3> QED BY <1>1, <1>2, <1>3, I2cTurns, <1>5, <3>1, ZenonT(60)
  <2>2. CASE d.port = "am243x" /\ d.up
    <3>1. I2cInit(d, works) = I2cTurned(d, FALSE, FALSE, d.up, d.running, "INVALID_STATE", d.held)
      BY <1>1, <2>2 DEF I2cInit, CoreInit, I2cPortInit, I2cTiInit, Returned, IsOk, I2cStates, I2cTurned
    <3>2. PICK u \in BOOLEAN, w \in BOOLEAN, h \in BOOLEAN : u = d.up /\ w = d.running /\ h = d.held
      BY <1>2
    <3>3. I2cInv(I2cTurned(d, FALSE, FALSE, u, w, "INVALID_STATE", h))
      BY <1>5, <3>2, I2cTurns
    <3> QED BY <3>1, <3>2, <3>3
  <2>3. CASE d.port = "am243x" /\ ~d.up /\ ~works
    <3>1. I2cInit(d, works) = I2cTurned(d, FALSE, FALSE, d.up, d.running, "TIMEOUT", d.held)
      BY <1>1, <2>3 DEF I2cInit, CoreInit, I2cPortInit, I2cTiInit, Returned, IsOk, I2cStates, I2cTurned
    <3>2. PICK u \in BOOLEAN, w \in BOOLEAN, h \in BOOLEAN : u = d.up /\ w = d.running /\ h = d.held
      BY <1>2
    <3>3. I2cInv(I2cTurned(d, FALSE, FALSE, u, w, "TIMEOUT", h))
      BY <1>5, <3>2, I2cTurns
    <3> QED BY <3>1, <3>2, <3>3
  <2>4. CASE d.port = "am243x" /\ ~d.up /\ works
    <3>1. I2cInit(d, works) = I2cTurned(d, TRUE, FALSE, TRUE, FALSE, "OK", FALSE)
      BY <1>1, <2>4 DEF I2cInit, CoreInit, I2cPortInit, I2cTiInit, Returned, IsOk, I2cStates, I2cTurned
    <3> QED BY <1>2, I2cTurns, <1>5, <3>1, ZenonT(60)
  <2> QED BY <1>2, <2>1, <2>2, <2>3, <2>4
<1>8. I2cInv(I2cDeinit(d))
  <2>1. CASE ~d.ready
    BY <1>5, <2>1, I2cStays DEF I2cDeinit, CoreDeinit, Ok
  <2>2. CASE d.ready
    <3>1. I2cDeinit(d) = I2cTurned(d, FALSE, FALSE, FALSE, FALSE, "OK", FALSE)
      BY <1>1, <2>2 DEF I2cDeinit, CoreDeinit, I2cPortDeinit, IsOk, I2cStates, I2cTurned
    <3> QED BY I2cTurns, <1>5, <3>1
  <2> QED BY <2>1, <2>2
<1>9. I2cInv(I2cStart(d))
  <2>1. CASE ~d.ready
    BY <1>5, <2>1, I2cStays DEF I2cStart, CoreStart, Returned
  <2>2. CASE d.ready /\ d.on
    BY <1>5, <2>2, I2cStays DEF I2cStart, CoreStart, Ok
  <2>3. CASE d.ready /\ ~d.on
    <3>1. I2cStart(d) = I2cTurned(d, TRUE, TRUE, d.up, TRUE, "OK", d.held)
      BY <1>1, <1>2, <2>3 DEF I2cStart, CoreStart, I2cPortStart, IsOk, I2cStates, I2cTurned
    <3> QED BY <1>2, <1>3, I2cTurns, <1>5, <2>3, <3>1, ZenonT(60)
  <2> QED BY <2>1, <2>2, <2>3
<1>10. I2cInv(I2cStop(d))
  <2>1. CASE ~d.ready
    BY <1>5, <2>1, I2cStays DEF I2cStop, CoreStop, Returned
  <2>2. CASE d.ready /\ ~d.on
    BY <1>5, <2>2, I2cStays DEF I2cStop, CoreStop, Ok
  <2>3. CASE d.ready /\ d.on
    <3>1. I2cStop(d) = I2cTurned(d, TRUE, FALSE, d.up, FALSE, "OK", FALSE)
      BY <1>1, <1>2, <2>3 DEF I2cStop, CoreStop, I2cPortStop, I2cStates, I2cTurned
    <3> QED BY <1>2, <1>3, I2cTurns, <1>5, <2>3, <3>1, ZenonT(60)
  <2> QED BY <2>1, <2>2, <2>3
<1> QED BY <1>6, <1>8, <1>9, <1>10

\* What keeps the life cycle and agrees about the bus keeps the invariant.
LEMMA I2cNextState ==
    ASSUME NEW d, I2cInv(d), NEW e \in I2cStates, e.ready = d.ready, e.on = d.on, e.up = d.up, e.running = d.running,
           BusAgrees(e.port, e.held, e.late, e.last)
    PROVE  I2cInv(e)
BY DEF I2cInv

\* A transaction refused because the bus is occupied keeps the invariant.
LEMMA I2cBusBusy ==
    ASSUME NEW d, I2cInv(d)
    PROVE  I2cInv(BusBusy(d))
<1>0. d \in I2cStates
  BY DEF I2cInv
<1>4. PICK n \in Nat : n = d.started + 1
  BY <1>0 DEF I2cStates
<1>1. PICK e : e = [d EXCEPT !.st = "TIMEOUT", !.started = n]
  OBVIOUS
<1>2. e \in I2cStates
  BY <1>0, <1>1, I2cAnswerNames DEF I2cStates
<1>3. /\ e.ready = d.ready /\ e.on = d.on /\ e.up = d.up /\ e.running = d.running /\ e.port = d.port
      /\ e.held = d.held /\ e.late = d.late /\ e.last = d.last
  BY <1>0, <1>1 DEF I2cStates
<1> QED BY <1>1, <1>2, <1>3, <1>4 DEF I2cInv, BusBusy

\* A transaction of the CH32H417 port, ended by any fault at any wait, keeps
\* the invariant.
LEMMA Ch32TransferKeeps ==
    ASSUME NEW d, I2cInv(d), d.port = "ch32", NEW tx \in Nat, NEW rx \in Nat,
           NEW k \in 0 .. Len(Ch32Points(tx, rx)), NEW why,
           k # 0 => why \in I2cFaults /\ Ch32Fails(Ch32Points(tx, rx)[k], why)
    PROVE  I2cInv(Ch32Transfer(d, tx, rx, k, why))
<1>0. d \in I2cStates
  BY DEF I2cInv
<1>1. PICK w : w = Ch32Points(tx, rx)
  OBVIOUS
<1>2. PICK len, m \in Nat :
         /\ len = m + (IF rx = 0 THEN 0 ELSE 2 + rx) /\ m = IF tx = 0 THEN 0 ELSE tx + 3
         /\ Lies(w, len, 2, tx, "txe") /\ Lies(w, len, m + 2, rx, "rxne")
  BY <1>1, Ch32PointsLie, Zenon
<1>3. Len(w) = len
  BY <1>2 DEF Lies
<1>4. PICK passed \in 0 .. len : passed = IF k = 0 THEN Len(w) ELSE k - 1
  BY <1>1, <1>3
<1>5. PICK out \in Int : out = Bytes(w, passed, {"txe"}) /\ out = IF passed <= 2 THEN 0 ELSE IF passed >= 2 + tx THEN tx ELSE passed - 2
  <2>1. Bytes(w, passed, {"txe"}) = IF passed <= 2 THEN 0 ELSE IF passed >= 2 + tx THEN tx ELSE passed - 2
    BY <1>2, Counted
  <2> QED BY <2>1
<1>6. PICK in \in Int : in = Bytes(w, passed, {"rxne"}) /\ in = IF passed <= m + 2 THEN 0 ELSE IF passed >= (m + 2) + rx THEN rx ELSE passed - (m + 2)
  <2>1. m + 2 \in Nat
    OBVIOUS
  <2>2. Bytes(w, passed, {"rxne"}) = IF passed <= m + 2 THEN 0 ELSE IF passed >= (m + 2) + rx THEN rx ELSE passed - (m + 2)
    BY <1>2, <2>1, Counted
  <2> QED BY <2>2
<1>7. PICK x \in {0, 1} : x = Refusal(w, passed, k, why, {"txe"})
  BY RefusedAtMostOne
<1>8. k = 0 \/ why # "NACK" => x = 0
  BY <1>7, RefusedAtMostOne
<1>9. PICK st \in I2cAnswers : st = IF k = 0 THEN "OK" ELSE why
  BY I2cAnswerNames DEF I2cAnswers
<1>10. PICK h \in BOOLEAN : h = (k # 0 /\ w[k].at = "rxne" /\ w[k].i < rx)
  OBVIOUS
<1>11. PICK sent \in Int : sent = out - x
  OBVIOUS
<1>12. PICK l : l = [st |-> st, tx |-> tx, rx |-> rx, sent |-> sent, read |-> in]
  OBVIOUS
<1>13. l.st = st /\ l.tx = tx /\ l.rx = rx /\ l.sent = sent /\ l.read = in
  BY <1>12
<1>14. PICK late \in BOOLEAN : late = d.late
  BY <1>0 DEF I2cStates
<1>15. BusAgrees("ch32", h, late, l)
  <2>1. ASSUME st = "OK" PROVE in = rx /\ sent = tx
    <3>1. k = 0
      BY <1>9, <2>1 DEF I2cFaults
    <3>2. passed = len /\ x = 0
      BY <1>3, <1>4, <1>8, <3>1
    <3>3. in = rx
      BY <1>2, <1>6, <3>2
    <3>4. out = tx
      BY <1>2, <1>5, <3>2
    <3> QED BY <1>11, <3>2, <3>3, <3>4
  <2>2. ASSUME h PROVE st = "TIMEOUT" /\ in < rx - 1 /\ sent = tx
    <3>0. k # 0 /\ w[k].at = "rxne" /\ w[k].i < rx
      BY <1>10, <2>2, Zenon
    <3>1. k # 0 /\ k \in 1 .. len /\ w[k].at = "rxne" /\ w[k].i < rx
      <4>1. k \in 0 .. len
        BY <1>1, <1>3, Zenon
      <4> QED BY <3>0, <4>1
    <3>2. why = "TIMEOUT"
      BY <1>1, <3>1 DEF Ch32Fails
    <3>3. x = 0 /\ st = "TIMEOUT"
      BY <1>8, <1>9, <3>1, <3>2
    <3>4. m + 2 < k /\ k <= (m + 2) + rx /\ w[k].i = k - (m + 2)
      BY <1>2, <3>1 DEF Lies
    <3>5. passed = k - 1 /\ k - (m + 2) < rx
      BY <1>4, <3>1, <3>4
    <3>6. in < rx - 1
      BY <1>6, <3>4, <3>5
    <3>7. out = tx
      BY <1>2, <1>5, <3>4, <3>5
    <3> QED BY <1>11, <3>3, <3>6, <3>7
  <2> QED BY <1>13, <2>1, <2>2 DEF BusAgrees
<1>16. CASE d.held
  BY <1>16, I2cBusBusy DEF Ch32Transfer
<1>17. CASE ~d.held
  <2>1. PICK n \in Nat : n = d.started + 1
    BY <1>0 DEF I2cStates
  <2>2. PICK e : e = [d EXCEPT !.st = st, !.started = n, !.last = l, !.held = h]
    OBVIOUS
  <2>3. Ch32Transfer(d, tx, rx, k, why) = e
    BY <1>0, <1>1, <1>4, <1>5, <1>6, <1>7, <1>9, <1>10, <1>11, <1>12, <1>17, <2>1, <2>2
    DEF Ch32Transfer, Transaction, I2cStates
  <2>4. l \in I2cLast
    BY <1>12 DEF I2cLast
  <2>5. e \in I2cStates
    BY <1>0, <2>2, <2>4 DEF I2cStates
  <2>6. /\ e.ready = d.ready /\ e.on = d.on /\ e.up = d.up /\ e.running = d.running /\ e.port = "ch32"
        /\ e.held = h /\ e.late = late /\ e.last = l
    BY <1>0, <1>14, <2>2 DEF I2cStates
  <2>7. BusAgrees(e.port, e.held, e.late, e.last)
    BY <1>15, <2>6
  <2> QED BY <2>3, <2>5, <2>6, <2>7, I2cNextState
<1> QED BY <1>16, <1>17

\* A transaction of the AM243x port, ended by any fault at any wait, keeps the
\* invariant.
LEMMA TiTransferKeeps ==
    ASSUME NEW d, I2cInv(d), d.port = "am243x", NEW tx \in Nat, NEW rx \in Nat,
           NEW k \in 0 .. Len(TiPoints(tx, rx)), NEW why, k # 0 => why \in I2cFaults, NEW freed \in BOOLEAN
    PROVE  I2cInv(TiTransfer(d, tx, rx, k, why, freed))
<1>0. d \in I2cStates
  BY DEF I2cInv
<1>1. PICK w : w = TiPoints(tx, rx)
  OBVIOUS
<1>2. PICK len, m \in Nat :
         /\ tx <= m /\ len = m + rx + 1
         /\ Lies(w, len, 0, tx, "xrdy") /\ Lies(w, len, m, rx, "rrdy")
  BY <1>1, TiPointsLie, Zenon
<1>3. Len(w) = len
  BY <1>2 DEF Lies
<1>10. PICK late \in BOOLEAN : late = (k # 0 /\ w[k].at = "ardy" /\ why = "NACK" /\ rx = 0)
  OBVIOUS
<1>4. PICK passed \in 0 .. len : passed = IF k = 0 \/ late THEN Len(w) ELSE k - 1
  BY <1>1, <1>3
<1>5. PICK out \in Int : out = Bytes(w, passed, {"xrdy"}) /\ (passed = len => out = tx)
  <2>1. 0 \in Nat
    OBVIOUS
  <2>2. Bytes(w, passed, {"xrdy"}) = IF passed <= 0 THEN 0 ELSE IF passed >= 0 + tx THEN tx ELSE passed - 0
    BY <1>2, <2>1, Counted
  <2> QED BY <1>2, <2>2
<1>6. PICK in \in Int : in = Bytes(w, passed, {"rrdy"}) /\ (passed = len => in = rx)
  <2>1. Bytes(w, passed, {"rrdy"}) = IF passed <= m THEN 0 ELSE IF passed >= m + rx THEN rx ELSE passed - m
    BY <1>2, Counted
  <2> QED BY <1>2, <2>1
<1>7. PICK x \in {0, 1} : x = Refusal(w, passed, k, why, {"xrdy"})
  BY RefusedAtMostOne
<1>8. k = 0 => x = 0
  BY <1>7, RefusedAtMostOne
<1>9. PICK st \in I2cAnswers : st = IF k # 0 /\ ~late THEN why ELSE IF freed THEN "OK" ELSE "TIMEOUT"
  BY I2cAnswerNames DEF I2cAnswers
<1>11. PICK sent \in Int : sent = out - x
  OBVIOUS
<1>12. PICK l : l = [st |-> st, tx |-> tx, rx |-> rx, sent |-> sent, read |-> in]
  OBVIOUS
<1>13. l.st = st /\ l.tx = tx /\ l.rx = rx /\ l.sent = sent /\ l.read = in
  BY <1>12
<1>14. PICK h \in BOOLEAN : h = ~freed
  OBVIOUS
<1>15. BusAgrees("am243x", h, late, l)
  <2>1. ASSUME st = "OK" PROVE in = rx /\ (sent = tx \/ (late /\ sent = tx - 1)) /\ ~h
    <3>1. (k = 0 \/ late) /\ freed
      BY <1>9, <2>1 DEF I2cFaults
    <3>2. passed = len
      BY <1>3, <1>4, <3>1
    <3>3. in = rx /\ out = tx
      BY <1>5, <1>6, <3>2
    <3>4. sent = tx \/ sent = tx - 1
      BY <1>11, <3>3
    <3>5. k = 0 => sent = tx
      BY <1>8, <1>11, <3>3
    <3>6. ~h
      BY <1>14, <3>1, Zenon
    <3> QED BY <3>1, <3>3, <3>4, <3>5, <3>6, Zenon
  <2> QED BY <1>13, <2>1 DEF BusAgrees
<1>16. CASE d.held
  BY <1>16, I2cBusBusy DEF TiTransfer
<1>17. CASE ~d.held
  <2>1. PICK n \in Nat : n = d.started + 1
    BY <1>0 DEF I2cStates
  <2>2. PICK e : e = [d EXCEPT !.st = st, !.started = n, !.last = l, !.held = h, !.late = late]
    OBVIOUS
  <2>3. TiTransfer(d, tx, rx, k, why, freed) = e
    BY <1>0, <1>1, <1>4, <1>5, <1>6, <1>7, <1>9, <1>10, <1>11, <1>12, <1>14, <1>17, <2>1, <2>2
    DEF TiTransfer, Transaction, I2cStates
  <2>4. l \in I2cLast
    BY <1>12 DEF I2cLast
  <2>5. e \in I2cStates
    BY <1>0, <2>2, <2>4 DEF I2cStates
  <2>6. /\ e.ready = d.ready /\ e.on = d.on /\ e.up = d.up /\ e.running = d.running /\ e.port = "am243x"
        /\ e.held = h /\ e.late = late /\ e.last = l
    BY <1>0, <2>2 DEF I2cStates
  <2>7. BusAgrees(e.port, e.held, e.late, e.last)
    BY <1>15, <2>6
  <2> QED BY <2>3, <2>5, <2>6, <2>7, I2cNextState
<1> QED BY <1>16, <1>17

\* Every step of the I2C driver keeps its invariant.
LEMMA I2cKept == I2cInv(drv) /\ I2cNext => I2cInv(drv')
<1> SUFFICES ASSUME I2cInv(drv), I2cNext PROVE I2cInv(drv')
  OBVIOUS
<1>1. CASE I2cLifeCycle
  BY <1>1, I2cLifeKeeps DEF I2cLifeCycle
<1>2. CASE I2cTransfer
  <2>1. PICK tx \in 0 .. MaxLength + 1, rx \in 0 .. MaxLength + 1 :
           IF Usable(drv) # "OK" THEN drv' = Returned(drv, Usable(drv))
           ELSE \/ /\ drv.port = "ch32"
                   /\ \/ drv' = Ch32Transfer(drv, tx, rx, 0, "none")
                      \/ \E k \in 1..Len(Ch32Points(tx, rx)), why \in I2cFaults :
                            /\ Ch32Fails(Ch32Points(tx, rx)[k], why)
                            /\ drv' = Ch32Transfer(drv, tx, rx, k, why)
                \/ /\ drv.port = "am243x"
                   /\ \E freed \in BOOLEAN :
                        \/ drv' = TiTransfer(drv, tx, rx, 0, "none", freed)
                        \/ \E k \in 1..Len(TiPoints(tx, rx)), why \in I2cFaults :
                            /\ TiFails(TiPoints(tx, rx)[k], why)
                            /\ TiPoints(tx, rx)[k].at = "bf" => ~freed
                            /\ drv' = TiTransfer(drv, tx, rx, k, why, freed)
    BY <1>2 DEF I2cTransfer
  <2>2. tx \in Nat /\ rx \in Nat
    BY DriversAssumption
  <2>3. CASE drv' = Returned(drv, Usable(drv))
    <3>1. Usable(drv) \in I2cAnswers
      BY I2cAnswerNames DEF Usable
    <3> QED BY <2>3, <3>1, I2cStays DEF Returned
  <2>4. Len(Ch32Points(tx, rx)) \in Nat /\ Len(TiPoints(tx, rx)) \in Nat
    <3>1. Ch32Points(tx, rx) \in Seq(Points)
      BY <2>2, Ch32PointsLie, Zenon DEF Lies
    <3>2. TiPoints(tx, rx) \in Seq(Points)
      BY <2>2, TiPointsLie, Zenon DEF Lies
    <3> QED BY <3>1, <3>2
  <2>5. ASSUME drv.port = "ch32", NEW k \in 0 .. Len(Ch32Points(tx, rx)), NEW why,
               k # 0 => why \in I2cFaults /\ Ch32Fails(Ch32Points(tx, rx)[k], why),
               drv' = Ch32Transfer(drv, tx, rx, k, why)
        PROVE  I2cInv(drv')
    BY <2>2, <2>5, Ch32TransferKeeps
  <2>6. ASSUME drv.port = "am243x", NEW k \in 0 .. Len(TiPoints(tx, rx)), NEW why,
               k # 0 => why \in I2cFaults, NEW freed \in BOOLEAN,
               drv' = TiTransfer(drv, tx, rx, k, why, freed)
        PROVE  I2cInv(drv')
    BY <2>2, <2>6, TiTransferKeeps
  <2>7. 0 \in 0 .. Len(Ch32Points(tx, rx)) /\ \A k \in 1 .. Len(Ch32Points(tx, rx)) : k \in 0 .. Len(Ch32Points(tx, rx))
    BY <2>4
  <2>8. 0 \in 0 .. Len(TiPoints(tx, rx)) /\ \A k \in 1 .. Len(TiPoints(tx, rx)) : k \in 0 .. Len(TiPoints(tx, rx))
    BY <2>4
  <2>9. CASE drv.port = "ch32" /\ drv' = Ch32Transfer(drv, tx, rx, 0, "none")
    BY <2>5, <2>7, <2>9
  <2>10. CASE drv.port = "am243x" /\ \E freed \in BOOLEAN : drv' = TiTransfer(drv, tx, rx, 0, "none", freed)
    BY <2>6, <2>8, <2>10
  <2>11. ASSUME drv.port = "ch32", NEW k \in 1 .. Len(Ch32Points(tx, rx)), NEW why \in I2cFaults,
                Ch32Fails(Ch32Points(tx, rx)[k], why), drv' = Ch32Transfer(drv, tx, rx, k, why)
         PROVE  I2cInv(drv')
    BY <2>5, <2>7, <2>11
  <2>12. ASSUME drv.port = "am243x", NEW k \in 1 .. Len(TiPoints(tx, rx)), NEW why \in I2cFaults,
                NEW freed \in BOOLEAN, drv' = TiTransfer(drv, tx, rx, k, why, freed)
         PROVE  I2cInv(drv')
    BY <2>6, <2>8, <2>12
  <2> QED BY <2>1, <2>3, <2>9, <2>10, <2>11, <2>12, Zenon
<1>3. CASE I2cUnsupported
  <2>1. (IF Usable(drv) = "OK" THEN "UNSUPPORTED" ELSE Usable(drv)) \in I2cAnswers
    BY I2cAnswerNames DEF Usable
  <2> QED BY <1>3, <2>1, I2cStays DEF I2cUnsupported, Returned
<1>4. CASE I2cFreed
  <2>1. drv \in I2cStates
    BY DEF I2cInv
  <2>2. PICK e : e = [drv EXCEPT !.held = FALSE]
    OBVIOUS
  <2>3. e \in I2cStates
    BY <2>1, <2>2 DEF I2cStates
  <2>4. /\ e.ready = drv.ready /\ e.on = drv.on /\ e.up = drv.up /\ e.running = drv.running /\ e.port = drv.port
        /\ ~e.held /\ e.late = drv.late /\ e.last = drv.last
    BY <2>1, <2>2 DEF I2cStates
  <2>5. BusAgrees(e.port, e.held, e.late, e.last)
    BY <2>4 DEF I2cInv, BusAgrees
  <2> QED BY <1>4, <2>2, <2>3, <2>4, <2>5, I2cNextState DEF I2cFreed
<1> QED BY <1>1, <1>2, <1>3, <1>4 DEF I2cNext

\* The invariant says of the I2C driver what the runs check.
LEMMA I2cShows == ASSUME NEW d, I2cInv(d) PROVE I2cTruth(d)
BY DEF I2cInv, I2cTruth, BusAgrees

(***************************************************************************)
(* UART.                                                                   *)
(***************************************************************************)
UartBytes == Nat \X Nat
UartUnits == [id: Nat, n: Nat, i: Nat, busy: BOOLEAN, core: BOOLEAN]
UartRegisters ==
    [txie: BOOLEAN, tcie: BOOLEAN, rxie: BOOLEAN, dr: UartBytes, sh: UartBytes, tc: BOOLEAN,
     rd: Seq(Nat), bad: {"none", "LINE", "ORE"}]
UartCalls ==
    {Idle} \cup [op: {"transmit", "receive"}] \cup [op: {"abort"}, dir: {"tx", "rx"}, done: Nat \cup {None}]
UartEvents == {"COMPLETE", "OK", "TIMEOUT", "ABORTED", "LINE", "ORE"}
UartEntries == [id: Nat, dir: {"tx", "rx"}, ev: UartEvents, k: Nat, n: Nat, data: Seq(Nat)]
UartStates ==
    [kind: {"uart"}, port: Boards, ready: BOOLEAN, on: BOOLEAN, call: UartCalls, tx: UartUnits, rx: UartUnits,
     got: Seq(Nat), hw: UartRegisters, wire: Seq(UartBytes), arrived: Nat, started: Nat, log: Seq(UartEntries)]

OnWire(w, b) == \E i \in 1 .. Len(w) : w[i] = b

\* An abort has stopped the sender.
TxStopped(u) == u.call.op = "abort" /\ u.call.dir = "tx" /\ u.call.done # None

\* Core, port and interrupt enables agree on what runs.
UartControl(u) ==
    /\ u.on => u.ready
    /\ ~u.on => ~u.tx.core /\ ~u.rx.core
    /\ u.tx.core <=> u.tx.busy \/ u.call.op = "transmit"
    /\ u.rx.core <=> u.rx.busy \/ u.call.op = "receive"
    /\ u.tx.busy => u.call.op # "transmit" /\ u.port = "ch32"
    /\ u.rx.busy => u.call.op # "receive" /\ u.port = "ch32"
    /\ u.tx.core => u.tx.n \in Lengths /\ u.tx.i <= u.tx.n
    /\ u.rx.busy => u.rx.i < u.rx.n
    /\ u.tx.busy \/ (~u.hw.txie /\ ~u.hw.tcie)
    /\ ~(u.hw.txie /\ u.hw.tcie)
    /\ u.hw.tcie => u.tx.i = u.tx.n
    /\ TxStopped(u) => ~u.hw.txie /\ ~u.hw.tcie

\* The bytes before byte b of its transfer are on the wire, or in sh.
Follows(w, sh, b) == \A j \in 1 .. b[2] - 1 : OnWire(w, <<b[1], j>>) \/ sh = <<b[1], j>>

\* The bytes on the wire, in the shift and in the data register, in this order.
UartLine(w, sh, dr, tc, started) ==
    /\ tc => sh = NoByte
    /\ dr # NoByte => sh # NoByte
    /\ \A i \in 1 .. Len(w) : w[i][1] \in 1 .. started /\ Follows(w, NoByte, w[i])
    /\ \A i \in 1 .. Len(w) - 1 : Before(w[i], w[i + 1])
    /\ sh # NoByte => /\ sh[1] \in 1 .. started /\ Follows(w, NoByte, sh)
                      /\ Len(w) > 0 => Before(w[Len(w)], sh)
    /\ dr # NoByte => dr[1] \in 1 .. started /\ Follows(w, sh, dr) /\ Before(sh, dr)

\* Of the transmission under way i bytes, and no later one, have been written.
UpTo(b, id, i) == b[1] < id \/ (b[1] = id /\ b[2] <= i)
UartSending(w, sh, dr, id, i) ==
    /\ \A j \in 1 .. Len(w) : UpTo(w[j], id, i)
    /\ UpTo(sh, id, i) /\ UpTo(dr, id, i)
    /\ \A j \in 1 .. i : OnWire(w, <<id, j>>) \/ sh = <<id, j>> \/ dr = <<id, j>>

\* What an entry of the log says of the wire and of what was received.
SentWhole(w, sh, dr, e) ==
    /\ e.k = e.n /\ e.n \in Lengths
    /\ \A j \in 1 .. e.n : OnWire(w, <<e.id, j>>)
    /\ \A i \in 1 .. Len(w) : w[i][1] = e.id => w[i][2] <= e.n
    /\ sh[1] # e.id /\ dr[1] # e.id
EntryTrue(w, sh, dr, e) ==
    /\ e.dir = "tx" /\ e.ev \in {"COMPLETE", "OK"} => SentWhole(w, sh, dr, e)
    /\ e.dir = "rx" /\ e.ev = "COMPLETE" => Len(e.data) = e.n /\ Consecutive(e.data)
LogTrue(log, w, sh, dr) == \A i \in 1 .. Len(log) : EntryTrue(w, sh, dr, log[i])

LogOrdered(log) ==
    \A i, j \in 1 .. Len(log) : i < j /\ log[i].id = log[j].id => log[j].ev = "ABORTED" /\ log[i].ev # "ABORTED"

\* Every transfer started is answered or under way, and none is both.
Open(t) == IF t.core THEN {t.id} ELSE {}
UartAnswers(log, started, out, in) ==
    /\ out \subseteq 1 .. started /\ in \subseteq 1 .. started /\ \A id \in out : id \notin in
    /\ \A i \in 1 .. Len(log) : log[i].id \in 1 .. started /\ log[i].id \notin out /\ log[i].id \notin in
    /\ \A id \in 1 .. started : (\E i \in 1 .. Len(log) : log[i].id = id) \/ id \in out \/ id \in in

\* What an abort is about to answer has not been answered as aborted.
AbortAgrees(log, started, id, other) ==
    /\ id \in 1 .. started /\ id \notin other
    /\ \A i \in 1 .. Len(log) : log[i].id = id => log[i].ev # "ABORTED"

\* The last byte in the receiver is the last that arrived, unless one was lost.
UartHolds(rd, bad, arrived) ==
    Len(rd) \in {0, 1} /\ (bad = "none" /\ Len(rd) = 1 => rd[1] = arrived)
UartGot(i, got, rd, bad, arrived) ==
    /\ Len(got) = i /\ Consecutive(got)
    /\ i > 0 /\ bad = "none" => got[i] = arrived - Len(rd)

UartInv(u) ==
    /\ u \in UartStates
    /\ UartControl(u)
    /\ UartLine(u.wire, u.hw.sh, u.hw.dr, u.hw.tc, u.started)
    /\ u.tx.core => UartSending(u.wire, u.hw.sh, u.hw.dr, u.tx.id, u.tx.i)
    /\ LogTrue(u.log, u.wire, u.hw.sh, u.hw.dr)
    /\ LogOrdered(u.log)
    /\ UartAnswers(u.log, u.started, Open(u.tx), Open(u.rx))
    /\ u.call.op = "abort" /\ u.call.dir = "tx" => AbortAgrees(u.log, u.started, u.tx.id, Open(u.rx))
    /\ u.call.op = "abort" /\ u.call.dir = "rx" => AbortAgrees(u.log, u.started, u.rx.id, Open(u.tx))
    /\ u.port = "ch32" => UartHolds(u.hw.rd, u.hw.bad, u.arrived)
    /\ ~u.rx.core => u.got = <<>>
    /\ u.rx.busy => UartGot(u.rx.i, u.got, u.hw.rd, u.hw.bad, u.arrived)

\* An empty register is told from every byte of a transmission.
LEMMA NoByteIsOne == NoByte \in UartBytes /\ NoByte[1] = 0 /\ NoByte[2] = 0
BY DEF NoByte, UartBytes

\* A direction without a transfer.
LEMMA NoUnitsIdle ==
    NoUnits \in UartUnits /\ NoUnits.id = 0 /\ NoUnits.n = 0 /\ NoUnits.i = 0 /\ ~NoUnits.busy /\ ~NoUnits.core
BY DEF NoUnits, UartUnits

\* The registers after reset: nothing sent, nothing received, no interrupt
\* enabled.
LEMMA UartResetIdle ==
    /\ UartReset \in UartRegisters /\ UartReset.sh = NoByte /\ UartReset.dr = NoByte
    /\ ~UartReset.txie /\ ~UartReset.tcie /\ UartReset.rd = <<>> /\ UartReset.bad = "none" /\ UartReset.tc = TRUE
<1>1. <<>> \in Seq(Nat)
  OBVIOUS
<1> QED BY <1>1, NoByteIsOne DEF UartReset, UartRegisters

\* A call that runs is not a driver at rest.
LEMMA CallsDiffer ==
    /\ Idle \in UartCalls /\ Idle.op = "none"
    /\ \A c \in UartCalls : c # Idle => c.op \in {"transmit", "receive", "abort"}
    /\ \A c \in UartCalls : c.op = "abort" => c.dir \in {"tx", "rx"} /\ c.done \in Nat \cup {None}
BY DEF UartCalls, Idle

\* Nothing on the wire and nothing in the log.
LEMMA UartEmptyAgrees ==
    /\ UartLine(<<>>, NoByte, NoByte, TRUE, 0) /\ LogTrue(<<>>, <<>>, NoByte, NoByte) /\ LogOrdered(<<>>)
    /\ UartAnswers(<<>>, 0, {}, {})
<1>1. Len(<<>>) = 0 /\ 1 .. 0 = {} /\ 1 .. 0 - 1 = {}
  OBVIOUS
<1>2. UartLine(<<>>, NoByte, NoByte, TRUE, 0)
  BY <1>1 DEF UartLine
<1>3. LogTrue(<<>>, <<>>, NoByte, NoByte) /\ LogOrdered(<<>>) /\ UartAnswers(<<>>, 0, {}, {})
  BY <1>1 DEF LogTrue, LogOrdered, UartAnswers
<1> QED BY <1>2, <1>3

\* An empty receive register tells nothing.
LEMMA UartHoldsNothing ==
    ASSUME NEW bad, NEW arrived
    PROVE  UartHolds(<<>>, bad, arrived)
BY DEF UartHolds

\* A driver that was not set up (UartOff) satisfies the invariant.
LEMMA UartOffAgrees ==
    ASSUME NEW b \in Boards
    PROVE  UartInv(UartOff(b))
<1>1. PICK u : u = UartOff(b)
  OBVIOUS
<1>2. u = [kind |-> "uart", port |-> b, ready |-> FALSE, on |-> FALSE, call |-> Idle,
           tx |-> NoUnits, rx |-> NoUnits, got |-> <<>>, hw |-> UartReset,
           wire |-> <<>>, arrived |-> 0, started |-> 0, log |-> <<>>]
  BY <1>1 DEF UartOff
<1>3. <<>> \in Seq(Nat) /\ <<>> \in Seq(UartBytes) /\ <<>> \in Seq(UartEntries)
  OBVIOUS
<1>4. u \in UartStates
  BY <1>2, <1>3, NoUnitsIdle, UartResetIdle, CallsDiffer DEF UartStates
<1>5. /\ ~u.on /\ u.call = Idle /\ u.tx = NoUnits /\ u.rx = NoUnits /\ u.got = <<>> /\ u.hw = UartReset
      /\ u.wire = <<>> /\ u.started = 0 /\ u.log = <<>>
  BY <1>2
<1>6. UartControl(u)
  BY <1>5, NoUnitsIdle, UartResetIdle, CallsDiffer DEF UartControl, TxStopped
<1>7. UartLine(u.wire, u.hw.sh, u.hw.dr, u.hw.tc, u.started) /\ LogTrue(u.log, u.wire, u.hw.sh, u.hw.dr) /\ LogOrdered(u.log)
  BY <1>5, UartResetIdle, UartEmptyAgrees
<1>8. UartAnswers(u.log, u.started, Open(u.tx), Open(u.rx))
  <2>1. Open(u.tx) = {} /\ Open(u.rx) = {}
    BY <1>5, NoUnitsIdle DEF Open
  <2> QED BY <1>5, <2>1, UartEmptyAgrees
<1>9. UartHolds(u.hw.rd, u.hw.bad, u.arrived)
  BY <1>5, UartResetIdle, UartHoldsNothing
<1>10. u.call.op # "abort" /\ ~u.tx.core /\ ~u.rx.busy
  BY <1>5, NoUnitsIdle, CallsDiffer
<1> QED BY <1>1, <1>4, <1>5, <1>6, <1>7, <1>8, <1>9, <1>10 DEF UartInv

\* What is still in the two registers may be lost when no transfer waits for it.
LEMMA LineLost ==
    ASSUME NEW w, NEW sh, NEW dr, NEW tc, NEW started, UartLine(w, sh, dr, tc, started), NEW c
    PROVE  UartLine(w, NoByte, NoByte, c, started)
BY DEF UartLine

\* What was finished is on the wire whole: a reset that empties the registers
\* takes none of it.
LEMMA LogKeptWhenLost ==
    ASSUME NEW log, NEW w, NEW sh, NEW dr, LogTrue(log, w, sh, dr), NEW started, NEW out, NEW in,
           UartAnswers(log, started, out, in)
    PROVE  LogTrue(log, w, NoByte, NoByte)
<1>1. ASSUME NEW i \in 1 .. Len(log) PROVE EntryTrue(w, NoByte, NoByte, log[i])
  <2>1. EntryTrue(w, sh, dr, log[i])
    BY DEF LogTrue
  <2>2. log[i].id # 0
    BY DEF UartAnswers
  <2> QED BY <2>1, <2>2, NoByteIsOne DEF EntryTrue, SentWhole
<1> QED BY <1>1 DEF LogTrue

\* Setting up, starting, stopping or shutting down with no transfer left keeps
\* the invariant.
LEMMA UartTurns ==
    ASSUME NEW u, UartInv(u), u.call = Idle, ~u.tx.core, ~u.rx.core,
           NEW r \in BOOLEAN, NEW o \in BOOLEAN, o => r,
           NEW x \in UartUnits, ~x.core, ~x.busy, NEW y \in UartUnits, ~y.core, ~y.busy,
           NEW g \in UartRegisters, ~g.txie, ~g.tcie,
           \/ g.sh = u.hw.sh /\ g.dr = u.hw.dr /\ g.tc = u.hw.tc
           \/ g.sh = NoByte /\ g.dr = NoByte,
           u.port = "ch32" => UartHolds(g.rd, g.bad, u.arrived),
           NEW e, e = [u EXCEPT !.ready = r, !.on = o, !.tx = x, !.rx = y, !.hw = g]
    PROVE  UartInv(e)
<1>0. u \in UartStates
  BY DEF UartInv
<1>1. e \in UartStates
  BY <1>0 DEF UartStates
<1>2. /\ e.ready = r /\ e.on = o /\ e.tx = x /\ e.rx = y /\ e.hw = g /\ e.call = Idle /\ e.port = u.port
      /\ e.got = u.got /\ e.wire = u.wire /\ e.arrived = u.arrived /\ e.started = u.started /\ e.log = u.log
  BY <1>0 DEF UartStates
<1>3. e.call.op = "none"
  BY <1>2, CallsDiffer
<1>4. UartControl(e)
  BY <1>2, <1>3 DEF UartControl, TxStopped
<1>5. UartLine(e.wire, e.hw.sh, e.hw.dr, e.hw.tc, e.started)
  <2>1. UartLine(u.wire, u.hw.sh, u.hw.dr, u.hw.tc, u.started)
    BY DEF UartInv
  <2> QED BY <1>2, <2>1, LineLost
<1>6. LogTrue(e.log, e.wire, e.hw.sh, e.hw.dr)
  <2>1. LogTrue(u.log, u.wire, u.hw.sh, u.hw.dr) /\ UartAnswers(u.log, u.started, Open(u.tx), Open(u.rx))
    BY DEF UartInv
  <2> QED BY <1>2, <2>1, LogKeptWhenLost
<1>7. UartAnswers(e.log, e.started, Open(e.tx), Open(e.rx))
  <2>1. Open(u.tx) = {} /\ Open(u.rx) = {} /\ Open(x) = {} /\ Open(y) = {}
    BY DEF Open
  <2> QED BY <1>2, <2>1 DEF UartInv
<1>8. LogOrdered(e.log) /\ e.got = <<>>
  BY <1>2 DEF UartInv
<1>9. e.port = "ch32" => UartHolds(e.hw.rd, e.hw.bad, e.arrived)
  BY <1>2
<1>10. ~e.tx.core /\ ~e.rx.busy
  BY <1>2
<1> QED BY <1>1, <1>3, <1>4, <1>5, <1>6, <1>7, <1>8, <1>9, <1>10 DEF UartInv

\* Every call of the life cycle (init, deinit, start, stop) keeps the
\* invariant.
LEMMA UartLifeKeeps ==
    ASSUME NEW u, UartInv(u), u.call = Idle
    PROVE  /\ ~u.ready => UartInv(UartInit(u))
           /\ UartInv(UartDeinit(u)) /\ UartInv(UartStop(u))
           /\ \A accepted \in BOOLEAN : UartInv(UartStart(u, accepted))
<1>0. u \in UartStates
  BY DEF UartInv
<1>1. PICK h \in UartRegisters : h = u.hw
  BY <1>0 DEF UartStates
<1>2. PICK x \in UartUnits, y \in UartUnits : x = u.tx /\ y = u.rx
  BY <1>0 DEF UartStates
<1>3. PICK r \in BOOLEAN, o \in BOOLEAN : r = u.ready /\ o = u.on
  BY <1>0 DEF UartStates
<1>4. /\ o => r
      /\ ~o => ~x.core /\ ~y.core
      /\ x.core <=> x.busy
      /\ y.core <=> y.busy
      /\ x.busy \/ (~h.txie /\ ~h.tcie)
  <2>1. u.call.op = "none"
    BY CallsDiffer
  <2> QED BY <1>1, <1>2, <1>3, <2>1 DEF UartInv, UartControl
<1>5. u.port = "ch32" => UartHolds(h.rd, h.bad, u.arrived)
  BY <1>1 DEF UartInv
<1>6. TRUE \in BOOLEAN /\ FALSE \in BOOLEAN
  OBVIOUS
<1>7. UartHolds(UartReset.rd, UartReset.bad, u.arrived)
  BY UartResetIdle, UartHoldsNothing
<1>8. ASSUME ~u.ready PROVE UartInv(UartInit(u))
  <2>1. ~o /\ ~x.core /\ ~y.core /\ ~x.busy /\ ~y.busy
    BY <1>3, <1>4, <1>8
  <2>2. [x EXCEPT !.core = FALSE] = x /\ [y EXCEPT !.core = FALSE] = y
    BY <2>1 DEF UartUnits
  <2>3. PICK e : e = [u EXCEPT !.ready = TRUE, !.on = FALSE, !.tx = x, !.rx = y, !.hw = h]
    OBVIOUS
  <2>4. UartInit(u) = e
    BY <1>0, <1>1, <1>2, <2>2, <2>3 DEF UartInit, UartStates
  <2>5. UartInv(e)
    BY <1>1, <1>2, <1>4, <1>5, <1>6, <2>1, <2>3, UartTurns
  <2> QED BY <2>4, <2>5
<1>9. UartInv(UartDeinit(u))
  <2>1. CASE ~u.ready \/ Held(u)
    BY <2>1 DEF UartDeinit, Refused
  <2>2. CASE u.ready /\ ~Held(u)
    <3>1. ~x.core /\ ~y.core /\ ~x.busy /\ ~y.busy /\ ~h.txie /\ ~h.tcie
      BY <1>2, <1>4, <2>2 DEF Held
    <3>2. PICK g \in UartRegisters : g = IF o THEN UartReset ELSE h
      BY UartResetIdle
    <3>3. PICK e : e = [u EXCEPT !.ready = FALSE, !.on = FALSE, !.tx = NoUnits, !.rx = NoUnits, !.hw = g]
      OBVIOUS
    <3>4. UartDeinit(u) = e
      BY <1>0, <1>1, <1>3, <2>2, <3>2, <3>3 DEF UartDeinit, UartStates
    <3>5. /\ ~g.txie /\ ~g.tcie /\ (u.port = "ch32" => UartHolds(g.rd, g.bad, u.arrived))
          /\ (g.sh = u.hw.sh /\ g.dr = u.hw.dr /\ g.tc = u.hw.tc) \/ (g.sh = NoByte /\ g.dr = NoByte)
      BY <1>1, <1>5, <1>7, <3>1, <3>2, UartResetIdle
    <3>6. UartInv(e)
      BY <1>2, <1>6, <3>1, <3>3, <3>5, NoUnitsIdle, UartTurns
    <3> QED BY <3>4, <3>6
  <2> QED BY <2>1, <2>2
<1>10. UartInv(UartStop(u))
  <2>1. CASE ~u.on \/ Held(u)
    BY <2>1 DEF UartStop, Refused
  <2>2. CASE u.on /\ ~Held(u)
    <3>1. ~x.core /\ ~y.core /\ ~x.busy /\ ~y.busy /\ r
      BY <1>2, <1>3, <1>4, <2>2 DEF Held
    <3>2. PICK g : g = [UartReset EXCEPT !.rd = h.rd, !.bad = h.bad]
      OBVIOUS
    <3>3. g \in UartRegisters
      BY <3>2, UartResetIdle DEF UartRegisters
    <3>4. g.rd = h.rd /\ g.bad = h.bad /\ g.sh = NoByte /\ g.dr = NoByte /\ ~g.txie /\ ~g.tcie
      BY <3>2, UartResetIdle DEF UartRegisters
    <3>5. PICK e : e = [u EXCEPT !.ready = r, !.on = FALSE, !.tx = x, !.rx = y, !.hw = g]
      OBVIOUS
    <3>6. UartStop(u) = e
      BY <1>0, <1>1, <1>2, <1>3, <2>2, <3>2, <3>5 DEF UartStop, UartPortStop, UartStates
    <3>7. UartInv(e)
      BY <1>2, <1>5, <1>6, <3>1, <3>3, <3>4, <3>5, UartTurns, ZenonT(60)
    <3> QED BY <3>6, <3>7
  <2> QED BY <2>1, <2>2
<1>11. ASSUME NEW accepted \in BOOLEAN PROVE UartInv(UartStart(u, accepted))
  <2>1. CASE ~u.ready \/ u.on \/ ~accepted
    BY <2>1 DEF UartStart, Refused
  <2>2. CASE u.ready /\ ~u.on /\ accepted
    <3>1. ~x.core /\ ~y.core /\ ~x.busy /\ ~y.busy /\ r /\ ~h.txie /\ ~h.tcie
      BY <1>3, <1>4, <2>2
    <3>2. PICK g : g = IF u.port = "ch32" THEN [h EXCEPT !.rxie = TRUE] ELSE h
      OBVIOUS
    <3>3. g \in UartRegisters
      BY <3>2 DEF UartRegisters
    <3>4. g.rd = h.rd /\ g.bad = h.bad /\ g.sh = h.sh /\ g.dr = h.dr /\ g.tc = h.tc /\ ~g.txie /\ ~g.tcie
      BY <3>1, <3>2 DEF UartRegisters
    <3>5. PICK e : e = [u EXCEPT !.ready = r, !.on = TRUE, !.tx = x, !.rx = y, !.hw = g]
      OBVIOUS
    <3>6. UartStart(u, accepted) = e
      BY <1>0, <1>1, <1>2, <1>3, <2>2, <3>2, <3>5 DEF UartStart, UartPortStart, UartCh32Start, UartTiStart, UartStates
    <3>7. /\ g.sh = u.hw.sh /\ g.dr = u.hw.dr /\ g.tc = u.hw.tc
          /\ u.port = "ch32" => UartHolds(g.rd, g.bad, u.arrived)
      BY <1>1, <1>5, <3>4
    <3>8. ~u.tx.core /\ ~u.rx.core
      BY <1>2, <3>1
    <3>9. UartInv(e)
      BY <1>6, <3>1, <3>3, <3>4, <3>5, <3>7, <3>8, UartTurns
    <3> QED BY <3>6, <3>9
  <2> QED BY <2>1, <2>2
<1> QED BY <1>8, <1>9, <1>10, <1>11

\* A byte written comes after all the others.
IsWritten(g, h, b) ==
    /\ g.tc = FALSE /\ g.rd = h.rd /\ g.bad = h.bad
    /\ \/ h.sh = NoByte /\ g.sh = b /\ g.dr = h.dr
       \/ h.sh # NoByte /\ g.sh = h.sh /\ g.dr = b

\* A byte written to the data register moves on to an empty shift register.
LEMMA WrittenIs ==
    ASSUME NEW h \in UartRegisters, NEW b \in UartBytes
    PROVE  /\ Written(h, b) \in UartRegisters /\ IsWritten(Written(h, b), h, b)
           /\ Written(h, b).txie = h.txie /\ Written(h, b).tcie = h.tcie
<1>1. CASE h.sh = NoByte
  <2>1. PICK g : g = [h EXCEPT !.sh = b, !.tc = FALSE]
    OBVIOUS
  <2>2. g \in UartRegisters
    BY <2>1 DEF UartRegisters
  <2>3. /\ g.tc = FALSE /\ g.rd = h.rd /\ g.bad = h.bad /\ g.sh = b /\ g.dr = h.dr
        /\ g.txie = h.txie /\ g.tcie = h.tcie
    BY <2>1 DEF UartRegisters
  <2>4. Written(h, b) = g
    BY <1>1, <2>1 DEF Written
  <2> QED BY <1>1, <2>2, <2>3, <2>4 DEF IsWritten
<1>2. CASE h.sh # NoByte
  <2>1. PICK g : g = [h EXCEPT !.dr = b, !.tc = FALSE]
    OBVIOUS
  <2>2. g \in UartRegisters
    BY <2>1 DEF UartRegisters
  <2>3. /\ g.tc = FALSE /\ g.rd = h.rd /\ g.bad = h.bad /\ g.sh = h.sh /\ g.dr = b
        /\ g.txie = h.txie /\ g.tcie = h.tcie
    BY <2>1 DEF UartRegisters
  <2>4. Written(h, b) = g
    BY <1>2, <2>1 DEF Written
  <2> QED BY <1>2, <2>2, <2>3, <2>4 DEF IsWritten
<1> QED BY <1>1, <1>2

\* The line stays in order when the next byte is written.
LEMMA LineWritten ==
    ASSUME NEW w, NEW sh, NEW dr, NEW tc, NEW started \in Nat, UartLine(w, sh, dr, tc, started),
           NEW later \in Nat, started <= later, NEW b, b # NoByte, b[1] \in 1 .. later,
           \A j \in 1 .. Len(w) : Before(w[j], b), sh # NoByte => Before(sh, b), Follows(w, sh, b),
           Len(w) \in Nat
    PROVE  /\ sh = NoByte => UartLine(w, b, dr, FALSE, later)
           /\ sh # NoByte => UartLine(w, sh, b, FALSE, later)
<1>1. \A n \in 1 .. started : n \in 1 .. later
  OBVIOUS
<1>2. Len(w) > 0 => Len(w) \in 1 .. Len(w)
  OBVIOUS
<1>3. \A i \in 1 .. Len(w) : w[i][1] \in 1 .. later /\ Follows(w, NoByte, w[i])
  BY <1>1 DEF UartLine
<1>4. ASSUME sh = NoByte PROVE UartLine(w, b, dr, FALSE, later)
  <2>1. dr = NoByte /\ Follows(w, NoByte, b)
    BY <1>4 DEF UartLine
  <2> QED BY <1>2, <1>3, <2>1 DEF UartLine
<1>5. ASSUME sh # NoByte PROVE UartLine(w, sh, b, FALSE, later)
  BY <1>1, <1>3, <1>5 DEF UartLine
<1> QED BY <1>4, <1>5

\* A byte of an unfinished transmission changes nothing about the finished
\* ones.
LEMMA LogWritten ==
    ASSUME NEW log, NEW w, NEW sh, NEW dr, LogTrue(log, w, sh, dr), NEW b, \A i \in 1 .. Len(log) : log[i].id # b[1]
    PROVE  LogTrue(log, w, b, dr) /\ LogTrue(log, w, sh, b)
BY DEF LogTrue, EntryTrue, SentWhole

\* The next byte of a transmission follows the last.
LEMMA SendingContinues ==
    ASSUME NEW w \in Seq(UartBytes), NEW sh \in UartBytes, NEW id \in Nat \ {0}, NEW i \in Nat,
           UartSending(w, sh, NoByte, id, i), NEW k \in Nat, k = i + 1, NEW b, b = <<id, k>>
    PROVE  /\ sh = NoByte => UartSending(w, b, NoByte, id, k)
           /\ UartSending(w, sh, b, id, k)
           /\ \A j \in 1 .. Len(w) : Before(w[j], b)
           /\ Before(sh, b) /\ Follows(w, sh, b)
<1>1. b[1] = id /\ b[2] = k /\ b \in UartBytes
  BY DEF UartBytes
<1>2. \A x \in UartBytes : UpTo(x, id, i) => UpTo(x, id, k) /\ Before(x, b)
  BY <1>1 DEF UpTo, Before, UartBytes
<1>3. \A j \in 1 .. Len(w) : w[j] \in UartBytes
  OBVIOUS
<1>4. \A j \in 1 .. Len(w) : UpTo(w[j], id, k) /\ Before(w[j], b)
  BY <1>2, <1>3 DEF UartSending
<1>5. UpTo(sh, id, k) /\ Before(sh, b)
  BY <1>2 DEF UartSending
<1>6. UpTo(b, id, k)
  BY <1>1 DEF UpTo
<1>7. UpTo(NoByte, id, k)
  BY NoByteIsOne DEF UpTo
<1>8. \A j \in 1 .. i : OnWire(w, <<id, j>>) \/ sh = <<id, j>>
  <2>1. \A j \in 1 .. i : NoByte # <<id, j>>
    BY DEF NoByte
  <2> QED BY <2>1 DEF UartSending
<1>9. \A j \in 1 .. k : j \in 1 .. i \/ b = <<id, j>>
  <2>1. \A j \in 1 .. k : j \in 1 .. i \/ j = k
    OBVIOUS
  <2> QED BY <2>1
<1>10. Follows(w, sh, b)
  <2>1. b[2] - 1 = i
    BY <1>1
  <2> QED BY <1>1, <1>8, <2>1 DEF Follows
<1>11. UartSending(w, sh, b, id, k)
  BY <1>4, <1>5, <1>6, <1>8, <1>9, Zenon DEF UartSending
<1>12. ASSUME sh = NoByte PROVE UartSending(w, b, NoByte, id, k)
  <2>1. \A j \in 1 .. i : OnWire(w, <<id, j>>)
    <3>1. \A j \in 1 .. i : NoByte # <<id, j>>
      BY DEF NoByte
    <3> QED BY <1>8, <1>12, <3>1
  <2> QED BY <1>4, <1>6, <1>7, <1>9, <2>1, Zenon DEF UartSending
<1> QED BY <1>4, <1>5, <1>10, <1>11, <1>12

\* The first byte of a transfer comes after all bytes of earlier ones.
LEMMA SendingBegins ==
    ASSUME NEW w \in Seq(UartBytes), NEW sh \in UartBytes, NEW dr \in UartBytes, NEW tc, NEW started \in Nat,
           UartLine(w, sh, dr, tc, started), NEW id \in Nat, id = started + 1, NEW b, b = <<id, 1>>
    PROVE  /\ sh = NoByte => UartSending(w, b, dr, id, 1)
           /\ UartSending(w, sh, b, id, 1)
           /\ \A j \in 1 .. Len(w) : Before(w[j], b)
           /\ Before(sh, b) /\ Follows(w, sh, b)
<1>1. b[1] = id /\ b[2] = 1 /\ b \in UartBytes
  BY DEF UartBytes
<1>2. \A x \in UartBytes : x[1] <= started => UpTo(x, id, 1) /\ Before(x, b)
  BY <1>1 DEF UpTo, Before, UartBytes
<1>3. \A j \in 1 .. Len(w) : w[j] \in UartBytes /\ w[j][1] <= started
  BY DEF UartLine
<1>4. \A j \in 1 .. Len(w) : UpTo(w[j], id, 1) /\ Before(w[j], b)
  BY <1>2, <1>3
<1>5. sh[1] <= started
  BY NoByteIsOne DEF UartLine
<1>6. UpTo(sh, id, 1) /\ Before(sh, b)
  BY <1>2, <1>5
<1>7. UpTo(b, id, 1)
  BY <1>1 DEF UpTo
<1>8. \A j \in 1 .. 1 : b = <<id, j>>
  OBVIOUS
<1>9. Follows(w, sh, b)
  <2>1. 1 .. b[2] - 1 = {}
    BY <1>1
  <2> QED BY <2>1 DEF Follows
<1>10. UartSending(w, sh, b, id, 1)
  BY <1>4, <1>6, <1>7, <1>8, Zenon DEF UartSending
<1>11. ASSUME sh = NoByte PROVE UartSending(w, b, dr, id, 1)
  <2>1. UpTo(dr, id, 1)
    <3>1. dr = NoByte
      BY <1>11 DEF UartLine
    <3> QED BY <3>1, NoByteIsOne DEF UpTo
  <2> QED BY <1>4, <1>7, <1>8, <2>1, Zenon DEF UartSending
<1> QED BY <1>4, <1>6, <1>9, <1>10, <1>11

\* Writing the next byte of the transmission in progress keeps the invariant.
LEMMA UartWritesOn ==
    ASSUME NEW u, UartInv(u), u.tx.core, u.tx.i < u.tx.n, u.hw.dr = NoByte, ~TxStopped(u),
           NEW t \in UartUnits, t.id = u.tx.id, t.n = u.tx.n, t.i = u.tx.i + 1, t.busy = u.tx.busy, t.core,
           NEW g \in UartRegisters, IsWritten(g, u.hw, <<t.id, t.i>>),
           t.busy \/ (~g.txie /\ ~g.tcie), ~(g.txie /\ g.tcie), g.tcie => t.i = t.n,
           NEW e, e = [u EXCEPT !.tx = t, !.hw = g]
    PROVE  UartInv(e)
<1>0. u \in UartStates
  BY DEF UartInv
<1>1. e \in UartStates
  BY <1>0 DEF UartStates
<1>2. /\ e.ready = u.ready /\ e.on = u.on /\ e.tx = t /\ e.rx = u.rx /\ e.hw = g /\ e.call = u.call /\ e.port = u.port
      /\ e.got = u.got /\ e.wire = u.wire /\ e.arrived = u.arrived /\ e.started = u.started /\ e.log = u.log
  BY <1>0 DEF UartStates
<1>3. PICK h \in UartRegisters : h = u.hw
  BY <1>0 DEF UartStates
<1>4. PICK x \in UartUnits : x = u.tx
  BY <1>0 DEF UartStates
<1>5. PICK w \in Seq(UartBytes), started \in Nat : w = u.wire /\ started = u.started
  BY <1>0 DEF UartStates
<1>6. PICK id \in Nat, i \in Nat, k \in Nat : id = t.id /\ i = x.i /\ k = t.i /\ k = i + 1
  BY <1>4 DEF UartUnits
<1>7. Open(u.tx) = {id} /\ Open(t) = {id}
  BY <1>6 DEF Open
<1>8. UartAnswers(u.log, started, {id}, Open(u.rx))
  BY <1>5, <1>7 DEF UartInv
<1>9. id \in 1 .. started /\ \A j \in 1 .. Len(u.log) : u.log[j].id # id
  BY <1>8 DEF UartAnswers
<1>10. PICK b : b = <<id, k>>
  OBVIOUS
<1>11. b[1] = id /\ b[2] = k /\ b # NoByte
  BY <1>6, <1>9, <1>10 DEF NoByte
<1>12. PICK sh \in UartBytes : sh = h.sh
  BY <1>3 DEF UartRegisters
<1>13. UartSending(w, sh, NoByte, id, i)
  BY <1>3, <1>4, <1>5, <1>6, <1>12 DEF UartInv
<1>14. /\ sh = NoByte => UartSending(w, b, NoByte, id, k)
       /\ UartSending(w, sh, b, id, k)
       /\ \A j \in 1 .. Len(w) : Before(w[j], b)
       /\ Before(sh, b) /\ Follows(w, sh, b)
  <2>1. id \in Nat \ {0} /\ k = i + 1
    BY <1>6, <1>9
  <2> QED BY <1>10, <1>13, <2>1, SendingContinues
<1>15. UartLine(w, sh, NoByte, h.tc, started) /\ LogTrue(u.log, w, sh, NoByte)
  BY <1>3, <1>5, <1>12 DEF UartInv
<1>16. /\ sh = NoByte => UartLine(w, b, NoByte, FALSE, started)
       /\ sh # NoByte => UartLine(w, sh, b, FALSE, started)
  <2>1. started <= started /\ Len(w) \in Nat
    OBVIOUS
  <2> QED BY <1>9, <1>11, <1>14, <1>15, <2>1, LineWritten
<1>17. LogTrue(u.log, w, b, NoByte) /\ LogTrue(u.log, w, sh, b)
  BY <1>9, <1>11, <1>15, LogWritten
<1>18. /\ g.tc = FALSE /\ g.rd = h.rd /\ g.bad = h.bad
       /\ \/ sh = NoByte /\ g.sh = b /\ g.dr = NoByte
          \/ sh # NoByte /\ g.sh = sh /\ g.dr = b
  BY <1>3, <1>6, <1>10, <1>12 DEF IsWritten
<1>19. UartLine(e.wire, e.hw.sh, e.hw.dr, e.hw.tc, e.started)
  BY <1>2, <1>5, <1>16, <1>18
<1>20. UartSending(e.wire, e.hw.sh, e.hw.dr, e.tx.id, e.tx.i)
  BY <1>2, <1>5, <1>6, <1>14, <1>18
<1>21. LogTrue(e.log, e.wire, e.hw.sh, e.hw.dr)
  BY <1>2, <1>5, <1>17, <1>18
<1>22. UartControl(e)
  <2>1. t.i <= t.n
    BY <1>4 DEF UartUnits
  <2> QED BY <1>2, <2>1 DEF UartInv, UartControl, TxStopped
<1>23. UartAnswers(e.log, e.started, Open(e.tx), Open(e.rx))
  BY <1>2, <1>5, <1>7, <1>8
<1>24. /\ e.call.op = "abort" /\ e.call.dir = "tx" => AbortAgrees(e.log, e.started, e.tx.id, Open(e.rx))
       /\ e.call.op = "abort" /\ e.call.dir = "rx" => AbortAgrees(e.log, e.started, e.rx.id, Open(e.tx))
  BY <1>2, <1>6, <1>7 DEF UartInv
<1>25. /\ LogOrdered(e.log) /\ (~e.rx.core => e.got = <<>>)
       /\ e.port = "ch32" => UartHolds(e.hw.rd, e.hw.bad, e.arrived)
       /\ e.rx.busy => UartGot(e.rx.i, e.got, e.hw.rd, e.hw.bad, e.arrived)
  BY <1>2, <1>3, <1>18 DEF UartInv
<1> QED BY <1>1, <1>19, <1>20, <1>21, <1>22, <1>23, <1>24, <1>25 DEF UartInv

\* A transfer that begins gets a number of its own.
Begun(log, started, out, in, id) ==
    /\ out = {} => UartAnswers(log, id, {id}, in)
    /\ in = {} => UartAnswers(log, id, out, {id})
    /\ id \notin out /\ id \notin in
    /\ \A i \in 1 .. Len(log) : log[i].id # id
    /\ \A x, o : AbortAgrees(log, started, x, o) => AbortAgrees(log, id, x, {id})
    /\ AbortAgrees(log, id, id, in) /\ AbortAgrees(log, id, id, out)

\* A new transfer has no answer yet.
LEMMA AnswersBegin ==
    ASSUME NEW log, NEW started \in Nat, NEW out, NEW in, UartAnswers(log, started, out, in), NEW id \in Nat, id = started + 1
    PROVE  Begun(log, started, out, in, id)
<1>1. \A n \in 1 .. started : n \in 1 .. id /\ n # id
  OBVIOUS
<1>2. \A n \in 1 .. id : n \in 1 .. started \/ n = id
  OBVIOUS
<1>3. id \in 1 .. id
  OBVIOUS
<1>4. \A i \in 1 .. Len(log) : log[i].id \in 1 .. started
  BY DEF UartAnswers
<1>5. \A x : x \in out \/ x \in in => x \in 1 .. started
  BY DEF UartAnswers
<1>6. ASSUME out = {} PROVE UartAnswers(log, id, {id}, in)
  BY <1>1, <1>2, <1>3, <1>4, <1>5, <1>6 DEF UartAnswers
<1>7. ASSUME in = {} PROVE UartAnswers(log, id, out, {id})
  BY <1>1, <1>2, <1>3, <1>4, <1>5, <1>7 DEF UartAnswers
<1>8. \A x, o : AbortAgrees(log, started, x, o) => AbortAgrees(log, id, x, {id})
  BY <1>1 DEF AbortAgrees
<1>9. \A o : id \notin o => AbortAgrees(log, id, id, o)
  BY <1>1, <1>3, <1>4 DEF AbortAgrees
<1>10. id \notin out /\ id \notin in
  BY <1>1, <1>5
<1> QED BY <1>1, <1>4, <1>6, <1>7, <1>8, <1>9, <1>10 DEF Begun

\* The line stays in order when a transfer is added that has sent nothing.
LEMMA LineLater ==
    ASSUME NEW w, NEW sh, NEW dr, NEW tc, NEW started \in Nat, UartLine(w, sh, dr, tc, started),
           NEW later \in Nat, started <= later
    PROVE  UartLine(w, sh, dr, tc, later)
<1>1. \A n \in 1 .. started : n \in 1 .. later
  OBVIOUS
<1> QED BY <1>1 DEF UartLine

\* A transmission begins by interrupt, with its first byte, or in a loop.
LEMMA UartBeginsTx ==
    ASSUME NEW u, UartInv(u), ~u.tx.core, u.on, u.call.op # "transmit", ~TxStopped(u),
           NEW t \in UartUnits, NEW id \in Nat, id = u.started + 1, t.id = id, t.n \in Lengths, t.core,
           NEW g \in UartRegisters, NEW c \in UartCalls,
           \/ /\ t.busy /\ t.i = 1 /\ c = u.call /\ u.port = "ch32"
              /\ IsWritten(g, u.hw, <<id, 1>>) /\ ~g.tcie
           \/ ~t.busy /\ t.i = 0 /\ c.op = "transmit" /\ g = u.hw /\ u.call = Idle,
           NEW e, e = [u EXCEPT !.started = id, !.tx = t, !.hw = g, !.call = c]
    PROVE  UartInv(e)
<1>0. u \in UartStates
  BY DEF UartInv
<1>1. e \in UartStates
  BY <1>0 DEF UartStates
<1>2. /\ e.ready = u.ready /\ e.on = u.on /\ e.tx = t /\ e.rx = u.rx /\ e.hw = g /\ e.call = c /\ e.port = u.port
      /\ e.got = u.got /\ e.wire = u.wire /\ e.arrived = u.arrived /\ e.started = id /\ e.log = u.log
  BY <1>0 DEF UartStates
<1>3. PICK h \in UartRegisters : h = u.hw
  BY <1>0 DEF UartStates
<1>4. PICK w \in Seq(UartBytes), started \in Nat : w = u.wire /\ started = u.started /\ id = started + 1
  BY <1>0 DEF UartStates
<1>5. PICK sh \in UartBytes, dr \in UartBytes : sh = h.sh /\ dr = h.dr
  BY <1>3 DEF UartRegisters
<1>6. Open(u.tx) = {} /\ Open(t) = {id}
  BY DEF Open
<1>7. UartAnswers(u.log, started, {}, Open(u.rx))
  BY <1>4, <1>6 DEF UartInv
<1>8. /\ UartAnswers(u.log, id, {id}, Open(u.rx)) /\ id \notin Open(u.rx)
      /\ \A i \in 1 .. Len(u.log) : u.log[i].id # id
      /\ \A x, o : AbortAgrees(u.log, started, x, o) => AbortAgrees(u.log, id, x, {id})
      /\ AbortAgrees(u.log, id, id, Open(u.rx))
  <2>1. Begun(u.log, started, {}, Open(u.rx), id)
    BY <1>4, <1>7, AnswersBegin
  <2> QED BY <2>1, Zenon DEF Begun
<1>9. UartLine(w, sh, dr, h.tc, started) /\ LogTrue(u.log, w, sh, dr)
  BY <1>3, <1>4, <1>5 DEF UartInv
<1>10. PICK b : b = <<id, 1>>
  OBVIOUS
<1>11. b[1] = id /\ b # NoByte /\ b[1] \in 1 .. id
  BY <1>4, <1>10 DEF NoByte
<1>12. /\ sh = NoByte => UartSending(w, b, dr, id, 1)
       /\ UartSending(w, sh, b, id, 1)
       /\ \A j \in 1 .. Len(w) : Before(w[j], b)
       /\ Before(sh, b) /\ Follows(w, sh, b)
  BY <1>4, <1>9, <1>10, SendingBegins
<1>13. started <= id /\ Len(w) \in Nat
  BY <1>4
<1>14. /\ sh = NoByte => UartLine(w, b, dr, FALSE, id)
       /\ sh # NoByte => UartLine(w, sh, b, FALSE, id)
  BY <1>9, <1>11, <1>12, <1>13, LineWritten
<1>15. LogTrue(u.log, w, b, dr) /\ LogTrue(u.log, w, sh, b)
  BY <1>8, <1>9, <1>11, LogWritten
<1>16. /\ UartLine(e.wire, e.hw.sh, e.hw.dr, e.hw.tc, e.started)
       /\ UartSending(e.wire, e.hw.sh, e.hw.dr, e.tx.id, e.tx.i)
       /\ LogTrue(e.log, e.wire, e.hw.sh, e.hw.dr)
       /\ e.hw.rd = h.rd /\ e.hw.bad = h.bad
  <2>1. CASE IsWritten(g, u.hw, <<id, 1>>) /\ t.i = 1
    <3>1. /\ g.tc = FALSE /\ g.rd = h.rd /\ g.bad = h.bad
          /\ \/ sh = NoByte /\ g.sh = b /\ g.dr = dr
             \/ sh # NoByte /\ g.sh = sh /\ g.dr = b
      BY <1>3, <1>5, <1>10, <2>1 DEF IsWritten
    <3> QED BY <1>2, <1>4, <1>12, <1>14, <1>15, <2>1, <3>1, ZenonT(60)
  <2>2. CASE g = u.hw /\ t.i = 0
    <3>1. UartLine(w, sh, dr, h.tc, id)
      BY <1>9, <1>13, LineLater
    <3>2. UartSending(w, sh, dr, id, 0)
      <4>1. \A x \in UartBytes : x[1] <= started => UpTo(x, id, 0)
        BY <1>4 DEF UpTo, UartBytes
      <4>2. \A j \in 1 .. Len(w) : w[j] \in UartBytes /\ w[j][1] <= started
        BY <1>9 DEF UartLine
      <4>3. sh[1] <= started /\ dr[1] <= started
        BY <1>9, NoByteIsOne DEF UartLine
      <4>4. 1 .. 0 = {}
        OBVIOUS
      <4> QED BY <4>1, <4>2, <4>3, <4>4 DEF UartSending
    <3> QED BY <1>2, <1>3, <1>4, <1>5, <1>9, <2>2, <3>1, <3>2
  <2> QED BY <2>1, <2>2
<1>17. UartControl(e)
  BY <1>2, CallsDiffer DEF UartInv, UartControl, TxStopped, Lengths
<1>18. UartAnswers(e.log, e.started, Open(e.tx), Open(e.rx))
  BY <1>2, <1>6, <1>8
<1>19. /\ e.call.op = "abort" /\ e.call.dir = "tx" => AbortAgrees(e.log, e.started, e.tx.id, Open(e.rx))
       /\ e.call.op = "abort" /\ e.call.dir = "rx" => AbortAgrees(e.log, e.started, e.rx.id, Open(e.tx))
  BY <1>2, <1>4, <1>6, <1>8, ZenonT(60) DEF UartInv
<1>20. /\ LogOrdered(e.log) /\ (~e.rx.core => e.got = <<>>)
       /\ e.port = "ch32" => UartHolds(e.hw.rd, e.hw.bad, e.arrived)
       /\ e.rx.busy => UartGot(e.rx.i, e.got, e.hw.rd, e.hw.bad, e.arrived)
  BY <1>2, <1>3, <1>16 DEF UartInv
<1> QED BY <1>1, <1>16, <1>17, <1>18, <1>19, <1>20 DEF UartInv

\* A reception begins.
LEMMA UartBeginsRx ==
    ASSUME NEW u, UartInv(u), ~u.rx.core, u.on, u.call.op # "receive",
           NEW t \in UartUnits, NEW id \in Nat, id = u.started + 1, t.id = id, t.core, t.i = 0, t.n \in Lengths, NEW c \in UartCalls,
           \/ t.busy /\ c = u.call /\ u.port = "ch32"
           \/ ~t.busy /\ c.op = "receive" /\ u.call = Idle,
           NEW e, e = [u EXCEPT !.started = id, !.rx = t, !.call = c]
    PROVE  UartInv(e)
<1>0. u \in UartStates
  BY DEF UartInv
<1>1. e \in UartStates
  BY <1>0 DEF UartStates
<1>2. /\ e.ready = u.ready /\ e.on = u.on /\ e.tx = u.tx /\ e.rx = t /\ e.hw = u.hw /\ e.call = c /\ e.port = u.port
      /\ e.got = u.got /\ e.wire = u.wire /\ e.arrived = u.arrived /\ e.started = id /\ e.log = u.log
  BY <1>0 DEF UartStates
<1>3. PICK started \in Nat : started = u.started /\ id = started + 1 /\ started <= id
  BY <1>0 DEF UartStates
<1>4. Open(u.rx) = {} /\ Open(t) = {id}
  BY DEF Open
<1>5. Begun(u.log, started, Open(u.tx), {}, id)
  <2>1. UartAnswers(u.log, started, Open(u.tx), {})
    BY <1>3, <1>4 DEF UartInv
  <2> QED BY <1>3, <2>1, AnswersBegin
<1>6. /\ UartAnswers(u.log, id, Open(u.tx), {id})
      /\ \A x, o : AbortAgrees(u.log, started, x, o) => AbortAgrees(u.log, id, x, {id})
      /\ AbortAgrees(u.log, id, id, Open(u.tx))
  BY <1>5, Zenon DEF Begun
<1>7. UartLine(e.wire, e.hw.sh, e.hw.dr, e.hw.tc, e.started)
  <2>1. UartLine(u.wire, u.hw.sh, u.hw.dr, u.hw.tc, started)
    BY <1>3 DEF UartInv
  <2> QED BY <1>2, <1>3, <2>1, LineLater
<1>8. UartControl(e)
  BY <1>2, CallsDiffer DEF UartInv, UartControl, TxStopped, Lengths
<1>9. UartAnswers(e.log, e.started, Open(e.tx), Open(e.rx))
  BY <1>2, <1>4, <1>6
<1>10. /\ e.call.op = "abort" /\ e.call.dir = "tx" => AbortAgrees(e.log, e.started, e.tx.id, Open(e.rx))
       /\ e.call.op = "abort" /\ e.call.dir = "rx" => AbortAgrees(e.log, e.started, e.rx.id, Open(e.tx))
  BY <1>2, <1>3, <1>4, <1>6, ZenonT(60) DEF UartInv
<1>11. e.rx.busy => UartGot(e.rx.i, e.got, e.hw.rd, e.hw.bad, e.arrived)
  <2>1. e.got = <<>> /\ e.rx.i = 0
    BY <1>2 DEF UartInv
  <2>2. Len(<<>>) = 0 /\ 1 .. 0 - 1 = {}
    OBVIOUS
  <2> QED BY <2>1, <2>2 DEF UartGot, Consecutive
<1>12. /\ LogOrdered(e.log) /\ e.rx.core
       /\ e.port = "ch32" => UartHolds(e.hw.rd, e.hw.bad, e.arrived)
       /\ e.tx.core => UartSending(e.wire, e.hw.sh, e.hw.dr, e.tx.id, e.tx.i)
       /\ LogTrue(e.log, e.wire, e.hw.sh, e.hw.dr)
  BY <1>2 DEF UartInv
<1> QED BY <1>1, <1>7, <1>8, <1>9, <1>10, <1>11, <1>12 DEF UartInv

\* Beginning a transmission or reception, blocking or by interrupt, keeps the
\* invariant.
LEMMA UartStartsKeep ==
    ASSUME NEW u, UartInv(u), NEW n \in Lengths
    PROVE  /\ ~TxStopped(u) => UartInv(UartTransmitAsync(u, n))
           /\ UartInv(UartReceiveAsync(u, n))
           /\ u.call = Idle => UartInv(UartTransmit(u, n)) /\ UartInv(UartReceive(u, n))
<1>0. u \in UartStates
  BY DEF UartInv
<1>1. PICK h \in UartRegisters : h = u.hw
  BY <1>0 DEF UartStates
<1>2. PICK id \in Nat : id = u.started + 1
  BY <1>0 DEF UartStates
<1>3. PICK c \in UartCalls : c = u.call
  BY <1>0 DEF UartStates
<1>4. n \in Nat
  BY DEF Lengths
<1>5. /\ ~u.tx.core => u.call.op # "transmit" /\ ~h.txie /\ ~h.tcie
      /\ ~u.rx.core => u.call.op # "receive"
  BY <1>1 DEF UartInv, UartControl
<1>6. ASSUME ~TxStopped(u) PROVE UartInv(UartTransmitAsync(u, n))
  <2>1. CASE ~u.on \/ u.tx.core \/ u.port # "ch32"
    BY <2>1 DEF UartTransmitAsync, Refused
  <2>2. CASE u.on /\ ~u.tx.core /\ u.port = "ch32"
    <3>1. PICK t : t = [id |-> id, n |-> n, i |-> 1, busy |-> TRUE, core |-> TRUE]
      OBVIOUS
    <3>2. t \in UartUnits /\ t.id = id /\ t.n = n /\ t.i = 1 /\ t.busy /\ t.core
      BY <1>4, <3>1 DEF UartUnits
    <3>3. PICK b \in UartBytes : b = <<id, 1>>
      BY DEF UartBytes
    <3>4. PICK f \in UartRegisters : f = Written(h, b) /\ IsWritten(f, h, b) /\ f.tcie = h.tcie
      BY WrittenIs
    <3>5. PICK g : g = [f EXCEPT !.txie = TRUE]
      OBVIOUS
    <3>6. g \in UartRegisters
      BY <3>4, <3>5 DEF UartRegisters
    <3>7. /\ g.tcie = f.tcie /\ g.tc = f.tc /\ g.rd = f.rd /\ g.bad = f.bad /\ g.sh = f.sh /\ g.dr = f.dr
      BY <3>4, <3>5 DEF UartRegisters
    <3>8. IsWritten(g, u.hw, <<id, 1>>) /\ ~g.tcie
      BY <1>1, <1>5, <2>2, <3>3, <3>4, <3>7 DEF IsWritten
    <3>9. PICK e : e = [u EXCEPT !.started = id, !.tx = t, !.hw = g, !.call = c]
      OBVIOUS
    <3>10. UartTransmitAsync(u, n) = e
      BY <1>0, <1>1, <1>2, <1>3, <2>2, <3>1, <3>3, <3>4, <3>5, <3>9 DEF UartTransmitAsync, UartStates
    <3>11. UartInv(e)
      BY <1>2, <1>3, <1>5, <1>6, <2>2, <3>2, <3>6, <3>8, <3>9, UartBeginsTx
    <3> QED BY <3>10, <3>11
  <2> QED BY <2>1, <2>2
<1>7. UartInv(UartReceiveAsync(u, n))
  <2>1. CASE ~u.on \/ u.rx.core \/ u.port # "ch32"
    BY <2>1 DEF UartReceiveAsync, Refused
  <2>2. CASE u.on /\ ~u.rx.core /\ u.port = "ch32"
    <3>1. PICK t : t = [id |-> id, n |-> n, i |-> 0, busy |-> TRUE, core |-> TRUE]
      OBVIOUS
    <3>2. t \in UartUnits /\ t.id = id /\ t.n = n /\ t.i = 0 /\ t.busy /\ t.core
      BY <1>4, <3>1 DEF UartUnits
    <3>3. PICK e : e = [u EXCEPT !.started = id, !.rx = t, !.call = c]
      OBVIOUS
    <3>4. UartReceiveAsync(u, n) = e
      BY <1>0, <1>2, <1>3, <2>2, <3>1, <3>3 DEF UartReceiveAsync, UartStates
    <3>5. UartInv(e)
      BY <1>2, <1>3, <1>5, <2>2, <3>2, <3>3, UartBeginsRx
    <3> QED BY <3>4, <3>5
  <2> QED BY <2>1, <2>2
<1>8. PICK t : t = [NoUnits EXCEPT !.id = id, !.n = n, !.core = TRUE]
  OBVIOUS
<1>9. t \in UartUnits /\ t.id = id /\ t.n = n /\ t.i = 0 /\ ~t.busy /\ t.core
  BY <1>4, <1>8 DEF UartUnits, NoUnits
<1>10. ASSUME u.call = Idle PROVE UartInv(UartTransmit(u, n))
  <2>1. CASE ~u.on \/ u.tx.core
    BY <2>1 DEF UartTransmit, Refused
  <2>2. CASE u.on /\ ~u.tx.core
    <3>5. PICK k : k = [op |-> "transmit"]
      OBVIOUS
    <3>1. k \in UartCalls /\ k = [op |-> "transmit"] /\ k.op = "transmit"
      <4>1. k \in [op: {"transmit", "receive"}] /\ k.op = "transmit"
        BY <3>5
      <4> QED BY <3>5, <4>1 DEF UartCalls
    <3>2. PICK e : e = [u EXCEPT !.started = id, !.tx = t, !.hw = h, !.call = k]
      OBVIOUS
    <3>3. UartTransmit(u, n) = e
      BY <1>0, <1>1, <1>2, <1>8, <2>2, <3>1, <3>2 DEF UartTransmit, UartStates
    <3>6. ~TxStopped(u)
      BY <1>10, CallsDiffer DEF TxStopped
    <3>4. UartInv(e)
      BY <1>1, <1>2, <1>5, <1>9, <1>10, <2>2, <3>1, <3>2, <3>6, UartBeginsTx, ZenonT(60)
    <3> QED BY <3>3, <3>4
  <2> QED BY <2>1, <2>2
<1>11. ASSUME u.call = Idle PROVE UartInv(UartReceive(u, n))
  <2>1. CASE ~u.on \/ u.rx.core
    BY <2>1 DEF UartReceive, Refused
  <2>2. CASE u.on /\ ~u.rx.core
    <3>5. PICK k : k = [op |-> "receive"]
      OBVIOUS
    <3>1. k \in UartCalls /\ k = [op |-> "receive"] /\ k.op = "receive"
      <4>1. k \in [op: {"transmit", "receive"}] /\ k.op = "receive"
        BY <3>5
      <4> QED BY <3>5, <4>1 DEF UartCalls
    <3>2. PICK e : e = [u EXCEPT !.started = id, !.rx = t, !.call = k]
      OBVIOUS
    <3>3. UartReceive(u, n) = e
      BY <1>0, <1>2, <1>8, <2>2, <3>1, <3>2 DEF UartReceive, UartStates
    <3>4. UartInv(e)
      BY <1>2, <1>5, <1>9, <1>11, <2>2, <3>1, <3>2, UartBeginsRx
    <3> QED BY <3>3, <3>4
  <2> QED BY <2>1, <2>2
<1> QED BY <1>6, <1>7, <1>10, <1>11

(***************************************************************************)
(* A transfer ends with an entry in the log.                               *)
(***************************************************************************)
LEMMA LogAppended ==
    ASSUME NEW log \in Seq(UartEntries), NEW a \in UartEntries, NEW l, l = Append(log, a)
    PROVE  /\ l \in Seq(UartEntries) /\ Len(l) = Len(log) + 1 /\ Len(log) \in Nat
           /\ \A i \in 1 .. Len(log) : i \in 1 .. Len(l) /\ l[i] = log[i]
           /\ Len(log) + 1 \in 1 .. Len(l) /\ l[Len(log) + 1] = a
           /\ \A i \in 1 .. Len(l) : i \in 1 .. Len(log) \/ i = Len(log) + 1
OBVIOUS

Logged(log, a, w, sh, dr, started, out, in) ==
    /\ LogTrue(Append(log, a), w, sh, dr) /\ LogOrdered(Append(log, a))
    /\ (\A x \in out : x = a.id) /\ a.id \notin in => UartAnswers(Append(log, a), started, {}, in)
    /\ (\A x \in in : x = a.id) /\ a.id \notin out => UartAnswers(Append(log, a), started, out, {})
    /\ a.ev # "ABORTED" => \A x, o, q : AbortAgrees(log, started, x, o) /\ x \notin q => AbortAgrees(Append(log, a), started, x, q)

\* An answer that is true and allowed keeps the log true and in order.
LEMMA LogExtends ==
    ASSUME NEW log \in Seq(UartEntries), NEW a \in UartEntries, NEW w, NEW sh, NEW dr, NEW started, NEW out, NEW in,
           LogTrue(log, w, sh, dr), EntryTrue(w, sh, dr, a), LogOrdered(log), UartAnswers(log, started, out, in),
           a.id \in 1 .. started,
           \A i \in 1 .. Len(log) : log[i].id = a.id => a.ev = "ABORTED" /\ log[i].ev # "ABORTED"
    PROVE  Logged(log, a, w, sh, dr, started, out, in)
<1>1. PICK l : l = Append(log, a)
  OBVIOUS
<1>2. PICK m \in Nat : m = Len(log)
  OBVIOUS
<1>3. /\ \A i \in 1 .. m : i \in 1 .. Len(l) /\ l[i] = log[i]
      /\ m + 1 \in 1 .. Len(l) /\ l[m + 1] = a
      /\ \A i \in 1 .. Len(l) : i \in 1 .. m \/ i = m + 1
  BY <1>1, <1>2, LogAppended
<1>4. LogTrue(l, w, sh, dr)
  BY <1>2, <1>3, Zenon DEF LogTrue
<1>5. LogOrdered(l)
  <2>1. ASSUME NEW i \in 1 .. Len(l), NEW j \in 1 .. Len(l), i < j, l[i].id = l[j].id
        PROVE  l[j].ev = "ABORTED" /\ l[i].ev # "ABORTED"
    <3>1. i \in 1 .. m
      BY <1>3, <2>1
    <3>2. CASE j \in 1 .. m
      BY <1>2, <1>3, <2>1, <3>1, <3>2 DEF LogOrdered
    <3>3. CASE j = m + 1
      BY <1>2, <1>3, <2>1, <3>1, <3>3
    <3> QED BY <1>3, <3>2, <3>3
  <2> QED BY <2>1 DEF LogOrdered
<1>6. \A i \in 1 .. Len(l) : l[i].id \in 1 .. started /\ (l[i].id \notin out \/ l[i].id = a.id) /\ (l[i].id \notin in \/ l[i].id = a.id)
  BY <1>2, <1>3, Zenon DEF UartAnswers
<1>7. \A id \in 1 .. started : (\E i \in 1 .. Len(l) : l[i].id = id) \/ id \in out \/ id \in in
  BY <1>2, <1>3, Zenon DEF UartAnswers
<1>8. \E i \in 1 .. Len(l) : l[i].id = a.id
  BY <1>3, Zenon
<1>9. ASSUME \A x \in out : x = a.id, a.id \notin in PROVE UartAnswers(l, started, {}, in)
  BY <1>6, <1>7, <1>8, <1>9 DEF UartAnswers
<1>10. ASSUME \A x \in in : x = a.id, a.id \notin out PROVE UartAnswers(l, started, out, {})
  BY <1>6, <1>7, <1>8, <1>10 DEF UartAnswers
<1>11. ASSUME a.ev # "ABORTED", NEW x, NEW o, NEW q, AbortAgrees(log, started, x, o), x \notin q
       PROVE  AbortAgrees(l, started, x, q)
  BY <1>2, <1>3, <1>11, Zenon DEF AbortAgrees
<1> QED BY <1>1, <1>4, <1>5, <1>9, <1>10, <1>11 DEF Logged

\* The end of a transmission, by completion or abort, keeps the invariant.
LEMMA UartTxEnds ==
    ASSUME NEW u, UartInv(u), NEW a \in UartEntries, a.id = u.tx.id,
           EntryTrue(u.wire, u.hw.sh, u.hw.dr, a), ~u.hw.txie, ~u.hw.tcie,
           u.tx.core \/ (u.call.op = "abort" /\ u.call.dir = "tx" /\ a.ev = "ABORTED"),
           NEW c \in UartCalls,
           \/ c = u.call /\ a.ev # "ABORTED" /\ c.op # "transmit"
           \/ c = Idle /\ (u.call.op = "transmit" \/ (u.call.op = "abort" /\ u.call.dir = "tx")),
           NEW t \in UartUnits, t.id = u.tx.id, ~t.core, ~t.busy,
           NEW e, e = [u EXCEPT !.tx = t, !.log = Append(u.log, a), !.call = c]
    PROVE  UartInv(e)
<1>0. u \in UartStates
  BY DEF UartInv
<1>13. PICK log \in Seq(UartEntries) : log = u.log
  BY <1>0 DEF UartStates
<1>1. PICK l \in Seq(UartEntries) : log = u.log /\ l = Append(log, a)
  BY <1>13, LogAppended
<1>2. e \in UartStates
  <2>1. <<>> \in Seq(Nat)
    OBVIOUS
  <2> QED BY <1>0, <1>1, <2>1 DEF UartStates
<1>3. /\ e.ready = u.ready /\ e.on = u.on /\ e.tx = t /\ e.rx = u.rx /\ e.hw = u.hw /\ e.call = c /\ e.port = u.port
      /\ e.got = u.got /\ e.wire = u.wire /\ e.arrived = u.arrived /\ e.started = u.started /\ e.log = l
  BY <1>0, <1>1 DEF UartStates
<1>4. Open(t) = {} /\ Open(u.tx) \subseteq {a.id}
  BY DEF Open
<1>5. /\ a.id \in 1 .. u.started /\ a.id \notin Open(u.rx)
      /\ \A i \in 1 .. Len(log) : log[i].id = a.id => a.ev = "ABORTED" /\ log[i].ev # "ABORTED"
  <2>1. CASE u.tx.core
    <3>1. Open(u.tx) = {a.id}
      BY <2>1 DEF Open
    <3>2. UartAnswers(log, u.started, Open(u.tx), Open(u.rx))
      BY <1>1 DEF UartInv
    <3> QED BY <3>1, <3>2 DEF UartAnswers
  <2>2. CASE u.call.op = "abort" /\ u.call.dir = "tx" /\ a.ev = "ABORTED"
    <3>1. AbortAgrees(log, u.started, a.id, Open(u.rx))
      BY <1>1, <2>2 DEF UartInv
    <3> QED BY <2>2, <3>1 DEF AbortAgrees
  <2> QED BY <2>1, <2>2
<1>6. Logged(log, a, u.wire, u.hw.sh, u.hw.dr, u.started, Open(u.tx), Open(u.rx))
  <2>1. /\ LogTrue(log, u.wire, u.hw.sh, u.hw.dr) /\ LogOrdered(log)
        /\ UartAnswers(log, u.started, Open(u.tx), Open(u.rx))
    BY <1>1 DEF UartInv
  <2> QED BY <1>5, <2>1, LogExtends
<1>7. /\ LogTrue(l, u.wire, u.hw.sh, u.hw.dr) /\ LogOrdered(l)
      /\ UartAnswers(l, u.started, {}, Open(u.rx))
      /\ a.ev # "ABORTED" => \A x, o, q : AbortAgrees(log, u.started, x, o) /\ x \notin q => AbortAgrees(l, u.started, x, q)
  BY <1>1, <1>4, <1>5, <1>6, Zenon DEF Logged
<1>8. UartControl(e)
  BY <1>3, CallsDiffer DEF UartInv, UartControl, TxStopped
<1>9. UartAnswers(e.log, e.started, Open(e.tx), Open(e.rx))
  BY <1>3, <1>4, <1>7
<1>10. ASSUME e.call.op = "abort"
       PROVE  /\ e.call = u.call /\ a.ev # "ABORTED"
              /\ e.call.dir = "tx" => AbortAgrees(e.log, e.started, e.tx.id, Open(e.rx))
              /\ e.call.dir = "rx" => AbortAgrees(e.log, e.started, e.rx.id, Open(e.tx))
  <2>1. e.call = u.call /\ a.ev # "ABORTED"
    BY <1>3, <1>10, CallsDiffer
  <2>2. ASSUME u.call.dir = "tx" PROVE AbortAgrees(l, u.started, a.id, Open(u.rx))
    <3>1. AbortAgrees(log, u.started, a.id, Open(u.rx))
      BY <1>1, <1>10, <2>1, <2>2 DEF UartInv
    <3> QED BY <1>5, <1>7, <2>1, <3>1, Zenon
  <2>3. ASSUME u.call.dir = "rx" PROVE AbortAgrees(l, u.started, u.rx.id, {})
    <3>1. AbortAgrees(log, u.started, u.rx.id, Open(u.tx))
      BY <1>1, <1>10, <2>1, <2>3 DEF UartInv
    <3>2. u.rx.id \notin {}
      OBVIOUS
    <3> QED BY <1>7, <2>1, <3>1, <3>2, Zenon
  <2> QED BY <1>3, <1>4, <2>1, <2>2, <2>3
<1>11. /\ e.port = "ch32" => UartHolds(e.hw.rd, e.hw.bad, e.arrived)
       /\ UartLine(e.wire, e.hw.sh, e.hw.dr, e.hw.tc, e.started)
       /\ e.tx.core => UartSending(e.wire, e.hw.sh, e.hw.dr, e.tx.id, e.tx.i)
       /\ ~e.rx.core => e.got = <<>>
       /\ e.rx.busy => UartGot(e.rx.i, e.got, e.hw.rd, e.hw.bad, e.arrived)
  BY <1>3 DEF UartInv
<1>12. LogTrue(e.log, e.wire, e.hw.sh, e.hw.dr) /\ LogOrdered(e.log)
  BY <1>3, <1>7
<1> QED BY <1>2, <1>8, <1>9, <1>10, <1>11, <1>12 DEF UartInv

\* The end of a reception, by completion, error or abort, keeps the invariant.
LEMMA UartRxEnds ==
    ASSUME NEW u, UartInv(u), NEW a \in UartEntries, a.id = u.rx.id,
           EntryTrue(u.wire, u.hw.sh, u.hw.dr, a),
           u.rx.core \/ (u.call.op = "abort" /\ u.call.dir = "rx" /\ a.ev = "ABORTED"),
           NEW c \in UartCalls,
           \/ c = u.call /\ a.ev # "ABORTED" /\ c.op # "receive"
           \/ c = Idle /\ (u.call.op = "receive" \/ (u.call.op = "abort" /\ u.call.dir = "rx")),
           NEW t \in UartUnits, t.id = u.rx.id, ~t.core, ~t.busy,
           NEW e, e = [u EXCEPT !.rx = t, !.log = Append(u.log, a), !.call = c, !.got = <<>>]
    PROVE  UartInv(e)
<1>0. u \in UartStates
  BY DEF UartInv
<1>13. PICK log \in Seq(UartEntries) : log = u.log
  BY <1>0 DEF UartStates
<1>1. PICK l \in Seq(UartEntries) : log = u.log /\ l = Append(log, a)
  BY <1>13, LogAppended
<1>2. e \in UartStates
  <2>1. <<>> \in Seq(Nat)
    OBVIOUS
  <2> QED BY <1>0, <1>1, <2>1 DEF UartStates
<1>3. /\ e.ready = u.ready /\ e.on = u.on /\ e.rx = t /\ e.tx = u.tx /\ e.hw = u.hw /\ e.call = c /\ e.port = u.port
      /\ e.got = <<>> /\ e.wire = u.wire /\ e.arrived = u.arrived /\ e.started = u.started /\ e.log = l
  BY <1>0, <1>1 DEF UartStates
<1>4. Open(t) = {} /\ Open(u.rx) \subseteq {a.id}
  BY DEF Open
<1>5. /\ a.id \in 1 .. u.started /\ a.id \notin Open(u.tx)
      /\ \A i \in 1 .. Len(log) : log[i].id = a.id => a.ev = "ABORTED" /\ log[i].ev # "ABORTED"
  <2>1. CASE u.rx.core
    <3>1. Open(u.rx) = {a.id}
      BY <2>1 DEF Open
    <3>2. UartAnswers(log, u.started, Open(u.tx), Open(u.rx))
      BY <1>1 DEF UartInv
    <3> QED BY <3>1, <3>2 DEF UartAnswers
  <2>2. CASE u.call.op = "abort" /\ u.call.dir = "rx" /\ a.ev = "ABORTED"
    <3>1. AbortAgrees(log, u.started, a.id, Open(u.tx))
      BY <1>1, <2>2 DEF UartInv
    <3> QED BY <2>2, <3>1 DEF AbortAgrees
  <2> QED BY <2>1, <2>2
<1>6. Logged(log, a, u.wire, u.hw.sh, u.hw.dr, u.started, Open(u.tx), Open(u.rx))
  <2>1. /\ LogTrue(log, u.wire, u.hw.sh, u.hw.dr) /\ LogOrdered(log)
        /\ UartAnswers(log, u.started, Open(u.tx), Open(u.rx))
    BY <1>1 DEF UartInv
  <2> QED BY <1>5, <2>1, LogExtends
<1>7. /\ LogTrue(l, u.wire, u.hw.sh, u.hw.dr) /\ LogOrdered(l)
      /\ UartAnswers(l, u.started, Open(u.tx), {})
      /\ a.ev # "ABORTED" => \A x, o, q : AbortAgrees(log, u.started, x, o) /\ x \notin q => AbortAgrees(l, u.started, x, q)
  BY <1>1, <1>4, <1>5, <1>6, Zenon DEF Logged
<1>8. UartControl(e)
  BY <1>3, CallsDiffer DEF UartInv, UartControl, TxStopped
<1>9. UartAnswers(e.log, e.started, Open(e.tx), Open(e.rx))
  BY <1>3, <1>4, <1>7
<1>10. ASSUME e.call.op = "abort"
       PROVE  /\ e.call = u.call /\ a.ev # "ABORTED"
              /\ e.call.dir = "rx" => AbortAgrees(e.log, e.started, e.rx.id, Open(e.tx))
              /\ e.call.dir = "tx" => AbortAgrees(e.log, e.started, e.tx.id, Open(e.rx))
  <2>1. e.call = u.call /\ a.ev # "ABORTED"
    BY <1>3, <1>10, CallsDiffer
  <2>2. ASSUME u.call.dir = "rx" PROVE AbortAgrees(l, u.started, a.id, Open(u.tx))
    <3>1. AbortAgrees(log, u.started, a.id, Open(u.tx))
      BY <1>1, <1>10, <2>1, <2>2 DEF UartInv
    <3> QED BY <1>5, <1>7, <2>1, <3>1, Zenon
  <2>3. ASSUME u.call.dir = "tx" PROVE AbortAgrees(l, u.started, u.tx.id, {})
    <3>1. AbortAgrees(log, u.started, u.tx.id, Open(u.rx))
      BY <1>1, <1>10, <2>1, <2>3 DEF UartInv
    <3>2. u.tx.id \notin {}
      OBVIOUS
    <3> QED BY <1>7, <2>1, <3>1, <3>2, Zenon
  <2> QED BY <1>3, <1>4, <2>1, <2>2, <2>3
<1>11. /\ e.port = "ch32" => UartHolds(e.hw.rd, e.hw.bad, e.arrived)
       /\ UartLine(e.wire, e.hw.sh, e.hw.dr, e.hw.tc, e.started)
       /\ e.tx.core => UartSending(e.wire, e.hw.sh, e.hw.dr, e.tx.id, e.tx.i)
       /\ ~e.rx.core => e.got = <<>>
       /\ e.rx.busy => UartGot(e.rx.i, e.got, e.hw.rd, e.hw.bad, e.arrived)
  BY <1>3 DEF UartInv
<1>12. LogTrue(e.log, e.wire, e.hw.sh, e.hw.dr) /\ LogOrdered(e.log)
  BY <1>3, <1>7
<1> QED BY <1>2, <1>8, <1>9, <1>10, <1>11, <1>12 DEF UartInv

(***************************************************************************)
(* Interrupt enables, the receiver and the call under way.                 *)
(***************************************************************************)
LEMMA UartSwitches ==
    ASSUME NEW u, UartInv(u), NEW g \in UartRegisters, g.sh = u.hw.sh, g.dr = u.hw.dr, g.tc = u.hw.tc \/ g.tc = FALSE,
           u.tx.busy \/ (~g.txie /\ ~g.tcie), ~(g.txie /\ g.tcie), g.tcie => u.tx.i = u.tx.n,
           u.port = "ch32" => UartHolds(g.rd, g.bad, u.arrived),
           u.rx.busy => UartGot(u.rx.i, u.got, g.rd, g.bad, u.arrived),
           NEW c \in UartCalls,
           c.op = "transmit" <=> u.call.op = "transmit", c.op = "receive" <=> u.call.op = "receive",
           c.op = "abort" /\ c.dir = "tx" => AbortAgrees(u.log, u.started, u.tx.id, Open(u.rx)),
           c.op = "abort" /\ c.dir = "rx" => AbortAgrees(u.log, u.started, u.rx.id, Open(u.tx)),
           c.op = "abort" /\ c.dir = "tx" /\ c.done # None => ~g.txie /\ ~g.tcie,
           NEW e, e = [u EXCEPT !.hw = g, !.call = c]
    PROVE  UartInv(e)
<1>0. u \in UartStates
  BY DEF UartInv
<1>1. e \in UartStates
  BY <1>0 DEF UartStates
<1>2. /\ e.ready = u.ready /\ e.on = u.on /\ e.tx = u.tx /\ e.rx = u.rx /\ e.hw = g /\ e.call = c /\ e.port = u.port
      /\ e.got = u.got /\ e.wire = u.wire /\ e.arrived = u.arrived /\ e.started = u.started /\ e.log = u.log
  BY <1>0 DEF UartStates
<1>3. UartControl(e)
  BY <1>2 DEF UartInv, UartControl, TxStopped
<1>4. UartLine(e.wire, e.hw.sh, e.hw.dr, e.hw.tc, e.started)
  <2>1. UartLine(u.wire, u.hw.sh, u.hw.dr, u.hw.tc, u.started)
    BY DEF UartInv
  <2>2. UartLine(u.wire, u.hw.sh, u.hw.dr, FALSE, u.started)
    BY <2>1 DEF UartLine
  <2> QED BY <1>2, <2>1, <2>2
<1>5. /\ e.tx.core => UartSending(e.wire, e.hw.sh, e.hw.dr, e.tx.id, e.tx.i)
      /\ LogTrue(e.log, e.wire, e.hw.sh, e.hw.dr) /\ LogOrdered(e.log)
      /\ UartAnswers(e.log, e.started, Open(e.tx), Open(e.rx))
      /\ ~e.rx.core => e.got = <<>>
  BY <1>2 DEF UartInv
<1>6. /\ e.call.op = "abort" /\ e.call.dir = "tx" => AbortAgrees(e.log, e.started, e.tx.id, Open(e.rx))
      /\ e.call.op = "abort" /\ e.call.dir = "rx" => AbortAgrees(e.log, e.started, e.rx.id, Open(e.tx))
      /\ e.port = "ch32" => UartHolds(e.hw.rd, e.hw.bad, e.arrived)
      /\ e.rx.busy => UartGot(e.rx.i, e.got, e.hw.rd, e.hw.bad, e.arrived)
  BY <1>2
<1> QED BY <1>1, <1>3, <1>4, <1>5, <1>6 DEF UartInv

\* Taking a byte out of the receive register keeps the invariant.
LEMMA UartTakes ==
    ASSUME NEW u, UartInv(u), u.rx.core, NEW t \in UartUnits, t.id = u.rx.id, t.busy = u.rx.busy, t.core, t.busy => t.i < t.n,
           NEW g \in UartRegisters, g.sh = u.hw.sh, g.dr = u.hw.dr, g.tc = u.hw.tc, g.txie = u.hw.txie, g.tcie = u.hw.tcie,
           u.port = "ch32" => UartHolds(g.rd, g.bad, u.arrived),
           NEW got \in Seq(Nat), t.busy => UartGot(t.i, got, g.rd, g.bad, u.arrived),
           NEW e, e = [u EXCEPT !.rx = t, !.got = got, !.hw = g]
    PROVE  UartInv(e)
<1>0. u \in UartStates
  BY DEF UartInv
<1>1. e \in UartStates
  BY <1>0 DEF UartStates
<1>2. /\ e.ready = u.ready /\ e.on = u.on /\ e.tx = u.tx /\ e.rx = t /\ e.hw = g /\ e.call = u.call /\ e.port = u.port
      /\ e.got = got /\ e.wire = u.wire /\ e.arrived = u.arrived /\ e.started = u.started /\ e.log = u.log
  BY <1>0 DEF UartStates
<1>3. Open(t) = Open(u.rx)
  BY DEF Open
<1>4. UartControl(e)
  BY <1>2 DEF UartInv, UartControl, TxStopped
<1>5. /\ UartLine(e.wire, e.hw.sh, e.hw.dr, e.hw.tc, e.started)
      /\ e.tx.core => UartSending(e.wire, e.hw.sh, e.hw.dr, e.tx.id, e.tx.i)
      /\ LogTrue(e.log, e.wire, e.hw.sh, e.hw.dr) /\ LogOrdered(e.log)
      /\ UartAnswers(e.log, e.started, Open(e.tx), Open(e.rx))
      /\ e.call.op = "abort" /\ e.call.dir = "tx" => AbortAgrees(e.log, e.started, e.tx.id, Open(e.rx))
      /\ e.call.op = "abort" /\ e.call.dir = "rx" => AbortAgrees(e.log, e.started, e.rx.id, Open(e.tx))
  BY <1>2, <1>3 DEF UartInv
<1>6. /\ e.port = "ch32" => UartHolds(e.hw.rd, e.hw.bad, e.arrived)
      /\ e.rx.busy => UartGot(e.rx.i, e.got, e.hw.rd, e.hw.bad, e.arrived)
      /\ e.rx.core
  BY <1>2
<1> QED BY <1>1, <1>4, <1>5, <1>6 DEF UartInv

\* One more byte received after i others, the number after theirs.
Ends(got, i, b) == Len(got) = i /\ Consecutive(got) /\ (i > 0 => got[i] = b)

\* A byte that follows the last one received leaves no hole.
LEMMA NextByte ==
    ASSUME NEW got \in Seq(Nat), NEW i \in Nat, NEW b \in Nat, NEW before, b = before + 1, before \in Int, Ends(got, i, before)
    PROVE  Append(got, b) \in Seq(Nat) /\ Ends(Append(got, b), i + 1, b)
<1>1. PICK more : more = Append(got, b)
  OBVIOUS
<1>2. more \in Seq(Nat) /\ Len(more) = i + 1 /\ more[i + 1] = b /\ \A j \in 1 .. i : more[j] = got[j]
  BY <1>1 DEF Ends
<1>3. ASSUME NEW j \in 1 .. Len(more) - 1 PROVE more[j + 1] = more[j] + 1
  <2>1. j \in 1 .. i /\ more[j] = got[j]
    BY <1>2
  <2>2. CASE j = i
    BY <1>2, <2>1, <2>2 DEF Ends
  <2>3. CASE j # i
    <3>1. j + 1 \in 1 .. i /\ j \in 1 .. Len(got) - 1
      BY <2>1, <2>3 DEF Ends
    <3> QED BY <1>2, <2>1, <3>1 DEF Consecutive, Ends
  <2> QED BY <2>2, <2>3
<1> QED BY <1>1, <1>2, <1>3 DEF Consecutive, Ends

\* A byte that arrives, damaged or not, taken over or overrun, keeps the
\* invariant.
LEMMA UartArrivalKeeps ==
    ASSUME NEW u, UartInv(u), NEW damage \in {"none", "LINE"}
    PROVE  UartInv(ByteArrives(u, damage))
<1>0. u \in UartStates
  BY DEF UartInv
<1>1. PICK h \in UartRegisters : h = u.hw
  BY <1>0 DEF UartStates
<1>2. PICK rd \in Seq(Nat), bad \in {"none", "LINE", "ORE"} : rd = h.rd /\ bad = h.bad
  BY <1>1 DEF UartRegisters
<1>3. PICK n \in Nat : n = u.arrived /\ n + 1 \in Nat
  BY <1>0 DEF UartStates
<1>19. PICK m \in Nat : m = n + 1
  BY <1>3
<1>20. Append(rd, m) \in Seq(Nat)
  BY <1>2, <1>19
<1>4. PICK more \in Seq(Nat) : more = Append(rd, n + 1)
  BY <1>19, <1>20
<1>5. PICK r \in Seq(Nat) : r = IF Len(rd) < ReceiverDepth(u.port) THEN more ELSE rd
  BY <1>2, <1>4
<1>6. PICK b \in {"none", "LINE", "ORE"} :
         b = IF u.port # "ch32" \/ bad # "none" THEN bad ELSE IF Len(rd) < ReceiverDepth(u.port) THEN damage ELSE "ORE"
  OBVIOUS
<1>7. PICK g : g = [h EXCEPT !.bad = b, !.rd = r]
  OBVIOUS
<1>8. g \in UartRegisters
  BY <1>7 DEF UartRegisters
<1>9. /\ g.sh = h.sh /\ g.dr = h.dr /\ g.tc = h.tc /\ g.txie = h.txie /\ g.tcie = h.tcie /\ g.rd = r /\ g.bad = b
  BY <1>7 DEF UartRegisters
<1>10. PICK e : e = [u EXCEPT !.arrived = n + 1, !.hw = g]
  OBVIOUS
<1>11. ByteArrives(u, damage) = e
  BY <1>0, <1>1, <1>2, <1>3, <1>4, <1>5, <1>6, <1>7, <1>10 DEF ByteArrives, UartStates
<1>12. e \in UartStates
  BY <1>0, <1>3, <1>8, <1>10 DEF UartStates
<1>13. /\ e.ready = u.ready /\ e.on = u.on /\ e.tx = u.tx /\ e.rx = u.rx /\ e.hw = g /\ e.call = u.call /\ e.port = u.port
       /\ e.got = u.got /\ e.wire = u.wire /\ e.arrived = n + 1 /\ e.started = u.started /\ e.log = u.log
  BY <1>0, <1>10 DEF UartStates
<1>14. UartControl(e)
  BY <1>1, <1>9, <1>13 DEF UartInv, UartControl, TxStopped
<1>15. ASSUME u.port = "ch32"
       PROVE  /\ UartHolds(r, b, n + 1)
              /\ u.rx.busy => UartGot(u.rx.i, u.got, r, b, n + 1)
  <2>1. UartHolds(rd, bad, n)
    BY <1>1, <1>2, <1>3, <1>15 DEF UartInv
  <2>2. u.rx.busy => UartGot(u.rx.i, u.got, rd, bad, n)
    BY <1>1, <1>2, <1>3 DEF UartInv
  <2>3. CASE Len(rd) = 0
    <3>4. r = more
      BY <1>5, <1>15, <2>3 DEF ReceiverDepth
    <3>1. Len(r) = 1 /\ r[1] = n + 1
      BY <1>2, <1>3, <1>4, <2>3, <3>4
    <3>2. b = "none" => bad = "none"
      BY <1>6
    <3>3. n - 0 = (n + 1) - 1
      OBVIOUS
    <3> QED BY <2>2, <2>3, <3>1, <3>2, <3>3 DEF UartHolds, UartGot
  <2>4. CASE Len(rd) = 1
    <3>1. ~(Len(rd) < ReceiverDepth(u.port))
      BY <1>15, <2>4 DEF ReceiverDepth
    <3>2. r = rd /\ b # "none"
      BY <1>5, <1>6, <1>15, <3>1
    <3> QED BY <2>2, <2>4, <3>2 DEF UartHolds, UartGot
  <2> QED BY <2>1, <2>3, <2>4 DEF UartHolds
<1>16. u.rx.busy => u.port = "ch32"
  BY DEF UartInv, UartControl
<1>17. /\ e.port = "ch32" => UartHolds(e.hw.rd, e.hw.bad, e.arrived)
       /\ e.rx.busy => UartGot(e.rx.i, e.got, e.hw.rd, e.hw.bad, e.arrived)
  BY <1>9, <1>13, <1>15, <1>16
<1>18. /\ UartLine(e.wire, e.hw.sh, e.hw.dr, e.hw.tc, e.started)
       /\ e.tx.core => UartSending(e.wire, e.hw.sh, e.hw.dr, e.tx.id, e.tx.i)
       /\ LogTrue(e.log, e.wire, e.hw.sh, e.hw.dr) /\ LogOrdered(e.log)
       /\ UartAnswers(e.log, e.started, Open(e.tx), Open(e.rx))
       /\ e.call.op = "abort" /\ e.call.dir = "tx" => AbortAgrees(e.log, e.started, e.tx.id, Open(e.rx))
       /\ e.call.op = "abort" /\ e.call.dir = "rx" => AbortAgrees(e.log, e.started, e.rx.id, Open(e.tx))
       /\ ~e.rx.core => e.got = <<>>
  BY <1>1, <1>9, <1>13 DEF UartInv
<1> QED BY <1>11, <1>12, <1>14, <1>17, <1>18 DEF UartInv

(***************************************************************************)
(* The sender shifts a byte out.                                           *)
(***************************************************************************)
WireLonger(w, b, v) ==
    /\ Len(v) = Len(w) + 1 /\ v[Len(v)] = b /\ Len(v) \in 1 .. Len(v)
    /\ \A i \in 1 .. Len(w) : i \in 1 .. Len(v) /\ v[i] = w[i]
    /\ \A i \in 1 .. Len(v) : i \in 1 .. Len(w) \/ i = Len(v)
    /\ \A x : OnWire(w, x) \/ x = b => OnWire(v, x)

\* The wire is one byte longer.
LEMMA WireAppended ==
    ASSUME NEW w \in Seq(UartBytes), NEW b \in UartBytes, NEW v, v = Append(w, b)
    PROVE  v \in Seq(UartBytes) /\ WireLonger(w, b, v)
<1>1. /\ v \in Seq(UartBytes) /\ Len(v) = Len(w) + 1 /\ v[Len(v)] = b /\ Len(v) \in 1 .. Len(v)
      /\ \A i \in 1 .. Len(w) : i \in 1 .. Len(v) /\ v[i] = w[i]
      /\ \A i \in 1 .. Len(v) : i \in 1 .. Len(w) \/ i = Len(v)
  OBVIOUS
<1>2. \A x : OnWire(w, x) \/ x = b => OnWire(v, x)
  BY <1>1, Zenon DEF OnWire
<1> QED BY <1>1, <1>2 DEF WireLonger

\* The line stays in order when the shift register puts its byte on the wire.
LEMMA LineShifts ==
    ASSUME NEW w \in Seq(UartBytes), NEW sh \in UartBytes, NEW dr \in UartBytes, NEW tc, NEW started,
           UartLine(w, sh, dr, tc, started), sh # NoByte, NEW v, WireLonger(w, sh, v), NEW c, c => dr = NoByte
    PROVE  UartLine(v, dr, NoByte, c, started)
<1>1. ASSUME NEW b, Follows(w, NoByte, b) PROVE Follows(v, NoByte, b)
  BY <1>1, Zenon DEF Follows, WireLonger
<1>2. ASSUME NEW b, Follows(w, sh, b) PROVE Follows(v, NoByte, b)
  BY <1>2, Zenon DEF Follows, WireLonger
<1>3. sh[1] \in 1 .. started /\ Follows(v, NoByte, sh)
  BY <1>1 DEF UartLine
<1>4. ASSUME NEW i \in 1 .. Len(v) PROVE v[i][1] \in 1 .. started /\ Follows(v, NoByte, v[i])
  <2>1. CASE i \in 1 .. Len(w)
    <3>1. v[i] = w[i]
      BY <2>1 DEF WireLonger
    <3> QED BY <1>1, <2>1, <3>1 DEF UartLine
  <2>2. CASE i = Len(v)
    BY <1>3, <2>2 DEF WireLonger
  <2> QED BY <2>1, <2>2 DEF WireLonger
<1>5. Len(w) \in Nat /\ Len(v) = Len(w) + 1 /\ v[Len(v)] = sh
  BY DEF WireLonger
<1>6. ASSUME NEW i \in 1 .. Len(v) - 1 PROVE Before(v[i], v[i + 1])
  <2>1. i \in 1 .. Len(w) /\ v[i] = w[i]
    BY <1>5 DEF WireLonger
  <2>2. CASE i = Len(w)
    BY <1>5, <2>1, <2>2 DEF UartLine
  <2>3. CASE i # Len(w)
    <3>1. i \in 1 .. Len(w) - 1 /\ i + 1 \in 1 .. Len(w)
      BY <1>5, <2>1, <2>3
    <3>2. v[i + 1] = w[i + 1]
      BY <3>1 DEF WireLonger
    <3> QED BY <2>1, <3>1, <3>2 DEF UartLine
  <2> QED BY <2>2, <2>3
<1>7. dr # NoByte => dr[1] \in 1 .. started /\ Follows(v, NoByte, dr) /\ Before(v[Len(v)], dr)
  BY <1>2, <1>5 DEF UartLine
<1> QED BY <1>4, <1>6, <1>7 DEF UartLine

\* The transmission in progress loses no byte when one is shifted out.
LEMMA SendingShifts ==
    ASSUME NEW w \in Seq(UartBytes), NEW sh \in UartBytes, NEW dr \in UartBytes, NEW id \in Nat \ {0}, NEW i \in Nat,
           UartSending(w, sh, dr, id, i), NEW v, WireLonger(w, sh, v)
    PROVE  UartSending(v, dr, NoByte, id, i)
<1>1. UpTo(NoByte, id, i)
  BY NoByteIsOne DEF UpTo
<1>2. \A j \in 1 .. Len(v) : UpTo(v[j], id, i)
  BY Zenon DEF UartSending, WireLonger
<1>3. \A j \in 1 .. i : OnWire(v, <<id, j>>) \/ dr = <<id, j>>
  BY Zenon DEF UartSending, WireLonger
<1> QED BY <1>1, <1>2, <1>3, Zenon DEF UartSending

\* Nor do the finished transmissions.
LEMMA LogShifts ==
    ASSUME NEW w \in Seq(UartBytes), NEW sh \in UartBytes, NEW dr \in UartBytes, NEW v, WireLonger(w, sh, v),
           NEW log, LogTrue(log, w, sh, dr), NEW started, NEW out, NEW in, UartAnswers(log, started, out, in)
    PROVE  LogTrue(log, v, dr, NoByte)
<1>1. ASSUME NEW k \in 1 .. Len(log) PROVE EntryTrue(v, dr, NoByte, log[k])
  <2>1. PICK e : e = log[k]
    OBVIOUS
  <2>2. EntryTrue(w, sh, dr, e)
    BY <2>1 DEF LogTrue
  <2>3. e.id # 0
    BY <2>1 DEF UartAnswers
  <2>4. ASSUME SentWhole(w, sh, dr, e) PROVE SentWhole(v, dr, NoByte, e)
    <3>1. \A j \in 1 .. e.n : OnWire(v, <<e.id, j>>)
      BY <2>4, Zenon DEF SentWhole, WireLonger
    <3>2. \A i \in 1 .. Len(v) : v[i][1] = e.id => v[i][2] <= e.n
      BY <2>4, Zenon DEF SentWhole, WireLonger
    <3> QED BY <2>3, <2>4, <3>1, <3>2, NoByteIsOne DEF SentWhole
  <2> QED BY <2>1, <2>2, <2>4 DEF EntryTrue
<1> QED BY <1>1 DEF LogTrue

\* A byte shifted out onto the wire keeps the invariant.
LEMMA UartShiftKeeps ==
    ASSUME NEW u, UartInv(u), u.hw.sh # NoByte
    PROVE  UartInv(ShiftedOut(u))
<1>0. u \in UartStates
  BY DEF UartInv
<1>1. PICK h \in UartRegisters : h = u.hw
  BY <1>0 DEF UartStates
<1>2. PICK w \in Seq(UartBytes), started \in Nat : w = u.wire /\ started = u.started
  BY <1>0 DEF UartStates
<1>3. PICK sh \in UartBytes, dr \in UartBytes : sh = h.sh /\ dr = h.dr
  BY <1>1 DEF UartRegisters
<1>4. PICK v : v = Append(w, sh)
  OBVIOUS
<1>5. v \in Seq(UartBytes) /\ WireLonger(w, sh, v)
  BY <1>4, WireAppended
<1>6. PICK g : g = [h EXCEPT !.sh = dr, !.dr = NoByte, !.tc = dr = NoByte]
  OBVIOUS
<1>7. g \in UartRegisters
  BY <1>6, NoByteIsOne DEF UartRegisters
<1>8. /\ g.sh = dr /\ g.dr = NoByte /\ g.tc = (dr = NoByte)
      /\ g.txie = h.txie /\ g.tcie = h.tcie /\ g.rd = h.rd /\ g.bad = h.bad
  BY <1>6 DEF UartRegisters
<1>9. PICK e : e = [u EXCEPT !.wire = v, !.hw = g]
  OBVIOUS
<1>10. ShiftedOut(u) = e
  BY <1>0, <1>1, <1>2, <1>3, <1>4, <1>6, <1>9 DEF ShiftedOut, UartStates
<1>11. e \in UartStates
  BY <1>0, <1>5, <1>7, <1>9 DEF UartStates
<1>12. /\ e.ready = u.ready /\ e.on = u.on /\ e.tx = u.tx /\ e.rx = u.rx /\ e.hw = g /\ e.call = u.call /\ e.port = u.port
       /\ e.got = u.got /\ e.wire = v /\ e.arrived = u.arrived /\ e.started = u.started /\ e.log = u.log
  BY <1>0, <1>9 DEF UartStates
<1>13. UartControl(e)
  BY <1>1, <1>8, <1>12 DEF UartInv, UartControl, TxStopped
<1>14. UartLine(w, sh, dr, h.tc, started) /\ LogTrue(u.log, w, sh, dr) /\ UartAnswers(u.log, started, Open(u.tx), Open(u.rx))
  BY <1>1, <1>2, <1>3 DEF UartInv
<1>15. UartLine(e.wire, e.hw.sh, e.hw.dr, e.hw.tc, e.started)
  <2>1. UartLine(v, dr, NoByte, g.tc, started)
    BY <1>1, <1>3, <1>5, <1>8, <1>14, LineShifts
  <2> QED BY <1>2, <1>8, <1>12, <2>1
<1>16. LogTrue(e.log, e.wire, e.hw.sh, e.hw.dr)
  <2>1. LogTrue(u.log, v, dr, NoByte)
    BY <1>5, <1>14, LogShifts
  <2> QED BY <1>8, <1>12, <2>1
<1>17. ASSUME e.tx.core PROVE UartSending(e.wire, e.hw.sh, e.hw.dr, e.tx.id, e.tx.i)
  <2>1. PICK id \in Nat, i \in Nat : id = u.tx.id /\ i = u.tx.i
    BY <1>0 DEF UartStates, UartUnits
  <2>2. UartSending(w, sh, dr, id, i)
    BY <1>1, <1>2, <1>3, <1>12, <1>17, <2>1 DEF UartInv
  <2>3. id \in Nat \ {0}
    <3>1. id \in Open(u.tx)
      BY <1>12, <1>17, <2>1 DEF Open
    <3> QED BY <1>14, <3>1 DEF UartAnswers
  <2>4. UartSending(v, dr, NoByte, id, i)
    BY <1>5, <2>2, <2>3, SendingShifts
  <2> QED BY <1>8, <1>12, <2>1, <2>4
<1>18. /\ LogOrdered(e.log) /\ UartAnswers(e.log, e.started, Open(e.tx), Open(e.rx))
       /\ e.call.op = "abort" /\ e.call.dir = "tx" => AbortAgrees(e.log, e.started, e.tx.id, Open(e.rx))
       /\ e.call.op = "abort" /\ e.call.dir = "rx" => AbortAgrees(e.log, e.started, e.rx.id, Open(e.tx))
       /\ ~e.rx.core => e.got = <<>>
       /\ e.port = "ch32" => UartHolds(e.hw.rd, e.hw.bad, e.arrived)
       /\ e.rx.busy => UartGot(e.rx.i, e.got, e.hw.rd, e.hw.bad, e.arrived)
  BY <1>1, <1>8, <1>12 DEF UartInv
<1> QED BY <1>10, <1>11, <1>13, <1>15, <1>16, <1>17, <1>18 DEF UartInv

(***************************************************************************)
(* What an event writes.                                                   *)
(***************************************************************************)
TxEvent(u, ev, k, t, a) ==
    /\ t.id = u.tx.id /\ ~t.core /\ ~t.busy
    /\ a.id = u.tx.id /\ a.dir = "tx" /\ a.ev = ev /\ a.k = k /\ a.n = u.tx.n
    /\ Event(u, "tx", ev, k) = [u EXCEPT !.tx = t, !.log = Append(u.log, a), !.call = u.call]
    /\ \A c : [Event(u, "tx", ev, k) EXCEPT !.call = c] = [u EXCEPT !.tx = t, !.log = Append(u.log, a), !.call = c]

RxEvent(u, ev, k, t, a) ==
    /\ t.id = u.rx.id /\ ~t.core /\ ~t.busy
    /\ a.id = u.rx.id /\ a.dir = "rx" /\ a.ev = ev /\ a.k = k /\ a.n = u.rx.n /\ a.data = u.got
    /\ Event(u, "rx", ev, k) = [u EXCEPT !.rx = t, !.log = Append(u.log, a), !.call = u.call, !.got = <<>>]
    /\ \A c : [Event(u, "rx", ev, k) EXCEPT !.call = c] =
                [u EXCEPT !.rx = t, !.log = Append(u.log, a), !.call = c, !.got = <<>>]

\* The event of a transmission writes one entry and clears the direction.
LEMMA TxEventIs ==
    ASSUME NEW u \in UartStates, NEW ev \in UartEvents, NEW k \in Nat
    PROVE  \E t \in UartUnits, a \in UartEntries : TxEvent(u, ev, k, t, a)
<1>1. PICK x \in UartUnits : x = u.tx
  BY DEF UartStates
<1>2. PICK id \in Nat, n \in Nat : id = x.id /\ n = x.n
  BY <1>1 DEF UartUnits
<1>3. PICK t : t = [NoUnits EXCEPT !.id = id]
  OBVIOUS
<1>4. t \in UartUnits /\ t.id = id /\ ~t.core /\ ~t.busy
  BY <1>3 DEF NoUnits, UartUnits
<1>5. PICK a : a = [id |-> id, dir |-> "tx", ev |-> ev, k |-> k, n |-> n, data |-> <<>>]
  OBVIOUS
<1>6. a \in UartEntries
  <2>1. <<>> \in Seq(Nat)
    OBVIOUS
  <2> QED BY <1>5, <2>1 DEF UartEntries
<1>7. a.id = id /\ a.dir = "tx" /\ a.ev = ev /\ a.k = k /\ a.n = n
  BY <1>5
<1>8. Answer(u, "tx", ev, k) = Append(u.log, a)
  BY <1>1, <1>2, <1>5 DEF Answer
<1>9. PICK l : l = Append(u.log, a)
  OBVIOUS
<1>10. Event(u, "tx", ev, k) = [u EXCEPT !.tx = t, !.log = l]
  BY <1>1, <1>2, <1>3, <1>8, <1>9 DEF Event, UartStates
<1>11. [u EXCEPT !.tx = t, !.log = l] = [u EXCEPT !.tx = t, !.log = l, !.call = u.call]
  BY DEF UartStates
<1>12. \A c : [[u EXCEPT !.tx = t, !.log = l] EXCEPT !.call = c] = [u EXCEPT !.tx = t, !.log = l, !.call = c]
  OBVIOUS
<1>13. TxEvent(u, ev, k, t, a)
  BY <1>1, <1>2, <1>4, <1>7, <1>9, <1>10, <1>11, <1>12 DEF TxEvent
<1> QED BY <1>4, <1>6, <1>13

\* The event of a reception writes one entry and clears the direction.
LEMMA RxEventIs ==
    ASSUME NEW u \in UartStates, NEW ev \in UartEvents, NEW k \in Nat
    PROVE  \E t \in UartUnits, a \in UartEntries : RxEvent(u, ev, k, t, a)
<1>1. PICK x \in UartUnits : x = u.rx
  BY DEF UartStates
<1>2. PICK id \in Nat, n \in Nat : id = x.id /\ n = x.n
  BY <1>1 DEF UartUnits
<1>3. PICK t : t = [NoUnits EXCEPT !.id = id]
  OBVIOUS
<1>4. t \in UartUnits /\ t.id = id /\ ~t.core /\ ~t.busy
  BY <1>3 DEF NoUnits, UartUnits
<1>14. PICK got \in Seq(Nat) : got = u.got
  BY DEF UartStates
<1>5. PICK a : a = [id |-> id, dir |-> "rx", ev |-> ev, k |-> k, n |-> n, data |-> got]
  OBVIOUS
<1>6. a \in UartEntries
  BY <1>5 DEF UartEntries
<1>7. a.id = id /\ a.dir = "rx" /\ a.ev = ev /\ a.k = k /\ a.n = n /\ a.data = got
  BY <1>5
<1>8. Answer(u, "rx", ev, k) = Append(u.log, a)
  BY <1>1, <1>2, <1>5, <1>14 DEF Answer
<1>9. PICK l : l = Append(u.log, a)
  OBVIOUS
<1>10. Event(u, "rx", ev, k) = [u EXCEPT !.rx = t, !.log = l, !.got = <<>>]
  BY <1>1, <1>2, <1>3, <1>8, <1>9 DEF Event, UartStates
<1>11. [u EXCEPT !.rx = t, !.log = l, !.got = <<>>] = [u EXCEPT !.rx = t, !.log = l, !.call = u.call, !.got = <<>>]
  BY DEF UartStates
<1>12. \A c : [[u EXCEPT !.rx = t, !.log = l, !.got = <<>>] EXCEPT !.call = c] =
                [u EXCEPT !.rx = t, !.log = l, !.call = c, !.got = <<>>]
  OBVIOUS
<1>13. RxEvent(u, ev, k, t, a)
  BY <1>1, <1>2, <1>4, <1>7, <1>9, <1>10, <1>11, <1>12, <1>14 DEF RxEvent
<1> QED BY <1>4, <1>6, <1>13

\* The event that ends a transmission keeps the invariant.
LEMMA TxEnded ==
    ASSUME NEW u, UartInv(u), NEW ev \in UartEvents, NEW k \in Nat, ~u.hw.txie, ~u.hw.tcie,
           ev \in {"COMPLETE", "OK"} => SentWhole(u.wire, u.hw.sh, u.hw.dr, [id |-> u.tx.id, k |-> k, n |-> u.tx.n]),
           u.tx.core \/ (u.call.op = "abort" /\ u.call.dir = "tx" /\ ev = "ABORTED")
    PROVE  /\ ev # "ABORTED" /\ u.call.op # "transmit" =>
                /\ UartInv(Event(u, "tx", ev, k)) /\ Event(u, "tx", ev, k).call = u.call
           /\ u.call.op = "transmit" \/ (u.call.op = "abort" /\ u.call.dir = "tx") =>
                UartInv([Event(u, "tx", ev, k) EXCEPT !.call = Idle])
<1>0. u \in UartStates
  BY DEF UartInv
<1>1. PICK t \in UartUnits, a \in UartEntries : TxEvent(u, ev, k, t, a)
  BY <1>0, TxEventIs
<1>2. EntryTrue(u.wire, u.hw.sh, u.hw.dr, a)
  BY <1>1 DEF TxEvent, EntryTrue, SentWhole
<1>3. PICK c \in UartCalls : c = u.call
  BY <1>0 DEF UartStates
<1>4. ASSUME ev # "ABORTED", u.call.op # "transmit"
      PROVE  UartInv(Event(u, "tx", ev, k)) /\ Event(u, "tx", ev, k).call = u.call
  <2>1. PICK e : e = [u EXCEPT !.tx = t, !.log = Append(u.log, a), !.call = c]
    OBVIOUS
  <2>2. Event(u, "tx", ev, k) = e
    BY <1>1, <1>3, <2>1 DEF TxEvent
  <2>3. e.call = u.call
    BY <1>0, <1>3, <2>1 DEF UartStates
  <2>4. UartInv(e)
    BY <1>1, <1>2, <1>3, <1>4, <2>1, UartTxEnds DEF TxEvent
  <2> QED BY <2>2, <2>3, <2>4
<1>5. ASSUME u.call.op = "transmit" \/ (u.call.op = "abort" /\ u.call.dir = "tx")
      PROVE  UartInv([Event(u, "tx", ev, k) EXCEPT !.call = Idle])
  <2>1. PICK e : e = [u EXCEPT !.tx = t, !.log = Append(u.log, a), !.call = Idle]
    OBVIOUS
  <2>2. [Event(u, "tx", ev, k) EXCEPT !.call = Idle] = e
    BY <1>1, <2>1, Zenon DEF TxEvent
  <2>3. UartInv(e)
    BY <1>1, <1>2, <1>5, <2>1, CallsDiffer, UartTxEnds DEF TxEvent
  <2> QED BY <2>2, <2>3
<1> QED BY <1>4, <1>5

\* The event that ends a reception keeps the invariant.
LEMMA RxEnded ==
    ASSUME NEW u, UartInv(u), NEW ev \in UartEvents, NEW k \in Nat,
           ev = "COMPLETE" => Len(u.got) = u.rx.n /\ Consecutive(u.got),
           u.rx.core \/ (u.call.op = "abort" /\ u.call.dir = "rx" /\ ev = "ABORTED")
    PROVE  /\ ev # "ABORTED" /\ u.call.op # "receive" =>
                /\ UartInv(Event(u, "rx", ev, k)) /\ Event(u, "rx", ev, k).call = u.call
           /\ u.call.op = "receive" \/ (u.call.op = "abort" /\ u.call.dir = "rx") =>
                UartInv([Event(u, "rx", ev, k) EXCEPT !.call = Idle])
<1>0. u \in UartStates
  BY DEF UartInv
<1>1. PICK t \in UartUnits, a \in UartEntries : RxEvent(u, ev, k, t, a)
  BY <1>0, RxEventIs
<1>2. EntryTrue(u.wire, u.hw.sh, u.hw.dr, a)
  BY <1>1 DEF RxEvent, EntryTrue
<1>3. PICK c \in UartCalls : c = u.call
  BY <1>0 DEF UartStates
<1>4. ASSUME ev # "ABORTED", u.call.op # "receive"
      PROVE  UartInv(Event(u, "rx", ev, k)) /\ Event(u, "rx", ev, k).call = u.call
  <2>1. PICK e : e = [u EXCEPT !.rx = t, !.log = Append(u.log, a), !.call = c, !.got = <<>>]
    OBVIOUS
  <2>2. Event(u, "rx", ev, k) = e
    BY <1>1, <1>3, <2>1 DEF RxEvent
  <2>3. e.call = u.call
    BY <1>0, <1>3, <2>1 DEF UartStates
  <2>4. UartInv(e)
    BY <1>1, <1>2, <1>3, <1>4, <2>1, UartRxEnds DEF RxEvent
  <2> QED BY <2>2, <2>3, <2>4
<1>5. ASSUME u.call.op = "receive" \/ (u.call.op = "abort" /\ u.call.dir = "rx")
      PROVE  UartInv([Event(u, "rx", ev, k) EXCEPT !.call = Idle])
  <2>1. PICK e : e = [u EXCEPT !.rx = t, !.log = Append(u.log, a), !.call = Idle, !.got = <<>>]
    OBVIOUS
  <2>2. [Event(u, "rx", ev, k) EXCEPT !.call = Idle] = e
    BY <1>1, <2>1, Zenon DEF RxEvent
  <2>3. UartInv(e)
    BY <1>1, <1>2, <1>5, <2>1, CallsDiffer, UartRxEnds DEF RxEvent
  <2> QED BY <2>2, <2>3
<1> QED BY <1>4, <1>5

(***************************************************************************)
(* Aborts.                                                                 *)
(***************************************************************************)
LEMMA UartAbortKeeps ==
    ASSUME NEW u, UartInv(u), u.call = Idle, NEW d \in {"tx", "rx"}
    PROVE  UartInv(UartAbort(u, d))
<1>0. u \in UartStates
  BY DEF UartInv
<1>1. CASE ~u.on \/ ~u[d].core \/ u.port # "ch32"
  BY <1>1 DEF UartAbort, Refused
<1>2. CASE u.on /\ u[d].core /\ u.port = "ch32"
  <2>1. PICK g \in UartRegisters : g = u.hw
    BY <1>0 DEF UartStates
  <2>2. PICK c : c = [op |-> "abort", dir |-> d, done |-> None]
    OBVIOUS
  <2>3. c \in UartCalls /\ c.op = "abort" /\ c.dir = d /\ c.done = None
    <3>1. c \in [op: {"abort"}, dir: {"tx", "rx"}, done: Nat \cup {None}] /\ c.op = "abort" /\ c.dir = d /\ c.done = None
      BY <2>2
    <3> QED BY <3>1 DEF UartCalls
  <2>4. PICK e : e = [u EXCEPT !.hw = g, !.call = c]
    OBVIOUS
  <2>5. UartAbort(u, d) = e
    BY <1>0, <1>2, <2>1, <2>2, <2>4 DEF UartAbort, UartStates
  <2>6. UartAnswers(u.log, u.started, Open(u.tx), Open(u.rx))
    BY DEF UartInv
  <2>7. c.dir = "tx" => AbortAgrees(u.log, u.started, u.tx.id, Open(u.rx))
    <3>1. c.dir = "tx" => Open(u.tx) = {u.tx.id}
      BY <1>2, <2>3 DEF Open
    <3> QED BY <2>6, <3>1 DEF UartAnswers, AbortAgrees
  <2>8. c.dir = "rx" => AbortAgrees(u.log, u.started, u.rx.id, Open(u.tx))
    <3>1. c.dir = "rx" => Open(u.rx) = {u.rx.id}
      BY <1>2, <2>3 DEF Open
    <3> QED BY <2>6, <3>1 DEF UartAnswers, AbortAgrees
  <2>9. /\ u.tx.busy \/ (~g.txie /\ ~g.tcie)
        /\ ~(g.txie /\ g.tcie) /\ (g.tcie => u.tx.i = u.tx.n)
        /\ u.port = "ch32" => UartHolds(g.rd, g.bad, u.arrived)
        /\ u.rx.busy => UartGot(u.rx.i, u.got, g.rd, g.bad, u.arrived)
        /\ g.sh = u.hw.sh /\ g.dr = u.hw.dr /\ g.tc = u.hw.tc
    BY <2>1 DEF UartInv, UartControl
  <2>10. /\ c.op = "transmit" <=> u.call.op = "transmit"
         /\ c.op = "receive" <=> u.call.op = "receive"
    BY <2>3, CallsDiffer
  <2>11. UartInv(e)
    BY <2>3, <2>4, <2>7, <2>8, <2>9, <2>10, UartSwitches
  <2> QED BY <2>5, <2>11
<1> QED BY <1>1, <1>2

\* The first half of an abort, reading how far the transfer came, keeps the
\* invariant.
LEMMA AbortCountsKeeps ==
    ASSUME NEW u, UartInv(u), u.call.op = "abort"
    PROVE  UartInv(AbortCounts(u))
<1>0. u \in UartStates
  BY DEF UartInv
<1>1. PICK h \in UartRegisters : h = u.hw
  BY <1>0 DEF UartStates
<1>2. PICK d \in {"tx", "rx"} : d = u.call.dir
  BY <1>0, CallsDiffer DEF UartStates
<1>3. PICK k \in Nat : k = u[d].i
  BY <1>0 DEF UartStates, UartUnits
<1>4. PICK g : g = IF d = "tx" THEN [h EXCEPT !.txie = FALSE, !.tcie = FALSE] ELSE h
  OBVIOUS
<1>5. g \in UartRegisters
  BY <1>4 DEF UartRegisters
<1>6. /\ g.sh = h.sh /\ g.dr = h.dr /\ g.tc = h.tc /\ g.rd = h.rd /\ g.bad = h.bad
      /\ d = "tx" => ~g.txie /\ ~g.tcie
      /\ d = "rx" => g = h
  BY <1>4 DEF UartRegisters
<1>7. PICK c : c = [u.call EXCEPT !.done = k]
  OBVIOUS
<1>8. u.call \in UartCalls /\ u.call \in [op: {"abort"}, dir: {"tx", "rx"}, done: Nat \cup {None}]
  BY <1>0, CallsDiffer DEF UartStates, UartCalls
<1>9. c \in [op: {"abort"}, dir: {"tx", "rx"}, done: Nat \cup {None}] /\ c.op = "abort" /\ c.dir = d
  BY <1>2, <1>7, <1>8
<1>10. c \in UartCalls
  BY <1>9 DEF UartCalls
<1>11. PICK e : e = [u EXCEPT !.hw = g, !.call = c]
  OBVIOUS
<1>12. AbortCounts(u) = e
  BY <1>0, <1>1, <1>2, <1>3, <1>4, <1>7, <1>11 DEF AbortCounts, UartStates
<1>13. /\ u.tx.busy \/ (~g.txie /\ ~g.tcie)
       /\ ~(g.txie /\ g.tcie) /\ (g.tcie => u.tx.i = u.tx.n)
       /\ u.port = "ch32" => UartHolds(g.rd, g.bad, u.arrived)
       /\ u.rx.busy => UartGot(u.rx.i, u.got, g.rd, g.bad, u.arrived)
       /\ g.sh = u.hw.sh /\ g.dr = u.hw.dr /\ g.tc = u.hw.tc
  BY <1>1, <1>6 DEF UartInv, UartControl
<1>14. /\ c.dir = "tx" => AbortAgrees(u.log, u.started, u.tx.id, Open(u.rx))
       /\ c.dir = "rx" => AbortAgrees(u.log, u.started, u.rx.id, Open(u.tx))
       /\ c.dir = "tx" => ~g.txie /\ ~g.tcie
  BY <1>2, <1>6, <1>9 DEF UartInv
<1>15. /\ c.op = "transmit" <=> u.call.op = "transmit"
       /\ c.op = "receive" <=> u.call.op = "receive"
  BY <1>9
<1>16. UartInv(e)
  BY <1>5, <1>10, <1>11, <1>13, <1>14, <1>15, UartSwitches
<1> QED BY <1>12, <1>16

\* The second half, answering the transfer, keeps the invariant, also when the
\* interrupt answered it first.
LEMMA AbortEndsKeeps ==
    ASSUME NEW u, UartInv(u), u.call.op = "abort", u.call.done # None
    PROVE  UartInv(AbortEnds(u))
<1>0. u \in UartStates
  BY DEF UartInv
<1>1. u.call.dir \in {"tx", "rx"} /\ u.call.done \in Nat
  BY <1>0, CallsDiffer DEF UartStates
<1>2. "ABORTED" \in UartEvents /\ "ABORTED" \notin {"COMPLETE", "OK"}
  BY DEF UartEvents
<1>3. CASE u.call.dir = "tx"
  <2>1. ~u.hw.txie /\ ~u.hw.tcie
    BY <1>3 DEF UartInv, UartControl, TxStopped
  <2>2. UartInv([Event(u, "tx", "ABORTED", u.call.done) EXCEPT !.call = Idle])
    BY <1>1, <1>2, <1>3, <2>1, TxEnded
  <2> QED BY <1>3, <2>2 DEF AbortEnds
<1>4. CASE u.call.dir = "rx"
  <2>1. UartInv([Event(u, "rx", "ABORTED", u.call.done) EXCEPT !.call = Idle])
    BY <1>1, <1>2, <1>4, RxEnded
  <2> QED BY <1>4, <2>1 DEF AbortEnds
<1> QED BY <1>1, <1>3, <1>4

(***************************************************************************)
(* The loops of the blocking calls.                                        *)
(***************************************************************************)
\* A transmission whose bytes are all written has passed when the sender is empty.
LEMMA AllSent ==
    ASSUME NEW u, UartInv(u), u.tx.core, u.tx.i = u.tx.n, u.hw.tc, NEW k, k = u.tx.i
    PROVE  SentWhole(u.wire, u.hw.sh, u.hw.dr, [id |-> u.tx.id, k |-> k, n |-> u.tx.n])
<1>0. u \in UartStates
  BY DEF UartInv
<1>1. PICK w \in Seq(UartBytes), id \in Nat, i \in Nat : w = u.wire /\ id = u.tx.id /\ i = u.tx.i
  BY <1>0 DEF UartStates, UartUnits
<1>2. u.hw.sh = NoByte /\ u.hw.dr = NoByte
  BY DEF UartInv, UartLine
<1>3. UartSending(w, NoByte, NoByte, id, i)
  BY <1>1, <1>2 DEF UartInv
<1>4. id # 0
  <2>1. id \in Open(u.tx)
    BY <1>1 DEF Open
  <2> QED BY <2>1 DEF UartInv, UartAnswers
<1>5. \A j \in 1 .. i : OnWire(w, <<id, j>>)
  <2>1. \A j \in 1 .. i : NoByte # <<id, j>>
    BY DEF NoByte
  <2> QED BY <1>3, <2>1 DEF UartSending
<1>6. \A j \in 1 .. Len(w) : w[j][1] = id => w[j][2] <= i
  <2>1. \A j \in 1 .. Len(w) : w[j] \in UartBytes /\ UpTo(w[j], id, i)
    BY <1>3 DEF UartSending
  <2> QED BY <2>1 DEF UpTo, UartBytes
<1>7. i \in Lengths
  BY <1>1 DEF UartInv, UartControl
<1>8. PICK e : e = [id |-> u.tx.id, k |-> k, n |-> u.tx.n]
  OBVIOUS
<1>9. e.id = id /\ e.k = i /\ e.n = i
  BY <1>1, <1>8
<1>10. SentWhole(w, NoByte, NoByte, e)
  BY <1>4, <1>5, <1>6, <1>7, <1>9, NoByteIsOne DEF SentWhole
<1> QED BY <1>1, <1>2, <1>8, <1>10

\* One turn of the blocking transmit loop keeps the invariant.
LEMMA UartSendsKeeps ==
    ASSUME NEW u, UartInv(u), u.call.op = "transmit"
    PROVE  UartInv(UartSends(u))
<1>0. u \in UartStates
  BY DEF UartInv
<1>1. PICK h \in UartRegisters : h = u.hw
  BY <1>0 DEF UartStates
<1>2. PICK x \in UartUnits : x = u.tx
  BY <1>0 DEF UartStates
<1>3. PICK i \in Nat, n \in Nat, id \in Nat : i = x.i /\ n = x.n /\ id = x.id
  BY <1>2 DEF UartUnits
<1>4. x.core /\ ~x.busy /\ ~h.txie /\ ~h.tcie /\ i <= n
  BY <1>1, <1>2, <1>3 DEF UartInv, UartControl
<1>5. "OK" \in UartEvents /\ "TIMEOUT" \in UartEvents /\ "TIMEOUT" \notin {"COMPLETE", "OK"}
  BY DEF UartEvents
<1>6. CASE i < n /\ Txe(h)
  <2>1. PICK k \in Nat : k = i + 1
    OBVIOUS
  <2>2. PICK t : t = [x EXCEPT !.i = k]
    OBVIOUS
  <2>3. t \in UartUnits /\ t.id = id /\ t.n = n /\ t.i = k /\ t.busy = x.busy /\ t.core = x.core
    BY <1>3, <2>2 DEF UartUnits
  <2>4. PICK b \in UartBytes : b = <<id, k>>
    BY DEF UartBytes
  <2>5. PICK g \in UartRegisters : g = Written(h, b) /\ IsWritten(g, h, b) /\ g.txie = h.txie /\ g.tcie = h.tcie
    BY WrittenIs
  <2>6. PICK e : e = [u EXCEPT !.tx = t, !.hw = g]
    OBVIOUS
  <2>7. UartSends(u) = e
    BY <1>0, <1>1, <1>2, <1>3, <1>6, <2>1, <2>2, <2>4, <2>5, <2>6 DEF UartSends, UartStates
  <2>8. ~TxStopped(u) /\ u.hw.dr = NoByte
    BY <1>1, <1>6 DEF TxStopped, Txe
  <2>9. /\ u.tx.core /\ u.tx.i < u.tx.n
        /\ t.id = u.tx.id /\ t.n = u.tx.n /\ t.i = u.tx.i + 1 /\ t.busy = u.tx.busy /\ t.core
        /\ IsWritten(g, u.hw, <<t.id, t.i>>)
        /\ t.busy \/ (~g.txie /\ ~g.tcie)
        /\ ~(g.txie /\ g.tcie) /\ (g.tcie => t.i = t.n)
    BY <1>1, <1>2, <1>3, <1>4, <1>6, <2>1, <2>3, <2>4, <2>5
  <2>10. UartInv(e)
    BY <2>3, <2>5, <2>6, <2>8, <2>9, UartWritesOn
  <2> QED BY <2>7, <2>10
<1>7. CASE ~(i < n /\ Txe(h)) /\ i = n /\ h.tc
  <2>1. UartSends(u) = [Event(u, "tx", "OK", i) EXCEPT !.call = Idle]
    BY <1>1, <1>2, <1>3, <1>7 DEF UartSends, Ended
  <2>2. SentWhole(u.wire, u.hw.sh, u.hw.dr, [id |-> u.tx.id, k |-> i, n |-> u.tx.n])
    BY <1>1, <1>2, <1>3, <1>4, <1>7, AllSent
  <2>3. UartInv([Event(u, "tx", "OK", i) EXCEPT !.call = Idle])
    BY <1>1, <1>2, <1>4, <1>5, <2>2, TxEnded
  <2> QED BY <2>1, <2>3
<1>8. CASE ~(i < n /\ Txe(h)) /\ ~(i = n /\ h.tc)
  <2>1. UartSends(u) = [Event(u, "tx", "TIMEOUT", i) EXCEPT !.call = Idle]
    BY <1>1, <1>2, <1>3, <1>8 DEF UartSends, Ended
  <2>2. UartInv([Event(u, "tx", "TIMEOUT", i) EXCEPT !.call = Idle])
    BY <1>1, <1>2, <1>4, <1>5, TxEnded
  <2> QED BY <2>1, <2>2
<1> QED BY <1>6, <1>7, <1>8

\* One turn of the blocking receive loop keeps the invariant.
LEMMA UartReadsKeeps ==
    ASSUME NEW u, UartInv(u), u.call.op = "receive"
    PROVE  UartInv(UartReads(u))
<1>0. u \in UartStates
  BY DEF UartInv
<1>1. PICK h \in UartRegisters : h = u.hw
  BY <1>0 DEF UartStates
<1>2. PICK x \in UartUnits : x = u.rx
  BY <1>0 DEF UartStates
<1>3. PICK i \in Nat, n \in Nat : i = x.i /\ n = x.n
  BY <1>2 DEF UartUnits
<1>4. x.core /\ ~x.busy
  BY <1>1, <1>2, <1>3 DEF UartInv, UartControl
<1>5. /\ "OK" \in UartEvents /\ "TIMEOUT" \in UartEvents /\ "TIMEOUT" # "COMPLETE" /\ "OK" # "COMPLETE"
  BY DEF UartEvents
<1>6. PICK rd \in Seq(Nat) : rd = h.rd
  BY <1>1 DEF UartRegisters
<1>7. CASE rd = <<>>
  <2>1. UartReads(u) = [Event(u, "rx", "TIMEOUT", i) EXCEPT !.call = Idle]
    BY <1>1, <1>2, <1>3, <1>6, <1>7 DEF UartReads, Ended
  <2>2. UartInv([Event(u, "rx", "TIMEOUT", i) EXCEPT !.call = Idle])
    BY <1>2, <1>4, <1>5, RxEnded
  <2> QED BY <2>1, <2>2
<1>8. CASE rd # <<>>
  <2>1. PICK k \in Nat : k = i + 1
    OBVIOUS
  <2>2. PICK t : t = [x EXCEPT !.i = k]
    OBVIOUS
  <2>3. t \in UartUnits /\ t.id = x.id /\ t.i = k /\ t.n = n /\ t.busy = x.busy /\ t.core = x.core
    BY <1>3, <2>2 DEF UartUnits
  <2>4. PICK got \in Seq(Nat) : got = u.got
    BY <1>0 DEF UartStates
  <2>5. Head(rd) \in Nat /\ Tail(rd) \in Seq(Nat)
    BY <1>8
  <2>17. PICK z \in Nat : z = Head(rd)
    BY <2>5
  <2>18. Append(got, z) \in Seq(Nat)
    BY <2>4, <2>17
  <2>6. PICK more \in Seq(Nat) : more = Append(got, Head(rd))
    BY <2>17, <2>18
  <2>7. PICK rest \in Seq(Nat) : rest = Tail(rd)
    BY <2>5
  <2>8. PICK g : g = [h EXCEPT !.rd = rest, !.bad = "none"]
    OBVIOUS
  <2>9. g \in UartRegisters
    BY <2>8 DEF UartRegisters
  <2>10. g.sh = h.sh /\ g.dr = h.dr /\ g.tc = h.tc /\ g.txie = h.txie /\ g.tcie = h.tcie /\ g.rd = rest /\ g.bad = "none"
    BY <2>8 DEF UartRegisters
  <2>11. u.port = "ch32" => UartHolds(g.rd, g.bad, u.arrived)
    <3>1. u.port = "ch32" => Len(rd) \in {0, 1}
      BY <1>1, <1>6 DEF UartInv, UartHolds
    <3>3. Len(rest) = Len(rd) - 1 /\ Len(rest) \in Nat
      BY <1>6, <1>8, <2>7
    <3>2. Len(rd) \in {0, 1} => Len(rest) = 0
      BY <3>3
    <3> QED BY <2>10, <3>1, <3>2 DEF UartHolds
  <2>12. PICK e : e = [u EXCEPT !.rx = t, !.got = more, !.hw = g]
    OBVIOUS
  <2>13. UartInv(e)
    BY <1>1, <1>2, <1>4, <2>3, <2>6, <2>9, <2>10, <2>11, <2>12, UartTakes
  <2>14. e.rx = t /\ e.call = u.call
    BY <1>0, <2>12 DEF UartStates
  <2>15. UartReads(u) = IF k < n THEN e ELSE [Event(e, "rx", "OK", k) EXCEPT !.call = Idle]
    <3>1. e = [u EXCEPT !.rx.i = @ + 1, !.got = Append(@, Head(u.hw.rd)), !.hw.rd = Tail(@), !.hw.bad = "none"]
      BY <1>0, <1>1, <1>2, <1>3, <1>6, <2>1, <2>2, <2>4, <2>6, <2>7, <2>8, <2>12 DEF UartStates
    <3>4. u.hw.rd # <<>>
      BY <1>1, <1>6, <1>8
    <3>2. UartReads(u) = IF e.rx.i < e.rx.n THEN e ELSE Ended(e, "rx", "OK")
      BY <3>1, <3>4 DEF UartReads
    <3>3. Ended(e, "rx", "OK") = [Event(e, "rx", "OK", k) EXCEPT !.call = Idle]
      BY <2>3, <2>14 DEF Ended
    <3> QED BY <2>3, <2>14, <3>2, <3>3
  <2>16. UartInv([Event(e, "rx", "OK", k) EXCEPT !.call = Idle])
    BY <1>4, <1>5, <2>3, <2>13, <2>14, RxEnded
  <2> QED BY <2>13, <2>15, <2>16
<1> QED BY <1>7, <1>8

\* One turn of either loop, or its time-out, keeps the invariant.
LEMMA UartPollKeeps ==
    ASSUME NEW u, UartInv(u), u.call.op \in {"transmit", "receive"}
    PROVE  UartInv(UartPoll(u))
<1>1. CASE u.call.op = "transmit"
  BY <1>1, UartSendsKeeps DEF UartPoll
<1>2. CASE u.call.op = "receive"
  BY <1>2, UartReadsKeeps DEF UartPoll
<1> QED BY <1>1, <1>2

(***************************************************************************)
(* The interrupt handler.                                                  *)
(***************************************************************************)
\* Only the receiver's registers change, and no reception waits for a byte there.
LEMMA UartDrops ==
    ASSUME NEW u, UartInv(u), NEW rd \in Seq(Nat), Len(rd) = 0, NEW bad \in {"none", "LINE", "ORE"}, ~u.rx.busy,
           NEW e, e = [u EXCEPT !.hw = [u.hw EXCEPT !.rd = rd, !.bad = bad]]
    PROVE  UartInv(e)
<1>0. u \in UartStates
  BY DEF UartInv
<1>1. PICK h \in UartRegisters : h = u.hw
  BY <1>0 DEF UartStates
<1>2. PICK g : g = [h EXCEPT !.rd = rd, !.bad = bad]
  OBVIOUS
<1>3. g \in UartRegisters
  BY <1>2 DEF UartRegisters
<1>4. g.sh = h.sh /\ g.dr = h.dr /\ g.tc = h.tc /\ g.txie = h.txie /\ g.tcie = h.tcie /\ g.rd = rd /\ g.bad = bad
  BY <1>2 DEF UartRegisters
<1>5. PICK c \in UartCalls : c = u.call
  BY <1>0 DEF UartStates
<1>6. e = [u EXCEPT !.hw = g, !.call = c]
  BY <1>0, <1>1, <1>2, <1>5 DEF UartStates
<1>7. /\ u.tx.busy \/ (~g.txie /\ ~g.tcie)
      /\ ~(g.txie /\ g.tcie) /\ (g.tcie => u.tx.i = u.tx.n)
      /\ g.sh = u.hw.sh /\ g.dr = u.hw.dr /\ g.tc = u.hw.tc
      /\ c.op = "abort" /\ c.dir = "tx" /\ c.done # None => ~g.txie /\ ~g.tcie
  BY <1>1, <1>4, <1>5 DEF UartInv, UartControl, TxStopped
<1>8. u.port = "ch32" => UartHolds(g.rd, g.bad, u.arrived)
  BY <1>4 DEF UartHolds
<1>9. /\ c.op = "abort" /\ c.dir = "tx" => AbortAgrees(u.log, u.started, u.tx.id, Open(u.rx))
      /\ c.op = "abort" /\ c.dir = "rx" => AbortAgrees(u.log, u.started, u.rx.id, Open(u.tx))
  BY <1>5 DEF UartInv
<1>10. /\ c.op = "transmit" <=> u.call.op = "transmit"
       /\ c.op = "receive" <=> u.call.op = "receive"
  BY <1>5
<1>11. u.rx.busy => UartGot(u.rx.i, u.got, g.rd, g.bad, u.arrived)
  OBVIOUS
<1>12. PICK d : d = [u EXCEPT !.hw = g, !.call = c]
  OBVIOUS
<1>13. UartInv(d)
  BY <1>3, <1>5, <1>7, <1>8, <1>9, <1>10, <1>11, <1>12, UartSwitches
<1> QED BY <1>6, <1>12, <1>13

\* The error branch of the interrupt handler keeps the invariant and leaves
\* the transmitter alone.
LEMMA IrqErrorKeeps ==
    ASSUME NEW u, UartInv(u), u.hw.bad # "none"
    PROVE  UartInv(IrqError(u)) /\ IrqError(u).call = u.call /\ IrqError(u).tx = u.tx
<1>0. u \in UartStates
  BY DEF UartInv
<1>1. PICK h \in UartRegisters : h = u.hw
  BY <1>0 DEF UartStates
<1>2. PICK b \in {"none", "LINE", "ORE"}, i \in Nat : b = h.bad /\ i = u.rx.i
  BY <1>0, <1>1 DEF UartRegisters, UartStates, UartUnits
<1>3. PICK g : g = [h EXCEPT !.rd = <<>>, !.bad = "none"]
  OBVIOUS
<1>4. PICK v : v = [u EXCEPT !.hw = g]
  BY ZenonT(60)
<1>5. v = [u EXCEPT !.hw.rd = <<>>, !.hw.bad = "none"]
  BY <1>0, <1>1, <1>3, <1>4 DEF UartStates
<1>6. <<>> \in Seq(Nat) /\ Len(<<>>) = 0 /\ "none" \in {"none", "LINE", "ORE"}
  OBVIOUS
<1>7. CASE ~u.rx.busy
  <2>1. IrqError(u) = v
    BY <1>5, <1>7 DEF IrqError
  <2>2. UartInv(v)
    BY <1>1, <1>3, <1>4, <1>6, <1>7, UartDrops
  <2>3. v.call = u.call /\ v.tx = u.tx
    BY <1>0, <1>4 DEF UartStates
  <2> QED BY <2>1, <2>2, <2>3
<1>8. CASE u.rx.busy
  <2>1. b \in UartEvents /\ b # "COMPLETE" /\ b # "ABORTED"
    BY <1>1, <1>2 DEF UartEvents
  <2>2. u.rx.core /\ u.call.op # "receive"
    BY <1>8 DEF UartInv, UartControl
  <2>3. PICK e : e = Event(u, "rx", b, i)
    OBVIOUS
  <2>4. UartInv(e) /\ e.call = u.call
    BY <1>2, <2>1, <2>2, <2>3, RxEnded, ZenonT(60)
  <2>5. PICK t \in UartUnits, a \in UartEntries : RxEvent(u, b, i, t, a)
    BY <1>0, <2>1, RxEventIs
  <2>6. /\ e.hw = u.hw /\ e.rx = t /\ ~t.busy /\ e.tx = u.tx /\ e \in UartStates
        /\ e = [u EXCEPT !.rx = t, !.log = Append(u.log, a), !.call = u.call, !.got = <<>>]
    BY <1>0, <2>3, <2>4, <2>5, ZenonT(60) DEF RxEvent, UartStates, UartInv
  <2>7. PICK w : w = [e EXCEPT !.hw = g]
    OBVIOUS
  <2>8. UartInv(w)
    BY <1>1, <1>3, <1>6, <2>4, <2>6, <2>7, UartDrops
  <2>9. IrqError(u) = w
    <3>1. IrqError(u) = Event(v, "rx", b, i)
      BY <1>1, <1>2, <1>5, <1>8 DEF IrqError
    <3>2. v.rx = u.rx /\ v.log = u.log /\ v.got = u.got
      BY <1>0, <1>4 DEF UartStates
    <3>3. Event(v, "rx", b, i) = [v EXCEPT !.rx = [NoUnits EXCEPT !.id = v.rx.id], !.log = Append(v.log, [id |-> v.rx.id, dir |-> "rx", ev |-> b, k |-> i, n |-> v.rx.n, data |-> v.got]), !.got = <<>>]
      BY <1>0, <1>4 DEF Event, Answer, UartStates
    <3>4. Event(u, "rx", b, i) = [u EXCEPT !.rx = [NoUnits EXCEPT !.id = u.rx.id], !.log = Append(u.log, [id |-> u.rx.id, dir |-> "rx", ev |-> b, k |-> i, n |-> u.rx.n, data |-> u.got]), !.got = <<>>]
      BY <1>0 DEF Event, Answer, UartStates
    <3>5. Event(v, "rx", b, i) = [Event(u, "rx", b, i) EXCEPT !.hw = g]
      BY <1>0, <1>4, <3>2, <3>3, <3>4, ZenonT(60) DEF UartStates
    <3> QED BY <2>3, <2>7, <3>1, <3>5
  <2>10. w.call = u.call /\ w.tx = u.tx
    BY <2>4, <2>6, <2>7 DEF UartStates
  <2> QED BY <2>8, <2>9, <2>10
<1> QED BY <1>7, <1>8

\* What the receive branch leaves as it was.
Received(u, v) ==
    /\ UartInv(v) /\ v.tx = u.tx /\ v.call = u.call /\ v.hw.sh = u.hw.sh /\ v.hw.dr = u.hw.dr /\ v.hw.tc = u.hw.tc
    /\ v.hw.txie = u.hw.txie /\ v.hw.tcie = u.hw.tcie

\* The receive branch of the interrupt handler keeps the invariant.
LEMMA IrqReceiveKeeps ==
    ASSUME NEW u, UartInv(u), u.hw.bad = "none"
    PROVE  Received(u, IrqReceive(u, u.hw))
<1>0. u \in UartStates
  BY DEF UartInv
<1>1. PICK h \in UartRegisters : h = u.hw
  BY <1>0 DEF UartStates
<1>2. PICK x \in UartUnits : x = u.rx
  BY <1>0 DEF UartStates
<1>3. PICK i \in Nat, n \in Nat : i = x.i /\ n = x.n
  BY <1>2 DEF UartUnits
<1>4. PICK rd \in Seq(Nat), got \in Seq(Nat) : rd = h.rd /\ got = u.got
  BY <1>0, <1>1 DEF UartRegisters, UartStates
<1>5. PICK g : g = [h EXCEPT !.rd = <<>>]
  OBVIOUS
<1>6. <<>> \in Seq(Nat) /\ Len(<<>>) = 0
  OBVIOUS
<1>7. g \in UartRegisters
  BY <1>5, <1>6 DEF UartRegisters
<1>8. g.sh = h.sh /\ g.dr = h.dr /\ g.tc = h.tc /\ g.txie = h.txie /\ g.tcie = h.tcie /\ g.rd = <<>> /\ g.bad = h.bad
  BY <1>5 DEF UartRegisters
<1>9. PICK v : v = [u EXCEPT !.hw = g]
  OBVIOUS
<1>10. v = [u EXCEPT !.hw.rd = <<>>]
  BY <1>0, <1>1, <1>5, <1>9 DEF UartStates
<1>11. CASE ~h.rxie \/ rd = <<>>
  <2>1. IrqReceive(u, u.hw) = u
    BY <1>1, <1>4, <1>11 DEF IrqReceive
  <2> QED BY <2>1 DEF Received
<1>12. CASE h.rxie /\ rd # <<>> /\ ~(x.busy /\ i < n)
  <2>1. ~u.rx.busy
    BY <1>2, <1>3, <1>12 DEF UartInv, UartControl
  <2>2. IrqReceive(u, u.hw) = v
    BY <1>1, <1>2, <1>3, <1>4, <1>10, <1>12 DEF IrqReceive
  <2>3. v = [u EXCEPT !.hw = [u.hw EXCEPT !.rd = <<>>, !.bad = "none"]]
    <3>1. [h EXCEPT !.rd = <<>>] = [h EXCEPT !.rd = <<>>, !.bad = "none"]
      BY <1>1, ZenonT(60) DEF UartRegisters
    <3> QED BY <1>1, <1>5, <1>9, <3>1, ZenonT(60)
  <2>4. UartInv(v)
    BY <1>6, <2>1, <2>3, UartDrops, ZenonT(60)
  <2>5. v.tx = u.tx /\ v.call = u.call /\ v.hw = g
    BY <1>0, <1>9 DEF UartStates
  <2> QED BY <1>1, <1>8, <2>2, <2>4, <2>5 DEF Received
<1>13. CASE h.rxie /\ rd # <<>> /\ x.busy /\ i < n
  <2>1. u.rx.core /\ u.call.op # "receive" /\ u.port = "ch32"
    BY <1>2, <1>13 DEF UartInv, UartControl
  <2>2. PICK b \in Nat : b = u.arrived
    BY <1>0 DEF UartStates
  <2>3. Len(rd) = 1 /\ Head(rd) = b
    <3>1. UartHolds(rd, "none", b)
      BY <1>1, <1>4, <2>1, <2>2 DEF UartInv
    <3>2. Len(rd) # 0
      BY <1>13
    <3>3. Len(rd) = 1 /\ rd[1] = b
      BY <3>1, <3>2 DEF UartHolds
    <3> QED BY <3>3
  <2>17. PICK before \in Int : before = b - 1 /\ b = before + 1
    OBVIOUS
  <2>4. Ends(got, i, before)
    <3>1. UartGot(i, got, rd, "none", b)
      BY <1>1, <1>2, <1>3, <1>4, <1>13, <2>2 DEF UartInv
    <3> QED BY <2>3, <2>17, <3>1 DEF UartGot, Ends
  <2>5. PICK more : more = Append(got, b)
    OBVIOUS
  <2>18. more \in Seq(Nat) /\ Ends(more, i + 1, b)
    BY <1>3, <1>4, <2>2, <2>4, <2>5, <2>17, NextByte
  <2>6. more \in Seq(Nat) /\ Len(more) = i + 1 /\ more[i + 1] = b /\ Consecutive(more)
    BY <2>18 DEF Ends
  <2>7. PICK k \in Nat : k = i + 1
    OBVIOUS
  <2>8. PICK t : t = [x EXCEPT !.i = k]
    OBVIOUS
  <2>9. t \in UartUnits /\ t.id = x.id /\ t.i = k /\ t.n = n /\ t.busy = x.busy /\ t.core = x.core
    BY <1>3, <2>8 DEF UartUnits
  <2>10. PICK w : w = [u EXCEPT !.rx = t, !.got = more, !.hw = g]
    OBVIOUS
  <2>11. w \in UartStates /\ w.rx = t /\ w.got = more /\ w.hw = g /\ w.tx = u.tx /\ w.call = u.call /\ w.log = u.log
    BY <1>0, <1>7, <2>6, <2>9, <2>10 DEF UartStates
  <2>12. w = [v EXCEPT !.got = Append(@, Head(h.rd)), !.rx.i = @ + 1]
    BY <1>0, <1>2, <1>3, <1>4, <1>9, <2>3, <2>5, <2>7, <2>8, <2>10 DEF UartStates
  <2>13. IrqReceive(u, u.hw) = IF k < n THEN w ELSE Event(w, "rx", "COMPLETE", k)
    <3>1. h.rxie /\ h.rd # <<>> /\ u.rx.busy /\ u.rx.i < u.rx.n
      BY <1>2, <1>3, <1>4, <1>13
    <3>2. IrqReceive(u, h) = IF w.rx.i < w.rx.n THEN w ELSE Event(w, "rx", "COMPLETE", w.rx.i)
      BY <1>10, <2>12, <3>1 DEF IrqReceive
    <3> QED BY <1>1, <2>9, <2>11, <3>2
  <2>14. UartHolds(g.rd, g.bad, u.arrived)
    BY <1>8, UartHoldsNothing
  <2>15. CASE k < n
    <3>1. UartGot(t.i, more, g.rd, g.bad, u.arrived)
      <4>1. b = b - 0
        OBVIOUS
      <4> QED BY <1>6, <1>8, <2>2, <2>6, <2>7, <2>9, <4>1 DEF UartGot
    <3>2. UartInv(w)
      BY <1>1, <1>2, <1>7, <1>8, <2>1, <2>6, <2>9, <2>10, <2>14, <2>15, <3>1, UartTakes
    <3>3. IrqReceive(u, u.hw) = w
      BY <2>13, <2>15
    <3> QED BY <1>1, <1>8, <2>11, <3>2, <3>3 DEF Received
  <2>16. CASE ~(k < n)
    <3>1. "COMPLETE" \in UartEvents
      BY DEF UartEvents
    <3>2. PICK y \in UartUnits, a \in UartEntries : RxEvent(w, "COMPLETE", k, y, a)
      BY <2>11, <3>1, RxEventIs
    <3>3. Len(more) = n
      BY <1>13, <2>6, <2>7, <2>16
    <3>15. /\ a.dir = "rx" /\ a.ev = "COMPLETE" /\ a.data = more /\ a.n = n /\ a.id = x.id
           /\ y.id = x.id /\ ~y.core /\ ~y.busy
      BY <2>9, <2>11, <3>2, Zenon DEF RxEvent
    <3>16. EntryTrue(u.wire, u.hw.sh, u.hw.dr, a)
      BY <2>6, <3>3, <3>15 DEF EntryTrue
    <3>4. /\ EntryTrue(u.wire, u.hw.sh, u.hw.dr, a) /\ a.id = u.rx.id /\ a.ev # "ABORTED"
          /\ y.id = u.rx.id /\ ~y.core /\ ~y.busy
      BY <1>2, <3>15, <3>16
    <3>5. PICK c \in UartCalls : c = u.call
      BY <1>0 DEF UartStates
    <3>6. PICK d : d = [u EXCEPT !.rx = y, !.log = Append(u.log, a), !.call = c, !.got = <<>>]
      OBVIOUS
    <3>7. UartInv(d)
      BY <2>1, <3>4, <3>5, <3>6, UartRxEnds
    <3>8. d.rx = y /\ d.hw = h /\ d.tx = u.tx /\ d.call = u.call /\ d.log = Append(u.log, a) /\ d.got = <<>>
      BY <1>0, <1>1, <3>5, <3>6 DEF UartStates
    <3>9. PICK e : e = [d EXCEPT !.hw = g]
      BY ZenonT(60)
    <3>10. e = [d EXCEPT !.hw = [d.hw EXCEPT !.rd = <<>>, !.bad = "none"]]
      <4>1. [h EXCEPT !.rd = <<>>] = [h EXCEPT !.rd = <<>>, !.bad = "none"]
        BY <1>1, ZenonT(60) DEF UartRegisters
      <4> QED BY <1>5, <3>8, <3>9, <4>1, ZenonT(60)
    <3>11. UartInv(e)
      BY <1>6, <3>4, <3>7, <3>8, <3>10, UartDrops, ZenonT(60)
    <3>12. Event(w, "rx", "COMPLETE", k) = e
      <4>1. Event(w, "rx", "COMPLETE", k) = [w EXCEPT !.rx = y, !.log = Append(w.log, a), !.call = w.call, !.got = <<>>]
        BY <3>2 DEF RxEvent
      <4> QED BY <1>0, <2>10, <2>11, <3>5, <3>6, <3>9, <4>1 DEF UartStates
    <3>13. IrqReceive(u, u.hw) = e
      BY <2>13, <2>16, <3>12
    <3>14. e.tx = u.tx /\ e.call = u.call /\ e.hw = g
      <4>1. d \in UartStates
        BY <3>7 DEF UartInv
      <4> QED BY <3>8, <3>9, <4>1 DEF UartStates
    <3> QED BY <1>1, <1>8, <3>11, <3>13, <3>14 DEF Received
  <2> QED BY <2>15, <2>16
<1> QED BY <1>11, <1>12, <1>13

\* What the transmit branch leaves as it was.
Sent(u, v) ==
    /\ UartInv(v) /\ v.call = u.call /\ v.tx.core = u.tx.core
    /\ u.hw.tcie => v = u

\* The transmit branch of the interrupt handler keeps the invariant.
LEMMA IrqTransmitKeeps ==
    ASSUME NEW u, UartInv(u), NEW h, h.txie = u.hw.txie, h.dr = u.hw.dr
    PROVE  Sent(u, IrqTransmit(u, h))
<1>0. u \in UartStates
  BY DEF UartInv
<1>1. PICK r \in UartRegisters : r = u.hw
  BY <1>0 DEF UartStates
<1>2. PICK x \in UartUnits : x = u.tx
  BY <1>0 DEF UartStates
<1>3. PICK i \in Nat, n \in Nat, id \in Nat : i = x.i /\ n = x.n /\ id = x.id
  BY <1>2 DEF UartUnits
<1>4. CASE ~h.txie \/ ~Txe(h)
  BY <1>4 DEF IrqTransmit, Sent
<1>5. ASSUME h.txie, Txe(h) PROVE r.txie /\ r.dr = NoByte /\ ~r.tcie /\ x.busy /\ x.core /\ ~TxStopped(u)
  BY <1>1, <1>2, <1>5 DEF Txe, UartInv, UartControl
<1>6. CASE h.txie /\ Txe(h) /\ ~(x.busy /\ i < n)
  <2>1. PICK g : g = [r EXCEPT !.txie = FALSE]
    OBVIOUS
  <2>2. g \in UartRegisters
    BY <2>1 DEF UartRegisters
  <2>3. /\ g.sh = r.sh /\ g.dr = r.dr /\ g.tc = r.tc /\ g.rd = r.rd /\ g.bad = r.bad
        /\ ~g.txie /\ g.tcie = r.tcie
    BY <2>1 DEF UartRegisters
  <2>4. PICK c \in UartCalls : c = u.call
    BY <1>0 DEF UartStates
  <2>5. PICK e : e = [u EXCEPT !.hw = g, !.call = c]
    OBVIOUS
  <2>6. IrqTransmit(u, h) = e
    <3>1. IrqTransmit(u, h) = [u EXCEPT !.hw.txie = FALSE]
      BY <1>2, <1>3, <1>6 DEF IrqTransmit
    <3> QED BY <1>0, <1>1, <2>1, <2>4, <2>5, <3>1 DEF UartStates
  <2>7. /\ u.tx.busy \/ (~g.txie /\ ~g.tcie)
        /\ ~(g.txie /\ g.tcie) /\ (g.tcie => u.tx.i = u.tx.n)
        /\ g.sh = u.hw.sh /\ g.dr = u.hw.dr /\ g.tc = u.hw.tc
        /\ c.op = "abort" /\ c.dir = "tx" /\ c.done # None => ~g.txie /\ ~g.tcie
    BY <1>1, <1>2, <1>5, <1>6, <2>3
  <2>8. /\ u.port = "ch32" => UartHolds(g.rd, g.bad, u.arrived)
        /\ u.rx.busy => UartGot(u.rx.i, u.got, g.rd, g.bad, u.arrived)
        /\ c.op = "abort" /\ c.dir = "tx" => AbortAgrees(u.log, u.started, u.tx.id, Open(u.rx))
        /\ c.op = "abort" /\ c.dir = "rx" => AbortAgrees(u.log, u.started, u.rx.id, Open(u.tx))
    BY <1>1, <2>3, <2>4 DEF UartInv
  <2>9. /\ c.op = "transmit" <=> u.call.op = "transmit"
        /\ c.op = "receive" <=> u.call.op = "receive"
    BY <2>4
  <2>10. UartInv(e)
    BY <2>2, <2>4, <2>5, <2>7, <2>8, <2>9, UartSwitches
  <2>11. e.call = u.call /\ e.tx = u.tx
    BY <1>0, <2>4, <2>5 DEF UartStates
  <2> QED BY <1>1, <1>5, <1>6, <2>6, <2>10, <2>11 DEF Sent
<1>7. CASE h.txie /\ Txe(h) /\ x.busy /\ i < n
  <2>1. PICK k \in Nat : k = i + 1
    OBVIOUS
  <2>2. PICK t : t = [x EXCEPT !.i = k]
    OBVIOUS
  <2>3. t \in UartUnits /\ t.id = id /\ t.n = n /\ t.i = k /\ t.busy = x.busy /\ t.core = x.core
    BY <1>3, <2>2 DEF UartUnits
  <2>4. PICK b \in UartBytes : b = <<id, k>>
    BY DEF UartBytes
  <2>5. PICK f \in UartRegisters : f = Written(r, b) /\ IsWritten(f, r, b) /\ f.txie = r.txie /\ f.tcie = r.tcie
    BY WrittenIs
  <2>6. PICK g : g = IF k < n THEN f ELSE [f EXCEPT !.txie = FALSE, !.tcie = TRUE]
    OBVIOUS
  <2>7. g \in UartRegisters
    BY <2>5, <2>6 DEF UartRegisters
  <2>8. /\ g.tc = f.tc /\ g.rd = f.rd /\ g.bad = f.bad /\ g.sh = f.sh /\ g.dr = f.dr
        /\ k < n => ~g.tcie
        /\ ~(k < n) => ~g.txie
    BY <1>1, <1>5, <1>7, <2>5, <2>6 DEF UartRegisters
  <2>9. IsWritten(g, u.hw, <<t.id, t.i>>)
    BY <1>1, <2>3, <2>4, <2>5, <2>8 DEF IsWritten
  <2>10. PICK e : e = [u EXCEPT !.tx = t, !.hw = g]
    OBVIOUS
  <2>11. IrqTransmit(u, h) = e
    <3>1. PICK v : v = [u EXCEPT !.tx = t, !.hw = f]
      OBVIOUS
    <3>2. v = [u EXCEPT !.tx.i = @ + 1, !.hw = Written(@, <<u.tx.id, u.tx.i + 1>>)]
      BY <1>0, <1>1, <1>2, <1>3, <2>1, <2>2, <2>4, <2>5, <3>1 DEF UartStates
    <3>3. v.tx = t /\ v.hw = f
      BY <1>0, <3>1 DEF UartStates
    <3>6. h.txie /\ Txe(h) /\ u.tx.busy /\ u.tx.i < u.tx.n
      BY <1>2, <1>3, <1>7
    <3>4. IrqTransmit(u, h) = IF v.tx.i < v.tx.n THEN v ELSE [v EXCEPT !.hw.txie = FALSE, !.hw.tcie = TRUE]
      BY <3>2, <3>6 DEF IrqTransmit
    <3>5. [v EXCEPT !.hw.txie = FALSE, !.hw.tcie = TRUE] = [u EXCEPT !.tx = t, !.hw = [f EXCEPT !.txie = FALSE, !.tcie = TRUE]]
      BY <1>0, <3>1, <3>3 DEF UartStates
    <3> QED BY <2>3, <2>6, <2>10, <3>1, <3>3, <3>4, <3>5
  <2>12. /\ u.tx.core /\ u.tx.i < u.tx.n /\ u.hw.dr = NoByte /\ ~TxStopped(u)
         /\ t.id = u.tx.id /\ t.n = u.tx.n /\ t.i = u.tx.i + 1 /\ t.busy = u.tx.busy /\ t.core
         /\ t.busy \/ (~g.txie /\ ~g.tcie)
         /\ ~(g.txie /\ g.tcie)
    BY <1>1, <1>2, <1>3, <1>5, <1>7, <2>1, <2>3, <2>8
  <2>13. g.tcie => t.i = t.n
    BY <1>3, <1>7, <2>1, <2>3, <2>8
  <2>14. UartInv(e)
    BY <2>3, <2>7, <2>9, <2>10, <2>12, <2>13, UartWritesOn
  <2>15. e.call = u.call /\ e.tx = t
    BY <1>0, <2>10 DEF UartStates
  <2> QED BY <1>1, <1>2, <1>5, <1>7, <2>3, <2>11, <2>14, <2>15 DEF Sent
<1> QED BY <1>2, <1>3, <1>4, <1>6, <1>7

\* The branch that reports a transmission complete keeps the invariant.
LEMMA IrqCompleteKeeps ==
    ASSUME NEW u, UartInv(u), NEW h, h.tcie = u.hw.tcie, h.tc = u.hw.tc
    PROVE  /\ UartInv(IrqComplete(u, h)) /\ IrqComplete(u, h).call = u.call
           /\ ~h.tcie => IrqComplete(u, h) = u
<1>0. u \in UartStates
  BY DEF UartInv
<1>1. PICK r \in UartRegisters : r = u.hw
  BY <1>0 DEF UartStates
<1>2. CASE ~h.tcie \/ ~h.tc
  BY <1>2 DEF IrqComplete
<1>3. CASE h.tcie /\ h.tc
  <2>1. r.tcie /\ r.tc /\ ~r.txie /\ u.tx.busy /\ u.tx.core /\ u.tx.i = u.tx.n /\ ~TxStopped(u) /\ u.call.op # "transmit"
    BY <1>1, <1>3 DEF UartInv, UartControl
  <2>2. PICK g : g = [r EXCEPT !.tcie = FALSE, !.tc = FALSE]
    OBVIOUS
  <2>3. g \in UartRegisters
    BY <2>2 DEF UartRegisters
  <2>4. /\ g.sh = r.sh /\ g.dr = r.dr /\ g.tc = FALSE /\ g.rd = r.rd /\ g.bad = r.bad
        /\ ~g.txie /\ ~g.tcie
    BY <2>1, <2>2 DEF UartRegisters
  <2>5. PICK c \in UartCalls : c = u.call
    BY <1>0 DEF UartStates
  <2>6. PICK v : v = [u EXCEPT !.hw = g, !.call = c]
    OBVIOUS
  <2>7. v = [u EXCEPT !.hw.tcie = FALSE, !.hw.tc = FALSE]
    BY <1>0, <1>1, <2>2, <2>5, <2>6 DEF UartStates
  <2>8. /\ u.tx.busy \/ (~g.txie /\ ~g.tcie)
        /\ ~(g.txie /\ g.tcie) /\ (g.tcie => u.tx.i = u.tx.n)
        /\ g.sh = u.hw.sh /\ g.dr = u.hw.dr /\ g.tc = FALSE
        /\ c.op = "abort" /\ c.dir = "tx" /\ c.done # None => ~g.txie /\ ~g.tcie
    BY <1>1, <2>4
  <2>9. /\ u.port = "ch32" => UartHolds(g.rd, g.bad, u.arrived)
        /\ u.rx.busy => UartGot(u.rx.i, u.got, g.rd, g.bad, u.arrived)
        /\ c.op = "abort" /\ c.dir = "tx" => AbortAgrees(u.log, u.started, u.tx.id, Open(u.rx))
        /\ c.op = "abort" /\ c.dir = "rx" => AbortAgrees(u.log, u.started, u.rx.id, Open(u.tx))
    BY <1>1, <2>4, <2>5 DEF UartInv
  <2>10. /\ c.op = "transmit" <=> u.call.op = "transmit"
         /\ c.op = "receive" <=> u.call.op = "receive"
    BY <2>5
  <2>11. UartInv(v)
    BY <2>3, <2>5, <2>6, <2>8, <2>9, <2>10, UartSwitches
  <2>12. v.call = u.call /\ v.tx = u.tx /\ v.hw = g /\ v.wire = u.wire
    BY <1>0, <2>5, <2>6 DEF UartStates
  <2>13. PICK k \in Nat : k = u.tx.i
    BY <1>0 DEF UartStates, UartUnits
  <2>14. SentWhole(v.wire, v.hw.sh, v.hw.dr, [id |-> v.tx.id, k |-> k, n |-> v.tx.n])
    <3>1. SentWhole(u.wire, u.hw.sh, u.hw.dr, [id |-> u.tx.id, k |-> k, n |-> u.tx.n])
      BY <1>1, <2>1, <2>13, AllSent
    <3> QED BY <1>1, <2>4, <2>12, <3>1
  <2>15. "COMPLETE" \in UartEvents /\ "COMPLETE" # "ABORTED"
    BY DEF UartEvents
  <2>16. UartInv(Event(v, "tx", "COMPLETE", k)) /\ Event(v, "tx", "COMPLETE", k).call = v.call
    BY <2>1, <2>4, <2>11, <2>12, <2>14, <2>15, TxEnded
  <2>17. IrqComplete(u, h) = Event(v, "tx", "COMPLETE", k)
    BY <1>3, <2>1, <2>7, <2>13 DEF IrqComplete
  <2> QED BY <1>3, <2>12, <2>16, <2>17
<1> QED BY <1>2, <1>3

\* The whole interrupt handler keeps the invariant.
LEMMA IrqKeeps ==
    ASSUME NEW u, UartInv(u)
    PROVE  UartInv(IrqHandler(u)) /\ IrqHandler(u).call = u.call /\ (u.tx.core /\ ~IrqHandler(u).tx.core => u.hw.tcie)
<1>1. CASE u.hw.bad # "none"
  BY <1>1, IrqErrorKeeps DEF IrqHandler
<1>2. CASE u.hw.bad = "none"
  <2>1. PICK v : v = IrqReceive(u, u.hw)
    OBVIOUS
  <2>2. Received(u, v)
    BY <1>2, <2>1, IrqReceiveKeeps
  <2>3. PICK w : w = IrqTransmit(v, u.hw)
    OBVIOUS
  <2>4. Sent(v, w)
    BY <2>2, <2>3, IrqTransmitKeeps DEF Received
  <2>5. PICK e : e = IrqComplete(w, u.hw)
    OBVIOUS
  <2>6. IrqHandler(u) = e
    BY <1>2, <2>1, <2>3, <2>5 DEF IrqHandler
  <2>7. CASE ~u.hw.tcie
    <3>1. e = w
      BY <2>5, <2>7 DEF IrqComplete
    <3> QED BY <2>2, <2>4, <2>6, <3>1 DEF Received, Sent
  <2>8. CASE u.hw.tcie
    <3>1. w = v
      BY <2>2, <2>4, <2>8 DEF Received, Sent
    <3>2. UartInv(e) /\ e.call = v.call
      BY <2>2, <2>5, <3>1, IrqCompleteKeeps DEF Received
    <3> QED BY <2>2, <2>6, <2>8, <3>2 DEF Received
  <2> QED BY <2>7, <2>8
<1> QED BY <1>1, <1>2

\* So does the next transmission, begun by the callback of the last.
LEMMA RestartedKeeps ==
    ASSUME NEW u, UartInv(u), NEW n \in {0} \cup Lengths
    PROVE  UartInv(Restarted(IrqHandler(u), u, n))
<1>1. PICK v : v = IrqHandler(u)
  OBVIOUS
<1>2. UartInv(v) /\ v.call = u.call /\ (u.tx.core /\ ~v.tx.core => u.hw.tcie)
  BY <1>1, IrqKeeps
<1>3. CASE n = 0 \/ v.started = MaxTransfers
  BY <1>1, <1>2, <1>3 DEF Restarted
<1>4. CASE ~(n = 0 \/ v.started = MaxTransfers)
  <2>1. n \in Lengths
    BY <1>4
  <2>2. CASE u.tx.core /\ ~v.tx.core
    <3>1. ~TxStopped(v)
      BY <1>2, <2>2 DEF UartInv, UartControl, TxStopped
    <3>2. UartInv(UartTransmitAsync(v, n))
      BY <1>2, <2>1, <3>1, UartStartsKeep
    <3> QED BY <1>1, <1>4, <2>2, <3>2 DEF Restarted
  <2>3. CASE ~(u.tx.core /\ ~v.tx.core)
    <3>1. UartInv(UartReceiveAsync(v, n))
      BY <1>2, <2>1, UartStartsKeep
    <3> QED BY <1>1, <1>2, <1>4, <2>3, <3>1 DEF Restarted
  <2> QED BY <2>2, <2>3
<1> QED BY <1>3, <1>4

\* Every step of the UART driver, its line and its interrupts keeps the
\* invariant.
LEMMA UartKept == UartInv(drv) /\ UartNext => UartInv(drv')
<1> SUFFICES ASSUME UartInv(drv), UartNext PROVE UartInv(drv')
  OBVIOUS
<1>1. CASE UartLifeCycle
  BY <1>1, UartLifeKeeps DEF UartLifeCycle, AtRest
<1>2. CASE UartTransfer
  <2>1. drv.call = Idle /\ ~TxStopped(drv)
    BY <1>2, CallsDiffer DEF UartTransfer, AtRest, TxStopped
  <2>2. PICK n \in Lengths :
           \/ drv' = UartTransmitAsync(drv, n)
           \/ drv' = UartReceiveAsync(drv, n)
           \/ drv' = UartTransmit(drv, n)
           \/ drv' = UartReceive(drv, n)
    BY <1>2 DEF UartTransfer
  <2> QED BY <2>1, <2>2, UartStartsKeep
<1>3. CASE UartAborts
  <2>1. CASE AtRest(drv) /\ \E d \in {"tx", "rx"} : drv' = UartAbort(drv, d)
    BY <2>1, UartAbortKeeps DEF AtRest
  <2>2. CASE drv.call.op = "abort" /\ drv' = IF drv.call.done = None THEN AbortCounts(drv) ELSE AbortEnds(drv)
    BY <2>2, AbortCountsKeeps, AbortEndsKeeps
  <2> QED BY <1>3, <2>1, <2>2 DEF UartAborts
<1>4. CASE UartPolls
  BY <1>4, UartPollKeeps DEF UartPolls
<1>5. CASE UartIrq
  BY <1>5, RestartedKeeps DEF UartIrq
<1>6. CASE UartShifts
  BY <1>6, UartShiftKeeps DEF UartShifts
<1>7. CASE UartArrives
  BY <1>7, UartArrivalKeeps DEF UartArrives
<1> QED BY <1>1, <1>2, <1>3, <1>4, <1>5, <1>6, <1>7 DEF UartNext

\* The invariant says of the UART driver what the runs check.
LEMMA UartShows ==
    ASSUME NEW u, UartInv(u)
    PROVE  UartTruth(u)
<1>0. u \in UartStates
  BY DEF UartInv
<1>1. PICK w \in Seq(UartBytes), log \in Seq(UartEntries), started \in Nat : w = u.wire /\ log = u.log /\ started = u.started
  BY <1>0 DEF UartStates
<1>2. DOMAIN w = 1 .. Len(w) /\ DOMAIN log = 1 .. Len(log)
  BY <1>1
<1>3. /\ UartLine(w, u.hw.sh, u.hw.dr, u.hw.tc, started)
      /\ LogTrue(log, w, u.hw.sh, u.hw.dr) /\ LogOrdered(log)
      /\ UartAnswers(log, started, Open(u.tx), Open(u.rx))
  BY <1>1 DEF UartInv
<1>4. \A id, k : k \in SentOf(u, id) <=> k \in Lengths /\ OnWire(w, <<id, k>>)
  BY <1>1, <1>2 DEF SentOf, OnWire
<1>5. \A i \in 1 .. Len(w) - 1 : Before(w[i], w[i + 1])
  BY <1>3 DEF UartLine
<1>6. ASSUME NEW id \in 1 .. started, NEW k \in SentOf(u, id) PROVE 1 .. k \subseteq SentOf(u, id)
  <2>1. k \in Lengths /\ OnWire(w, <<id, k>>)
    BY <1>4
  <2>2. ASSUME NEW j \in 1 .. k PROVE j \in Lengths /\ OnWire(w, <<id, j>>)
    <3>1. k \in Nat /\ j \in Lengths
      BY <2>1, DriversAssumption DEF Lengths
    <3>2. CASE j = k
      BY <2>1, <3>1, <3>2
    <3>3. CASE j # k
      <4>1. j \in 1 .. k - 1
        BY <3>1, <3>3
      <4>2. PICK i \in 1 .. Len(w) : w[i] = <<id, k>>
        BY <2>1 DEF OnWire
      <4>3. Follows(w, NoByte, w[i])
        BY <1>3 DEF UartLine
      <4>4. OnWire(w, <<id, j>>) \/ NoByte = <<id, j>>
        BY <4>1, <4>2, <4>3 DEF Follows
      <4>5. NoByte # <<id, j>>
        BY <4>1 DEF NoByte
      <4> QED BY <3>1, <4>4, <4>5
    <3> QED BY <3>2, <3>3
  <2> QED BY <1>4, <2>2
<1>7. ASSUME NEW e \in Entries(u)
      PROVE  /\ e.dir = "tx" /\ e.ev \in {"COMPLETE", "OK"} => SentOf(u, e.id) = 1 .. e.n /\ e.k = e.n
             /\ e.dir = "rx" /\ e.ev = "COMPLETE" => Len(e.data) = e.n /\ Consecutive(e.data)
  <2>1. PICK i \in 1 .. Len(log) : e = log[i]
    BY <1>1, <1>2 DEF Entries
  <2>2. EntryTrue(w, u.hw.sh, u.hw.dr, e)
    BY <1>3, <2>1 DEF LogTrue
  <2>3. ASSUME SentWhole(w, u.hw.sh, u.hw.dr, e) PROVE SentOf(u, e.id) = 1 .. e.n /\ e.k = e.n
    <3>1. e.n \in Nat /\ 1 .. e.n \subseteq Lengths
      BY <2>3, DriversAssumption DEF SentWhole, Lengths
    <3>2. \A k \in 1 .. e.n : k \in SentOf(u, e.id)
      BY <1>4, <2>3, <3>1 DEF SentWhole
    <3>3. ASSUME NEW k \in SentOf(u, e.id) PROVE k \in 1 .. e.n
      <4>1. k \in Lengths /\ OnWire(w, <<e.id, k>>)
        BY <1>4
      <4>2. PICK j \in 1 .. Len(w) : w[j] = <<e.id, k>>
        BY <4>1 DEF OnWire
      <4>3. w[j][1] = e.id /\ w[j][2] = k
        BY <4>2
      <4>4. k <= e.n
        BY <2>3, <4>3 DEF SentWhole
      <4> QED BY <3>1, <4>1, <4>4 DEF Lengths
    <3> QED BY <2>3, <3>2, <3>3 DEF SentWhole
  <2> QED BY <2>2, <2>3 DEF EntryTrue
<1>8. \A i, j \in DOMAIN u.log :
        i < j /\ u.log[i].id = u.log[j].id => u.log[j].ev = "ABORTED" /\ u.log[i].ev # "ABORTED"
  BY <1>1, <1>2, <1>3 DEF LogOrdered
<1>9. ASSUME AtRest(u) PROVE \A d \in {"tx", "rx"} : u[d].core = u[d].busy
  <2>1. u.call.op = "none"
    BY <1>9, CallsDiffer DEF AtRest
  <2>2. (u.tx.core <=> u.tx.busy) /\ (u.rx.core <=> u.rx.busy)
    BY <2>1 DEF UartInv, UartControl
  <2>3. /\ u.tx.core \in BOOLEAN /\ u.tx.busy \in BOOLEAN
        /\ u.rx.core \in BOOLEAN /\ u.rx.busy \in BOOLEAN
    BY <1>0 DEF UartStates, UartUnits
  <2>4. u.tx.core = u.tx.busy /\ u.rx.core = u.rx.busy
    BY <2>2, <2>3
  <2> QED BY <2>4
<1>10. ASSUME NEW id \in 1 .. started
       PROVE  \/ \E e \in Entries(u) : e.id = id
              \/ \E d \in {"tx", "rx"} : u[d].id = id /\ u[d].core
  <2>1. CASE \E i \in 1 .. Len(log) : log[i].id = id
    BY <1>1, <1>2, <2>1 DEF Entries
  <2>2. CASE id \in Open(u.tx)
    BY <2>2 DEF Open
  <2>3. CASE id \in Open(u.rx)
    BY <2>3 DEF Open
  <2> QED BY <1>3, <2>1, <2>2, <2>3 DEF UartAnswers
<1> QED BY <1>1, <1>5, <1>6, <1>7, <1>8, <1>9, <1>10 DEF UartTruth

(***************************************************************************)
(* All drivers.                                                            *)
(***************************************************************************)
DriversInv == UartInv(drv) \/ I2cInv(drv) \/ SpiInv(drv) \/ TimerInv(drv) \/ GpioInv(drv)

\* An invariant holds only of the driver it is about.
LEMMA KindOfDriver ==
    /\ UartInv(drv) => drv.kind = "uart"
    /\ I2cInv(drv) => drv.kind = "i2c"
    /\ SpiInv(drv) => drv.kind = "spi"
    /\ TimerInv(drv) => drv.kind = "timer"
    /\ GpioInv(drv) => drv.kind = "gpio"
<1>1. UartInv(drv) => drv.kind = "uart"
  BY DEF UartInv, UartStates
<1>2. I2cInv(drv) => drv.kind = "i2c"
  BY DEF I2cInv, I2cStates
<1>3. SpiInv(drv) => drv.kind = "spi"
  BY DEF SpiInv, SpiStates
<1>4. TimerInv(drv) => drv.kind = "timer"
  BY DEF TimerInv, TimerStates
<1>5. GpioInv(drv) => drv.kind = "gpio"
  BY DEF GpioInv, GpioStates
<1> QED BY <1>1, <1>2, <1>3, <1>4, <1>5

\* A step of a driver is possible only where the state is that driver's.
LEMMA StepsOfDriver ==
    /\ UartNext => drv.kind = "uart"
    /\ I2cNext => drv.kind = "i2c"
    /\ SpiNext => drv.kind = "spi"
    /\ TimerNext => drv.kind = "timer"
    /\ GpioNext => drv.kind = "gpio"
<1>1. UartNext => drv.kind = "uart"
  BY DEF UartNext, UartLifeCycle, UartTransfer, UartAborts, UartPolls, UartIrq, UartShifts, UartArrives, InUart
<1>2. I2cNext => drv.kind = "i2c"
  BY DEF I2cNext, I2cLifeCycle, I2cTransfer, I2cUnsupported, I2cFreed, InI2c
<1>3. SpiNext => drv.kind = "spi"
  BY DEF SpiNext, SpiLifeCycle, SpiTransfers, SpiLoops, SpiEnds, SpiShifts, InSpi
<1>4. TimerNext => drv.kind = "timer"
  BY DEF TimerNext, InTimer
<1>5. GpioNext => drv.kind = "gpio"
  BY DEF GpioNext, GpioLifeCycle, GpioCalls, GpioSteps, InGpio
<1> QED BY <1>1, <1>2, <1>3, <1>4, <1>5

\* Every driver before it is set up satisfies its invariant.
LEMMA DriversBegin == DriversInit => DriversInv
<1> SUFFICES ASSUME DriversInit PROVE DriversInv
  OBVIOUS
<1>1. CASE \E b \in Boards : drv = UartOff(b)
  BY <1>1, UartOffAgrees DEF DriversInv
<1>2. CASE \E b \in Boards : drv = I2cOff(b)
  BY <1>2, I2cOffAgrees DEF DriversInv
<1>3. CASE \E b \in Boards : drv = SpiOff(b)
  BY <1>3, SpiOffAgrees DEF DriversInv
<1>4. CASE \E b \in Boards : drv = TimerOff(b)
  BY <1>4, TimerBegins DEF DriversInv
<1>5. CASE drv = GpioOff
  BY <1>5, GpioBegins DEF DriversInv
<1> QED BY <1>1, <1>2, <1>3, <1>4, <1>5 DEF DriversInit

\* Every step of any driver, its hardware and its interrupts keeps the invariant.
LEMMA DriversKept == DriversInv /\ [DriversNext]_drv => DriversInv'
<1> SUFFICES ASSUME DriversInv, [DriversNext]_drv PROVE DriversInv'
  OBVIOUS
<1>1. CASE UNCHANGED drv
  BY <1>1 DEF DriversInv
<1>2. CASE UartNext
  <2>1. UartInv(drv)
    BY <1>2, KindOfDriver, StepsOfDriver DEF DriversInv
  <2> QED BY <1>2, <2>1, UartKept DEF DriversInv
<1>3. CASE I2cNext
  <2>1. I2cInv(drv)
    BY <1>3, KindOfDriver, StepsOfDriver DEF DriversInv
  <2> QED BY <1>3, <2>1, I2cKept DEF DriversInv
<1>4. CASE SpiNext
  <2>1. SpiInv(drv)
    BY <1>4, KindOfDriver, StepsOfDriver DEF DriversInv
  <2> QED BY <1>4, <2>1, SpiKept DEF DriversInv
<1>5. CASE TimerNext
  <2>1. TimerInv(drv)
    BY <1>5, KindOfDriver, StepsOfDriver DEF DriversInv
  <2> QED BY <1>5, <2>1, TimerKept DEF DriversInv
<1>6. CASE GpioNext
  <2>1. GpioInv(drv)
    BY <1>6, KindOfDriver, StepsOfDriver DEF DriversInv
  <2> QED BY <1>6, <2>1, GpioKept DEF DriversInv
<1> QED BY <1>1, <1>2, <1>3, <1>4, <1>5, <1>6 DEF DriversNext

\* The invariant says of the driver in use what the runs check of it.
LEMMA DriversShow == DriversInv => DriversTruth
<1>1. CASE UartInv(drv)
  BY <1>1, KindOfDriver, UartShows DEF DriversTruth
<1>2. CASE I2cInv(drv)
  BY <1>2, KindOfDriver, I2cShows DEF DriversTruth
<1>3. CASE SpiInv(drv)
  BY <1>3, KindOfDriver, SpiShows DEF DriversTruth
<1>4. CASE TimerInv(drv)
  BY <1>4, KindOfDriver, TimerShows DEF DriversTruth
<1>5. CASE GpioInv(drv)
  BY <1>5, KindOfDriver, GpioShows DEF DriversTruth
<1> QED BY <1>1, <1>2, <1>3, <1>4, <1>5 DEF DriversInv

(***************************************************************************)
(* THEOREM: what Xdrivers promises of each driver (DriversTruth) holds     *)
(* after any number of calls, interrupts, bytes, faults and time-outs, in  *)
(* any order: a finished transmission of the UART is on the wire whole and *)
(* every transfer is answered, an I2C transaction that succeeded passed    *)
(* every byte, an SPI transfer read back its own words, a timer is never   *)
(* slower than asked and two tasks do not undo each other's pins.          *)
(***************************************************************************)
THEOREM DriversAlwaysTrue == DriversInit /\ [][DriversNext]_drv => []DriversTruth
<1>1. DriversInv /\ [][DriversNext]_drv => []DriversInv
  BY DriversKept, PTL
<1> QED BY <1>1, DriversBegin, DriversShow, PTL
=============================================================================
