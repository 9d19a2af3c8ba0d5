# xSDK in TLA+

TLA+ models of the portable components of the xSDK embedded kit, the TLC
configurations that check them on small instances, and TLAPS proofs that hold
for every instance.  Paths below are relative to the repository; a definition
that models code is listed with its lines in `PROJECT.json`, under `map`.

    tlc -workers 2 -config XrtosMutex.cfg MCXrtosMutex     # one run
    tlapm XrtosProofs.tla                                  # one proof module

## 1. The system

xSDK is a C firmware kit for small microcontrollers (TI AM243x Cortex-R5, WCH
CH32H417 RISC-V).  Its components are portable C with a table of port
functions underneath; every component owns a caller-allocated context and
returns status codes.

| Component | State it keeps | Operations | What makes it hard |
|---|---|---|---|
| xRTOS scheduler, tick | ready lists and bitmap, current task, reschedule flag, time-out bitmap | block, unblock, switch, change effective priority, tick | preemption between any two calls; wake-ups in interrupts; deadlines against answers |
| xRTOS mutex | owner, held list, sorted waiter list, waiting-on pointer | lock, try-lock, unlock, time-out, change of priority | priority inheritance along chains and circles of owners; hand-off |
| xRTOS semaphore, queue, event, notify | counter; ring and two wait maps; flag word; a word per task | give/take, send/receive, set/wait, notify/wait, ISR variants | direct hand-off, multicast wake-up, data left in a timed-out wait |
| xRTOS timers | active bitmap, expiry ticks, cached earliest expiry | start, stop, daemon loop or in-ISR scan | unlocks around callbacks, wraparound, a cache that must never be late |
| xRTOS tasks | table by id and by priority | create, exit, yield, set priority | exit without the lock; ids reused while the old stack is live |
| xRTOS ports | saved stack pointers | pre-switch, switch, tick ISR | the switch is deferred to interrupt exit or a software interrupt |
| xNET | packet pool, ARP cache, socket list, DHCP and DNS clients | receive, send, tick, process | ownership of buffers over error paths, retries, late replies, leases |
| xFS | mounted volume, one sector cache per handle, open files | open, read, write, truncate, delete, rename, format | several writes per operation, power loss, caches that do not know of each other |
| xUSB device and classes | control-transfer stage, device state, class machines | SETUP, data and status stages, reset, BOT, DFU | stages pending over resets; halted endpoints; DFU work done outside the interrupt |
| xUSB host and classes | port, device, endpoint and transfer slots, enumeration state | submit, cancel, complete, enumerate, disconnect | disconnect during transfers; slot reuse |
| xBOOT | partition table and image header being judged; fake flash | parse, validate, hand off, start the board | 32-bit sums at the top of the range; resets that are refused |
| xSHELL | line buffer, command table | process byte, dispatch | line and argument limits |
| xUTIL trace, fault | byte ring, filter; configuration, frame and dump of a fault | emit, flush; capture, dump, halt | Flush without the lock Emit takes; partial writes; walking a damaged stack |
| xBRIDGE, xLOGIC, xUSBIP | rings and adapters; capture state; URB table | host commands against peripheral events | unlink against completion, abort against capture done, calls that fail half-way |
| Drivers | state of the core, registers and pending transfer of the port | init, start, transfer, abort, stop, interrupt | interrupt against call, bus refusals and time-outs, wrap of a period |
| Host tools | clock and task states rebuilt from a trace | read, decode, track | must agree with what the target wrote |
| Board start-up, bring-up applications | none of their own | - | - |

Interactions: the xRTOS ports call `xRTOS_Tick_Increment_From_ISR` and the
switch; objects call the scheduler core under `xRTOS_Scheduler_Lock`
(interrupts masked); timers use the semaphore; xNET's clients sit on its UDP
sockets and are driven by `xNET_Process` and `xNET_Tick`; xFS can sit on the
USB host's mass-storage class; the applications combine xUSB device, xSHELL and
the drivers; every component may emit into xTRACE.

`PROJECT.json` lists the components with their sources and status, and the
hazards of the code at their lines.

## 2. Modules

| Module | Models |
|---|---|
| `XrtosSched` | scheduler.c, tick.c, blocking.h: the state and steps every object shares |
| `XrtosMutex` | mutex.c and `xRTOS_Task_Set_Priority`; `LockService` is the lock it implements |
| `XrtosSem`, `XrtosQueue` | sem.c, queue.c; `SemService`, `QueueService` are what they implement |
| `XrtosEvent`, `XrtosNotify` | event.c, notify.c |
| `XrtosTask` | task creation and exit, the two registries, saved stack pointers |
| `XrtosKernel` | the five above on one scheduler |
| `XrtosTimer` | timer.c and the timer part of tick.c, in both builds |
| `XnetLink` | packet.c, arp.c, the sending half of ipv4.c and ethernet.c, icmp.c, udp.c, the static address |
| `XnetDns` | dns.c |
| `XnetDhcp` | dhcp.c, timer.c; `LeaseService` is what the client implements |
| `XnetStack` | one interface with all of these |
| `XfsDisk` | the medium with its failures, cache.c, cluster.c: sectors, allocation table, caches |
| `XfsDir`, `XfsFile` | directory.c and path.c; file.c |
| `XfsVolume` | format.c, the mounting in fat32_bpb.c, core.c: an application with several open files on a volume, and what a volume must be |
| `XusbCalls` | what host and device sides share: requests, calls into the application |
| `XusbhClass`, `XusbhCore` | transfer slots; mass storage and HID drivers with their binding; enumeration; ports, start and stop of xusbh |
| `XusbdClass`, `XusbdCore` | the CH32H417 controller driver, registration and the classes; the control transfers and states of xusbd |
| `XusbBus` | cable and faults; puts the host of this code before the device of this code, or either before a stranger |
| `Xdrivers` | UART, I2C, SPI, timer and GPIO: core and both ports |
| `Xtools` | trace ring, COBS, host reader and tracker, fault path, shell |
| `Xapps` | xBRIDGE, xLOGIC, xUSBIP |
| `Xboot` | DFU class, image loader, storage, start of the AM243x |
| `MCXrtosMutex`, `MCXrtosKernel`, `MCXrtosTimer`, `MCXnet`, `MCXfs`, `MCXusb` | constants for TLC |
| `MCXkit` | puts the last four side by side, one in use |
| `XrtosSchedProofs`, `XrtosProofs`, `XrtosTaskProofs`, `XrtosKernelProofs` | proofs: lists and scheduler, mutexes and timers, the task registry, the kernel with all its objects (section 5) |
| `XnetProofs`, `XusbProofs`, `XkitProofs`, `XdriversProofs` | proofs: the network interface, the USB device, the four parts of `Xboot`, three of `Xapps` and two of `Xtools`, the five drivers |

### Granularity

xRTOS runs on one core and masks interrupts inside an API call, so the body of
a call is one step.  What happens after unmasking is a step of its own: raising
the yield, and returning with the result of a wait.  Between them the tick
interrupt may come, wake tasks one by one in the order of their ids
(`TickEnter`, `WakeExpired`), and switch at its exit (`IsrExit`).  The walk that
spreads inherited priority along owners is one step per task visited, so that
it can be shown to end; nothing else runs meanwhile (`Masked`).
`xRTOS_Task_Exit` masks nothing, and a handler may come between any two of its
writes, but for the mark and the removal from the ready list (`ExitMark`): they
matter to each other only for a task that an Arm handler started without a
switch (section 4).  Handlers do not nest.

Deadlines are abstracted to "armed or not": at any tick any armed wait may have
expired.  Only the timer model counts ticks.  Task ids are numbers because the
code breaks ties by id.  The two ports differ in whether a yield without a
pending request switches; in the models of the kernel's objects both outcomes
are allowed, and the registry has a `port` that each behaviour keeps.

### One run for five objects

`XrtosKernel` instantiates semaphore, queue, event, notification and task
registry over the same scheduler variables.  A variable chosen in the initial
state, `use`, says which object the behaviour exercises; the others keep their
created state.  The objects share nothing but the scheduler, whose own
invariants are checked in every case, so behaviours that mix them add tasks
blocked elsewhere, which the tasks blocked in a delay already stand for.

### xNET

The stack has no threads and no locks: the main loop calls `xNET_Process`,
`xNET_Tick` and `xNET_DNS_Tick`, and each call runs down through the layers and
back, into callbacks and out of them, before the next begins.  So an action is a
whole handler, and the layers below it are operators that take the pool and the
cache and return what they become.  A received frame occupies a buffer while its
handler runs, which is how a reply can fail for want of a second one.  What
interleaves is the order of frames, ticks and calls, which is free, and frames
that get lost, which need no action: nothing has to arrive.  The link may be
down, or the driver fail, at any transmission; only the result of a query tells
(`SendResults`).

Time in the model is what is left of it (`left`, `elapsed`); the code compares
absolute ticks with a signed difference.

A frame needs a buffer (`Arrives`), a packet a destination that
`xNET_IPv4_RX` accepts (`Accepted`), and a datagram a checksum that fits
(`Delivered`).  The last is where the code surprises: a checksum that the driver
has not looked at is summed over the address of the interface, not over the one
the datagram was sent to, so a broadcast that has to be summed only passes
while the interface has no address.  Replies with a wrong transaction id or
port, malformed frames, fragments and unknown protocols change nothing and have no
action.

`use`, chosen in the initial state, is traffic to and from hosts under static
addresses, an address leased by DHCP with some traffic, or names looked up with
some traffic; they share the pool, the cache and the socket list.  Not modelled:
a second interface (the route lookup of `xNET_UDP_Send_To`), multicast groups, and
how headers, options and names are laid out in bytes.  The client is not started while it runs
(`xNET_DHCP_Start` would clear a context that the socket list still points to
and list it again), and no static address is set while it runs, which the code
does not prevent.

### xFS

xFS has no lock and belongs to one task at a time, so a call is one action, and
what may come between its steps is the device: in a faulty call its `k`-th
access fails once, possibly leaving a torn read buffer, or the power goes for
good after it (`fault`).  Operators take the disk, the cache and the volume and
return what they become, with the status in `st`, as each C function does.  A
slot is a directory entry, or data of the same size.  The caches are the point:
every open file has one of its own, and a sector that another handle rewrote is
still valid in it.  A call that relies on such a sector ends with the status
`STALE` in the model, because what it does then depends on bytes the model does
not keep; `StaleNeedsSharing` says when that can happen.

`health` is a history variable: what the calls so far may have done to the
volume.  `sound`: every call was completed or refused; `leaky`: one failed, and
clusters may be allocated that nothing refers to; `wrecked`: one failed after
clusters had been given up that an entry still counts on; `stale`: one relied on
an outdated sector.  `VolumeSound` says what the allocation table and the
directories are in the first two.  A handle whose walk along its chain failed half-way (`drift`) is
only closed afterwards (finding 1 below).

Restrictions: an application does not delete, rename or open a second time a
file that is open, and unmounts with no file open; a sector write is atomic; a
mirrored table is only written by `format`, as in the code.

### xUSB

`bus` is the cable: what is plugged in, packets under way, the fault that is
left.  A pending transfer of the host meets the endpoint of the device in an
action of the bus; interrupts of the device controller are actions of their own,
between which its main loop runs.  Three settings, chosen in the initial state:
this host before this device; this host before a foreign device whose
descriptors are good or bad in five ways, with a controller driver that keeps
the contract of `xusbh_hcd.h` or with what the AM243x driver does; this device
before a foreign host that may send any request in any state.  A next SETUP is
only sent after the device's status interrupt, which leaves out no reordering
that matters: until then the device answers nothing.

A transfer, a port and an instance are records of their table; descriptors are
lists of items in their order, which is what the parser depends on.  The
application registers its classes one by one (`Register`) before it starts the
device.  Starting and stopping the host also starts and stops its controller
driver (`HcdStart`, `HcdStop`).

The callbacks of the host's controller driver come from interrupts
(xusbh_hcd.h:104; of the AM243x driver, all but RESET_COMPLETE and a first CONNECTED) and nothing
masks them, so a call of the task (`xUSBH_Process` or a mass storage command) may
be stopped (`Call`) at one of five windows and goes on later (`Resume`,
`HostResume`): behind the driver's submit before `is_submitted` is set, in the
enumeration, in the binding of a HID or in a command of the application; behind
the driver's `Port_Reset`; and behind `xUSBH_Enumeration_Start`.  In between,
ports connect, disconnect, finish their reset, suspend and resume, and transfers
complete and are followed by the next, in any number and order.  Not modelled
are windows elsewhere in a call (between the writes of `BuildTopology`, of an
allocation or of a binding, and before a submit rather than behind it), and a
call that is stopped twice.  Interrupts do not interrupt each other.  What the
controller works on when its device goes away (`hcd.gone`) can only fail, or
nothing comes of it.

A loop of the code is a recursive function over
its rounds: `While` leaves it at the first step that fails, `Every` does not.

### The rest: one part at a time

`Xdrivers`, `Xtools`, `Xapps` and `Xboot` each have a single variable (`drv`,
`tool`, `app`, `boot`), a record whose `kind` says which part of the code it is;
`MCXkit` starts one of them and leaves the other three `Absent`.  These parts
share no state in the code.  Where calls of two tasks, or a call and an
interrupt, can interleave, the call is cut at the points where that matters:

* UART: polls, interrupts and the shift register are separate actions, and the
  interrupt handler tests its flags at one moment and acts on them later in the
  same action, as the code does.  I2C and timer calls are atomic: their ports
  poll.  SPI polls word by word against the shift register.  Configuring a GPIO
  pin is a read and a write of a shared register.
* Trace: `xTRACE_Flush` is looking, writing and moving the read position, with
  events between them.  The ring holds records byte for byte (`<<record,
  bytes left>>`), so that it is cut where the code cuts it; the host reads the
  same bytes.
* Fault: capture, each line of the dump and the flush are steps; the frame
  pointers met on the way are any.
* Shell: a byte at a time; COBS: a payload at a time, against its inverse.
* xBRIDGE: a frame is one action, since the handlers run to the end in the main
  loop; the serial bridge's poll is three parts, between which USB packets come.
  xLOGIC: `Arm`, `Abort`, `Poll` are actions, the PRU firmware looks and stores
  in between.  xUSBIP: the server's calls and the clock.  Its messages are a list
  of fields per structure, as the client lays them out, against which the bytes
  the encoders write and the decoders read are held.
* DFU: the requests come in the interrupt, the main loop copies the pending
  operation, clears it, and runs it, in three steps.
* Loader: each step of a caller that goes on only where a step answered OK;
  words have `Word` values, and sums wrap.

### Correspondence

| Code | Model |
|---|---|
| `scheduler.ready_map`, ready lists | `ready`, a sequence per priority |
| `effective_priority`, `base_priority` | `eff`, `base` |
| `scheduler.is_schedule_pending` | `pending` |
| `kernel->timeout_map` | `timed` |
| `task_ctx->block_status` | `block_status` |
| `mutex_ctx->owner_task_id`, wait list, `held_mutex_head`, `mutex_waiting_on` | `owner`, `waiters`, `held`, `waiting_on` |
| `block_payload` | a field per module: `want`, `buffer`, ... |
| `active_timers_map`, `expiry_tick`, `next_timer_expiry_tick` | `active`, `expiry`, `next_expiry` |
| the daemon's local copies | `scan`, `now`, `firing`, `mode` |
| `packet_pool[i].is_in_use` | `i \in link.pool` |
| `arp_cache[i]`, `pending_packet`, `needs_retransmit` | `link.arp[i]`, `parked`, `resend` |
| `udp_list`, `next_ephemeral` | `port`, `next_ephemeral` |
| `dhcp_ctx`; its three elapsed times | `dhcp`; `elapsed` |
| `dns_ctx` | `dns[q]`; calls of `on_result` are counted in `called` |
| the sector cache of a file; that of a call on a path | `cache[h]`; `Fresh` |
| `xFS_File_t` | `file[h]`, with `view`, what it must read back |
| ports, devices, interfaces, endpoints, transfers of the USB host | `h.port`, `h.dev`, `h.iface`, `h.ep`, `h.xfer` |
| `xUSBD_Context_t` and the class contexts; the controller | `d`; `d.dcd` |
| `uart_ctx`, `driver_ctx` | `drv`, `drv.tx`, `drv.rx` |
| `trace_ctx` | `tool`: `rp`, `wp`, `dropped`, `gap`, `last` |
| `urbs[]`, `xLOGIC_Context_t`, `xBRIDGE_*_Context_t` | `app` |
| `pending_op`, `state`, `dnload_buffer` of DFU | `boot.pending`, `state`, `buffer` |

## 3. Runs

| Run | Instance | Shows |
|---|---|---|
| `xrtos_mutex` | 3 tasks of different priority and idle, 2 mutexes | the ready lists and the owners, held and waiter lists agree with the states; the result of lock is the truth; inherited priority is exact, along chains; the walk ends, in circles too; the kernel implements `LockService` |
| `xrtos_mutex_repri` | 3 tasks, two of equal priority, 1 mutex, round robin, `Set_Priority` at any time | waiter lists stay sorted, equals stay first come first served |
| `xrtos_mutex_handoff` | as `xrtos_mutex` | violation: no reschedule is requested when a hand-off makes a more urgent task ready |
| `xrtos_kernel` | 3 tasks and idle (2 for events and notifications, 5 contexts for the registry) | nobody whose wait is satisfiable sleeps; wait maps, payloads and states agree; the most urgent task runs; answers fit requests; saved stacks stay with their owners, with handlers that create tasks in the slot of one that is ending; semaphore and queue implement their services; no notified bit is lost |
| `xrtos_task_slots` | registry only | violation: a task preempted in `Task_Exit` never frees its slot |
| `xrtos_timer` | 2 periodic timers, a one-shot, both builds, tick counter modulo 9 | the cached expiry covers every active timer; none is overdue while the daemon sleeps; none is early; one left alone keeps firing |
| `xrtos_timer_stopped` | 2 timers, daemon build | violation: a timer stopped during another's callback still fires |
| `xnet` | 3 buffers, 2 cache entries, 3 hosts; 2 DHCP servers, 3 kinds of lease; 2 queries | no handler loses a buffer but where the client clears the cache for a lease; parked packets sit in one entry and carry the present address; ports are unique; a full pool empties by itself; the client holds only granted, unexpired addresses (`LeaseService`); every accepted query ends in its callback |
| `xnet_rebinding` | the lease part alone | violation: the address is given up before the lease ends |
| `xfs` | 2 handles, 3 paths, volumes of 9 and 15 sectors in use, or a blank medium formatted in 576 ways; 4 calls, one failing | chains are disjoint and cover the sizes, nothing leaks without a failure, what a handle wrote it reads, what was flushed survives, no cache is out of date without a second user |
| `xusb` | 1 port, 1 device with mass storage and HID; 2 SCSI commands, 1 fault, 1 unplugging, 4 requests of a foreign host | each transfer in the controller has one owner; both sides agree on address and configuration; a write reported done is on the medium; a port settles; with interrupts in the middle of host calls, the first and the last but for three windows (section 4) |
| `xkit` | one of 21 parts of the drivers, tools, applications and boot path | what each promises its callers (the definitions `...Truth`, a comment on each); a UART or SPI transfer and a fault come to their end |

Bounds.  Two mutexes and three tasks give chains of two links and circles of
two, the shortest in which a boost must travel and a walk can repeat; a wait
list of two shows order.  The queue holds two items of two values, so the ring
wraps and hand-off meets a non-empty and a full ring.  The tick counter runs
modulo `TickMod` = 9 (8 in the violation), at least twice the longest period
plus the daemon's lag, which is what the signed comparison of the code needs;
`MaxLag` bounds how many ticks the daemon may be behind.  No run limits the
length of a behaviour in xRTOS and xNET.  In xNET two cache entries for three hosts make every rule
of eviction apply, and three buffers, one of which may be lost from the start,
are sometimes enough and sometimes not; there is one retry (ARP, DHCP and
DNS) instead of three or four, which keeps the last one apart from the first try; times are in
half seconds, ticks come after one or two of them and so can miss a deadline by
one; milliseconds are computed modulo `Word` = 32, and one lease overflows it.
Two ephemeral ports for three sockets wrap and run out.  `Alike` permutes items, flags and bits, which the code
only compares; the run has no liveness property.

In xFS the volume has 6 clusters, 2 table sectors of 4 entries and 2 slots in a
sector, so that chains cross a table sector and directories grow by a cluster.
Four calls (`MaxCalls`) are open, write past the end, move, and close or flush of
one handle, or two of each of two handles, on volumes that already hold files;
one of them fails at any of its first `MaxAccess` + 1 = 6 accesses, which few
calls exceed.  Files are at most `MaxSize` = 5 slots, three clusters.  The
`VIEW` leaves the number of calls out of a state's identity; handles are
symmetric.

In xUSB a control transfer times out, a reset settles and a connection debounces
after one tick; two block commands let one be pending or failed when the next
comes, and three transfer slots serve enumeration, mass
storage and HID, so that one not released is missed.  The class list
`<<msc, hid, cdc>>` exceeds the interfaces and is rolled back.

In `xkit`, transfers are at most 2 units and two of them follow one another,
which is what a byte or an event left over from the first needs; a timer is 3
bits wide; the trace ring holds 16 bytes, a few records, and its clock
needs two bytes when events are late; a backtrace is 2 deep in
20 half-words, of which a stack takes any part between 0, 2, 8 and 18; two tasks
are tracked; a shell line has 3
characters and 2 arguments; the serial rings hold 2 bytes; 2 slots serve 3 URBs
with a clock of 5 bits that wraps; DFU gets 5 requests; a partition table has up
to 3 entries over a storage of 6 (below half the word) or 8 (half) of 16
addresses, and image memory in the middle or at the end of them.

Deadlock is checked where a system must never stop: in every xRTOS and xNET
run.  In the last three a behaviour ends when its budget of calls, commands or
requests is used, the power is gone, or a fault has halted the processor.

Fairness.  `SpecWalk` only assumes that the walk under masked interrupts goes
on, which no other code can prevent.  `FairSpec` of the timers assumes that the
tick interrupt keeps coming and that the daemon runs when it is ready; the
daemon is created at `xRTOS_CONFIG_TIMER_TASK_PRIORITY`, 1 by default
(xrtos_config.h:93-95, xrtos_core.c:188-189), so it runs whenever a priority-0
task, if there is one, and the callbacks themselves do not run forever.  The
`FairSpec` of xNET assumes that the main loop keeps calling `xNET_Tick` and the
tick of every query, which is what drives all retries (the README of the
component, line 91, says `xNET_Process` does; it only sends ARP requests that a
tick has asked for).  Nothing is assumed of tasks, hosts or servers: none has to
unlock, receive, give or answer.  `Spec` of xUSB assumes that the application
calls `xUSBH_Process` for ever, as its header asks, that interrupts end and let a
call go on, and that a controller driver
under the contract of `xusbh_hcd.h` reports every port reset it began.
`SpecFair` of `MCXkit` assumes what the hardware does: a shift register shifts,
an enabled interrupt with its flag up is taken, and the processor goes on in a
polling loop and in the fault path.  No byte has to arrive: a reception is
promised an end only by a time-out or an abort.

## 4. Findings

The four violations quote what a header, comment or test of the repository says:

* `HandoffRequestsSwitch` (xrtos_mutex.c:479-485).  The woken waiter is compared
  with the caller's boosted priority; the test
  `tests/fake/test_xrtos_mutex.c` expects a pending reschedule.
* `StoppedNeverFires` (xrtos_timer.c:221).  The scan works on a copy.
* `SlotsReclaimed` (xrtos_core.c:360).  Exit is not atomic.
* `KeptUntilExpiry` (xnet_dhcp.c:597).  Rebinding is given up with its retries.

Met while modelling, and kept out of the runs by a stated restriction:

* `xRTOS_Task_Set_Priority` on an owner drops its boost (core.c:455):
  `PriorityInherited` is claimed for programs that leave priorities alone
  (`Next` without `Repri`).
* A one-shot timer restarted inside its own callback is cancelled when the
  callback returns (timer.c:252, tick.c:210), against timer.h:111.
* timer.h says that callbacks run in the tick interrupt; in the default build
  the daemon runs them.
* A handler may create a task in the slot that `xRTOS_Task_Exit` has just
  cleared, while the ending task is still on the processor (core.c:365-370).  On
  the Arm port a handler that leaves without a switch then starts the new task
  without one: it is not RUNNING and still queued, until it blocks or ends
  (`Unqueued`).  On the CH32H417 the software interrupt saves the ending task's
  stack pointer in the new context, so the new task resumes on that stack and
  never executes; `FramesOwn` and the theorem about it say that this is the one
  case.
* Against core.c:372, "Unreachable: the terminated task is never rescheduled
  after yield.": the software interrupt of the CH32H417 does nothing when the
  slot is empty (context.S:65-66), so a task that ended stays on the processor
  in `for (;;)`, however many others are ready, unless a handler creates a task
  under its id (`SoftwareInterrupt`, point `over`).
* With an empty slot the Arm port saves the stack pointer through a null pointer
  (asm.S:64-65, 184-185, 202-203).  `frame[None]` stands for the word at address
  0, taken to be memory that keeps what was stored.
* `notify_core` looks the target up before it locks (notify.c:68).
* Waits longer than 2^31 - 1 ticks expire at once.
* `should_yield` of an ISR call returns any pending request, not only its own.
* `xNET_ARP_Cache_Init` forgets parked packets without releasing their buffers.
  The DHCP client calls it on start, ACK, NAK and expiry, so each of these can
  cost a buffer for good.  `LostOnlyWithLease` excuses exactly these steps
  (`ClearsForLease`) and says that no other one loses a buffer.
* `xNET_DHCP_Stop` leaves the leased address on the interface, without a lease.
* Options of any reply with the right transaction id are stored in every state:
  a second server's late OFFER redirects the next renewal (`Heard`).
* `lease_time * 1000` and `lease_time * 7` wrap in 32 bits: a lease of more than
  49 days, or the infinite one, ends early, and so may its T2.
* Nor does the client notice the end of a lease whose product comes within one
  tick of 2^32 ms: the elapsed time wraps before it gets there
  (`LeasesFit`, the assumption without which `ImplementsLeaseService` fails).
* While parked packets fill the pool no ARP reply can be received; the retries
  have to run out first (`PoolRecovers`).  With the default configuration, eight
  buffers and eight entries, eight unreachable hosts are enough.
* `Set_Effective_Priority` moves a ready owner to the tail of its list even when
  its priority does not change (scheduler.c:447); the model does the same.

xFS (`xfs`):

* A walk along a chain that fails half-way has moved `current_cluster` but not
  `current_cluster_index` (xfs_file.c:94-133, 227-308): a later `Seek(0)` and
  `Read` return other bytes of the file, against
  `tests/fake/test_xfs_file.c:131-137`.  The model marks the handle (`drift`)
  and only closes it.
* The component's README, line 79, says that `xFS_Unmount` flushes caches; it
  flushes nothing (`Unmounts` needs every file closed).
* `Create_File_Entry` takes any error of `Find_Entry` for "not found", so that a
  failed read makes a name twice.
* A handle writes back an allocation-table sector that another has changed
  (`STALE`).
* Order of writes: removal frees the chain before the entry, shrinking frees
  clusters before the size is rewritten, a rename across directories writes the
  new entry first, `format` writes the boot sector first, so that a format cut
  short leaves a volume that mounts.
* `Cache_Read` that fails leaves the cache valid over a buffer it may have
  overwritten.
* `format_resolve_layout` with a table size to be chosen can alternate between
  two sizes and refuse a medium that fits.

xUSB host (`xusb`):

* The AM243x driver notifies RESET_COMPLETE inside `Port_Reset`, and
  `root_port_process_powered` clears the flag after the call: the port stays
  RESETTING.  It clears `is_configuring` when the endpoints are enabled
  (xusbh_drv.c:513, before :632), so that the completion of SET_CONFIGURATION is
  never signalled, against the "exactly one terminal transfer event" of
  `xusbh_hcd.h`.  `PortSettles` is about a driver that keeps the contract.
* Interrupts in the middle of a call of the task, all of them behaviours of the
  model.  (a) RESET_COMPLETE before `is_reset_complete = false`
  (xusbh_core.c:411) is lost and the port stays RESETTING; (b) DISCONNECTED between
  `xUSBH_Enumeration_Start` and `state = ENUMERATING` (:458) is overwritten, the
  port stays ENUMERATING without an enumeration and does not see the next
  device: these are the exceptions of `PortSettles` (`bus.overtaken`).
  (c) DISCONNECTED before `is_submitted = true` (:1346) frees the
  transfer without cancelling it, the controller still works on the slot, and its
  next owner may be told of it: the exception of `ControllerOwns`.  TLC finds each of
  these three when its exception is left out.  (d) A completion in the same place
  leaves `is_submitted` set: the enumeration then waits for its time-out, and a
  bound HID reports no more.  (e) DISCONNECTED while a HID is bound leaves the
  port CONFIGURED without a device until it is unplugged again.
* A resumed port enumerates again over the existing device and fails; an
  overcurrent during enumeration leaves it active, and the next connection ends
  in ERROR; `Stop` during a reset followed by `Start` leaves the port RESETTING
  (`bus.restarted`).
* With two ports, `root_ports_process` stops at the first error; an abort after
  the completion releases a slot that may be another's.
* An instance whose cancel fails stays bound, or leaks; mass storage in ERROR
  and HID after an error have no way on but unplugging; mass-storage transfers
  have no time-out; a device replugged between two polls is not noticed.

xUSB device (`xusb`, DFU in `xkit`):

* `ep_clear_stall` of the CH32H417 (xusbd_drv.c:1311) drops the armed transfer
  and nothing arms it again: after a mass-storage reset and CLEAR_FEATURE the
  function waits for ever.
* The OUT data stage of a control transfer lands in `ep0_dma_buf`, but the
  classes are handed `control_data`; IN responses above 512 bytes are cut.
* `status_phase_complete_process` looks at the recipient of the request and not
  at its type; `control_request_class` survives an aborted class request.
* DISCONNECT keeps address and configuration until the next reset;
  `is_configured` changes at SETUP, the life cycle at the status stage;
  `xUSBD_Start` undoes nothing on its early returns.
* READ10/WRITE10 check `lba + count` in 32 bits, which wraps; the length received
  is not compared with what was asked for.
* CDC and WinUSB call the application before they initialise their endpoints,
  which clears what it armed; HID answers unknown requests OK; registering one
  context twice makes the class list circular.
* DFU clears the pending operation before it runs it (xusbd_dfu.c:592):
  GETSTATUS meanwhile reports dfuDNLOAD-IDLE and the next block overwrites the
  buffer being written; a CONNECT event meanwhile makes the application erase
  its bank under the write; a request between the copy and the clear loses an
  operation.  A manifest is reported over while it runs, or when its status
  stage failed.  `DfuTruth` excepts exactly these four windows (`crossed`).
* A block whose status stage was lost is reported as written; MANIFEST_TOLERANT
  is claimed, but the state goes to MANIFEST-WAIT-RESET.  The application erases
  on CONNECT without resetting `bytes_written` and `firmware_valid`, so that a
  manifest may accept what is gone.  An upload past the end is meant to "signal
  end-of-upload: return a zero-length block", and the class reads the missing
  block as errFILE.

Boot (`xkit`):

* `offset + size` wraps when the storage is half the address space or more, and
  an entry beyond it is accepted; image memory that ends at 2^32 refuses every
  image; the fake storage leaves its buffer in the same way.
* `Lookup_Type` answers INVALID_PARTITION, its header says NOT_FOUND; a table
  refused half-way leaves `num_entries` set; `am243x_jump` ignores the entry
  address.
* The README of xBOOT lists functions that do not exist and says that
  `xBOOT_Init` validates the platform operations.
* The constructor `xsdk_sbl_dpl_init` is called by nothing in the repository's
  start-up code; the result of a device reset is ignored, so that the policy
  runs on a half-initialised device if it is refused (`StartTruth`).

Drivers (`xkit`):

* UART on the CH32H417: an interrupt-driven transmission of one byte never
  completes (`UartAnswered` asks for more than one); an abort that races the
  completion answers twice, or ends the transfer the call-back has just begun; a
  blocking reception loses bytes to the receive interrupt; baud rate 0 divides
  by zero.  On the AM243x receive errors are ignored and a time-out of 0 ends
  on the first poll.
* I2C: a CH32H417 read that times out before its last byte leaves no STOP; the
  AM243x port misses the refusal of the last byte of a write with no read after
  it.  `xI2C_Init` and
  `xSPI_Init` clear the context before the port refuses a second `Init`, after
  which the port can not be shut down.
* SPI: a time-out on the CH32H417 leaves a word behind, and the next transfer is
  OK with its data shifted (`cut`); an AM243x transfer of length zero, or one
  whose guard expires on the last word, is answered TIMEOUT.
* Timer: a period below one tick gives the longest one; the prescaler is cut to
  16 bits; the AM243x timer runs on after `Deinit`.
* GPIO: two tasks that configure pins of one port at once lose a mode
  (`overlap`); a bad alternate function is refused only after mode and speed
  were written.

Tools (`xkit`):

* Under OVERWRITE, a reset of the ring under a flush, or in the middle of a
  record already sent in part, garbles the stream (`torn`); the number in an
  overwritten GAP is lost.
* The decoder rounds each delta down to a microsecond, so it falls behind by up
  to one per record; a task shows as READY only after its first switch.
* Backspace after an overflow clears the mark although characters were lost, and
  the shortened line runs.
* An error of the CP15 read skips the whole dump of a fault.

Applications (`xkit`):

* A QSPI transfer does not compare its length with the payload; SPI leaves other
  chips selected, and a chip after a failure; a send that fails after the
  operation makes the host repeat it.
* SLCAN answers an open that failed with CR, cuts long lines silently, and reads
  digits that are none as 0; the UART bridge loses the bytes of a failed call.
* `xLOGIC_Arm` does not reset `control->status`, so that a poll before the PRU
  takes the command takes the last DONE for the new one (`mixed`); an upload
  repeated after a failed send is reversed twice; `Clear_Requests` at the end of
  `Arm` and `Abort` drops a RESET or RUN that has just come.
* xUSBIP: `xUSBIP_URB_Complete` frees the slot, and the `Free` that its header
  asks for after the answer then wipes a slot that is in use again; the server
  of the model does only one of them.

## 5. Proofs

### Mutexes (`XrtosProofs`)

For any set of tasks, mutexes and priorities that satisfies `BootAssumption` and
the module's assumption on mutexes.  `SpecRepri` is the module with programs
that call `xRTOS_Task_Set_Priority` at any moment; `Spec` is the module without
those calls.

| Theorem | Says |
|---|---|
| `TypeCorrect` | `Spec => []TypeOK` |
| `ReadyListsAlwaysAgree` | `Spec => []ReadyListsAgree` |
| `StructureCorrect` | `Spec => []LockStructure` |
| `ResultCorrect` | `Spec => []LockResultTruthful` |
| `InvarianceRepri` | `SpecRepri => []IInv`, the inductive invariant, and so the four above with changes of priority too |
| `AlwaysSorted` | `SpecRepri => []WaitersSorted` |
| `ServedInOrder` | `SpecRepri => FifoAmongEquals` |
| `InheritanceExact` | `Spec => []PriorityInherited` |
| `ServiceImplemented` | `SpecRepri => ImplementsLockService`: every step is one of `LockService` or a stutter |

**The inductive invariant** `IInv` joins the type, the agreement of the ready
lists, who may be RUNNING (`OneRunning`), deadlines only for waiters, the lock
structure, no free mutex with waiters, and what the pending call of each task
knows (`CallsMatch`).  None is inductive alone: that a wake-up appends to the
right list needs to know that the task is not queued, which follows from its
state only with the agreement of lists and states; that a hand-off gives a
result that is the truth needs that the waiter is queued on exactly the mutex
its call names.  `XrtosSchedProofs` has what append, remove and requeue do to
ready lists that agree, and the facts about `RemoveFirst`, insertion and `ToSet`
that the steps cite.

**Sorted lists and order of equals.**  `mutex_waiter_insert` puts a task behind
all that are at least as urgent, at one place of the list (`InsertWaiterPlace`).
From it: inserting into a sorted list and removing from one leave it sorted, and
neither changes which of two others comes first.  The hard step is a boost or
restore that reaches a waiter: the code takes it out, changes the priority and
puts it back, and the list is sorted for the new priorities because the one task
whose priority moved is not in the list in between.

**Exact inheritance.**  `PriorityInherited` says that every task but the one a
walk has come to has exactly its base priority or that of the most urgent head
of the lists it owns.  On top of `IInv` it is inductive (`Exact`): a step of
the walk repairs the task it has come to, and only the owner of the mutex this
task waits on can be owed anything by that, and only if the priority changed;
to that owner the walk goes on, and it ends where nothing is owed.  A hand-off,
a wait or a time-out changes one list, and starts a walk at the owner of that
list.  The lists are sorted, so their heads are all the code has to look at.

**The refinement.**  A step of the kernel maps to a grant, a wait, a hand-off, a
time-out or the return of a call of `LockService`, and everything else, the
walk and the changes of priority included, to a stutter; the inductive invariant
gives the guards of the abstract steps.

### The kernel: semaphore, queue, event, notification, registry (`XrtosKernelProofs`)

For any tasks, contexts, priorities, number of tokens, capacity, items, flags and
bits that satisfy `KernelAssumption`.

| Theorem | Says |
|---|---|
| `NobodyEverOverslept` | `Spec => []NobodyOverslept` |
| `WaitMapsAlwaysAgree` | `Spec => []WaitMapsAgree` |
| `SemServiceImplemented` | `Spec => ImplementsSemService` |
| `QueueServiceImplemented` | `Spec => ImplementsQueueService` |
| `AnswersMeetRequests` | `Spec => []AnswerMeetsRequest` |
| `BitsAlwaysAccountedFor` | `Spec => BitsAccountedFor` |
| `ObjectsTypeOK` | `Spec => []TypeOK` |
| `MostUrgentRuns` | `Spec => []RunningIsMostUrgent` |
| `FramesAlwaysOwn` | `Spec => []FramesOwn` |

**The scheduler in order.**  Every object works on the scheduler's variables, so
`XrtosSchedProofs` states once what they keep: `InOrder` is the types, the
agreement of lists and states, who may be RUNNING, deadlines only for waiters,
and `Urgent` - with no reschedule pending nobody queued is more urgent than the
current task.  `Urgent` is the part `RunningIsMostUrgent` lacks to be inductive:
it also holds inside handlers and between the wake-up and the yield.  There is
one lemma per way an object touches the scheduler: a call that changes nothing
there, a block, a yield, one wake-up, the expiry of a deadline, and the scan of
`event_set_core` that wakes many tasks at once.  For the scan, `ById` takes the
tasks of one priority in the order of their ids; that such an order exists for
every finite set is `IncreasingListExists`: a task's place is the number of
smaller ids, which avoids an induction over the size of the set.

**Four inductive invariants.**  `SemInv`, `QueueInv`, `EventInv` and `NotifyInv`
are the scheduler in order, the types of the object's variables, who is in its
wait maps, and why each of these must wait.  The last two need each other: that
a Give may store its token, or a Send its item, rests on the map being empty,
and that says nothing unless the map holds every task blocked there; and a task
leaves the map only because the conditions of the others stay true.  The objects
instantiate the scheduler on their own; `SemSched`, `QueueSched`, `EventSched`
and `NotifySched` show that all copies are the same operators.

**The queue's ring.**  `Content` is what lies between `head` and `tail` modulo
the capacity.  `EnqueueAppends`, `DequeueTakesHead` and `DequeueAdmits` (a
blocked sender's item goes in as one comes out) show that the index arithmetic
is append and tail on it, wherever the wrap falls.  With them a step of the queue
maps to a send, a receive, a hand-off, an admission, a time-out or a return of
the abstract channel.

**The refinements** hold in behaviours that exercise another object as well:
there the variables of semaphore and queue stay as created, and the service
stutters (`ServicesStutter`).

### The task registry (`XrtosTaskProofs`)

`RegistryAlwaysInOrder` is `TaskAssumption => (Spec => []RegistryInv)`, for any
contexts, ids and priorities; `XrtosKernelProofs` instantiates it and takes
`FramesOwn`, the registry's part of `TypeOK` and of `RunningIsMostUrgent` from it.

**The inductive invariant** has one part per thing that can disagree.
`SlotsAgree`: whoever lives is in its slot, and a slot holds a task of its id.
`ListsAgree`: the lists hold the READY tasks, each once, at its priority.
`OnOwnStack`: the processor is on a stack of the current id, and only the task in
the current slot is RUNNING.  `FramesAgree`: a saved frame is on its owner's
stack or `Astray`, on that of a task that ended under the same id and stays on
the CH32H417's processor.  `PlacesAgree`: how far `xRTOS_Task_Exit` has come and
what it has already cleared; this is where the missing lock shows, as a task
preempted there is TERMINATED, may or may not be in the table, and still runs.
`ArmLeaves`: on the Arm port the current slot holds the task on the processor or
nothing, except inside the handler that filled it; and in a handler over an empty
slot the word at address 0 is the interrupted stack.  `IdleWaits`: the idle task
never blocks, so a switch always finds somebody.  `NoneMoreUrgent`: nothing
queued precedes the last selection unless a switch is due.

`TaskAssumption` only says what the boot code does: distinct ids at the start,
the most urgent task first, the idle task last.  Contexts created later share ids
as they like, and handlers create any of them.  A switch of the two ports differs
in what it saves and when it happens, so `SwitchInOrder` is stated for any frames
that agree and `StaysInOrder` for every step without one.  The removal of a task
that is not in its list, or is, needs facts about `RemoveFirst`, which the first
section of the module proves.

### Timers (`XrtosProofs`)

| Theorem | Says |
|---|---|
| `TimersInOrder` | `TimersSpec => []TimersInv` |
| `NextExpiryAlwaysCovers` | `TimersSpec => []NextExpiryCovers` |
| `NothingOverdue` | `TimersSpec => []NoneOverdue` |
| `NoneFiresEarly` | `TimersSpec => NeverEarly` |

For any set of timers, both builds, any periods and any width of the counter
with `2 * (Period[t] + MaxLag + 1) < TickMod`: half the range must hold a period
and the daemon's lag, which is what the comment of `xrtos_tick.h` asks ("do not
exceed 2^31 - 1 ticks") of a program whose daemon may be late.

Ticks wrap, so no two can be compared as numbers.  The proof looks at the
position of a tick in a window that starts `Slack` = `MaxLag + 1` ticks before
now and moves with it (`Pos`).  A deadline is at most `lag` ticks before the
place of now and at most a period behind it (`InWindow`), so is the tick a scan
compares with (`ScanInWindow`); for two such positions the signed comparison of
the code is the comparison of numbers.  A tick moves every position down by one,
and a deadline that would leave the window is one of a timer that should have
been served: `NextIsFirst` (the cached expiry precedes all deadlines and is in
the window itself) and `ServedSoon` (a timer that is due with no signal waiting
is the one firing, or is still in the scan) exclude it.  The three properties of
the run follow from `TimersInv` without another induction.

### The network interface (`XnetProofs`)

| Theorem | Says |
|---|---|
| `Accounted` | `Spec => []StateAccounted` |
| `BuffersLostOnlyWithLease` | `Spec => LostOnlyWithLease` |
| `LeaseKeptByClient` | `Spec => ImplementsLeaseService` |

For any pool, cache, hosts, sockets, retries and times that satisfy
`StackAssumption` and, for the refinement, `LeasesFit`.

Handlers are operators that take the pool and the cache and return what they
become, so there is a lemma per operator (allocating, parking, flushing an entry,
sending, answering) that says what it does to the buffers, and the proof of a
handler is the chain of calls it makes.  `StateAccounted` is inductive: packets
are parked in one entry each and carry the present address, sockets and queries
agree, and the waits are doubled values within their limits.  A buffer is lost
when it is in use and parked nowhere; each operator frees or parks what it was
given, so the lost set grows only where the DHCP client, on a start, an ACK, a NAK
or the end of its lease, empties the cache over what is parked there.

For the lease, `LeaseSound` says that the client holds an address exactly in the
states of a lease, with time left on it.  A tick takes from the time left of
lease, T1 and T2 alike; the service's lease passes with it, and lapses when the
client gives the address up.  The code adds up milliseconds in a word: if lease
and tick fit, the sum has not wrapped when it reaches the lease.  A lease
that wraps in the multiplication is one with fewer milliseconds, for the client
and for the service.

### The USB device (`XusbProofs`)

`DeviceAgreesOnAddress` is `DeviceSpec => []AgreeOnAddress`, for any classes,
requests, payloads, descriptors and budgets.  `DeviceSpec` is `Spec` of `XusbBus`
without the setting in which the two stacks of this repository meet: the host is
any host that resets the device before it asks, gives up requests where it
likes and sends what it likes, while the application registers, stops and
starts.  In that setting `AgreeOnAddress` also speaks of the device slots of
`xusbh`, and stays with TLC.

The code does not act on a request when it answers it: `Set_Address` and
`Set_Configuration` leave a value behind, and `status_phase_complete_process`
acts on it when the status stage is over, which an interrupt tells later than
the host knows.  So the property, which is silent while that interrupt is
pending, is not inductive.  `UsbdInv` adds what the interrupt will do:

* `Pending` is what the device will be once a pending interrupt is served; what
  the host was told is that (`Joined`), and the request the host is at is the one
  the device keeps.
* `EndpointZero`: endpoint 0 armed with an acknowledgement stands for a request
  that was accepted, whose value is still there (`Remembered`); armed for
  data, for a request that has some.  A request refused after its value was
  stored, or a class that rewrote it on the way, would break this.
* `Interrupted`: a status interrupt is pending only while the link is up, and
  only for an endpoint so armed.

Most of the work is in what must not change: the classes, the other endpoints
and the mass-storage transport are called from every path, and `SameControl`
says that none of them touches the control transfer (`BotReceivedKeeps`,
`BusEventKeeps` and their like, one lemma per operator).  States are
nested records; `IsDevice` and `IsController` say which fields they have, so that
an update of one field leaves the others.

### Boot, applications and tools (`XkitProofs`)

`BootAlwaysTrue` is `BootStart /\ [][BootSteps]_boot => []BootTruth`, for any
number of requests, sizes of storage, memory and sectors that satisfy
`BootAssumption`; each part has its own inductive invariant, and no step leads
from one part to another.  The run `xkit` checks `BootTruth` with the other
components of `MCXkit` beside it, which are `Absent` in these behaviours.

* `DfuInv`: a pending WRITE is only met in dfuDNLOAD-SYNC or dfuERROR
  (`PendingAgrees`), where the class takes no further block, so the buffer it
  refers to is not overwritten; what the main loop has in hand is laid over the
  bank as it would be from the buffer (`OnTheWay`), unless a window was crossed;
  from the moment a manifest is due it is pending, running or has worked
  (`ManifestAgrees`).
* `LoaderInv`: entries accepted so far lie in the storage and apart from each
  other.  The sum of offset and size cannot wrap when twice the storage is below
  the word, as both were compared with it first; the sum of load address and
  size may, but then its value is below the load address and the check of the
  range refuses it.
* `FlashInv` is `FlashTruth`: the checks of range and alignment let nothing pass
  that ends beyond the last address.
* `StartInv`: the policy is reached only over a port that was opened, or after a
  reset that was refused.

`Xapps` has seven kinds of state, of which a behaviour keeps one.  For three of
them its part of `AppsTruth` is proved of `AppsNext` from that part's initial
state, for any sizes that satisfy `AppsAssumption`:

* `LogicAlwaysTrue`: `LogicInv` says how the mailbox and the stores of the engine
  go with the core's state.  A capture that is DONE is that of the last command,
  unless the engine finished an earlier one while the core armed anew (`mixed`);
  until the core polls, cursor and buffer are as the command left them
  (`EngineAgrees`, `CoreAgrees`).  Every upload in the history stays what it was
  (`Whole`).
* `SerialAlwaysTrue`: `SerialInv` takes what has left and what is in the ring as
  one sequence.  That is increasing, and has every number but those counted as
  refused or dropped (`Sound`); a byte joins at its end, and taking from the ring
  only moves the border inside it.  The ring's indices wrap, which
  `RingIndexes`, `Enqueued` and `Dequeued` deal with once for both directions.
* `UrbAlwaysTrue`: `UrbInv` gives every transfer one of four fates (`Accounted`):
  not told of and then in one slot if submitted, ended, unlinked in time, or
  ended and then unlinked too late; `Known` ties a slot to the transfer it holds
  and to the time it has really waited, by the difference of two clock readings
  that may have passed the end of the clock (`ClockGoesOn`).

Of the parts of `ToolsTruth` two are proved of `ToolsNext`, from their part's
initial state and for any sizes that satisfy `ToolsAssumption`:

* `FaultAlwaysTrue`: `FaultInv` says that every frame already in the trace lies
  in the stack and below the frame looked at next (`Climbs`), so that adding that
  one keeps the trace climbing; and how far the dump is in every phase
  (`Dumped`), so that the halt is reached with lines left only over an error.
* `TrackerAlwaysTrue`: `TrackerInv` adds to `TrackerTruth` that the kernel's
  current task is the only one that can be running, and that none was created
  before the first one starts.  A record is processed in the step that emits it,
  and the lemmas `Hears...` say what one record does to the tracker, so that
  each kernel step is a sequence of them.

### Drivers (`XdriversProofs`)

`DriversAlwaysTrue` is `DriversInit /\ [][DriversNext]_drv => []DriversTruth`,
for any lengths, numbers of transfers and of arriving bytes, clock rates and
width of the timer register that satisfy `DriversAssumption`.  Each driver has
its own inductive invariant, both ports in one, and no step leads from one
driver to another; `xkit` checks `DriversTruth` as it checks `BootTruth`.

* `UartInv`: the wire, then the shift register, then the data register hold the
  bytes in the order they were written, and each byte behind all the earlier
  ones of its transmission (`UartLine`).  The transmission in progress has its
  bytes up to `tx.i` there and none beyond (`UartSending`), so when the last one
  is taken over by the line all of it is; what was answered stays true when
  bytes move on (`LogTrue`).  Every transfer ever begun is in the log or is the
  open one of its direction (`UartAnswers`), and an abort between its two halves
  holds a transfer that may have been answered meanwhile, but not as aborted
  (`AbortAgrees`).  The bytes received follow each other up to the one in the
  data register, because an overrun raises the error that ends the reception
  before another is taken (`UartHolds`, `UartGot`).
* `I2cInv`: a transaction is a sequence of waits, and how many bytes have passed
  at a fault is the number of transmitter or receiver waits before it; the
  lemmas `WritesLie`, `ReadsLie` and `LiesAfter` count them.
* `SpiInv`: words written, in the shift register and read follow each other
  (`SpiFlow`) while no transfer has been cut short by a time-out.
* `TimerInv`: the prescaler loop is a recursive function on pairs.  That it is
  defined for every period (`ScaleExists`) follows from the least period for
  which it would not be; that it loses fewer cycles than its prescaler
  (`ScaleLosesLittle`) by the same argument, with the well-foundedness of the
  numbers in place of an induction.
* `GpioInv`: a task that has read a register still knows its value when it
  writes it back, unless another configuration overlapped; the output latch is
  written pin by pin, so a toggle never needs that.

### Only model-checked

Liveness (`WalkEnds`, `LeftAloneFires`, `PoolRecovers`, `EveryQueryAnswered`,
`PortSettles`, `EveryStartEnds`): outside the prover's reach.

xFS (`VolumeSound`, `HandleTruth`, `FlushedSurvives`, `StaleNeedsSharing`): the
operators that walk and build chains are recursive, and what they promise, that
chains end and do not meet, is induction over their length.

Of xUSB, the transfers of the controller (`ControllerOwns`), the blocks reported
written (`ClaimTrue`) and the agreement of this host with this device: they
follow enumeration and a topology built from a list of descriptors, item by
item.

Of `ToolsTruth` the parts about the trace ring, COBS and the shell, and of
`AppsTruth` those about SLCAN, SUMP and the messages of xUSBIP: they fold or filter sequences (records of the trace, characters of a
line, bytes of a message), which only induction over data could follow; the part
about the frame channels of xBRIDGE is checked over every frame the bounds allow.

## 6. Not modelled

Assembly of the ports beyond the order of save, select and restore; logging,
tracing calls inside other components; argument checks that return before any
state changes; arrays at their configured limit where creation is refused.
Further, by component (`PROJECT.json` has a note for each):

* xNET: a second interface, multicast groups, the layout of headers, options and
  names.
* xFS: the volume label, the read-only `Path_Stat` and `Path_Exists`, block
  drivers.
* xUSB: the AM243x device driver, isochronous transfers, string and Microsoft
  OS descriptors, requests to the device that are offered to every class,
  endpoint halts between this host and this device (nothing in either asks for
  one).
* Drivers: interrupt call-backs of GPIO pins, fakes, clocks.
* Tools: views and exports of the host tools, texts of dump and shell.
* xBRIDGE and xLOGIC: USB descriptors; the PRU firmware is external, as are the
  server loop of xUSBIP and the probe behind the DAP commands.
* Board start-up, bring-up applications, USB definitions: register writes,
  demonstrations and constants, without a protocol of their own.

## 7. What would come next

Proofs for the host side of xUSB, whose loops are functions already, and for xFS,
whose recursive operators would have to become functions first.  A second root port for `xusb`, at present beyond five minutes of
TLC; uploads of xLOGIC and transfers of xUSBIP over the device model of
`XusbdCore` instead of over calls that succeed or fail.
