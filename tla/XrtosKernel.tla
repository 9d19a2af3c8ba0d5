---------------------------- MODULE XrtosKernel ----------------------------
(***************************************************************************)
(* The objects of the kernel over one scheduler: a semaphore, a queue, an  *)
(* event object, the notifications of the tasks and the task registry.     *)
(* Each behaviour exercises one of them ("use"), and the others stay as    *)
(* they were created: the objects meet only in the scheduler, whose part   *)
(* of the state they all share.                                            *)
(***************************************************************************)
EXTENDS Naturals, Sequences, FiniteSets

CONSTANTS
    Uses,                          \* what the behaviours exercise
    None, MaxPrio, BootFirst,
    Task, Idle, Base, Ready,       \* the tasks that use the semaphore or the queue,
    Few, FewIdle, FewBase, FewReady,  \* those that use events or notifications,
    Context, Id, CtxPrio, Boot, IdleTask, Ports,  \* and those created and ended
    MaxCount, InitCount, Item, Capacity, Flag, Bit

VARIABLES
    use,
    state, base, eff, ready, current, pending, timed, block_status, pc, isr, expiring,
    count, sem_wait_map, taking,
    storage, head, tail, used, recv_wait_map, send_wait_map, payload, delivered, calling,
    flags, event_wait_map, asked, mask, event_waiting,
    value, note, notify_wait_map, keep, collected, notify_waiting,
    port, table, by_priority, current_priority, stack, frame

Sem == INSTANCE XrtosSem WITH
    RoundRobin <- FALSE, BootBase <- Base, BootReady <- Ready, wait_map <- sem_wait_map

Queue == INSTANCE XrtosQueue WITH
    RoundRobin <- FALSE, BootBase <- Base, BootReady <- Ready

Event == INSTANCE XrtosEvent WITH
    Task <- Few, Idle <- FewIdle, RoundRobin <- FALSE, BootBase <- FewBase,
    BootReady <- FewReady, wait_map <- event_wait_map, waiting <- event_waiting

Notify == INSTANCE XrtosNotify WITH
    Task <- Few, Idle <- FewIdle, RoundRobin <- FALSE, BootBase <- FewBase,
    BootReady <- FewReady, wait_map <- notify_wait_map, waiting <- notify_waiting

Registry == INSTANCE XrtosTask WITH Prio <- CtxPrio, First <- BootFirst

ASSUME KernelAssumption ==
    /\ Uses \subseteq {"sem", "queue", "event", "notify", "registry"}
    /\ Sem!BootAssumption /\ Sem!CountAssumption
    /\ Queue!QueueAssumption
    /\ Event!BootAssumption /\ Event!FlagAssumption
    /\ Notify!BitAssumption
    /\ Registry!TaskAssumption

\* The scheduler's part of the state that the registry's model does without.
waits == <<base, eff, timed, block_status, expiring>>
stacks == <<port, table, by_priority, current_priority, stack, frame>>

semPart    == <<count, sem_wait_map, taking>>
queuePart  == <<storage, head, tail, used, recv_wait_map, send_wait_map, payload,
                delivered, calling>>
eventPart  == <<flags, event_wait_map, asked, mask, event_waiting>>
notifyPart == <<value, note, notify_wait_map, keep, collected, notify_waiting>>

vars == <<use, state, ready, current, pending, pc, isr, waits, stacks,
          semPart, queuePart, eventPart, notifyPart>>

NoWaits  == base = <<>> /\ eff = <<>> /\ timed = {} /\ block_status = <<>> /\ expiring = {}
NoStacks ==
    /\ port = "none" /\ current_priority = None
    /\ table = <<>> /\ by_priority = <<>> /\ stack = None /\ frame = <<>>

Init ==
    /\ use \in Uses
    /\ Sem!Created /\ Queue!Created /\ Event!Created /\ Notify!Created
    /\ \/ use \in {"sem", "queue"} /\ Sem!SchedInit /\ NoStacks
       \/ use \in {"event", "notify"} /\ Event!SchedInit /\ NoStacks
       \/ use = "registry" /\ Registry!Init /\ NoWaits

Next ==
    /\ UNCHANGED use
    /\ \/ /\ use = "sem" /\ Sem!Next
          /\ UNCHANGED <<stacks, queuePart, eventPart, notifyPart>>
       \/ /\ use = "queue" /\ Queue!Next
          /\ UNCHANGED <<stacks, semPart, eventPart, notifyPart>>
       \/ /\ use = "event" /\ Event!Next
          /\ UNCHANGED <<stacks, semPart, queuePart, notifyPart>>
       \/ /\ use = "notify" /\ Notify!Next
          /\ UNCHANGED <<stacks, semPart, queuePart, eventPart>>
       \/ /\ use = "registry" /\ Registry!Next
          /\ UNCHANGED <<waits, semPart, queuePart, eventPart, notifyPart>>

Spec == Init /\ [][Next]_vars

-----------------------------------------------------------------------------
(* Properties.                                                             *)

\* Every variable of the exercised object and of the scheduler keeps its type.
TypeOK ==
    /\ use \in Uses
    /\ use = "sem" => Sem!TypeOK
    /\ use = "queue" => Queue!TypeOK
    /\ use = "event" => Event!TypeOK
    /\ use = "notify" => Notify!TypeOK
    /\ use = "registry" => Registry!TypeOK

(***************************************************************************)
(* No task sleeps beside what it waits for - a token, an item or a free    *)
(* slot, flags that satisfy it, a pending notification - whether that came *)
(* from a task or an interrupt and whoever timed out in between            *)
(* (sem_give_core, queue_try_send_locked, event_set_core, notify_core).    *)
(***************************************************************************)
NobodyOverslept ==
    /\ use = "sem" => Sem!NoTokenWithWaiters
    /\ use = "queue" => Queue!WaitersMatchBuffer
    /\ use = "event" => Event!NobodyOverslept
    /\ use = "notify" => Notify!NoSleepBesideNote

(***************************************************************************)
(* An object's wait maps hold exactly the tasks blocked on it, with their  *)
(* payloads: no hand-off reaches a task that has timed out, or writes to   *)
(* the buffer of a call that has returned (xrtos_blocking.h).              *)
(***************************************************************************)
WaitMapsAgree ==
    /\ use = "sem" => Sem!WaitMapAgrees
    /\ use = "queue" => Queue!WaitMapsAgree
    /\ use = "event" => Event!WaitMapAgrees
    /\ use = "notify" => Notify!WaitMapAgrees

(***************************************************************************)
(* Outside a handler, a task that runs its own code with no reschedule     *)
(* requested is at least as urgent as every queued task (README: "Strict   *)
(* preemptive priority"), whichever object woke, blocked or created whom.  *)
(***************************************************************************)
RunningIsMostUrgent ==
    IF use = "registry" THEN Registry!RunningIsMostUrgent
    ELSE IF use \in {"sem", "queue"} THEN Sem!RunningIsMostUrgent
    ELSE Event!RunningIsMostUrgent

(***************************************************************************)
(* The semaphore implements the token service: no order of gives, takes,   *)
(* time-outs and interrupts makes or loses a token, and Take reports OK    *)
(* exactly when it got one (xrtos_sem.h: "the token is handed to the       *)
(* waiter directly").                                                      *)
(***************************************************************************)
ImplementsSemService == Sem!Service!Spec

(***************************************************************************)
(* The queue implements a bounded FIFO channel: every accepted item is     *)
(* received once and in order, also across the wrap of the ring buffer and *)
(* the direct hand-over to and from blocked tasks (xrtos_queue.c).         *)
(***************************************************************************)
ImplementsQueueService == Queue!Service!Spec

(***************************************************************************)
(* A Wait that reports OK reports flags that meet its request, although    *)
(* any number of Sets, Clears and time-outs came between the wake-up and   *)
(* the return; one that reports TIMEOUT reports none (event_set_core).     *)
(***************************************************************************)
AnswerMeetsRequest == use = "event" => Event!AnswerMeetsRequest

(***************************************************************************)
(* No notified bit is lost: while a task does not run, a bit leaves its    *)
(* word only into what its Wait collects (notify_core).                    *)
(***************************************************************************)
BitsAccountedFor == [][use = "notify" => Notify!BitsKept]_vars

(***************************************************************************)
(* A task that waits for the processor will resume on its own stack,       *)
(* whatever was created, ended and interrupted before; on the CH32H417,    *)
(* where a task that has ended stays on the processor, except one created  *)
(* under its id, which gets its stack and no other                         *)
(* (xrtos_port_arm_r5_asm.S, SW_Handler, xRTOS_Task_Exit).                 *)
(***************************************************************************)
FramesOwn == use = "registry" => Registry!FramesOwn

(***************************************************************************)
(* xrtos_core.c, xRTOS_Task_Exit: "Clear registry slots so they can be     *)
(* immediately reused."  A task that ended and left the processor no       *)
(* longer occupies its slot.                                               *)
(***************************************************************************)
SlotsReclaimed == use = "registry" => Registry!SlotsReclaimed
=============================================================================
