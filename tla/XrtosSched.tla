----------------------------- MODULE XrtosSched -----------------------------
(***************************************************************************)
(* The scheduling core of xRTOS, shared by every module that models a      *)
(* synchronisation object: ready lists, the running task, the deferred     *)
(* reschedule flag, interrupt context and timeouts.                        *)
(*                                                                         *)
(* xRTOS runs on one core.  An API call does its work with interrupts      *)
(* masked (xRTOS_Scheduler_Lock), so the body of a call is one step; what  *)
(* follows the unmasking - raising the yield exception - is a step of its  *)
(* own, because an interrupt may be taken in between.                      *)
(*                                                                         *)
(* A lower number is a more urgent priority, as in the source.             *)
(***************************************************************************)
EXTENDS Naturals, Sequences, FiniteSets, SequencesExt

CONSTANTS
    Task,        \* identifiers of the created tasks
    Idle,        \* the idle task: it calls nothing and never blocks
    MaxPrio,     \* xRTOS_IDLE_PRIORITY, the least urgent priority
    None,        \* the NULL pointer, xRTOS_INVALID_TASK_ID
    RoundRobin,  \* xRTOS_CONFIG_ROUND_ROBIN_ENABLE
    BootBase,    \* base priority each task was created with
    BootReady,   \* ready lists when the kernel starts, one per priority
    BootFirst    \* the task the kernel starts with

Prio == 0 .. MaxPrio

(***************************************************************************)
(* What xRTOS_Task_Create and xRTOS_Kernel_Start leave behind: every task  *)
(* but the running one is queued once, at its base priority, and the one   *)
(* that runs is at least as urgent as all others.                          *)
(***************************************************************************)
ASSUME BootAssumption ==
    /\ Task \subseteq Nat /\ IsFiniteSet(Task) /\ Idle \in Task
    /\ MaxPrio \in Nat /\ None \notin Task /\ RoundRobin \in BOOLEAN
    /\ BootBase \in [Task -> Prio] /\ BootBase[Idle] = MaxPrio
    /\ BootReady \in [Prio -> Seq(Task)] /\ BootFirst \in Task
    /\ \A p \in Prio :
          /\ IsInjective(BootReady[p])
          /\ \A t \in ToSet(BootReady[p]) : BootBase[t] = p /\ t # BootFirst
    /\ \A t \in Task \ {BootFirst} :
          /\ t \in ToSet(BootReady[BootBase[t]])
          /\ BootBase[BootFirst] <= BootBase[t]

VARIABLES
    state,         \* task_ctx->state: "READY", "RUNNING" or "BLOCKED"
    base,          \* task_ctx->base_priority
    eff,           \* task_ctx->effective_priority
    ready,         \* the ready list of every effective priority
    current,       \* scheduler.current_task_id
    pending,       \* scheduler.is_schedule_pending
    timed,         \* kernel->timeout_map: tasks whose wait has a deadline
    block_status,  \* task_ctx->block_status of the last wait
    pc,            \* "run": in its own code; "yield": about to raise the yield
    isr,           \* an interrupt handler is running
    expiring       \* tasks whose deadline this tick has reached, not yet woken

schedVars == <<state, base, eff, ready, current, pending, timed,
               block_status, pc, isr, expiring>>

TaskState == {"READY", "RUNNING", "BLOCKED"}
Status    == {"OK", "TIMEOUT"}

SchedTypeOK ==
    /\ state \in [Task -> TaskState]
    /\ base \in [Task -> Prio]
    /\ eff \in [Task -> Prio]
    /\ ready \in [Prio -> Seq(Task)]
    /\ current \in Task
    /\ pending \in BOOLEAN
    /\ timed \in SUBSET Task
    /\ block_status \in [Task -> Status]
    /\ pc \in [Task -> {"run", "yield"}]
    /\ isr \in BOOLEAN
    /\ expiring \in SUBSET Task

SchedInit ==
    /\ state = [t \in Task |-> IF t = BootFirst THEN "RUNNING" ELSE "READY"]
    /\ base = BootBase
    /\ eff = BootBase
    /\ ready = BootReady
    /\ current = BootFirst
    /\ pending = FALSE
    /\ timed = {}
    /\ block_status = [t \in Task |-> "OK"]
    /\ pc = [t \in Task |-> "run"]
    /\ isr = FALSE
    /\ expiring = {}

-----------------------------------------------------------------------------
(* Ready lists.                                                            *)

\* ready_map: the tasks linked in some ready list.
ReadyMap(r) == UNION {ToSet(r[p]) : p \in Prio}

\* scheduler_ready_list_insert_tail; a task already in ready_map stays put.
ReadyAdd(r, t, p) ==
    IF t \in ReadyMap(r) THEN r ELSE [r EXCEPT ![p] = Append(@, t)]

\* scheduler_ready_list_remove_at_priority.
ReadyRemove(r, t, p) == [r EXCEPT ![p] = RemoveFirst(@, t)]

\* Fault: a queued task stays where it is when its priority changes.
StayQueued(r, t, from, to) == r

\* Remove and append again: what a change of priority does to a queued task.
Requeue(r, t, from, to) ==
    IF t \in ReadyMap(r) THEN ReadyAdd(ReadyRemove(r, t, from), t, to) ELSE r

IsBest(r, p) == r[p] # <<>> /\ \A q \in Prio : r[q] # <<>> => p <= q

\* xRTOS_Scheduler_Select_Next: the head of the most urgent non-empty list.
SelectNext(r) == Head(r[CHOOSE p \in Prio : IsBest(r, p)])

(***************************************************************************)
(* The switch: the port puts a RUNNING current task at the tail of its     *)
(* list, selects the next task and xRTOS_Scheduler_Switch makes it run.    *)
(* pend is the reschedule flag the caller saw.                             *)
(***************************************************************************)
ContextSwitch ==
    LET preempted == state[current] = "RUNNING"
        queued    == IF preempted THEN ReadyAdd(ready, current, eff[current])
                                  ELSE ready
        next      == SelectNext(queued)
    IN  /\ \E p \in Prio : queued[p] # <<>>
        /\ ready' = ReadyRemove(queued, next, eff[next])
        /\ state' = [t \in Task |->
                        IF t = next THEN "RUNNING"
                        ELSE IF t = current /\ preempted THEN "READY"
                        ELSE state[t]]
        /\ current' = next
        /\ pending' = FALSE

NoSwitch == UNCHANGED <<ready, state, current>>

(***************************************************************************)
(* The task raises the yield it decided on.  The Arm port's SVC handler    *)
(* switches in any case; the CH32H417 software interrupt only when the     *)
(* flag is still set.                                                      *)
(***************************************************************************)
Yield(t) ==
    /\ current = t /\ pc[t] = "yield" /\ ~isr
    /\ \/ ContextSwitch
       \/ ~pending /\ NoSwitch /\ UNCHANGED pending
    /\ pc' = [pc EXCEPT ![t] = "run"]
    /\ UNCHANGED <<base, eff, timed, block_status, isr, expiring>>

\* xRTOS_Task_Yield: set the flag, then yield.
TaskYield(t) ==
    /\ pending' = TRUE
    /\ pc' = [pc EXCEPT ![t] = "yield"]
    /\ UNCHANGED <<state, base, eff, ready, current, timed, block_status, isr, expiring>>

\* A call that left the flag set yields before it returns.
YieldIf(t, pend) ==
    /\ pending' = pend
    /\ pc' = [pc EXCEPT ![t] = IF pend THEN "yield" ELSE "run"]

-----------------------------------------------------------------------------
(* Blocking and waking.                                                    *)

(***************************************************************************)
(* xrtos_blocking_prepare and xRTOS_Scheduler_Block_Current on the running *)
(* task t; finite says whether the wait has a deadline.                    *)
(***************************************************************************)
BlockCurrent(t, finite) ==
    /\ state' = [state EXCEPT ![t] = "BLOCKED"]
    /\ ready' = ReadyRemove(ready, t, eff[t])
    /\ timed' = IF finite THEN timed \cup {t} ELSE timed
    /\ block_status' = [block_status EXCEPT ![t] = "OK"]
    /\ pending' = TRUE
    /\ pc' = [pc EXCEPT ![t] = "yield"]
    /\ UNCHANGED current

\* xRTOS_Task_Delay: a wait on nothing, ended by its deadline.
TaskDelay(t) == BlockCurrent(t, TRUE) /\ UNCHANGED <<base, eff, isr, expiring>>

\* xRTOS_Scheduler_Unblock asks for a reschedule when t outranks the running task.
Outranks(t) == eff[t] < eff[current]

\* xRTOS_Scheduler_Unblock, but for the reschedule flag.
Unblock(t, status) ==
    /\ state' = [state EXCEPT ![t] = "READY"]
    /\ ready' = ReadyAdd(ready, t, eff[t])
    /\ timed' = timed \ {t}
    /\ block_status' = [block_status EXCEPT ![t] = status]

\* A scan of a task map meets its tasks in the order of their ids.
ById(S) ==
    CHOOSE q \in [1 .. Cardinality(S) -> S] : \A i, j \in DOMAIN q : i < j => q[i] < q[j]

\* One scan that unblocks all of these tasks.
UnblockAll(S, status) ==
    /\ state' = [t \in Task |-> IF t \in S THEN "READY" ELSE state[t]]
    /\ ready' = [p \in Prio |-> ready[p] \o ById({t \in S : eff[t] = p})]
    /\ timed' = timed \ S
    /\ block_status' = [t \in Task |-> IF t \in S THEN status ELSE block_status[t]]

\* xRTOS_Scheduler_Find_Highest_Task_In_Map: most urgent, then lowest id.
MostUrgent(S) ==
    CHOOSE t \in S : \A u \in S : eff[t] < eff[u] \/ (eff[t] = eff[u] /\ t <= u)

-----------------------------------------------------------------------------
(* The tick interrupt.  Deadlines are abstracted: at any tick any of the   *)
(* armed waits may have reached its deadline.  The handler wakes them in   *)
(* the order of their ids, with interrupts masked, and the port switches   *)
(* on the way out if a reschedule is pending.                              *)

TickEnter ==
    /\ ~isr
    /\ isr' = TRUE
    /\ expiring' \in SUBSET timed
    /\ UNCHANGED <<state, base, eff, ready, current, pending, timed, block_status, pc>>

\* The next expired task of the handler's scan.
Expired(t) == isr /\ t \in expiring /\ \A u \in expiring : t <= u

\* Faults: a time-out reported as success; a status no caller knows.
WakeExpiredOK(t) ==
    /\ Unblock(t, "OK")
    /\ pending' = (pending \/ Outranks(t))
    /\ expiring' = expiring \ {t}
    /\ UNCHANGED <<base, eff, current, pc, isr>>

WakeExpiredUnknown(t) ==
    /\ Unblock(t, "NO_TASKS_READY")
    /\ pending' = (pending \/ Outranks(t))
    /\ expiring' = expiring \ {t}
    /\ UNCHANGED <<base, eff, current, pc, isr>>

\* xRTOS_Scheduler_Unblock with TIMEOUT.
WakeExpired(t) ==
    /\ Unblock(t, "TIMEOUT")
    /\ pending' = (pending \/ Outranks(t))
    /\ expiring' = expiring \ {t}
    /\ UNCHANGED <<base, eff, current, pc, isr>>

RoundRobinDue == RoundRobin /\ ready[eff[current]] # <<>>

\* The end of the handler and the port's interrupt exit.
IsrExit ==
    /\ isr /\ expiring = {}
    /\ isr' = FALSE
    /\ IF pending \/ RoundRobinDue
         THEN ContextSwitch
         ELSE NoSwitch /\ UNCHANGED pending
    /\ UNCHANGED <<base, eff, timed, block_status, pc, expiring>>

-----------------------------------------------------------------------------
(* Invariants of the scheduling core, checked by every module on top of it. *)

(***************************************************************************)
(* The ready lists, ready_map and task state agree: a task is queued at    *)
(* most once, in the list of its effective priority, and exactly when its  *)
(* state is READY.  A priority changed without requeueing, or a state set  *)
(* without the list, breaks it (xrtos_scheduler.c).                        *)
(***************************************************************************)
ReadyListsAgree ==
    /\ \A p \in Prio :
          /\ IsInjective(ready[p])
          /\ \A t \in ToSet(ready[p]) : eff[t] = p /\ state[t] = "READY"
    /\ \A t \in Task : state[t] = "READY" => t \in ToSet(ready[eff[t]])

(***************************************************************************)
(* Only the current task can be RUNNING, and when it is not - it blocked   *)
(* and has not yielded yet - a reschedule is pending, so the processor     *)
(* cannot stay with it (xRTOS_Scheduler_Block_Current, _Switch).           *)
(***************************************************************************)
OneRunning ==
    /\ \A t \in Task : state[t] = "RUNNING" => t = current
    /\ state[current] # "RUNNING" => pending
    /\ pc[current] = "run" => state[current] = "RUNNING"

(***************************************************************************)
(* A deadline is armed only for a task that waits; a wake-up that left the *)
(* bit in timeout_map would time out a later wait of the task.             *)
(***************************************************************************)
DeadlinesOnlyForWaiters ==
    /\ \A t \in timed : state[t] = "BLOCKED"
    /\ expiring \subseteq timed
    /\ ~isr => expiring = {}

(***************************************************************************)
(* Outside a handler, a task that runs its own code with no reschedule     *)
(* requested is at least as urgent as every queued task (README: "Strict   *)
(* preemptive priority").                                                  *)
(***************************************************************************)
RunningIsMostUrgent ==
    (~isr /\ ~pending /\ pc[current] = "run") =>
        \A t \in Task : state[t] = "READY" => eff[current] <= eff[t]
=============================================================================
