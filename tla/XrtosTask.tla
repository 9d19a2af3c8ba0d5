------------------------------ MODULE XrtosTask ------------------------------
(***************************************************************************)
(* The life of xRTOS tasks (xrtos_core.c): created at run time, also by an *)
(* interrupt, scheduled, and ended by xRTOS_Task_Exit, which works on the  *)
(* registry with interrupts enabled, unlike every other call.              *)
(*                                                                         *)
(* A task is known in two ways: by the address of its context, and by its  *)
(* id, the slot of task_table.  The scheduler remembers the running task   *)
(* by its id; the processor runs on a stack that belongs to a context.     *)
(***************************************************************************)
EXTENDS Naturals, Sequences, FiniteSets, SequencesExt

CONSTANTS
    Context,     \* the task contexts the application owns
    Id, Prio,    \* the id and priority each context is created with
    Boot,        \* the contexts created before the kernel starts
    First,       \* the one the kernel starts with
    IdleTask,
    Ports,       \* the ports that the behaviours may be of
    None

Slots  == {Id[c] : c \in Context}
Levels == {Prio[c] : c \in Context}

\* The kernel starts with its most urgent task; any contexts may share an id.
TaskAssumption ==
    /\ Id \in [Context -> Nat] /\ Prio \in [Context -> Nat]
    /\ Boot \subseteq Context /\ IsFiniteSet(Boot) /\ {First, IdleTask} \subseteq Boot
    /\ None \notin Context /\ Ports \subseteq {"arm_r5", "ch32h417"}
    /\ \A c, d \in Boot : Id[c] = Id[d] => c = d
    /\ \A c \in Boot : Prio[First] <= Prio[c]
    /\ \A c \in Context : Prio[c] <= Prio[IdleTask]

VARIABLES
    port,         \* the port in use, which never changes
    table,        \* task_table: slot -> context
    by_priority,  \* task_by_priority: base priority -> context
    state,        \* task_ctx->state, "NONE" before the first creation
    ready,        \* the ready list of every priority
    current,      \* current_task_id
    current_priority,  \* as the last switch left it
    pending,      \* is_schedule_pending
    stack,        \* the context whose stack the processor runs on
    frame,        \* task_ctx->stack_top: whose stack the saved frame is on;
                  \* frame[None] is the word at address 0, which the Arm port
                  \* reads and writes when the current slot is empty
    pc,           \* how far each task is in a call
    isr           \* an interrupt handler is running

scheduler == <<state, ready, current, current_priority, pending>>

vars == <<port, table, by_priority, scheduler, stack, frame, pc, isr>>

Points == {"run", "yield", "marked", "unregistered", "indexed", "over"}

TypeOK ==
    /\ port \in Ports
    /\ table \in [Slots -> Context \cup {None}]
    /\ by_priority \in [Levels -> Context \cup {None}]
    /\ state \in [Context -> {"NONE", "READY", "RUNNING", "BLOCKED", "TERMINATED"}]
    /\ ready \in [Levels -> Seq(Context)]
    /\ current \in Slots /\ current_priority \in Levels /\ stack \in Context
    /\ pending \in BOOLEAN /\ isr \in BOOLEAN
    /\ frame \in [Context \cup {None} -> Context]
    /\ pc \in [Context -> Points]

\* task_find_first_at_base_priority: the lowest slot wins.
FirstAt(tab, p) ==
    LET at == {s \in Slots : tab[s] # None /\ Prio[tab[s]] = p}
    IN  IF at = {} THEN None ELSE tab[CHOOSE s \in at : \A u \in at : s <= u]

\* The lists that creating the tasks of priority p, in any order, leaves behind.
Queues(p) ==
    LET waiting == {c \in Boot \ {First} : Prio[c] = p}
    IN  {q \in SetToSeqs(waiting) : ToSet(q) = waiting}

Init ==
    /\ port \in Ports
    /\ table = [s \in Slots |-> IF \E c \in Boot : Id[c] = s
                                  THEN CHOOSE c \in Boot : Id[c] = s ELSE None]
    /\ by_priority = [p \in Levels |-> FirstAt(table, p)]
    /\ state = [c \in Context |-> IF c = First THEN "RUNNING"
                                  ELSE IF c \in Boot THEN "READY" ELSE "NONE"]
    /\ ready \in [Levels -> UNION {Queues(p) : p \in Levels}]
    /\ \A p \in Levels : ready[p] \in Queues(p)
    /\ current = Id[First] /\ current_priority = Prio[First] /\ stack = First
    /\ pending = FALSE /\ isr = FALSE
    /\ frame = [c \in Context \cup {None} |-> IF c = None THEN First ELSE c]
    /\ pc = [c \in Context |-> "run"]

\* The running task goes to this point of its call.
GoTo(point) == pc' = [pc EXCEPT ![stack] = point]

-----------------------------------------------------------------------------
(* The switch: save the stack pointer in the context that task_table holds *)
(* for the current id, put a RUNNING task back in its list, select, and    *)
(* load the stack pointer of the next.                                     *)

Save == [frame EXCEPT ![table[current]] = stack]

IsBest(r, p) == r[p] # <<>> /\ \A q \in Levels : r[q] # <<>> => p <= q

\* The outgoing task goes back to its ready list only when it was running.
RunsOn(c) == c # None /\ state[c] = "RUNNING"

SlotOf(c) == Id[c]

\* frames are the stack pointers saved so far.
Switch(frames) ==
    LET prev   == table[current]
        queued == IF RunsOn(prev) THEN [ready EXCEPT ![Prio[prev]] = Append(@, prev)]
                  ELSE ready
        next   == Head(queued[CHOOSE p \in Levels : IsBest(queued, p)])
    IN  /\ ready' = [queued EXCEPT ![Prio[next]] = Tail(@)]
        /\ state' = [c \in Context |-> IF c = next THEN "RUNNING"
                                       ELSE IF c = prev /\ RunsOn(c) THEN "READY"
                                       ELSE state[c]]
        /\ current' = SlotOf(next)
        /\ current_priority' = Prio[next]
        /\ pending' = FALSE
        /\ frame' = frames
        /\ stack' = frames[next]

\* The CH32H417's software interrupt leaves everything alone when the slot is empty.
SoftwareInterrupt ==
    \/ /\ table[current] # None /\ pending
       /\ Switch(Save)
    \/ /\ table[current] # None /\ ~pending
       /\ frame' = Save
       /\ UNCHANGED <<scheduler, stack>>
    \/ /\ table[current] = None
       /\ UNCHANGED <<scheduler, stack, frame>>

(* A task that yields.  On the Arm port it makes a supervisor call, which  *)
(* always switches: one that has ended never returns from it.  On the      *)
(* CH32H417 it does, its slot being empty, and loops for ever ("over").    *)
Yield ==
    /\ ~isr /\ pc[stack] \in {"yield", "indexed"}
    /\ GoTo(IF pc[stack] = "yield" THEN "run" ELSE "over")
    /\ IF port = "arm_r5" THEN Switch(Save) ELSE SoftwareInterrupt
    /\ UNCHANGED <<table, by_priority, isr>>

\* The Arm port saves at the entry, whether a switch follows or not.
IsrEnter ==
    /\ ~isr /\ isr' = TRUE
    /\ frame' = IF port = "arm_r5" THEN Save ELSE frame
    /\ UNCHANGED <<table, by_priority, scheduler, stack, pc>>

(* Without a switch the Arm port loads the stack pointer of whatever the   *)
(* current slot holds by now; the CH32H417 never left the stack.           *)
IsrExit ==
    /\ isr /\ isr' = FALSE
    /\ \/ pending /\ IF port = "arm_r5" THEN Switch(frame) ELSE SoftwareInterrupt
       \/ /\ ~pending
          /\ stack' = IF port = "arm_r5" THEN frame[table[current]] ELSE stack
          /\ UNCHANGED <<scheduler, frame>>
    /\ UNCHANGED <<table, by_priority, pc>>

-----------------------------------------------------------------------------
(* The calls.                                                              *)

Running == table[current]

Outranks(c) == Prio[c] < current_priority

\* Fault: the slot is not looked at.
SlotFreeAnyway(c) == TRUE

SlotFree(c) == table[Id[c]] = None

\* xRTOS_Task_Create of a context that was never used or whose task has gone.
Create(c) ==
    /\ c # stack /\ state[c] \in {"NONE", "TERMINATED"} /\ SlotFree(c)
    /\ table' = [table EXCEPT ![Id[c]] = c]
    /\ by_priority' = [by_priority EXCEPT ![Prio[c]] = IF @ = None THEN c ELSE @]
    /\ state' = [state EXCEPT ![c] = "READY"]
    /\ frame' = [frame EXCEPT ![c] = c]
    /\ ready' = [ready EXCEPT ![Prio[c]] = Append(@, c)]
    /\ pending' = (pending \/ Outranks(c))
    /\ UNCHANGED <<current, current_priority, stack, isr>>

TaskCreates(c) ==
    /\ ~isr /\ pc[stack] = "run"
    /\ Create(c)
    /\ pc' = [pc EXCEPT ![c] = "run", ![stack] = IF Outranks(c) THEN "yield" ELSE "run"]

IsrCreate(c) ==
    /\ isr
    /\ Create(c)
    /\ pc' = [pc EXCEPT ![c] = "run"]

(* A task that an interrupt created in the slot of one that was leaving    *)
(* starts there, on the Arm port, without a switch, and is queued still.   *)
Unqueued(c) == [ready EXCEPT ![Prio[c]] = RemoveFirst(@, c)]

\* Any call that blocks the running task, and any wake-up from a handler.
Block ==
    /\ ~isr /\ pc[stack] = "run" /\ Running # IdleTask
    /\ state' = [state EXCEPT ![Running] = "BLOCKED"]
    /\ ready' = Unqueued(Running)
    /\ pending' = TRUE /\ GoTo("yield")
    /\ UNCHANGED <<table, by_priority, current, current_priority, stack, frame, isr>>

IsrWake(c) ==
    /\ isr /\ state[c] = "BLOCKED"
    /\ state' = [state EXCEPT ![c] = "READY"]
    /\ ready' = [ready EXCEPT ![Prio[c]] = Append(@, c)]
    /\ pending' = (pending \/ Outranks(c))
    /\ UNCHANGED <<table, by_priority, current, current_priority, stack, frame, pc, isr>>

-----------------------------------------------------------------------------
(* xRTOS_Task_Exit: an interrupt may come between any two of its steps.    *)
(* The mark and the removal from the ready list, which holds the task only *)
(* when it was started as above, are one step.                             *)

ExitMark ==
    /\ ~isr /\ pc[stack] = "run" /\ Running # IdleTask
    /\ state' = [state EXCEPT ![Running] = "TERMINATED"]
    /\ ready' = Unqueued(Running)
    /\ GoTo("marked")
    /\ UNCHANGED <<table, by_priority, current, current_priority, pending, stack, frame, isr>>

ExitUnregister ==
    /\ ~isr /\ pc[stack] = "marked"
    /\ table' = [table EXCEPT ![current] = None]
    /\ GoTo("unregistered")
    /\ UNCHANGED <<by_priority, scheduler, stack, frame, isr>>

ExitIndex ==
    /\ ~isr /\ pc[stack] = "unregistered"
    /\ by_priority' = [by_priority EXCEPT ![Prio[stack]] = FirstAt(table, Prio[stack])]
    /\ pending' = TRUE
    /\ GoTo("indexed")
    /\ UNCHANGED <<table, state, ready, current, current_priority, stack, frame, isr>>

Next ==
    /\ UNCHANGED port
    /\ \/ Yield \/ IsrEnter \/ IsrExit \/ Block
       \/ ExitMark \/ ExitUnregister \/ ExitIndex
       \/ \E c \in Context : TaskCreates(c) \/ IsrCreate(c) \/ IsrWake(c)

Spec == Init /\ [][Next]_vars

-----------------------------------------------------------------------------
(* Properties.                                                             *)

\* The task has ended and given up its slot.
Left(c) == state[c] = "TERMINATED" /\ pc[c] \in {"unregistered", "indexed", "over"}

(***************************************************************************)
(* A task that waits for the processor will resume on its own stack,       *)
(* whatever was created, ended and interrupted before: no other stack      *)
(* pointer is stored in its context ("task_ctx->stack_top = sp").  On the  *)
(* CH32H417, where a task that has ended stays on the processor, the one   *)
(* exception is a task created under the id of such a task before it left, *)
(* which gets its stack and no other (SW_Handler, xRTOS_Task_Exit).        *)
(***************************************************************************)
FramesOwn ==
    \A c \in Context : state[c] \in {"READY", "BLOCKED"} =>
        \/ frame[c] = c
        \/ port = "ch32h417" /\ Left(frame[c]) /\ Id[frame[c]] = Id[c]

(***************************************************************************)
(* The running task is at least as urgent as every queued one, unless a    *)
(* reschedule is under way; creating a more urgent task requests one.  (A  *)
(* task that an interrupt made start without a switch is not RUNNING yet.) *)
(***************************************************************************)
RunningIsMostUrgent ==
    (~isr /\ ~pending /\ pc[stack] = "run" /\ state[stack] = "RUNNING") =>
        \A c \in Context : state[c] = "READY" => Prio[stack] <= Prio[c]

(***************************************************************************)
(* xrtos_core.c, xRTOS_Task_Exit: "Clear registry slots so they can be     *)
(* immediately reused."  A task that ended and left the processor no       *)
(* longer occupies its slot.                                               *)
(***************************************************************************)
SlotsReclaimed ==
    \A c \in Context : state[c] = "TERMINATED" /\ c # stack => table[Id[c]] # c

=============================================================================
