----------------------------- MODULE XrtosNotify ----------------------------
(***************************************************************************)
(* xRTOS task notifications (xrtos_notify.c): every task has a word of     *)
(* bits that others OR into, a pending flag, and one Wait that collects.   *)
(***************************************************************************)
EXTENDS XrtosSched

CONSTANT Bit

BitAssumption == Bit # {}

VARIABLES
    value,      \* task_ctx->notify_value
    note,       \* task_ctx->has_notify_pending
    wait_map,   \* kernel->notify_wait_map
    keep,       \* ~block_payload.notify.clear_on_exit
    collected,  \* what a Wait hands to its caller: block_payload.notify.value
    waiting     \* tasks in the blocking path of Wait

notifyVars == <<value, note, wait_map, keep, collected, waiting>>
vars == <<schedVars, notifyVars>>

TypeOK ==
    /\ SchedTypeOK
    /\ value \in [Task -> SUBSET Bit] /\ note \in [Task -> BOOLEAN]
    /\ keep \in [Task -> SUBSET Bit] /\ collected \in [Task -> SUBSET Bit]
    /\ wait_map \subseteq Task /\ waiting \subseteq Task

\* Tasks that were just created.
Created ==
    /\ value = [t \in Task |-> {}] /\ note = [t \in Task |-> FALSE]
    /\ keep = [t \in Task |-> {}] /\ collected = [t \in Task |-> {}]
    /\ wait_map = {} /\ waiting = {}

Init == SchedInit /\ Created

\* t runs its own code, between two API calls.
Calls(t) == ~isr /\ current = t /\ t # Idle /\ pc[t] = "run" /\ t \notin waiting

-----------------------------------------------------------------------------
(* notify_core.                                                            *)

\* Fault: the bits that came before are not handed over.
HandOverNew(to, bits) ==
    /\ to \in wait_map
    /\ collected' = [collected EXCEPT ![to] = bits]
    /\ value' = [value EXCEPT ![to] = (@ \cup bits) \cap keep[to]]
    /\ note' = [note EXCEPT ![to] = FALSE]
    /\ wait_map' = wait_map \ {to}
    /\ Unblock(to, "OK")
    /\ UNCHANGED keep

Latch(to, bits) ==
    /\ to \notin wait_map
    /\ value' = [value EXCEPT ![to] = @ \cup bits]
    /\ note' = [note EXCEPT ![to] = TRUE]
    /\ UNCHANGED <<state, ready, timed, block_status, wait_map, keep, collected>>

\* The waiter gets the value before clear_on_exit.
HandOver(to, bits) ==
    /\ to \in wait_map
    /\ collected' = [collected EXCEPT ![to] = value[to] \cup bits]
    /\ value' = [value EXCEPT ![to] = (@ \cup bits) \cap keep[to]]
    /\ note' = [note EXCEPT ![to] = FALSE]
    /\ wait_map' = wait_map \ {to}
    /\ Unblock(to, "OK")
    /\ UNCHANGED keep

WakeOutranks(to) == to \in wait_map /\ Outranks(to)

NotifyCore(to, bits) ==
    /\ Latch(to, bits) \/ HandOver(to, bits)
    /\ UNCHANGED <<base, eff, current, isr, expiring, waiting>>

Notify(t, to, bits) ==
    Calls(t) /\ NotifyCore(to, bits) /\ YieldIf(t, pending \/ WakeOutranks(to))

NotifyFromIsr(to, bits) ==
    /\ isr /\ expiring = {}
    /\ NotifyCore(to, bits)
    /\ pending' = (pending \/ WakeOutranks(to))
    /\ UNCHANGED pc

-----------------------------------------------------------------------------
(* xRTOS_Task_Notify_Wait: entry and leave are the bits to keep on entry   *)
(* and on exit, the complements of its arguments.                          *)

\* The caller gets value[t] \cap entry at once.
WaitFast(t, entry, leave) ==
    /\ Calls(t) /\ note[t]
    /\ value' = [value EXCEPT ![t] = @ \cap entry \cap leave]
    /\ note' = [note EXCEPT ![t] = FALSE]
    /\ UNCHANGED <<schedVars, wait_map, keep, collected, waiting>>

WaitNothing(t, entry) ==
    /\ Calls(t) /\ ~note[t]
    /\ value' = [value EXCEPT ![t] = @ \cap entry]
    /\ UNCHANGED <<schedVars, note, wait_map, keep, collected, waiting>>

WaitBlock(t, entry, leave, finite) ==
    /\ Calls(t) /\ ~note[t]
    /\ value' = [value EXCEPT ![t] = @ \cap entry]
    /\ keep' = [keep EXCEPT ![t] = leave]
    /\ collected' = [collected EXCEPT ![t] = {}]
    /\ wait_map' = wait_map \cup {t}
    /\ waiting' = waiting \cup {t}
    /\ BlockCurrent(t, finite)
    /\ UNCHANGED <<base, eff, isr, expiring, note>>

\* The payload is never read again before the next wait writes it.
WaitReturn(t) ==
    /\ ~isr /\ current = t /\ pc[t] = "run" /\ t \in waiting
    /\ waiting' = waiting \ {t}
    /\ collected' = [collected EXCEPT ![t] = {}]
    /\ keep' = [keep EXCEPT ![t] = {}]
    /\ UNCHANGED <<schedVars, value, note, wait_map>>

-----------------------------------------------------------------------------
Expire(t) ==
    /\ Expired(t)
    /\ WakeExpired(t)
    /\ wait_map' = wait_map \ {t}
    /\ UNCHANGED <<value, note, keep, collected, waiting>>

TaskStep(t) ==
    \/ \E to \in Task \ {Idle}, bits \in SUBSET Bit : Notify(t, to, bits)
    \/ \E entry, leave \in {{}, Bit} :
          \/ WaitFast(t, entry, leave)
          \/ WaitNothing(t, entry)
          \/ \E finite \in BOOLEAN : WaitBlock(t, entry, leave, finite)
    \/ WaitReturn(t)
    \/ Calls(t) /\ TaskDelay(t) /\ UNCHANGED notifyVars
    \/ Yield(t) /\ UNCHANGED notifyVars

Handler ==
    \/ TickEnter /\ UNCHANGED notifyVars
    \/ \E t \in Task : Expire(t)
    \/ \E to \in Task \ {Idle}, bits \in SUBSET Bit : NotifyFromIsr(to, bits)
    \/ IsrExit /\ UNCHANGED notifyVars

Next == (\E t \in Task : TaskStep(t)) \/ Handler

Spec == Init /\ [][Next]_vars

-----------------------------------------------------------------------------
(* Properties.                                                             *)

(***************************************************************************)
(* A task never sleeps in Notify_Wait while a notification is pending for  *)
(* it, whenever the notification, the time-out and the next Wait came.     *)
(***************************************************************************)
NoSleepBesideNote == \A t \in wait_map : ~note[t]

(***************************************************************************)
(* notify_wait_map holds exactly the tasks blocked in Notify_Wait, so a    *)
(* notification after the time-out is latched, not handed to a caller that *)
(* was told TIMEOUT.                                                       *)
(***************************************************************************)
WaitMapAgrees == wait_map = {t \in waiting : state[t] = "BLOCKED"}

(***************************************************************************)
(* No bit is lost: while a task does not run, a bit leaves its word only   *)
(* into what its Wait collects (notify_core: latch the value before        *)
(* clear_on_exit), whatever bits had gathered before it waited.            *)
(***************************************************************************)
BitsKept ==
    \A t \in Task : value[t] \subseteq value'[t] \cup collected'[t]
                        \/ (~isr /\ current = t)
=============================================================================
