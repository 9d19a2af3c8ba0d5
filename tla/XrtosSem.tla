------------------------------ MODULE XrtosSem ------------------------------
(***************************************************************************)
(* An xRTOS semaphore (xrtos_sem.c), used by tasks and interrupts.         *)
(***************************************************************************)
EXTENDS XrtosSched

CONSTANTS MaxCount, InitCount

CountAssumption ==
    MaxCount \in Nat \ {0} /\ InitCount \in Nat /\ InitCount <= MaxCount

VARIABLES
    count,     \* sem_ctx->count
    wait_map,  \* sem_ctx->wait_map
    taking     \* tasks in the blocking path of Take

semVars == <<count, wait_map, taking>>
vars == <<schedVars, semVars>>

TypeOK ==
    /\ SchedTypeOK
    /\ count \in 0 .. MaxCount
    /\ wait_map \in SUBSET Task
    /\ taking \in SUBSET Task

\* A semaphore that was just created.
Created ==
    /\ count = InitCount
    /\ wait_map = {}
    /\ taking = {}

Init == SchedInit /\ Created

\* t runs its own code, between two API calls.
Calls(t) == ~isr /\ current = t /\ t # Idle /\ pc[t] = "run" /\ t \notin taking

-----------------------------------------------------------------------------
(* xRTOS_Sem_Take.  With NO_WAIT and no token it returns without a change. *)

TakeToken(t) ==
    /\ Calls(t) /\ count > 0
    /\ count' = count - 1
    /\ UNCHANGED <<schedVars, wait_map, taking>>

TakeBlock(t, finite) ==
    /\ Calls(t) /\ count = 0
    /\ wait_map' = wait_map \cup {t}
    /\ taking' = taking \cup {t}
    /\ BlockCurrent(t, finite)
    /\ UNCHANGED <<base, eff, isr, expiring, count>>

\* The blocked call resumes and returns block_status.
TakeReturn(t) ==
    /\ ~isr /\ current = t /\ pc[t] = "run" /\ t \in taking
    /\ taking' = taking \ {t}
    /\ UNCHANGED <<schedVars, count, wait_map>>

-----------------------------------------------------------------------------
(* sem_give_core, from a task and from an interrupt handler.  A give on a  *)
(* full semaphore returns RESOURCE_FULL without a change.                  *)

\* Faults of the give: the limit is not looked at; the token handed over is
\* stored as well; the waiter's priority is not looked at.
StoreUnbounded ==
    /\ wait_map = {}
    /\ count' = count + 1
    /\ UNCHANGED <<state, ready, timed, block_status, wait_map>>

WakeAndCount(w) ==
    /\ Unblock(w, "OK")
    /\ wait_map' = wait_map \ {w}
    /\ count' = IF count < MaxCount THEN count + 1 ELSE count

NeverOutranks == FALSE

Store ==
    /\ wait_map = {} /\ count < MaxCount
    /\ count' = count + 1
    /\ UNCHANGED <<state, ready, timed, block_status, wait_map>>

WakeTaker(w) ==
    /\ Unblock(w, "OK")
    /\ wait_map' = wait_map \ {w}
    /\ UNCHANGED count

\* The give is going to wake a task that outranks the running one.
GiveOutranks == wait_map # {} /\ Outranks(MostUrgent(wait_map))

GiveCore ==
    /\ Store \/ (wait_map # {} /\ WakeTaker(MostUrgent(wait_map)))
    /\ UNCHANGED <<base, eff, current, isr, expiring, taking>>

Give(t) == Calls(t) /\ GiveCore /\ YieldIf(t, pending \/ GiveOutranks)

GiveFromIsr ==
    /\ isr /\ expiring = {}
    /\ GiveCore
    /\ pending' = (pending \/ GiveOutranks)
    /\ UNCHANGED pc

-----------------------------------------------------------------------------
\* xRTOS_Scheduler_Unblock takes the task out of the map it waits on.
Expire(t) ==
    /\ Expired(t)
    /\ WakeExpired(t)
    /\ wait_map' = wait_map \ {t}
    /\ UNCHANGED <<count, taking>>

TaskStep(t) ==
    \/ TakeToken(t)
    \/ \E finite \in BOOLEAN : TakeBlock(t, finite)
    \/ TakeReturn(t)
    \/ Give(t)
    \/ Calls(t) /\ TaskYield(t) /\ UNCHANGED semVars
    \/ Calls(t) /\ TaskDelay(t) /\ UNCHANGED semVars
    \/ Yield(t) /\ UNCHANGED semVars

Handler ==
    \/ TickEnter /\ UNCHANGED semVars
    \/ \E t \in Task : Expire(t)
    \/ GiveFromIsr
    \/ IsrExit /\ UNCHANGED semVars

Next == (\E t \in Task : TaskStep(t)) \/ Handler

Spec == Init /\ [][Next]_vars

-----------------------------------------------------------------------------
(* Properties.                                                             *)

(***************************************************************************)
(* A token is never left lying while a task waits for one, whether it was  *)
(* given by a task or an interrupt and whoever timed out in between        *)
(* (sem_give_core, xRTOS_Sem_Take).                                        *)
(***************************************************************************)
NoTokenWithWaiters == count > 0 => wait_map = {}

(***************************************************************************)
(* The wait map holds exactly the blocked takers: a task that left with a  *)
(* token or a time-out cannot be handed a second token later.              *)
(***************************************************************************)
WaitMapAgrees == wait_map = {t \in taking : state[t] = "BLOCKED"}

\* How far a task's Take has got, as its caller will learn.
Progress(t) ==
    CASE t \notin taking -> "idle"
      [] t \in taking /\ t \in wait_map -> "waiting"
      [] t \in taking /\ t \notin wait_map /\ block_status[t] = "OK" -> "granted"
      [] OTHER -> "refused"

Service == INSTANCE SemService WITH
    tokens <- count, taker <- [t \in Task |-> Progress(t)]

(***************************************************************************)
(* The semaphore implements the token service: no order of gives, takes,   *)
(* time-outs and interrupts makes or loses a token, and Take reports OK    *)
(* exactly when it got one (xrtos_sem.h: "the token is handed to the       *)
(* waiter directly").                                                      *)
(***************************************************************************)
ImplementsSemService == Service!Spec
=============================================================================
