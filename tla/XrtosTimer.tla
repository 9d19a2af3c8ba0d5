----------------------------- MODULE XrtosTimer -----------------------------
(***************************************************************************)
(* The software timers of xRTOS (xrtos_timer.c, xrtos_tick.c).             *)
(*                                                                         *)
(* When deferred, the tick only signals the timer daemon's semaphore and   *)
(* the daemon runs the callbacks with interrupts enabled; otherwise the    *)
(* tick handler runs them itself.  The scan and its bookkeeping run with   *)
(* the scheduler locked: while mode is "scan" or "recompute" nobody else   *)
(* moves.  Ticks are counted modulo TickMod, as the code counts them       *)
(* modulo 2^32.                                                            *)
(***************************************************************************)
EXTENDS Naturals, FiniteSetsExt

CONSTANTS
    Timer,     \* timer ids, the scan visits them in this order
    Period,    \* timer_ctx->period_ticks
    Periodic,  \* the timers with is_periodic
    TickMod,   \* 2^32 in the code
    MaxLag,    \* bound: ticks the daemon may be behind when it has work
    Methods,   \* the builds: TRUE for xRTOS_TIMER_METHOD_TASK, FALSE for _ISR
    NoTimer

(***************************************************************************)
(* Comparing ticks is sound only for spans below half the range            *)
(* (xrtos_tick.h, "do not exceed 2^31 - 1 ticks"); a timer that is due     *)
(* must be served within it too.                                           *)
(***************************************************************************)
ASSUME TimerAssumption ==
    /\ Timer \subseteq Nat /\ NoTimer \notin Timer
    /\ TickMod \in Nat /\ MaxLag \in Nat /\ 2 * (MaxLag + 1) < TickMod
    /\ Methods \subseteq BOOLEAN
    /\ Period \in [Timer -> Nat \ {0}] /\ Periodic \subseteq Timer
    /\ \A t \in Timer : 2 * (Period[t] + MaxLag + 1) < TickMod

VARIABLES
    deferred,     \* which build this is
    tick,         \* kernel->tick_count
    active,       \* active_timers_map
    expiry,       \* timer_ctx->expiry_tick
    next_expiry,  \* next_timer_expiry_tick
    signal,       \* timer_sem.count, of at most 1
    mode,         \* where the daemon (or the handler's timer scan) is
    scan,         \* timer_scan
    now,          \* current_tick
    firing,       \* the timer whose callback runs
    lag           \* ticks since the daemon was last asleep with no signal

timerVars == <<deferred, tick, active, expiry, next_expiry, signal, mode, scan, now, firing, lag>>

Ticks == 0 .. TickMod - 1

TimersInit ==
    /\ deferred \in Methods
    /\ tick = 0 /\ now = 0 /\ next_expiry = 0
    /\ active = {} /\ scan = {}
    /\ expiry = [t \in Timer |-> 0]
    /\ signal = 0
    /\ mode = "wait"
    /\ firing = NoTimer
    /\ lag = 0

\* Fault: ticks compared as plain numbers.
HasExpiredUnsigned(count, wake) == count >= wake

\* xRTOS_Tick_Has_Expired: the difference is not negative as a signed number.
HasExpired(count, wake) == 2 * ((count + TickMod - wake) % TickMod) < TickMod

Later(n) == (tick + n) % TickMod

Unlocked == mode \notin {"scan", "recompute"}

-----------------------------------------------------------------------------
(* The calls: by a task while the daemon is off the processor, or by the   *)
(* running callback.                                                       *)

\* Fault: the earliest deadline is looked at only for the first timer.
NextAfterFirst(deadline) == IF active = {} THEN deadline ELSE next_expiry

NextAfterStart(deadline) ==
    IF active = {} \/ HasExpired(next_expiry, deadline) THEN deadline ELSE next_expiry

\* xRTOS_Timer_Start.
Start(t) ==
    /\ Unlocked
    /\ expiry' = [expiry EXCEPT ![t] = Later(Period[t])]
    /\ active' = active \cup {t}
    /\ next_expiry' = IF deferred THEN NextAfterStart(Later(Period[t])) ELSE next_expiry
    /\ UNCHANGED <<tick, signal, mode, scan, now, firing, lag>>

\* xRTOS_Timer_Stop.
Stop(t) ==
    /\ Unlocked
    /\ active' = active \ {t}
    /\ UNCHANGED <<tick, expiry, next_expiry, signal, mode, scan, now, firing, lag>>

-----------------------------------------------------------------------------
(* The tick.                                                               *)

SomeDue(count) == active # {} /\ HasExpired(count, next_expiry)

Asleep == mode = "wait" /\ signal = 0

TickDeferred ==
    /\ deferred /\ Unlocked
    /\ Asleep \/ lag < MaxLag
    /\ tick' = Later(1)
    /\ signal' = IF SomeDue(Later(1)) THEN 1 ELSE signal
    /\ lag' = IF Asleep THEN 0 ELSE lag + 1
    /\ UNCHANGED <<active, expiry, next_expiry, mode, scan, now, firing>>

\* The handler scans a snapshot of the active timers itself.
TickInline ==
    /\ ~deferred /\ mode = "wait"
    /\ tick' = Later(1)
    /\ scan' = active
    /\ now' = Later(1)
    /\ mode' = "scan"
    /\ UNCHANGED <<active, expiry, next_expiry, signal, firing, lag>>

-----------------------------------------------------------------------------
(* xrtos_timer_daemon_entry.                                               *)

TakeSignal ==
    /\ mode = "wait" /\ signal = 1
    /\ signal' = 0
    /\ mode' = "awake"
    /\ UNCHANGED <<tick, active, expiry, next_expiry, scan, now, firing, lag>>

LockAndScan ==
    /\ mode = "awake"
    /\ mode' = "scan"
    /\ scan' = active
    /\ now' = tick
    /\ UNCHANGED <<tick, active, expiry, next_expiry, signal, firing, lag>>

\* Fault: a timer is served one tick late.
DueLate == {t \in scan : HasExpired(now, (expiry[t] + 1) % TickMod)}

DueTimers == {t \in scan : HasExpired(now, expiry[t])}

\* The next due timer of the scan: unlock, and call its callback.
Fire ==
    /\ mode = "scan" /\ DueTimers # {}
    /\ firing' = Min(DueTimers)
    /\ scan' = {t \in scan : t > firing'}
    /\ mode' = "callback"
    /\ UNCHANGED <<tick, active, expiry, next_expiry, signal, now, lag>>

\* Fault: every periodic timer starts a new period, and not the one that fired.
ReturnRearmsAll ==
    /\ mode = "callback"
    /\ expiry' = [t \in Timer |-> IF t \in active \cap Periodic THEN Later(Period[t]) ELSE expiry[t]]
    /\ active' = IF firing \in Periodic THEN active ELSE active \ {firing}
    /\ firing' = NoTimer
    /\ mode' = "scan"
    /\ UNCHANGED <<tick, next_expiry, signal, scan, now, lag>>

\* The callback has returned and the scheduler is locked again.  Only the
\* daemon looks again whether the timer is active.
CallbackReturns ==
    /\ mode = "callback"
    /\ IF firing \in Periodic
         THEN /\ expiry' = IF firing \in active \/ ~deferred
                             THEN [expiry EXCEPT ![firing] = Later(Period[firing])]
                             ELSE expiry
              /\ UNCHANGED active
         ELSE active' = active \ {firing} /\ UNCHANGED expiry
    /\ firing' = NoTimer
    /\ mode' = "scan"
    /\ UNCHANGED <<tick, next_expiry, signal, scan, now, lag>>

ScanEnds ==
    /\ mode = "scan" /\ DueTimers = {}
    /\ scan' = {} /\ now' = 0
    /\ mode' = IF deferred THEN "recompute" ELSE "wait"
    /\ UNCHANGED <<tick, active, expiry, next_expiry, signal, firing, lag>>

\* The deadline that the loop over the active timers ends with: the one that
\* no other precedes, for all of them lie within half the range.
Earliest == expiry[CHOOSE t \in active : \A u \in active : HasExpired(expiry[u], expiry[t])]

FindNextExpiry ==
    /\ mode = "recompute"
    /\ next_expiry' = IF active = {} THEN next_expiry ELSE Earliest
    /\ mode' = "wait"
    /\ lag' = IF signal = 0 THEN 0 ELSE lag
    /\ UNCHANGED <<tick, active, expiry, signal, scan, now, firing>>

Daemon == TakeSignal \/ LockAndScan \/ Fire \/ CallbackReturns \/ ScanEnds \/ FindNextExpiry

TimersNext ==
    /\ UNCHANGED deferred
    /\ \/ \E t \in Timer : Start(t) \/ Stop(t)
       \/ TickDeferred \/ TickInline
       \/ Daemon

TimersSpec == TimersInit /\ [][TimersNext]_timerVars

\* The tick interrupt keeps coming and the daemon is scheduled when it is ready.
TimersFairSpec == TimersSpec /\ WF_timerVars((TickDeferred \/ TickInline) /\ UNCHANGED deferred)
                 /\ WF_timerVars(Daemon /\ UNCHANGED deferred)

-----------------------------------------------------------------------------
(* Properties.                                                             *)

(***************************************************************************)
(* next_timer_expiry_tick is never later than the deadline of an active    *)
(* timer, through every interleaving of starts, stops, callbacks and       *)
(* ticks: otherwise the tick handler, which looks at nothing else, would   *)
(* let the timer pass (xrtos_timer.c, xRTOS_Timer_Start and the daemon).   *)
(***************************************************************************)
NextExpiryCovers ==
    deferred /\ Unlocked => \A t \in active : HasExpired(expiry[t], next_expiry)

(***************************************************************************)
(* When the daemon sleeps and nothing will wake it before the next tick,   *)
(* no active timer is past its deadline - not even one whose deadline came *)
(* while a callback ran.                                                   *)
(***************************************************************************)
NoneOverdue ==
    Asleep => \A t \in active : ~HasExpired(tick, expiry[t])

(***************************************************************************)
(* A callback is never called before the deadline of its timer, also when  *)
(* the tick counter wraps around.                                          *)
(***************************************************************************)
NeverEarly ==
    [][mode' = "callback" /\ mode # "callback" => HasExpired(tick, expiry[firing'])]_timerVars

(***************************************************************************)
(* A timer that is left alone and stays active fires again and again: no   *)
(* other timer, callback or late daemon starves it.                        *)
(***************************************************************************)
LeftAloneFires ==
    \A t \in Timer :
        <>[](t \in active) /\ <>[][~Start(t)]_timerVars => []<>(firing = t)

(***************************************************************************)
(* xrtos_timer.h, Timer_Stop: "The callback will not fire until Start is   *)
(* called again."                                                          *)
(***************************************************************************)
StoppedNeverFires ==
    [][mode' = "callback" /\ mode # "callback" => firing' \in active]_timerVars
=============================================================================
