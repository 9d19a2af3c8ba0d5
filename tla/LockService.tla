---------------------------- MODULE LockService -----------------------------
(***************************************************************************)
(* What the mutex API promises its callers, without priorities, lists or   *)
(* interrupts: a mutex has at most one holder; a task asks for one mutex   *)
(* at a time; a mutex somebody waits for is passed on, never freed; a wait *)
(* ends with the mutex or by giving up.                                    *)
(***************************************************************************)
CONSTANTS Task, Mutex, None

VARIABLES
    holder,   \* the task that holds each mutex, or None
    waiting   \* the mutex each task waits for, or None

vars == <<holder, waiting>>

Wanted(m) == \E t \in Task : waiting[t] = m

Init ==
    /\ holder = [m \in Mutex |-> None]
    /\ waiting = [t \in Task |-> None]

Acquire(t, m) ==
    /\ holder[m] = None /\ waiting[t] = None /\ ~Wanted(m)
    /\ holder' = [holder EXCEPT ![m] = t]
    /\ UNCHANGED waiting

Ask(t, m) ==
    /\ holder[m] \notin {None, t} /\ waiting[t] = None
    /\ waiting' = [waiting EXCEPT ![t] = m]
    /\ UNCHANGED holder

Release(t, m) ==
    /\ holder[m] = t /\ waiting[t] = None /\ ~Wanted(m)
    /\ holder' = [holder EXCEPT ![m] = None]
    /\ UNCHANGED waiting

PassOn(t, m, w) ==
    /\ holder[m] = t /\ waiting[t] = None /\ waiting[w] = m
    /\ holder' = [holder EXCEPT ![m] = w]
    /\ waiting' = [waiting EXCEPT ![w] = None]

GiveUp(t) ==
    /\ waiting[t] # None
    /\ waiting' = [waiting EXCEPT ![t] = None]
    /\ UNCHANGED holder

Next ==
    \E t \in Task :
        \/ GiveUp(t)
        \/ \E m \in Mutex :
              \/ Acquire(t, m) \/ Ask(t, m) \/ Release(t, m)
              \/ \E w \in Task : PassOn(t, m, w)

Spec == Init /\ [][Next]_vars
=============================================================================
