----------------------------- MODULE XrtosMutex -----------------------------
(***************************************************************************)
(* xRTOS mutexes with priority inheritance (xrtos_mutex.c).                *)
(*                                                                         *)
(* The recursion of mutex_recompute_task_priority along a chain of blocked *)
(* owners is one step per activation: "walk" is the task it is called for. *)
(* Interrupts stay masked over the whole walk, so every other action waits *)
(* for it (Masked).                                                        *)
(***************************************************************************)
EXTENDS XrtosSched

CONSTANT Mutex

ASSUME MutexAssumption == None \notin Mutex /\ IsFiniteSet(Mutex)

VARIABLES
    owner,       \* mutex_ctx->owner_task_id
    held,        \* the mutexes on task_ctx->held_mutex_head's list
    waiters,     \* mutex_ctx->wait_head's list, in order
    waiting_on,  \* task_ctx->mutex_waiting_on
    call,        \* the mutex of the Lock call in whose blocking path a task is
    walk,        \* the task whose priority is being recomputed, or None
    repri        \* Task_Set_Priority is between its walk and its last test

mutexVars == <<owner, held, waiters, waiting_on, call, walk, repri>>
vars == <<schedVars, mutexVars>>

TypeOK ==
    /\ SchedTypeOK
    /\ owner \in [Mutex -> Task \cup {None}]
    /\ held \in [Task -> SUBSET Mutex]
    /\ waiters \in [Mutex -> Seq(Task)]
    /\ waiting_on \in [Task -> Mutex \cup {None}]
    /\ call \in [Task -> Mutex \cup {None}]
    /\ walk \in Task \cup {None}
    /\ repri \in BOOLEAN

Init ==
    /\ SchedInit
    /\ owner = [m \in Mutex |-> None]
    /\ held = [t \in Task |-> {}]
    /\ waiters = [m \in Mutex |-> <<>>]
    /\ waiting_on = [t \in Task |-> None]
    /\ call = [t \in Task |-> None]
    /\ walk = None
    /\ repri = FALSE

Masked == walk # None \/ repri

\* t runs its own code, between two API calls.
Calls(t) == ~isr /\ ~Masked /\ current = t /\ t # Idle /\ pc[t] = "run" /\ call[t] = None

-----------------------------------------------------------------------------
(* Waiter lists and inherited priority.                                    *)

\* Faults of the insertion: ahead of equals, and always at the tail.
InsertAheadOfEquals(list, t, e) ==
    LET later == {i \in 1 .. Len(list) : e[list[i]] >= e[t]}
        at    == IF later = {} THEN Len(list) + 1
                 ELSE CHOOSE i \in later : \A j \in later : i <= j
    IN  InsertAt(list, at, t)

InsertAtTail(list, t, e) == Append(list, t)

(***************************************************************************)
(* mutex_waiter_insert: after every waiter that is at least as urgent.     *)
(* The list walk stops at the first strictly less urgent one.              *)
(***************************************************************************)
InsertWaiter(list, t, e) ==
    LET later == {i \in 1 .. Len(list) : e[list[i]] > e[t]}
        at    == IF later = {} THEN Len(list) + 1
                 ELSE CHOOSE i \in later : \A j \in later : i <= j
    IN  InsertAt(list, at, t)

\* Fault: the waiter stays linked.
KeepWaiter(list, t) == list

\* mutex_waiter_remove.
RemoveWaiter(list, t) == RemoveFirst(list, t)

\* mutex_waiter_select.
SelectWaiter(list) == Head(list)

\* mutex_highest_waiter_priority of the mutexes in ms that have waiters.
HeadPriorities(ms, w, e) == {e[Head(w[m])] : m \in {n \in ms : w[n] # <<>>}}

\* mutex_recompute_task_priority: the base priority, or a first waiter's.
IsInherited(p, b, ms, w, e) ==
    LET candidates == {b} \cup HeadPriorities(ms, w, e)
    IN  p \in candidates /\ \A q \in candidates : p <= q

Inherited(b, ms, w, e) == CHOOSE p \in Prio : IsInherited(p, b, ms, w, e)

(***************************************************************************)
(* xrtos_mutex_waiter_priority_changed: a waiting task whose priority      *)
(* changes from eff to e is moved in its mutex's list ...                  *)
(***************************************************************************)
Moves(u, e) == e[u] # eff[u] /\ waiting_on[u] # None

Moved(u, e) ==
    IF Moves(u, e)
      THEN [waiters EXCEPT ![waiting_on[u]] = InsertWaiter(RemoveWaiter(@, u), u, e)]
      ELSE waiters

\* Faults of the walk: it never goes on; it goes on although nothing changed.
StopHere(u, e) == None
AlwaysOnward(u, e) == IF waiting_on[u] # None THEN owner[waiting_on[u]] ELSE None

\* ... and the owner of that mutex is recomputed next.
Onward(u, e) == IF Moves(u, e) THEN owner[waiting_on[u]] ELSE None

(***************************************************************************)
(* One activation of mutex_recompute_task_priority for the task in walk,   *)
(* with xRTOS_Scheduler_Set_Effective_Priority: a queued task goes to the  *)
(* tail of its list even when its priority stays the same.                 *)
(***************************************************************************)
Recompute ==
    /\ walk # None
    /\ LET u == walk
           p == Inherited(base[u], held[u], waiters, eff)
           e == [eff EXCEPT ![u] = p]
       IN /\ eff' = e
          /\ ready' = Requeue(ready, u, eff[u], p)
          /\ waiters' = Moved(u, e)
          /\ walk' = Onward(u, e)
    /\ UNCHANGED <<state, base, current, pending, timed, block_status, pc, isr,
                   expiring, owner, held, waiting_on, call, repri>>

-----------------------------------------------------------------------------
(* xRTOS_Mutex_Lock.  A call on a mutex the caller holds, and one with     *)
(* NO_WAIT on a mutex somebody else holds, return without a change.        *)

\* Fault: the owner test is missing.
LockAnyway(t, m) ==
    /\ Calls(t)
    /\ owner' = [owner EXCEPT ![m] = t]
    /\ held' = [held EXCEPT ![t] = @ \cup {m}]
    /\ UNCHANGED <<schedVars, waiters, waiting_on, call, walk, repri>>

LockFree(t, m) ==
    /\ Calls(t)
    /\ owner[m] = None
    /\ owner' = [owner EXCEPT ![m] = t]
    /\ held' = [held EXCEPT ![t] = @ \cup {m}]
    /\ UNCHANGED <<schedVars, waiters, waiting_on, call, walk, repri>>

LockBlock(t, m, finite) ==
    /\ Calls(t)
    /\ owner[m] \notin {None, t}
    /\ waiters' = [waiters EXCEPT ![m] = InsertWaiter(@, t, eff)]
    /\ waiting_on' = [waiting_on EXCEPT ![t] = m]
    /\ walk' = owner[m]
    /\ call' = [call EXCEPT ![t] = m]
    /\ BlockCurrent(t, finite)
    /\ UNCHANGED <<base, eff, isr, expiring, owner, held, repri>>

\* The blocked call resumes after its yield and returns block_status.
LockReturn(t) ==
    /\ ~isr /\ ~Masked /\ current = t /\ pc[t] = "run" /\ call[t] # None
    /\ call' = [call EXCEPT ![t] = None]
    /\ UNCHANGED <<schedVars, owner, held, waiters, waiting_on, walk, repri>>

-----------------------------------------------------------------------------
(* xRTOS_Mutex_Unlock by the owner; other callers are refused.  The        *)
(* priority of the woken waiter, then that of the caller, is recomputed.   *)

UnlockFree(t, m) ==
    LET mine == held[t] \ {m}
    IN  /\ Calls(t)
        /\ owner[m] = t /\ waiters[m] = <<>>
        /\ owner' = [owner EXCEPT ![m] = None]
        /\ held' = [held EXCEPT ![t] = mine]
        /\ eff' = [eff EXCEPT ![t] = Inherited(base[t], mine, waiters, eff)]
        /\ YieldIf(t, pending)
        /\ UNCHANGED <<state, base, ready, current, timed, block_status, isr,
                       expiring, waiters, waiting_on, call, walk, repri>>

UnlockHandoff(t, m) ==
    LET w      == SelectWaiter(waiters[m])
        rest   == [waiters EXCEPT ![m] = RemoveWaiter(@, w)]
        mine   == held[t] \ {m}
        theirs == held[w] \cup {m}
        effW   == Inherited(base[w], theirs, rest, eff)
        e      == [eff EXCEPT ![w] = effW]
    IN  /\ Calls(t)
        /\ owner[m] = t /\ waiters[m] # <<>>
        /\ owner' = [owner EXCEPT ![m] = w]
        /\ held' = [held EXCEPT ![t] = mine, ![w] = theirs]
        /\ waiters' = rest
        /\ waiting_on' = [waiting_on EXCEPT ![w] = None]
        /\ state' = [state EXCEPT ![w] = "READY"]
        /\ ready' = Requeue(ReadyAdd(ready, w, eff[w]), w, eff[w], effW)
        /\ timed' = timed \ {w}
        /\ block_status' = [block_status EXCEPT ![w] = "OK"]
        /\ eff' = [e EXCEPT ![t] = Inherited(base[t], mine, rest, e)]
        /\ YieldIf(t, pending \/ Outranks(w))
        /\ UNCHANGED <<base, current, isr, expiring, call, walk, repri>>

-----------------------------------------------------------------------------
(* xRTOS_Task_Set_Priority of u to p.                                      *)

SetPriority(t, u, p) ==
    LET boosted == eff[u] < base[u]
        q       == IF boosted /\ eff[u] < p THEN eff[u] ELSE p
        e       == [eff EXCEPT ![u] = q]
    IN  /\ Calls(t)
        /\ p # base[u] /\ p # MaxPrio
        /\ base' = [base EXCEPT ![u] = p]
        /\ eff' = e
        /\ ready' = IF q # eff[u] /\ state[u] = "READY"
                      THEN Requeue(ready, u, eff[u], q) ELSE ready
        /\ waiters' = Moved(u, e)
        /\ walk' = Onward(u, e)
        /\ repri' = TRUE
        /\ UNCHANGED <<state, current, pending, timed, block_status, pc, isr,
                       expiring, owner, held, waiting_on, call>>

\* Its last part: select, compare with the running task, maybe yield.
SetPriorityEnd ==
    LET better == eff[SelectNext(ready)] < eff[current]
    IN  /\ repri /\ walk = None
        /\ repri' = FALSE
        /\ YieldIf(current, pending \/ better)
        /\ UNCHANGED <<state, base, eff, ready, current, timed, block_status, isr,
                       expiring, owner, held, waiters, waiting_on, call, walk>>

-----------------------------------------------------------------------------
(* A wait that times out: mutex_cleanup_waiter, its walk, then the wake-up. *)

ExpireCleanup(t) ==
    LET m == waiting_on[t]
    IN  /\ ~Masked /\ Expired(t) /\ m # None
        /\ waiters' = [waiters EXCEPT ![m] = RemoveWaiter(@, t)]
        /\ waiting_on' = [waiting_on EXCEPT ![t] = None]
        /\ walk' = owner[m]
        /\ UNCHANGED <<schedVars, owner, held, call, repri>>

ExpireWake(t) ==
    /\ ~Masked /\ Expired(t) /\ waiting_on[t] = None
    /\ WakeExpired(t)
    /\ UNCHANGED mutexVars

-----------------------------------------------------------------------------

Lock(t) == \E m \in Mutex : LockFree(t, m) \/ \E finite \in BOOLEAN : LockBlock(t, m, finite)
Unlock(t) == \E m \in Mutex : UnlockFree(t, m) \/ UnlockHandoff(t, m)

TaskStep(t) ==
    \/ Lock(t)
    \/ LockReturn(t)
    \/ Unlock(t)
    \/ Calls(t) /\ TaskYield(t) /\ UNCHANGED mutexVars
    \/ Calls(t) /\ TaskDelay(t) /\ UNCHANGED mutexVars
    \/ ~Masked /\ Yield(t) /\ UNCHANGED mutexVars

Handler ==
    \/ ~Masked /\ TickEnter /\ UNCHANGED mutexVars
    \/ \E t \in Task : ExpireCleanup(t) \/ ExpireWake(t)
    \/ ~Masked /\ IsrExit /\ UNCHANGED mutexVars

\* Programs that leave the base priorities alone.
Next == (\E t \in Task : TaskStep(t)) \/ Handler \/ Recompute

\* Programs that also change them.
Repri ==
    \/ \E t \in Task : \E u \in Task \ {Idle} : \E p \in Prio : SetPriority(t, u, p)
    \/ SetPriorityEnd

Spec      == Init /\ [][Next]_vars
SpecRepri == Init /\ [][Next \/ Repri]_vars
SpecWalk  == Spec /\ WF_vars(Recompute)

-----------------------------------------------------------------------------
(* Properties.                                                             *)

(***************************************************************************)
(* The four places that record who holds and who waits agree: an owner     *)
(* lists the mutexes it owns and nobody else does; a waiter is queued      *)
(* once, on the one mutex it points at, is blocked, and does not own it.   *)
(***************************************************************************)
LockStructure ==
    /\ \A t \in Task : \A m \in Mutex : m \in held[t] <=> owner[m] = t
    /\ \A m \in Mutex :
          /\ IsInjective(waiters[m])
          /\ \A t \in ToSet(waiters[m]) : waiting_on[t] = m /\ owner[m] # t
    /\ \A t \in Task : waiting_on[t] # None =>
          state[t] = "BLOCKED" /\ t \in ToSet(waiters[waiting_on[t]])

(***************************************************************************)
(* A mutex is never free while tasks wait for it: unlock hands it over     *)
(* and a time-out only takes a waiter away (xrtos_mutex.c:469-484).        *)
(***************************************************************************)
NoFreeMutexWithWaiters == \A m \in Mutex : waiters[m] # <<>> => owner[m] # None

(***************************************************************************)
(* What Lock returns is the truth: a call that resumes with OK owns the    *)
(* mutex, one that resumes with TIMEOUT neither owns it nor is queued for  *)
(* it - whatever the order of hand-off and time-out.                       *)
(***************************************************************************)
LockResultTruthful ==
    \A t \in Task : (call[t] # None /\ state[t] # "BLOCKED") =>
        /\ block_status[t] = "OK" <=> owner[call[t]] = t
        /\ waiting_on[t] = None

(***************************************************************************)
(* A waiter list is sorted by effective priority at all times, also in the *)
(* middle of a walk along a chain of owners.                               *)
(***************************************************************************)
WaitersSorted ==
    \A m \in Mutex : \A i, j \in 1 .. Len(waiters[m]) :
        i < j => eff[waiters[m][i]] <= eff[waiters[m][j]]

(***************************************************************************)
(* Priority inheritance is exact: every task but the one the walk has      *)
(* still to visit runs at its base priority or at that of the most urgent  *)
(* first waiter of a mutex it holds - boosted through chains, and dropped  *)
(* again after unlock or time-out (mutex.h: "the owner is temporarily      *)
(* elevated to the highest-priority blocked contender across all mutexes   *)
(* it owns").                                                              *)
(***************************************************************************)
PriorityInherited ==
    ~repri => \A t \in Task \ {walk} :
                  IsInherited(eff[t], base[t], held[t], waiters, eff)

(***************************************************************************)
(* Waiters of equal priority are served in the order they came to that     *)
(* priority: a task that joins the list, or whose priority changes, goes   *)
(* behind the equals already there (mutex_waiter_insert).                  *)
(***************************************************************************)
FifoAmongEquals ==
    [][\A m \in Mutex : \A i, j \in 1 .. Len(waiters'[m]) :
          LET u == waiters'[m][i]
              v == waiters'[m][j]
          IN  (i < j /\ eff'[u] = eff'[v] /\ waiting_on[v] = m /\ eff[v] = eff'[v]) =>
                 \E k, l \in 1 .. Len(waiters[m]) :
                    k < l /\ waiters[m][k] = u /\ waiters[m][l] = v]_vars

(***************************************************************************)
(* A hand-off to a waiter that outranks the caller, now that the caller    *)
(* has lost the boost, requests a switch (tests/fake/test_xrtos_mutex.c:   *)
(* "task_b (prio 5) woken while current is task_a (prio 10) -> 5 < 10 ->   *)
(* pending").                                                              *)
(***************************************************************************)
HandoffRequestsSwitch ==
    [][\A m \in Mutex :
          (owner[m] = current /\ owner'[m] \notin {current, None}
             /\ eff'[owner'[m]] < eff'[current]) => pending']_vars

(***************************************************************************)
(* The walk along owners ends, also when tasks wait for each other in a    *)
(* circle: interrupts are masked meanwhile, so nothing else would run.     *)
(***************************************************************************)
WalkEnds == walk # None ~> walk = None

\* The mutexes as a lock service that knows nothing of priorities.
Service == INSTANCE LockService WITH holder <- owner, waiting <- waiting_on

(***************************************************************************)
(* Every step of the kernel is a step of the lock service or changes       *)
(* nothing it can see: a mutex is granted only when free or passed on by   *)
(* its holder, freed only when nobody waits, and a wait ends only with the *)
(* mutex or by giving up.                                                  *)
(***************************************************************************)
ImplementsLockService == Service!Spec
=============================================================================
