----------------------------- MODULE XrtosProofs -----------------------------
(***************************************************************************)
(* Safety of the mutexes for any number of tasks, priorities and mutexes,  *)
(* and of the software timers for any number of timers and periods.        *)
(* One inductive invariant, IInv, gives types, agreement of owners,        *)
(* waiters and held lists, and truth of what a Lock call returns.  On top  *)
(* of it: the waiter lists stay sorted, equals keep their order, priority  *)
(* inheritance is exact, and the kernel implements the lock service.       *)
(***************************************************************************)
EXTENDS XrtosMutex, XrtosSchedProofs, XrtosTimer

(***************************************************************************)
(* A waiter is inside the Lock call for the mutex it is queued on, and a   *)
(* call whose task is blocked has not got its mutex yet.                   *)
(***************************************************************************)
CallsMatch ==
    \A t \in Task :
        /\ waiting_on[t] # None => call[t] = waiting_on[t]
        /\ call[t] # None /\ state[t] = "BLOCKED" => owner[call[t]] # t

LockInv == LockStructure /\ NoFreeMutexWithWaiters /\ CallsMatch /\ LockResultTruthful

IInv == TypeOK /\ SchedInv /\ LockInv

-----------------------------------------------------------------------------
(* The operators.                                                          *)

(***************************************************************************)
(* mutex_waiter_insert puts the task at one place of the list.             *)
(***************************************************************************)
LEMMA InsertWaiterPlace ==
    ASSUME NEW s \in Seq(Task), NEW t \in Task, NEW e \in [Task -> Prio]
    PROVE  \E k \in 1 .. Len(s) + 1 :
              /\ InsertWaiter(s, t, e) = InsertAt(s, k, t)
              /\ \A i \in 1 .. Len(s) : i < k => ~ (e[s[i]] > e[t])
              /\ k <= Len(s) => e[s[k]] > e[t]
<1>1. PICK later : later = {i \in 1 .. Len(s) : e[s[i]] > e[t]}
  OBVIOUS
<1>2. CASE later = {}
  <2>1. InsertWaiter(s, t, e) = InsertAt(s, Len(s) + 1, t)
    BY <1>1, <1>2 DEF InsertWaiter
  <2>2. Len(s) + 1 \in 1 .. Len(s) + 1
    OBVIOUS
  <2> QED BY <1>1, <1>2, <2>1, <2>2
<1>3. CASE later # {}
  <2>1. PICK k : k = CHOOSE i \in later : \A j \in later : i <= j
    OBVIOUS
  <2>2. later \in SUBSET Nat
    BY <1>1
  <2>3. k \in later /\ \A j \in later : k <= j
    BY <1>3, <2>1, <2>2, LeastNumber
  <2>4. InsertWaiter(s, t, e) = InsertAt(s, k, t)
    BY <1>1, <1>3, <2>1 DEF InsertWaiter
  <2> QED BY <1>1, <2>3, <2>4
<1> QED BY <1>2, <1>3

(***************************************************************************)
(* ... so exactly that task joins the list.                                *)
(***************************************************************************)
LEMMA InsertWaiterElements ==
    ASSUME NEW s \in Seq(Task), NEW t \in Task, NEW e \in [Task -> Prio],
           IsInjective(s), t \notin ToSet(s)
    PROVE  /\ InsertWaiter(s, t, e) \in Seq(Task)
           /\ IsInjective(InsertWaiter(s, t, e))
           /\ ToSet(InsertWaiter(s, t, e)) = ToSet(s) \cup {t}
BY InsertWaiterPlace, InsertAtElements

(***************************************************************************)
(* The inherited priority exists: there is a most urgent candidate.        *)
(***************************************************************************)
LEMMA InheritedExists ==
    ASSUME BootAssumption, NEW b \in Prio, NEW ms \in SUBSET Mutex,
           NEW w \in [Mutex -> Seq(Task)], NEW e \in [Task -> Prio]
    PROVE  /\ Inherited(b, ms, w, e) \in Prio
           /\ IsInherited(Inherited(b, ms, w, e), b, ms, w, e)
<1>1. PICK I : I = {b} \cup HeadPriorities(ms, w, e)
  OBVIOUS
<1>2. \A m \in ms : w[m] # <<>> => Head(w[m]) \in Task
  BY HeadElement
<1>3. HeadPriorities(ms, w, e) \subseteq Prio
  BY <1>2, SMTT(60) DEF HeadPriorities
<1>4. Prio \subseteq Nat
  BY DEF Prio, BootAssumption
<1>5. \E p \in Prio : IsInherited(p, b, ms, w, e)
  <2>0. b \in I /\ I \subseteq Prio
    BY <1>1, <1>3
  <2>1. I \in SUBSET Nat /\ I # {}
    BY <1>4, <2>0
  <2>2. PICK p \in I : \A q \in I : p <= q
    BY <2>1, LeastNumber
  <2> QED BY <1>1, <2>0, <2>2 DEF IsInherited
<1> QED BY <1>5 DEF Inherited

(***************************************************************************)
(* A task in its own code is running and neither waits nor has a deadline; *)
(* no deadline is being handled.                                           *)
(***************************************************************************)
LEMMA CallerRuns ==
    ASSUME IInv, NEW t \in Task, Calls(t)
    PROVE  /\ current = t /\ state[t] = "RUNNING" /\ call[t] = None
           /\ waiting_on[t] = None /\ walk = None /\ ~isr /\ expiring = {}
           /\ t \notin timed
BY DEF IInv, TypeOK, SchedTypeOK, Calls, Masked, SchedInv, OneRunning, LockInv, LockStructure,
       DeadlinesOnlyForWaiters

-----------------------------------------------------------------------------
(* Steps of the scheduling core that leave the mutexes alone.              *)

(***************************************************************************)
(* The mutex part survives such a step if every task that stops being      *)
(* blocked timed out after its cleanup, and no other call in progress      *)
(* blocks or loses its status.                                             *)
(***************************************************************************)
LEMMA LockInvKept ==
    ASSUME IInv, UNCHANGED mutexVars,
           \A t \in Task :
              \/ (state'[t] = "BLOCKED" <=> state[t] = "BLOCKED")
                 /\ block_status'[t] = block_status[t]
              \/ state[t] # "BLOCKED" /\ call[t] = None
              \/ /\ state[t] = "BLOCKED" /\ waiting_on[t] = None
                 /\ block_status'[t] = "TIMEOUT"
    PROVE  LockInv'
<1>1. /\ LockStructure /\ NoFreeMutexWithWaiters /\ CallsMatch /\ LockResultTruthful
      /\ call \in [Task -> Mutex \cup {None}] /\ waiting_on \in [Task -> Mutex \cup {None}]
  BY DEF IInv, LockInv, TypeOK
<1>2. LockStructure'
  BY <1>1 DEF mutexVars, LockStructure, CallsMatch
<1>3. NoFreeMutexWithWaiters'
  BY <1>1 DEF mutexVars, NoFreeMutexWithWaiters
<1>4. CallsMatch'
  BY <1>1 DEF mutexVars, CallsMatch, LockResultTruthful
<1>5. LockResultTruthful'
  BY <1>1 DEF mutexVars, CallsMatch, LockResultTruthful
<1> QED BY <1>2, <1>3, <1>4, <1>5 DEF LockInv

(***************************************************************************)
(* The priority walk.  Moving a waiter inside its list keeps the elements. *)
(***************************************************************************)
LEMMA MovedElements ==
    ASSUME IInv, NEW u \in Task, NEW e \in [Task -> Prio]
    PROVE  /\ Moved(u, e) \in [Mutex -> Seq(Task)]
           /\ \A m \in Mutex : /\ IsInjective(Moved(u, e)[m])
                              /\ ToSet(Moved(u, e)[m]) = ToSet(waiters[m])
<1>1. /\ waiters \in [Mutex -> Seq(Task)] /\ waiting_on[u] \in Mutex \cup {None}
      /\ \A m \in Mutex : IsInjective(waiters[m])
      /\ waiting_on[u] # None => u \in ToSet(waiters[waiting_on[u]])
  BY DEF IInv, TypeOK, LockInv, LockStructure
<1>2. CASE ~Moves(u, e)
  BY <1>1, <1>2 DEF Moved
<1>3. CASE Moves(u, e)
  <2>1. PICK m \in Mutex : m = waiting_on[u]
    BY <1>1, <1>3 DEF Moves
  <2>2. PICK s : s = RemoveWaiter(waiters[m], u)
    OBVIOUS
  <2>3. s \in Seq(Task) /\ IsInjective(s) /\ ToSet(s) = ToSet(waiters[m]) \ {u}
    BY <1>1, <2>2, RemoveFirstElements DEF RemoveWaiter
  <2>4. PICK r : r = InsertWaiter(s, u, e)
    OBVIOUS
  <2>5. r \in Seq(Task) /\ IsInjective(r) /\ ToSet(r) = ToSet(s) \cup {u}
    BY <2>3, <2>4, InsertWaiterElements
  <2>6. ToSet(r) = ToSet(waiters[m])
    BY <1>1, <1>3, <2>1, <2>3, <2>5 DEF Moves
  <2>7. Moved(u, e) = [waiters EXCEPT ![m] = r]
    BY <1>3, <2>1, <2>2, <2>4 DEF Moved
  <2> QED BY <1>1, <2>5, <2>6, <2>7
<1> QED BY <1>2, <1>3

(***************************************************************************)
(* One activation of mutex_recompute_task_priority keeps the invariant:    *)
(* the lists follow the new priority.                                      *)
(***************************************************************************)
LEMMA RecomputeStep ==
    ASSUME BootAssumption, MutexAssumption, IInv, Recompute
    PROVE  IInv'
<1>0. TypeOK /\ SchedInv /\ LockInv
  BY DEF IInv
<1>1. PICK u \in Task : u = walk
  BY <1>0 DEF Recompute, TypeOK
<1>2. PICK p : p = Inherited(base[u], held[u], waiters, eff)
  OBVIOUS
<1>3. p \in Prio
  BY <1>0, <1>2, InheritedExists, ZenonT(60) DEF TypeOK, SchedTypeOK
<1>4. PICK e : e = [eff EXCEPT ![u] = p]
  OBVIOUS
<1>5. /\ eff' = e /\ ready' = Requeue(ready, u, eff[u], p)
      /\ waiters' = Moved(u, e) /\ walk' = Onward(u, e)
      /\ UNCHANGED <<state, base, current, pending, timed, block_status, pc, isr,
                     expiring, owner, held, waiting_on, call, repri>>
  BY <1>1, <1>2, <1>4 DEF Recompute
<1>6. e \in [Task -> Prio]
  BY <1>0, <1>3, <1>4 DEF TypeOK, SchedTypeOK
<1>7. ready' \in ReadyLists /\ Agree(ready', state, e)
  <2>1. /\ ready \in ReadyLists /\ state \in [Task -> TaskState] /\ eff \in [Task -> Prio]
        /\ Agree(ready, state, eff)
    BY <1>0 DEF TypeOK, SchedTypeOK, SchedInv, ReadyListsAgree, Agree, ReadyLists
  <2> QED BY <1>3, <1>4, <1>5, <2>1, RequeueAgrees
<1>8. /\ waiters' \in [Mutex -> Seq(Task)]
      /\ \A m \in Mutex : IsInjective(waiters'[m]) /\ ToSet(waiters'[m]) = ToSet(waiters[m])
  <2>1. /\ Moved(u, e) \in [Mutex -> Seq(Task)]
        /\ \A m \in Mutex : /\ IsInjective(Moved(u, e)[m])
                           /\ ToSet(Moved(u, e)[m]) = ToSet(waiters[m])
    BY <1>6, MovedElements
  <2> QED BY <1>5, <2>1
<1>9. walk' \in Task \cup {None}
  BY <1>0, <1>5 DEF TypeOK, Onward, Moves
<1>10. TypeOK'
  BY <1>0, <1>5, <1>6, <1>7, <1>8, <1>9 DEF TypeOK, SchedTypeOK, ReadyLists
<1>11. SchedInv'
  BY <1>0, <1>5, <1>7 DEF SchedInv, ReadyListsAgree, Agree, OneRunning, DeadlinesOnlyForWaiters
<1>12. LockStructure'
  BY <1>0, <1>5, <1>8 DEF LockInv, LockStructure, TypeOK
<1>13. NoFreeMutexWithWaiters'
  <2>1. \A m \in Mutex : waiters'[m] # <<>> => waiters[m] # <<>>
    BY <1>0, <1>8, HeadElement DEF TypeOK
  <2> QED BY <1>0, <1>5, <2>1 DEF LockInv, NoFreeMutexWithWaiters
<1>14. CallsMatch' /\ LockResultTruthful'
  BY <1>0, <1>5 DEF LockInv, CallsMatch, LockResultTruthful
<1> QED BY <1>0, <1>5, <1>10, <1>11, <1>12, <1>13, <1>14 DEF IInv, LockInv

-----------------------------------------------------------------------------
(* Lock.                                                                   *)

(***************************************************************************)
(* Taking a free mutex keeps the invariant: nobody waits for it.           *)
(***************************************************************************)
LEMMA LockFreeStep ==
    ASSUME BootAssumption, MutexAssumption, IInv,
           NEW t \in Task, NEW m \in Mutex, LockFree(t, m)
    PROVE  IInv'
<1>1. TypeOK /\ SchedInv /\ LockInv
  BY DEF IInv
<1>2. /\ current = t /\ state[t] = "RUNNING" /\ call[t] = None /\ waiting_on[t] = None
      /\ owner[m] = None
      /\ owner' = [owner EXCEPT ![m] = t] /\ held' = [held EXCEPT ![t] = @ \cup {m}]
      /\ UNCHANGED <<schedVars, waiters, waiting_on, call, walk, repri>>
  BY CallerRuns DEF LockFree
<1>3. waiters[m] = <<>>
  BY <1>1, <1>2 DEF LockInv, NoFreeMutexWithWaiters
<1>4. TypeOK'
  <2>1. SchedTypeOK'
    BY <1>1, <1>2 DEF TypeOK, SchedTypeOK, schedVars
  <2>2. owner' \in [Mutex -> Task \cup {None}] /\ held' \in [Task -> SUBSET Mutex]
    BY <1>1, <1>2 DEF TypeOK
  <2> QED BY <1>1, <1>2, <2>1, <2>2 DEF TypeOK
<1>5. SchedInv'
  BY <1>1, <1>2 DEF SchedInv, ReadyListsAgree, OneRunning, DeadlinesOnlyForWaiters, schedVars
<1>6. LockStructure'
  <2>1. \A u \in Task : u \notin ToSet(waiters[m])
    BY <1>3 DEF ToSet
  <2>2. \A n \in Mutex : waiters[n] \in Seq(Task) /\ ToSet(waiters[n]) \subseteq Task
    BY <1>1, HeadElement DEF TypeOK
  <2>3. \A u \in Task : \A n \in Mutex : n \in held'[u] <=> owner'[n] = u
    BY <1>1, <1>2, MutexAssumption, BootAssumption
       DEF TypeOK, LockInv, LockStructure
  <2> QED BY <1>1, <1>2, <2>1, <2>2, <2>3 DEF LockInv, LockStructure, TypeOK, schedVars
<1>7. NoFreeMutexWithWaiters' /\ CallsMatch' /\ LockResultTruthful'
  BY <1>1, <1>2, <1>3, BootAssumption
     DEF TypeOK, LockInv, NoFreeMutexWithWaiters, CallsMatch, LockResultTruthful, schedVars
<1> QED BY <1>1, <1>2, <1>4, <1>5, <1>6, <1>7 DEF IInv, LockInv

(***************************************************************************)
(* Blocking on an owned mutex keeps the invariant: the caller joins one    *)
(* waiter list.                                                            *)
(***************************************************************************)
LEMMA LockBlockStep ==
    ASSUME BootAssumption, MutexAssumption, IInv,
           NEW t \in Task, NEW m \in Mutex, NEW finite \in BOOLEAN, LockBlock(t, m, finite)
    PROVE  IInv'
<1>1. TypeOK /\ SchedInv /\ LockInv
  BY DEF IInv
<1>2. /\ current = t /\ state[t] = "RUNNING" /\ call[t] = None /\ waiting_on[t] = None
      /\ ~isr /\ owner[m] \notin {None, t}
      /\ waiters' = [waiters EXCEPT ![m] = InsertWaiter(@, t, eff)]
      /\ waiting_on' = [waiting_on EXCEPT ![t] = m]
      /\ walk' = owner[m] /\ call' = [call EXCEPT ![t] = m]
      /\ BlockCurrent(t, finite)
      /\ UNCHANGED <<base, eff, isr, expiring, owner, held, repri>>
  BY CallerRuns DEF LockBlock
<1>3. SchedTypeOK' /\ SchedInv'
  BY <1>1, <1>2, BlockCurrentStep DEF TypeOK
<1>4. PICK r : r = InsertWaiter(waiters[m], t, eff)
  OBVIOUS
<1>5. r \in Seq(Task) /\ IsInjective(r) /\ ToSet(r) = ToSet(waiters[m]) \cup {t}
  <2>1. waiters[m] \in Seq(Task) /\ IsInjective(waiters[m]) /\ eff \in [Task -> Prio]
    BY <1>1 DEF TypeOK, SchedTypeOK, LockInv, LockStructure
  <2>2. t \notin ToSet(waiters[m])
    BY <1>1, <1>2, MutexAssumption DEF LockInv, LockStructure
  <2> QED BY <1>4, <2>1, <2>2, InsertWaiterElements
<1>6. waiters' = [waiters EXCEPT ![m] = r]
  BY <1>2, <1>4
<1>7. TypeOK'
  BY <1>1, <1>2, <1>3, <1>5, <1>6 DEF TypeOK
<1>8. state' = [state EXCEPT ![t] = "BLOCKED"] /\ block_status' = [block_status EXCEPT ![t] = "OK"]
      /\ state \in [Task -> TaskState] /\ block_status \in [Task -> Status]
  BY <1>1, <1>2 DEF BlockCurrent, TypeOK, SchedTypeOK
<1>9. LockStructure'
  BY <1>1, <1>2, <1>5, <1>6, <1>8, MutexAssumption DEF LockInv, LockStructure, TypeOK
<1>10. NoFreeMutexWithWaiters'
  BY <1>1, <1>2, <1>6 DEF LockInv, NoFreeMutexWithWaiters, TypeOK
<1>11. CallsMatch' /\ LockResultTruthful'
  BY <1>1, <1>2, <1>8 DEF LockInv, CallsMatch, LockResultTruthful, TypeOK
<1> QED BY <1>1, <1>2, <1>3, <1>7, <1>9, <1>10, <1>11 DEF IInv, LockInv

(***************************************************************************)
(* Returning from a blocked Lock keeps the invariant.                      *)
(***************************************************************************)
LEMMA LockReturnStep ==
    ASSUME BootAssumption, MutexAssumption, IInv, NEW t \in Task, LockReturn(t)
    PROVE  IInv'
<1>1. TypeOK /\ SchedInv /\ LockInv
  BY DEF IInv
<1>2. /\ state[t] = "RUNNING"
      /\ call' = [call EXCEPT ![t] = None]
      /\ UNCHANGED <<schedVars, owner, held, waiters, waiting_on, walk, repri>>
  BY <1>1 DEF LockReturn, SchedInv, OneRunning
<1>3. TypeOK' /\ SchedInv'
  BY <1>1, <1>2 DEF TypeOK, SchedTypeOK, SchedInv, ReadyListsAgree, OneRunning,
                    DeadlinesOnlyForWaiters, schedVars
<1>4. LockStructure' /\ NoFreeMutexWithWaiters'
  BY <1>1, <1>2 DEF LockInv, LockStructure, NoFreeMutexWithWaiters, schedVars
<1>5. CallsMatch' /\ LockResultTruthful'
  BY <1>1, <1>2 DEF LockInv, LockStructure, CallsMatch, LockResultTruthful, TypeOK, schedVars
<1> QED BY <1>1, <1>2, <1>3, <1>4, <1>5 DEF IInv, LockInv

-----------------------------------------------------------------------------
(* Unlock.                                                                 *)

(***************************************************************************)
(* Freeing a mutex nobody waits for keeps the invariant.                   *)
(***************************************************************************)
LEMMA UnlockFreeStep ==
    ASSUME BootAssumption, MutexAssumption, IInv,
           NEW t \in Task, NEW m \in Mutex, UnlockFree(t, m)
    PROVE  IInv'
<1>1. TypeOK /\ SchedInv /\ LockInv
  BY DEF IInv
<1>2. PICK p : p = Inherited(base[t], held[t] \ {m}, waiters, eff)
  OBVIOUS
<1>3. /\ current = t /\ state[t] = "RUNNING" /\ call[t] = None /\ waiting_on[t] = None
      /\ walk = None /\ ~isr /\ expiring = {}
      /\ owner[m] = t /\ waiters[m] = <<>>
      /\ owner' = [owner EXCEPT ![m] = None] /\ held' = [held EXCEPT ![t] = held[t] \ {m}]
      /\ eff' = [eff EXCEPT ![t] = p]
      /\ YieldIf(t, pending)
      /\ UNCHANGED <<state, base, ready, current, timed, block_status, isr,
                     expiring, waiters, waiting_on, call, walk, repri>>
  BY <1>2, CallerRuns DEF UnlockFree
<1>4. p \in Prio
  <2>1. base[t] \in Prio /\ held[t] \ {m} \in SUBSET Mutex
    BY <1>1 DEF TypeOK, SchedTypeOK
  <2>2. waiters \in [Mutex -> Seq(Task)] /\ eff \in [Task -> Prio]
    BY <1>1 DEF TypeOK, SchedTypeOK
  <2> QED BY <1>2, <2>1, <2>2, InheritedExists
<1>5. Agree(ready, state, eff')
  <2>1. /\ ready \in ReadyLists /\ state \in [Task -> TaskState] /\ eff \in [Task -> Prio]
        /\ Agree(ready, state, eff)
    BY <1>1 DEF TypeOK, SchedTypeOK, SchedInv, ReadyListsAgree, Agree, ReadyLists
  <2>2. state = [state EXCEPT ![t] = "RUNNING"]
    BY <1>3, <2>1
  <2>3. Agree(ready, [state EXCEPT ![t] = "RUNNING"], [eff EXCEPT ![t] = p])
    BY <1>3, <1>4, <2>1, UnqueuedAgrees DEF TaskState
  <2> QED BY <1>3, <2>2, <2>3
<1>6. TypeOK'
  <2>1. SchedTypeOK'
    BY <1>1, <1>3, <1>4 DEF TypeOK, SchedTypeOK, YieldIf
  <2>2. owner' \in [Mutex -> Task \cup {None}] /\ held' \in [Task -> SUBSET Mutex]
    BY <1>1, <1>3 DEF TypeOK
  <2> QED BY <1>1, <1>3, <2>1, <2>2 DEF TypeOK
<1>7. SchedInv'
  BY <1>1, <1>3, <1>5 DEF SchedInv, ReadyListsAgree, Agree, OneRunning, DeadlinesOnlyForWaiters,
                          YieldIf, TypeOK, SchedTypeOK
<1>8. LockStructure'
  <2>1. \A u \in Task : \A n \in Mutex : n \in held'[u] <=> owner'[n] = u
    BY <1>1, <1>3, BootAssumption DEF TypeOK, LockInv, LockStructure
  <2>2. \A u \in Task : u \notin ToSet(waiters[m])
    BY <1>3 DEF ToSet
  <2>3. \A n \in Mutex : ToSet(waiters[n]) \subseteq Task
    BY <1>1, HeadElement DEF TypeOK
  <2> QED BY <1>1, <1>3, <2>1, <2>2, <2>3 DEF LockInv, LockStructure, TypeOK
<1>9. NoFreeMutexWithWaiters'
  BY <1>1, <1>3 DEF LockInv, NoFreeMutexWithWaiters, TypeOK
<1>10. CallsMatch' /\ LockResultTruthful'
  BY <1>1, <1>3, BootAssumption DEF LockInv, CallsMatch, LockResultTruthful, TypeOK
<1> QED BY <1>1, <1>3, <1>6, <1>7, <1>8, <1>9, <1>10 DEF IInv, LockInv

(***************************************************************************)
(* Passing the mutex to the first waiter keeps the invariant: the waiter   *)
(* leaves the list, owns the mutex and is queued at its new priority.      *)
(***************************************************************************)
LEMMA UnlockHandoffStep ==
    ASSUME BootAssumption, MutexAssumption, IInv,
           NEW t \in Task, NEW m \in Mutex, UnlockHandoff(t, m)
    PROVE  IInv'
<1>1. TypeOK /\ SchedInv /\ LockInv
  BY DEF IInv
<1>2. PICK w : w = SelectWaiter(waiters[m])
  OBVIOUS
<1>3. PICK rest : rest = [waiters EXCEPT ![m] = RemoveWaiter(@, w)]
  OBVIOUS
<1>4. PICK theirs : theirs = held[w] \cup {m}
  OBVIOUS
<1>5. PICK effW : effW = Inherited(base[w], theirs, rest, eff)
  OBVIOUS
<1>6. PICK e : e = [eff EXCEPT ![w] = effW]
  OBVIOUS
<1>7. PICK effT : effT = Inherited(base[t], held[t] \ {m}, rest, e)
  OBVIOUS
<1>8. /\ current = t /\ state[t] = "RUNNING" /\ call[t] = None /\ waiting_on[t] = None
      /\ walk = None /\ ~isr /\ expiring = {}
      /\ owner[m] = t /\ waiters[m] # <<>>
  BY CallerRuns DEF UnlockHandoff
<1>9. /\ owner' = [owner EXCEPT ![m] = w]
      /\ held' = [held EXCEPT ![t] = held[t] \ {m}, ![w] = theirs]
      /\ waiters' = rest
      /\ waiting_on' = [waiting_on EXCEPT ![w] = None]
      /\ state' = [state EXCEPT ![w] = "READY"]
      /\ ready' = Requeue(ReadyAdd(ready, w, eff[w]), w, eff[w], effW)
      /\ timed' = timed \ {w}
      /\ block_status' = [block_status EXCEPT ![w] = "OK"]
      /\ eff' = [e EXCEPT ![t] = effT]
      /\ YieldIf(t, pending \/ Outranks(w))
      /\ UNCHANGED <<base, current, isr, expiring, call, walk, repri>>
  BY <1>2, <1>3, <1>4, <1>5, <1>6, <1>7 DEF UnlockHandoff
<1>10. /\ waiters[m] \in Seq(Task) /\ IsInjective(waiters[m])
       /\ w \in ToSet(waiters[m]) /\ w \in Task
  <2>1. waiters[m] \in Seq(Task) /\ IsInjective(waiters[m])
    BY <1>1 DEF TypeOK, LockInv, LockStructure
  <2> QED BY <1>2, <1>8, <2>1, HeadElement DEF SelectWaiter
<1>11. /\ waiting_on[w] = m /\ w # t /\ state[w] = "BLOCKED" /\ call[w] = m
  BY <1>1, <1>8, <1>10, MutexAssumption DEF LockInv, LockStructure, CallsMatch
<1>12. PICK q : q = RemoveWaiter(waiters[m], w)
  OBVIOUS
<1>13. q \in Seq(Task) /\ IsInjective(q) /\ ToSet(q) = ToSet(waiters[m]) \ {w}
  BY <1>10, <1>12, RemoveFirstElements DEF RemoveWaiter
<1>14. rest = [waiters EXCEPT ![m] = q] /\ rest \in [Mutex -> Seq(Task)]
  BY <1>1, <1>3, <1>12, <1>13 DEF TypeOK
<1>15. effW \in Prio /\ e \in [Task -> Prio]
  <2>1. base[w] \in Prio /\ theirs \in SUBSET Mutex /\ eff \in [Task -> Prio]
    <3>1. held[w] \in SUBSET Mutex
      BY <1>1, <1>10 DEF TypeOK
    <3>2. theirs \in SUBSET Mutex
      BY <1>4, <3>1
    <3> QED BY <1>1, <1>10, <3>2 DEF TypeOK, SchedTypeOK
  <2>2. effW \in Prio
    BY <1>5, <1>14, <2>1, InheritedExists
  <2> QED BY <1>6, <2>1, <2>2
<1>16. effT \in Prio
  <2>1. base[t] \in Prio /\ held[t] \ {m} \in SUBSET Mutex
    BY <1>1 DEF TypeOK, SchedTypeOK
  <2> QED BY <1>7, <1>14, <1>15, <2>1, InheritedExists
<1>17. ready' \in ReadyLists /\ Agree(ready', state', eff')
  <2>1. /\ ready \in ReadyLists /\ state \in [Task -> TaskState] /\ eff \in [Task -> Prio]
        /\ Agree(ready, state, eff)
    BY <1>1 DEF TypeOK, SchedTypeOK, SchedInv, ReadyListsAgree, Agree, ReadyLists
  <2>2. PICK r1 : r1 = ReadyAdd(ready, w, eff[w])
    OBVIOUS
  <2>3. PICK s1 : s1 = [state EXCEPT ![w] = "READY"]
    OBVIOUS
  <2>4. r1 \in ReadyLists /\ Agree(r1, s1, eff) /\ s1 \in [Task -> TaskState]
    BY <1>10, <1>11, <2>1, <2>2, <2>3, AddAgrees DEF TaskState
  <2>5. PICK r2 : r2 = Requeue(r1, w, eff[w], effW)
    OBVIOUS
  <2>6. r2 \in ReadyLists /\ Agree(r2, s1, e)
    BY <1>6, <1>10, <1>15, <2>1, <2>4, <2>5, RequeueAgrees
  <2>7. s1[t] = "RUNNING" /\ s1 = [s1 EXCEPT ![t] = "RUNNING"]
    <3>1. s1[t] = "RUNNING"
      BY <1>8, <1>11, <2>1, <2>3
    <3> QED BY <2>4, <3>1
  <2>8. Agree(r2, [s1 EXCEPT ![t] = "RUNNING"], [e EXCEPT ![t] = effT])
    BY <1>15, <1>16, <2>4, <2>6, <2>7, UnqueuedAgrees DEF TaskState
  <2>9. state' = s1 /\ ready' = r2 /\ eff' = [e EXCEPT ![t] = effT]
    BY <1>9, <2>2, <2>3, <2>5
  <2> QED BY <2>6, <2>7, <2>8, <2>9
<1>18. TypeOK'
  <2>1. eff' \in [Task -> Prio]
    BY <1>9, <1>15, <1>16
  <2>2. (pending \/ Outranks(w)) \in BOOLEAN
    OBVIOUS
  <2>3. pending' \in BOOLEAN /\ pc' \in [Task -> {"run", "yield"}]
    BY <1>1, <1>9, <2>2 DEF YieldIf, TypeOK, SchedTypeOK
  <2>4. state' \in [Task -> TaskState] /\ timed' \in SUBSET Task
        /\ block_status' \in [Task -> Status]
    BY <1>1, <1>9, <1>10 DEF TypeOK, SchedTypeOK, TaskState, Status
  <2>5. SchedTypeOK'
    BY <1>1, <1>9, <1>17, <2>1, <2>3, <2>4 DEF TypeOK, SchedTypeOK, ReadyLists
  <2>6. owner' \in [Mutex -> Task \cup {None}] /\ waiting_on' \in [Task -> Mutex \cup {None}]
    BY <1>1, <1>9, <1>10 DEF TypeOK
  <2>7. held' \in [Task -> SUBSET Mutex]
    BY <1>1, <1>4, <1>9, <1>10 DEF TypeOK
  <2> QED BY <1>1, <1>9, <1>14, <2>5, <2>6, <2>7 DEF TypeOK
<1>19. SchedInv'
  <2>1. ReadyListsAgree'
    BY <1>17 DEF ReadyListsAgree, Agree
  <2>2. OneRunning' /\ DeadlinesOnlyForWaiters'
    BY <1>1, <1>8, <1>9, <1>10, <1>11, ZenonT(60)
       DEF SchedInv, OneRunning, DeadlinesOnlyForWaiters, YieldIf, TypeOK, SchedTypeOK
  <2> QED BY <2>1, <2>2 DEF SchedInv
<1>20. LockStructure'
  <2>1. \A u \in Task : \A n \in Mutex : n \in held'[u] <=> owner'[n] = u
    BY <1>1, <1>4, <1>8, <1>9, <1>10, <1>11, SMTT(60) DEF TypeOK, LockInv, LockStructure
  <2>2. \A n \in Mutex :
           /\ IsInjective(rest[n])
           /\ \A u \in ToSet(rest[n]) : waiting_on'[u] = n /\ owner'[n] # u
    <3>1. \A n \in Mutex : ToSet(waiters[n]) \subseteq Task
      BY <1>1, HeadElement DEF TypeOK
    <3>2. \A n \in Mutex : n # m => w \notin ToSet(waiters[n])
      BY <1>1, <1>11 DEF LockInv, LockStructure
    <3> QED BY <1>1, <1>9, <1>10, <1>13, <1>14, <3>1, <3>2 DEF TypeOK, LockInv, LockStructure
  <2>3. \A u \in Task : waiting_on'[u] # None =>
           state'[u] = "BLOCKED" /\ u \in ToSet(rest[waiting_on'[u]])
    <3>1. SUFFICES ASSUME NEW u \in Task, waiting_on'[u] # None
                   PROVE  state'[u] = "BLOCKED" /\ u \in ToSet(rest[waiting_on'[u]])
      OBVIOUS
    <3>2. u # w /\ waiting_on'[u] = waiting_on[u]
      BY <1>1, <1>9, <1>10, <3>1 DEF TypeOK
    <3>3. state[u] = "BLOCKED" /\ u \in ToSet(waiters[waiting_on[u]]) /\ waiting_on[u] \in Mutex
      BY <1>1, <3>1, <3>2 DEF TypeOK, LockInv, LockStructure
    <3>4. state'[u] = "BLOCKED"
      BY <1>1, <1>9, <3>2, <3>3 DEF TypeOK, SchedTypeOK
    <3>5. u \in ToSet(rest[waiting_on[u]])
      BY <1>1, <1>13, <1>14, <3>2, <3>3 DEF TypeOK
    <3> QED BY <3>2, <3>4, <3>5
  <2> QED BY <1>9, <2>1, <2>2, <2>3 DEF LockStructure
<1>21. NoFreeMutexWithWaiters'
  BY <1>1, <1>9, <1>10, <1>14, BootAssumption DEF LockInv, NoFreeMutexWithWaiters, TypeOK
<1>22. CallsMatch' /\ LockResultTruthful'
  <2>1. SUFFICES ASSUME NEW u \in Task
                 PROVE  /\ waiting_on'[u] # None => call'[u] = waiting_on'[u]
                        /\ call'[u] # None /\ state'[u] = "BLOCKED" => owner'[call'[u]] # u
                        /\ call'[u] # None /\ state'[u] # "BLOCKED" =>
                              /\ block_status'[u] = "OK" <=> owner'[call'[u]] = u
                              /\ waiting_on'[u] = None
    BY DEF CallsMatch, LockResultTruthful
  <2>2. CASE u = w
    BY <1>1, <1>9, <1>10, <1>11, <2>2 DEF TypeOK, SchedTypeOK
  <2>3. CASE u # w
    <3>1. /\ waiting_on'[u] = waiting_on[u] /\ call'[u] = call[u] /\ state'[u] = state[u]
          /\ block_status'[u] = block_status[u]
      BY <1>1, <1>9, <2>3 DEF TypeOK, SchedTypeOK
    <3>2. u # t => \A n \in Mutex : owner'[n] = u <=> owner[n] = u
      BY <1>1, <1>8, <1>9, <2>3 DEF TypeOK
    <3>3. CASE u # t
      BY <1>1, <3>1, <3>2, <3>3 DEF TypeOK, LockInv, CallsMatch, LockResultTruthful
    <3>4. CASE u = t
      BY <1>1, <1>8, <3>1, <3>4 DEF LockInv, CallsMatch, LockResultTruthful
    <3> QED BY <3>3, <3>4
  <2> QED BY <2>2, <2>3
<1> QED BY <1>1, <1>9, <1>18, <1>19, <1>20, <1>21, <1>22 DEF IInv, LockInv

-----------------------------------------------------------------------------
(* Time-outs and the scheduler's own steps.                                *)

(***************************************************************************)
(* A time-out takes the waiter off the list of the mutex it points at; the *)
(* owner stays.                                                            *)
(***************************************************************************)
LEMMA ExpireCleanupStep ==
    ASSUME BootAssumption, MutexAssumption, IInv, NEW t \in Task, ExpireCleanup(t)
    PROVE  IInv'
<1>1. TypeOK /\ SchedInv /\ LockInv
  BY DEF IInv
<1>2. PICK m \in Mutex : m = waiting_on[t]
  BY <1>1 DEF ExpireCleanup, TypeOK
<1>3. PICK q : q = RemoveWaiter(waiters[m], t)
  OBVIOUS
<1>4. /\ waiters' = [waiters EXCEPT ![m] = q]
      /\ waiting_on' = [waiting_on EXCEPT ![t] = None]
      /\ walk' = owner[m]
      /\ UNCHANGED <<schedVars, owner, held, call, repri>>
  BY <1>2, <1>3 DEF ExpireCleanup
<1>5. state[t] = "BLOCKED" /\ waiting_on[t] = m /\ call[t] = m /\ t \in ToSet(waiters[m])
  BY <1>1, <1>2, MutexAssumption DEF LockInv, LockStructure, CallsMatch
<1>6. q \in Seq(Task) /\ IsInjective(q) /\ ToSet(q) = ToSet(waiters[m]) \ {t}
  <2>1. waiters[m] \in Seq(Task) /\ IsInjective(waiters[m])
    BY <1>1 DEF TypeOK, LockInv, LockStructure
  <2> QED BY <1>3, <2>1, RemoveFirstElements DEF RemoveWaiter
<1>7. TypeOK'
  <2>1. SchedTypeOK'
    BY <1>1, <1>4 DEF TypeOK, SchedTypeOK, schedVars
  <2> QED BY <1>1, <1>4, <1>6, <2>1 DEF TypeOK
<1>8. SchedInv'
  BY <1>1, <1>4 DEF SchedInv, ReadyListsAgree, OneRunning, DeadlinesOnlyForWaiters, schedVars
<1>9. LockStructure'
  <2>1. \A n \in Mutex : ToSet(waiters[n]) \subseteq Task
    BY <1>1, HeadElement DEF TypeOK
  <2>2. \A n \in Mutex : n # m => t \notin ToSet(waiters[n])
    BY <1>1, <1>5 DEF LockInv, LockStructure
  <2> QED BY <1>1, <1>4, <1>5, <1>6, <2>1, <2>2, SMTT(60) DEF TypeOK, LockInv, LockStructure, schedVars
<1>10. NoFreeMutexWithWaiters'
  <2>1. waiters[m] # <<>>
    BY <1>5 DEF ToSet
  <2> QED BY <1>1, <1>4, <2>1 DEF LockInv, NoFreeMutexWithWaiters, TypeOK
<1>11. CallsMatch' /\ LockResultTruthful'
  BY <1>1, <1>4, <1>5 DEF LockInv, CallsMatch, LockResultTruthful, TypeOK, schedVars
<1> QED BY <1>1, <1>4, <1>7, <1>8, <1>9, <1>10, <1>11 DEF IInv, LockInv

(***************************************************************************)
(* The timed-out task is made ready with TIMEOUT; it owns nothing new.     *)
(***************************************************************************)
LEMMA ExpireWakeStep ==
    ASSUME BootAssumption, MutexAssumption, IInv, NEW t \in Task, ExpireWake(t)
    PROVE  IInv'
<1>1. TypeOK /\ SchedInv /\ LockInv
  BY DEF IInv
<1>2. Expired(t) /\ WakeExpired(t) /\ waiting_on[t] = None /\ UNCHANGED mutexVars
  BY DEF ExpireWake
<1>3. /\ SchedTypeOK' /\ SchedInv'
      /\ state[t] = "BLOCKED" /\ state' = [state EXCEPT ![t] = "READY"]
      /\ block_status' = [block_status EXCEPT ![t] = "TIMEOUT"]
  BY <1>1, <1>2, WakeExpiredStep DEF TypeOK
<1>4. LockInv'
  <2>1. state \in [Task -> TaskState] /\ block_status \in [Task -> Status]
    BY <1>1 DEF TypeOK, SchedTypeOK
  <2> QED BY <1>2, <1>3, <2>1, LockInvKept
<1> QED BY <1>1, <1>2, <1>3, <1>4 DEF IInv, TypeOK, mutexVars

(***************************************************************************)
(* Yields, delays, ticks and interrupt exits keep the invariant.           *)
(***************************************************************************)
LEMMA SchedulerStep ==
    ASSUME BootAssumption, MutexAssumption, IInv, UNCHANGED mutexVars,
           \/ \E t \in Task : Calls(t) /\ TaskYield(t)
           \/ \E t \in Task : Calls(t) /\ TaskDelay(t)
           \/ \E t \in Task : Yield(t)
           \/ TickEnter
           \/ IsrExit
    PROVE  IInv'
<1>1. TypeOK /\ SchedInv /\ LockInv /\ SchedTypeOK
  BY DEF IInv, TypeOK
<1>2. state \in [Task -> TaskState] /\ block_status \in [Task -> Status]
  BY <1>1 DEF SchedTypeOK
<1>3. SUFFICES SchedTypeOK' /\ SchedInv' /\ LockInv'
  BY <1>1 DEF IInv, TypeOK, mutexVars
<1>4. ASSUME NEW t \in Task, Calls(t), TaskYield(t)
      PROVE  SchedTypeOK' /\ SchedInv' /\ LockInv'
  <2>1. current = t /\ state[t] = "RUNNING"
    BY <1>4, CallerRuns
  <2>2. LockInv'
    BY <1>4, LockInvKept DEF TaskYield
  <2> QED BY <1>1, <1>4, <2>1, <2>2, TaskYieldStep
<1>5. ASSUME NEW t \in Task, Calls(t), TaskDelay(t)
      PROVE  SchedTypeOK' /\ SchedInv' /\ LockInv'
  <2>1. current = t /\ state[t] = "RUNNING" /\ call[t] = None /\ ~isr
    BY <1>5, CallerRuns
  <2>2. LockInv'
    BY <1>2, <1>5, <2>1, LockInvKept DEF TaskDelay, BlockCurrent
  <2>3. BlockCurrent(t, TRUE) /\ UNCHANGED <<base, eff, isr, expiring>>
    BY <1>5 DEF TaskDelay
  <2> QED BY <1>1, <2>1, <2>2, <2>3, BlockCurrentStep
<1>6. ASSUME NEW t \in Task, Yield(t)
      PROVE  SchedTypeOK' /\ SchedInv' /\ LockInv'
  <2>1. /\ SchedTypeOK' /\ SchedInv'
        /\ \A u \in Task : state'[u] = "BLOCKED" <=> state[u] = "BLOCKED"
    BY <1>1, <1>6, YieldStep
  <2>2. LockInv'
    BY <1>6, <2>1, LockInvKept DEF Yield
  <2> QED BY <2>1, <2>2
<1>7. CASE TickEnter
  <2>1. LockInv'
    BY <1>7, LockInvKept DEF TickEnter
  <2> QED BY <1>1, <1>7, <2>1, TickEnterStep
<1>8. CASE IsrExit
  <2>1. /\ SchedTypeOK' /\ SchedInv'
        /\ \A u \in Task : state'[u] = "BLOCKED" <=> state[u] = "BLOCKED"
    BY <1>1, <1>8, IsrExitStep
  <2>2. LockInv'
    BY <1>8, <2>1, LockInvKept DEF IsrExit
  <2> QED BY <2>1, <2>2
<1> QED BY <1>4, <1>5, <1>6, <1>7, <1>8

-----------------------------------------------------------------------------
(* The theorems.                                                           *)

(***************************************************************************)
(* The invariant holds when the kernel starts.                             *)
(***************************************************************************)
LEMMA InitIInv ==
    ASSUME BootAssumption, MutexAssumption, Init
    PROVE  IInv
<1>0. /\ BootBase \in [Task -> Prio] /\ BootReady \in [Prio -> Seq(Task)] /\ BootFirst \in Task
      /\ \A p \in Prio :
            /\ IsInjective(BootReady[p])
            /\ \A t \in ToSet(BootReady[p]) : BootBase[t] = p /\ t # BootFirst
      /\ \A t \in Task \ {BootFirst} : t \in ToSet(BootReady[BootBase[t]])
  BY BootAssumption
<1>1. TypeOK
  <2>1. SchedTypeOK
    BY <1>0 DEF Init, SchedInit, SchedTypeOK, TaskState, Status
  <2>2. /\ owner \in [Mutex -> Task \cup {None}] /\ held \in [Task -> SUBSET Mutex]
        /\ waiting_on \in [Task -> Mutex \cup {None}] /\ call \in [Task -> Mutex \cup {None}]
        /\ walk \in Task \cup {None} /\ repri \in BOOLEAN
    BY DEF Init
  <2>3. waiters \in [Mutex -> Seq(Task)]
    BY DEF Init
  <2> QED BY <2>1, <2>2, <2>3 DEF TypeOK
<1>2. ReadyListsAgree
  <2>1. /\ ready = BootReady /\ eff = BootBase
        /\ state = [t \in Task |-> IF t = BootFirst THEN "RUNNING" ELSE "READY"]
    BY DEF Init, SchedInit
  <2>2. \A p \in Prio : ToSet(BootReady[p]) \subseteq Task
    BY <1>0, HeadElement
  <2> QED BY <1>0, <2>1, <2>2 DEF ReadyListsAgree
<1>3. OneRunning /\ DeadlinesOnlyForWaiters
  BY BootAssumption DEF Init, SchedInit, OneRunning, DeadlinesOnlyForWaiters
<1>4. LockInv
  BY BootAssumption, MutexAssumption
     DEF Init, LockInv, LockStructure, NoFreeMutexWithWaiters, CallsMatch, LockResultTruthful,
         ToSet, IsInjective
<1> QED BY <1>1, <1>2, <1>3, <1>4 DEF IInv, SchedInv, Init

(***************************************************************************)
(* Every step of the kernel keeps the invariant.                           *)
(***************************************************************************)
LEMMA NextIInv ==
    ASSUME BootAssumption, MutexAssumption, IInv, [Next]_vars
    PROVE  IInv'
<1>1. CASE UNCHANGED vars
  <2>1. TypeOK'
    BY <1>1 DEF IInv, TypeOK, SchedTypeOK, vars, schedVars, mutexVars
  <2>2. SchedInv'
    BY <1>1 DEF IInv, SchedInv, ReadyListsAgree, OneRunning, DeadlinesOnlyForWaiters,
                vars, schedVars
  <2>3. LockInv'
    BY <1>1, LockInvKept DEF vars, schedVars
  <2> QED BY <2>1, <2>2, <2>3 DEF IInv
<1>2. ASSUME NEW t \in Task, TaskStep(t) PROVE IInv'
  <2>1. ASSUME Lock(t) PROVE IInv'
    BY <2>1, LockFreeStep, LockBlockStep DEF Lock
  <2>2. ASSUME Unlock(t) PROVE IInv'
    BY <2>2, UnlockFreeStep, UnlockHandoffStep DEF Unlock
  <2> QED BY <1>2, <2>1, <2>2, LockReturnStep, SchedulerStep DEF TaskStep
<1>3. CASE Handler
  BY <1>3, SchedulerStep, ExpireCleanupStep, ExpireWakeStep DEF Handler
<1> QED BY <1>1, <1>2, <1>3, RecomputeStep DEF Next

(***************************************************************************)
(* IInv is an invariant of the kernel, for all constants.                  *)
(***************************************************************************)
THEOREM Invariance == Spec => []IInv
<1>1. Init => IInv
  BY InitIInv, BootAssumption, MutexAssumption
<1>2. IInv /\ [Next]_vars => IInv'
  BY NextIInv, BootAssumption, MutexAssumption
<1> QED BY <1>1, <1>2, PTL DEF Spec

(***************************************************************************)
(* The variables keep their types.                                         *)
(***************************************************************************)
THEOREM TypeCorrect == Spec => []TypeOK
BY Invariance, PTL DEF IInv

(***************************************************************************)
(* Ready lists, ready_map and task states agree whatever the sequence of   *)
(* calls, time-outs and priority walks (xrtos_scheduler.c).                *)
(***************************************************************************)
THEOREM ReadyListsAlwaysAgree == Spec => []ReadyListsAgree
<1>1. IInv => ReadyListsAgree
  BY DEF IInv, SchedInv
<1> QED BY <1>1, Invariance, PTL

(***************************************************************************)
(* Owners, held lists, waiter lists and the tasks' pointers always agree   *)
(* (xrtos_mutex.c).                                                        *)
(***************************************************************************)
THEOREM StructureCorrect == Spec => [](LockStructure /\ NoFreeMutexWithWaiters)
<1>1. IInv => LockStructure /\ NoFreeMutexWithWaiters
  BY DEF IInv, LockInv
<1> QED BY <1>1, Invariance, PTL

(***************************************************************************)
(* xRTOS_Mutex_Lock returns OK exactly when the caller owns the mutex, for *)
(* every order of hand-off and time-out.                                   *)
(***************************************************************************)
THEOREM ResultCorrect == Spec => []LockResultTruthful
<1>1. IInv => LockResultTruthful
  BY DEF IInv, LockInv
<1> QED BY <1>1, Invariance, PTL

-----------------------------------------------------------------------------
(* Programs that change priorities.                                        *)

(***************************************************************************)
(* Task_Set_Priority changes a base priority and moves the task in its     *)
(* lists as a walk does.                                                   *)
(***************************************************************************)
LEMMA SetPriorityStep ==
    ASSUME BootAssumption, MutexAssumption, IInv,
           NEW t \in Task, NEW u \in Task, NEW p \in Prio, SetPriority(t, u, p)
    PROVE  IInv'
<1>0. TypeOK /\ SchedInv /\ LockInv
  BY DEF IInv
<1>1. PICK q : q = IF eff[u] < base[u] /\ eff[u] < p THEN eff[u] ELSE p
  OBVIOUS
<1>2. PICK e : e = [eff EXCEPT ![u] = q]
  OBVIOUS
<1>3. /\ base' = [base EXCEPT ![u] = p] /\ eff' = e
      /\ ready' = IF q # eff[u] /\ state[u] = "READY"
                    THEN Requeue(ready, u, eff[u], q) ELSE ready
      /\ waiters' = Moved(u, e) /\ walk' = Onward(u, e) /\ repri' = TRUE
      /\ UNCHANGED <<state, current, pending, timed, block_status, pc, isr,
                     expiring, owner, held, waiting_on, call>>
  BY <1>1, <1>2 DEF SetPriority
<1>4. q \in Prio /\ e \in [Task -> Prio]
  BY <1>0, <1>1, <1>2 DEF TypeOK, SchedTypeOK
<1>5. ready' \in ReadyLists /\ Agree(ready', state, e)
  <2>1. /\ ready \in ReadyLists /\ state \in [Task -> TaskState] /\ eff \in [Task -> Prio]
        /\ Agree(ready, state, eff)
    BY <1>0 DEF TypeOK, SchedTypeOK, SchedInv, ReadyListsAgree, Agree, ReadyLists
  <2>2. CASE state[u] # "READY"
    <3>1. state[u] \in TaskState /\ state = [state EXCEPT ![u] = state[u]]
      BY <2>1
    <3>2. Agree(ready, [state EXCEPT ![u] = state[u]], [eff EXCEPT ![u] = q])
      BY <1>4, <2>1, <2>2, <3>1, UnqueuedAgrees
    <3> QED BY <1>2, <1>3, <2>1, <2>2, <3>1, <3>2
  <2>3. CASE state[u] = "READY" /\ q = eff[u]
    <3>1. e = eff /\ ready' = ready
      BY <1>2, <1>3, <2>1, <2>3
    <3> QED BY <2>1, <3>1
  <2>4. CASE state[u] = "READY" /\ q # eff[u]
    BY <1>2, <1>3, <1>4, <2>1, <2>4, RequeueAgrees
  <2> QED BY <2>2, <2>3, <2>4
<1>6. /\ waiters' \in [Mutex -> Seq(Task)]
      /\ \A m \in Mutex : IsInjective(waiters'[m]) /\ ToSet(waiters'[m]) = ToSet(waiters[m])
  <2>1. /\ Moved(u, e) \in [Mutex -> Seq(Task)]
        /\ \A m \in Mutex : /\ IsInjective(Moved(u, e)[m])
                           /\ ToSet(Moved(u, e)[m]) = ToSet(waiters[m])
    BY <1>4, MovedElements
  <2> QED BY <1>3, <2>1
<1>7. TypeOK'
  <2>1. base' \in [Task -> Prio] /\ walk' \in Task \cup {None} /\ repri' \in BOOLEAN
    <3>1. base' \in [Task -> Prio]
      BY <1>0, <1>3 DEF TypeOK, SchedTypeOK
    <3>2. walk' \in Task \cup {None}
      <4>1. /\ owner \in [Mutex -> Task \cup {None}]
            /\ waiting_on \in [Task -> Mutex \cup {None}]
        BY <1>0 DEF TypeOK
      <4>2. walk' = IF Moves(u, e) THEN owner[waiting_on[u]] ELSE None
        BY <1>3 DEF Onward
      <4>3. Moves(u, e) => waiting_on[u] # None
        BY DEF Moves
      <4> QED BY <4>1, <4>2, <4>3
    <3>3. repri' \in BOOLEAN
      BY <1>3
    <3> QED BY <3>1, <3>2, <3>3
  <2> QED BY <1>0, <1>3, <1>4, <1>5, <1>6, <2>1 DEF TypeOK, SchedTypeOK, ReadyLists
<1>8. SchedInv'
  BY <1>0, <1>3, <1>5 DEF SchedInv, ReadyListsAgree, Agree, OneRunning, DeadlinesOnlyForWaiters
<1>9. LockStructure'
  BY <1>0, <1>3, <1>6 DEF LockInv, LockStructure, TypeOK
<1>10. NoFreeMutexWithWaiters'
  <2>1. \A m \in Mutex : waiters'[m] # <<>> => waiters[m] # <<>>
    BY <1>0, <1>6, HeadElement DEF TypeOK
  <2> QED BY <1>0, <1>3, <2>1 DEF LockInv, NoFreeMutexWithWaiters
<1>11. CallsMatch' /\ LockResultTruthful'
  BY <1>0, <1>3 DEF LockInv, CallsMatch, LockResultTruthful
<1> QED BY <1>7, <1>8, <1>9, <1>10, <1>11 DEF IInv, LockInv

(***************************************************************************)
(* Its last part only asks for a reschedule.                               *)
(***************************************************************************)
LEMMA SetPriorityEndStep ==
    ASSUME IInv, SetPriorityEnd
    PROVE  IInv'
<1>1. PICK pend \in BOOLEAN : /\ pending => pend
                              /\ YieldIf(current, pend)
  <2>1. YieldIf(current, pending \/ (eff[SelectNext(ready)] < eff[current]))
    BY DEF SetPriorityEnd
  <2> QED BY <2>1
<1>2. /\ repri' = FALSE
      /\ UNCHANGED <<state, base, eff, ready, current, timed, block_status, isr,
                     expiring, owner, held, waiters, waiting_on, call, walk>>
  BY DEF SetPriorityEnd
<1>3. TypeOK' /\ SchedInv'
  BY <1>1, <1>2, ZenonT(60) DEF IInv, TypeOK, SchedTypeOK, SchedInv, ReadyListsAgree, OneRunning,
                    DeadlinesOnlyForWaiters, YieldIf
<1>4. LockInv'
  BY <1>2 DEF IInv, LockInv, LockStructure, NoFreeMutexWithWaiters, CallsMatch, LockResultTruthful
<1> QED BY <1>3, <1>4 DEF IInv

(***************************************************************************)
(* Every step of a program that changes priorities keeps the invariant.    *)
(***************************************************************************)
LEMMA RepriIInv ==
    ASSUME BootAssumption, MutexAssumption, IInv, [Next \/ Repri]_vars
    PROVE  IInv'
BY NextIInv, SetPriorityStep, SetPriorityEndStep DEF Repri

(***************************************************************************)
(* IInv is an invariant of the kernel, for all constants, whatever         *)
(* priorities the programs set.                                            *)
(***************************************************************************)
THEOREM InvarianceRepri == SpecRepri => []IInv
<1>1. Init => IInv
  BY InitIInv, BootAssumption, MutexAssumption
<1>2. IInv /\ [Next \/ Repri]_vars => IInv'
  BY RepriIInv, BootAssumption, MutexAssumption
<1> QED BY <1>1, <1>2, PTL DEF SpecRepri

-----------------------------------------------------------------------------
(* The lock service.                                                       *)

(***************************************************************************)
(* The initial state is one of the lock service.                           *)
(***************************************************************************)
LEMMA ServiceInit ==
    ASSUME Init
    PROVE  Service!Init
BY DEF Init, Service!Init

(***************************************************************************)
(* Nobody waits for a mutex with an empty list.                            *)
(***************************************************************************)
LEMMA EmptyMeansUnwanted ==
    ASSUME IInv, MutexAssumption, NEW m \in Mutex, waiters[m] = <<>>
    PROVE  ~Service!Wanted(m)
<1>1. \A t \in Task : waiting_on[t] = m => t \in ToSet(waiters[m])
  BY MutexAssumption DEF IInv, LockInv, LockStructure
<1>2. \A t : t \notin ToSet(waiters[m])
  BY DEF ToSet
<1> QED BY <1>1, <1>2 DEF Service!Wanted

(***************************************************************************)
(* A Lock that takes the mutex acquires it, one that blocks asks for it.   *)
(***************************************************************************)
LEMMA LockServed ==
    ASSUME BootAssumption, MutexAssumption, IInv, NEW t \in Task, Lock(t)
    PROVE  Service!Next
<1>1. ASSUME NEW m \in Mutex, LockFree(t, m) PROVE Service!Next
  <2>1. /\ owner[m] = None /\ waiting_on[t] = None
        /\ owner' = [owner EXCEPT ![m] = t] /\ UNCHANGED waiting_on
    BY <1>1, CallerRuns DEF LockFree
  <2>2. waiters[m] = <<>>
    BY <2>1 DEF IInv, LockInv, NoFreeMutexWithWaiters
  <2>3. Service!Acquire(t, m)
    BY <2>1, <2>2, EmptyMeansUnwanted DEF Service!Acquire
  <2> QED BY <2>3 DEF Service!Next
<1>2. ASSUME NEW m \in Mutex, NEW finite \in BOOLEAN, LockBlock(t, m, finite)
      PROVE  Service!Next
  <2>1. Service!Ask(t, m)
    BY <1>2, CallerRuns DEF LockBlock, Service!Ask
  <2> QED BY <2>1 DEF Service!Next
<1> QED BY <1>1, <1>2 DEF Lock

(***************************************************************************)
(* Unlock releases the mutex or passes it on to the first waiter.          *)
(***************************************************************************)
LEMMA UnlockServed ==
    ASSUME BootAssumption, MutexAssumption, IInv, NEW t \in Task, Unlock(t)
    PROVE  Service!Next
<1>1. ASSUME NEW m \in Mutex, UnlockFree(t, m) PROVE Service!Next
  <2>1. /\ owner[m] = t /\ waiting_on[t] = None /\ waiters[m] = <<>>
        /\ owner' = [owner EXCEPT ![m] = None] /\ UNCHANGED waiting_on
    BY <1>1, CallerRuns DEF UnlockFree
  <2>2. Service!Release(t, m)
    BY <2>1, EmptyMeansUnwanted DEF Service!Release
  <2> QED BY <2>2 DEF Service!Next
<1>2. ASSUME NEW m \in Mutex, UnlockHandoff(t, m) PROVE Service!Next
  <2>1. PICK w : w = SelectWaiter(waiters[m])
    OBVIOUS
  <2>2. /\ owner[m] = t /\ waiting_on[t] = None /\ waiters[m] # <<>>
        /\ owner' = [owner EXCEPT ![m] = w]
        /\ waiting_on' = [waiting_on EXCEPT ![w] = None]
    BY <1>2, <2>1, CallerRuns DEF UnlockHandoff
  <2>3. waiters[m] \in Seq(Task)
    BY DEF IInv, TypeOK
  <2>4. w \in Task /\ w \in ToSet(waiters[m])
    BY <2>1, <2>2, <2>3, HeadElement DEF SelectWaiter
  <2>5. waiting_on[w] = m
    BY <2>4 DEF IInv, LockInv, LockStructure
  <2>6. Service!PassOn(t, m, w)
    BY <2>2, <2>5 DEF Service!PassOn
  <2> QED BY <2>4, <2>6 DEF Service!Next
<1> QED BY <1>1, <1>2 DEF Unlock

(***************************************************************************)
(* Every step of the kernel is a step of the lock service or a stutter.    *)
(***************************************************************************)
LEMMA NextServed ==
    ASSUME BootAssumption, MutexAssumption, IInv, [Next \/ Repri]_vars
    PROVE  [Service!Next]_(Service!vars)
<1>1. CASE UNCHANGED vars
  BY <1>1 DEF vars, mutexVars, Service!vars
<1>2. ASSUME NEW t \in Task, TaskStep(t) PROVE [Service!Next]_(Service!vars)
  <2>1. CASE Lock(t) \/ Unlock(t)
    BY <2>1, LockServed, UnlockServed
  <2>2. CASE ~(Lock(t) \/ Unlock(t))
    <3>1. UNCHANGED <<owner, waiting_on>>
      BY <1>2, <2>2 DEF TaskStep, LockReturn, mutexVars
    <3> QED BY <3>1 DEF Service!vars
  <2> QED BY <2>1, <2>2
<1>3. ASSUME NEW t \in Task, ExpireCleanup(t) PROVE [Service!Next]_(Service!vars)
  <2>1. Service!GiveUp(t)
    BY <1>3 DEF ExpireCleanup, Service!GiveUp
  <2> QED BY <2>1 DEF Service!Next
<1>4. CASE Handler
  <2>1. CASE \E t \in Task : ExpireCleanup(t)
    BY <1>3, <2>1
  <2>2. CASE ~ \E t \in Task : ExpireCleanup(t)
    <3>1. UNCHANGED <<owner, waiting_on>>
      BY <1>4, <2>2 DEF Handler, ExpireWake, mutexVars
    <3> QED BY <3>1 DEF Service!vars
  <2> QED BY <2>1, <2>2
<1>5. CASE Recompute \/ Repri
  <2>1. UNCHANGED <<owner, waiting_on>>
    BY <1>5 DEF Recompute, Repri, SetPriority, SetPriorityEnd
  <2> QED BY <2>1 DEF Service!vars
<1> QED BY <1>1, <1>2, <1>4, <1>5 DEF Next

(***************************************************************************)
(* The mutexes implement the lock service: whatever the interrupts, the    *)
(* priority walks and the changes of priority in between, a caller of      *)
(* xrtos_mutex.c sees only grants, waits, hand-offs and time-outs.         *)
(***************************************************************************)
THEOREM ServiceImplemented == SpecRepri => ImplementsLockService
<1>1. Init => Service!Init
  BY ServiceInit
<1>2. IInv /\ [Next \/ Repri]_vars => [Service!Next]_(Service!vars)
  BY NextServed, BootAssumption, MutexAssumption
<1> QED BY <1>1, <1>2, InvarianceRepri, PTL DEF SpecRepri, ImplementsLockService, Service!Spec

-----------------------------------------------------------------------------
(* Sorted waiter lists.                                                    *)

\* The list s is in the order of the priorities e.
Sorted(s, e) == \A i, j \in 1 .. Len(s) : i < j => e[s[i]] <= e[s[j]]

(***************************************************************************)
(* A waiter inserted into a sorted list leaves it sorted.                  *)
(***************************************************************************)
LEMMA InsertKeepsSorted ==
    ASSUME BootAssumption, NEW s \in Seq(Task), NEW t \in Task, NEW e \in [Task -> Prio],
           Sorted(s, e)
    PROVE  Sorted(InsertWaiter(s, t, e), e)
<1>1. PICK r : r = InsertWaiter(s, t, e)
  OBVIOUS
<1>2. PICK k \in 1 .. Len(s) + 1 :
              /\ r = InsertAt(s, k, t)
              /\ \A i \in 1 .. Len(s) : i < k => ~ (e[s[i]] > e[t])
              /\ k <= Len(s) => e[s[k]] > e[t]
  BY <1>1, InsertWaiterPlace
<1>3. /\ r \in Seq(Task) /\ Len(r) = Len(s) + 1
      /\ \A i \in 1 .. Len(s) + 1 :
            r[i] = IF i < k THEN s[i] ELSE IF i = k THEN t ELSE s[i - 1]
  <2>1. /\ InsertAt(s, k, t) \in Seq(Task) /\ Len(InsertAt(s, k, t)) = Len(s) + 1
        /\ \A i \in 1 .. Len(s) + 1 :
              InsertAt(s, k, t)[i] = IF i < k THEN s[i] ELSE IF i = k THEN t ELSE s[i - 1]
    BY InsertAtPlaces
  <2> QED BY <1>2, <2>1
<1>4. e[t] \in Nat /\ \A i \in 1 .. Len(s) : s[i] \in Task /\ e[s[i]] \in Nat
  <2>1. Prio \subseteq Nat
    BY BootAssumption DEF Prio
  <2>2. \A i \in 1 .. Len(s) : s[i] \in Task
    OBVIOUS
  <2>3. e[t] \in Prio /\ \A i \in 1 .. Len(s) : e[s[i]] \in Prio
    BY <2>2
  <2> QED BY <2>1, <2>2, <2>3
<1>0. \A i, j \in 1 .. Len(s) : i < j => e[s[i]] <= e[s[j]]
  BY DEF Sorted
<1>5. \A i \in 1 .. Len(s) : i < k => e[s[i]] <= e[t]
  BY <1>2, <1>4, SMTT(60)
<1>6. \A i \in 1 .. Len(s) : i >= k => e[t] <= e[s[i]]
  <2>1. SUFFICES ASSUME NEW i \in 1 .. Len(s), i >= k PROVE e[t] <= e[s[i]]
    OBVIOUS
  <2>2. k \in 1 .. Len(s) /\ e[t] <= e[s[k]]
    BY <1>2, <1>4, <2>1, SMTT(60)
  <2>3. e[s[k]] <= e[s[i]]
    BY <1>0, <1>4, <2>1, <2>2, SMTT(60)
  <2> QED BY <1>4, <2>2, <2>3, SMTT(60)
<1>7. ASSUME NEW i \in 1 .. Len(r), NEW j \in 1 .. Len(r), i < j
      PROVE  e[r[i]] <= e[r[j]]
  <2>1. CASE j < k
    <3>1. i \in 1 .. Len(s) /\ j \in 1 .. Len(s) /\ r[i] = s[i] /\ r[j] = s[j]
      BY <1>3, <1>7, <2>1, SMTT(60)
    <3> QED BY <1>0, <1>7, <3>1
  <2>2. CASE j = k
    <3>1. i \in 1 .. Len(s) /\ i < k /\ r[i] = s[i] /\ r[j] = t
      BY <1>3, <1>7, <2>2
    <3> QED BY <1>5, <3>1
  <2>3. CASE j > k /\ i < k
    <3>1. PICK b \in 1 .. Len(s) : b = j - 1
      BY <1>3, <2>3
    <3>2. r[i] = s[i] /\ r[j] = s[b] /\ i < b /\ i \in 1 .. Len(s)
      BY <1>3, <2>3, <3>1
    <3> QED BY <1>0, <3>2, SMTT(60)
  <2>4. CASE j > k /\ i = k
    <3>1. j - 1 \in 1 .. Len(s) /\ j - 1 >= k
      BY <1>3, <2>4
    <3>2. r[i] = t /\ r[j] = s[j - 1]
      BY <1>3, <2>4
    <3> QED BY <1>6, <3>1, <3>2
  <2>5. CASE j > k /\ i > k
    <3>1. PICK a \in 1 .. Len(s) : a = i - 1
      BY <1>3, <2>5
    <3>2. PICK b \in 1 .. Len(s) : b = j - 1
      BY <1>3, <2>5
    <3>3. r[i] = s[a] /\ r[j] = s[b] /\ a < b
      BY <1>3, <1>7, <2>5, <3>1, <3>2
    <3> QED BY <1>0, <3>3
  <2> QED BY <1>3, <2>1, <2>2, <2>3, <2>4, <2>5
<1> QED BY <1>1, <1>7 DEF Sorted

(***************************************************************************)
(* A sorted list is still sorted without one of its waiters.               *)
(***************************************************************************)
LEMMA RemoveKeepsSorted ==
    ASSUME NEW s \in Seq(Task), NEW t \in Task, NEW e \in [Task -> Prio], Sorted(s, e)
    PROVE  Sorted(RemoveWaiter(s, t), e)
<1>1. CASE t \notin ToSet(s)
  BY <1>1, RemoveAbsent DEF RemoveWaiter
<1>2. CASE t \in ToSet(s)
  <2>1. PICK r : r = RemoveWaiter(s, t)
    OBVIOUS
  <2>2. PICK k \in 1 .. Len(s) : r = RemoveAt(s, k)
    BY <1>2, <2>1, RemovePresent DEF RemoveWaiter
  <2>3. /\ Len(r) = Len(s) - 1
        /\ \A i \in 1 .. Len(s) - 1 : r[i] = IF i < k THEN s[i] ELSE s[i + 1]
    BY <2>2, RemoveAtPlaces
  <2>4. ASSUME NEW i \in 1 .. Len(r), NEW j \in 1 .. Len(r), i < j
        PROVE  e[r[i]] <= e[r[j]]
    <3>1. PICK a \in 1 .. Len(s), b \in 1 .. Len(s) : a < b /\ r[i] = s[a] /\ r[j] = s[b]
      <4>1. CASE j < k
        BY <2>3, <2>4, <4>1
      <4>2. CASE i < k /\ ~(j < k)
        <5>1. i \in 1 .. Len(s) /\ j + 1 \in 1 .. Len(s) /\ i < j + 1
          BY <2>3, <2>4
        <5>2. r[i] = s[i] /\ r[j] = s[j + 1]
          BY <2>3, <4>2
        <5> QED BY <5>1, <5>2
      <4>3. CASE ~(i < k)
        <5>1. i + 1 \in 1 .. Len(s) /\ j + 1 \in 1 .. Len(s) /\ i + 1 < j + 1
          BY <2>3, <2>4
        <5>2. r[i] = s[i + 1] /\ r[j] = s[j + 1]
          BY <2>3, <2>4, <4>3, SMTT(60)
        <5> QED BY <5>1, <5>2
      <4> QED BY <4>1, <4>2, <4>3
    <3> QED BY <3>1 DEF Sorted
  <2> QED BY <2>1, <2>4 DEF Sorted
<1> QED BY <1>1, <1>2

(***************************************************************************)
(* Priorities of tasks that are not in a list do not matter to its order.  *)
(***************************************************************************)
LEMMA SortedElsewhere ==
    ASSUME NEW s \in Seq(Task), NEW u \in Task, u \notin ToSet(s),
           NEW e \in [Task -> Prio], NEW p \in Prio,
           Sorted(s, e)
    PROVE  Sorted(s, [e EXCEPT ![u] = p])
<1>1. \A i \in 1 .. Len(s) : s[i] \in Task \ {u}
  BY DEF ToSet
<1>2. PICK f : f = [e EXCEPT ![u] = p]
  OBVIOUS
<1>3. \A i \in 1 .. Len(s) : f[s[i]] = e[s[i]]
  BY <1>1, <1>2
<1>4. Sorted(s, f)
  BY <1>3 DEF Sorted
<1> QED BY <1>2, <1>4

(***************************************************************************)
(* A waiter whose priority changes is moved to where it belongs.           *)
(***************************************************************************)
LEMMA MovedSorted ==
    ASSUME BootAssumption, MutexAssumption, IInv, WaitersSorted, NEW u \in Task,
           NEW p \in Prio
    PROVE  \A e : e = [eff EXCEPT ![u] = p] => \A m \in Mutex : Sorted(Moved(u, e)[m], e)
<1>0. SUFFICES ASSUME NEW e, e = [eff EXCEPT ![u] = p]
               PROVE  \A m \in Mutex : Sorted(Moved(u, e)[m], e)
  OBVIOUS
<1>1. /\ waiters \in [Mutex -> Seq(Task)] /\ waiting_on[u] \in Mutex \cup {None}
      /\ eff \in [Task -> Prio] /\ e \in [Task -> Prio]
      /\ \A m \in Mutex : IsInjective(waiters[m]) /\ Sorted(waiters[m], eff)
  BY <1>0, ZenonT(60) DEF IInv, TypeOK, SchedTypeOK, LockInv, LockStructure, WaitersSorted, Sorted
<1>2. \A m \in Mutex : u \in ToSet(waiters[m]) => waiting_on[u] = m
  BY DEF IInv, LockInv, LockStructure
<1>3. ASSUME NEW m \in Mutex, waiting_on[u] # m PROVE Sorted(waiters[m], e)
  <2>1. waiters[m] \in Seq(Task) /\ u \notin ToSet(waiters[m]) /\ Sorted(waiters[m], eff)
    BY <1>1, <1>2, <1>3
  <2> QED BY <1>0, <1>1, <2>1, SortedElsewhere
<1>4. CASE Moves(u, e)
  <2>1. PICK m \in Mutex : m = waiting_on[u]
    BY <1>1, <1>4 DEF Moves
  <2>2. PICK s : s = RemoveWaiter(waiters[m], u)
    OBVIOUS
  <2>3. s \in Seq(Task) /\ ToSet(s) = ToSet(waiters[m]) \ {u}
    BY <1>1, <2>2, RemoveFirstElements, SMTT(60) DEF RemoveWaiter
  <2>4. Sorted(s, eff)
    BY <1>1, <2>2, RemoveKeepsSorted
  <2>6. Sorted(s, e)
    BY <1>0, <1>1, <2>3, <2>4, SortedElsewhere
  <2>7. Sorted(InsertWaiter(s, u, e), e)
    BY <1>1, <2>3, <2>6, InsertKeepsSorted
  <2>8. Moved(u, e) = [waiters EXCEPT ![m] = InsertWaiter(s, u, e)]
    BY <1>4, <2>1, <2>2 DEF Moved
  <2>9. ASSUME NEW n \in Mutex PROVE Sorted(Moved(u, e)[n], e)
    <3>1. CASE n = m
      BY <1>1, <2>7, <2>8, <3>1
    <3>2. CASE n # m
      BY <1>1, <1>3, <2>1, <2>8, <3>2
    <3> QED BY <3>1, <3>2
  <2> QED BY <2>9
<1>5. CASE ~Moves(u, e)
  <2>1. Moved(u, e) = waiters
    BY <1>5 DEF Moved
  <2>2. CASE e[u] = eff[u]
    <3>1. e = eff
      BY <1>0, <1>1, <2>2
    <3> QED BY <1>1, <2>1, <3>1
  <2>3. CASE waiting_on[u] = None
    BY <1>3, <2>1, <2>3, MutexAssumption
  <2> QED BY <1>5, <2>1, <2>2, <2>3 DEF Moves
<1> QED BY <1>4, <1>5

(***************************************************************************)
(* The steps that touch priorities, waiter lists or held mutexes.          *)
(***************************************************************************)
LEMMA QuietOrNot ==
    ASSUME [Next]_vars
    PROVE  \/ UNCHANGED <<base, eff, held, waiters, walk, repri>>
           \/ Recompute
           \/ \E t \in Task :
                 \/ ExpireCleanup(t)
                 \/ \E m \in Mutex :
                       \/ LockFree(t, m) \/ UnlockFree(t, m) \/ UnlockHandoff(t, m)
                       \/ \E finite \in BOOLEAN : LockBlock(t, m, finite)
<1>1. CASE UNCHANGED vars
  BY <1>1 DEF vars, schedVars, mutexVars
<1>2. ASSUME NEW t \in Task, TaskStep(t), ~Lock(t), ~Unlock(t)
      PROVE  UNCHANGED <<base, eff, held, waiters, walk, repri>>
  BY <1>2 DEF TaskStep, LockReturn, TaskYield, TaskDelay, BlockCurrent, Yield, schedVars, mutexVars
<1>3. CASE Handler
  <2>1. CASE TickEnter /\ UNCHANGED mutexVars
    BY <2>1 DEF TickEnter, mutexVars
  <2>2. CASE IsrExit /\ UNCHANGED mutexVars
    BY <2>2 DEF IsrExit, mutexVars
  <2>3. ASSUME NEW t \in Task, ExpireWake(t)
        PROVE  UNCHANGED <<base, eff, held, waiters, walk, repri>>
    BY <2>3 DEF ExpireWake, WakeExpired, mutexVars
  <2> QED BY <1>3, <2>1, <2>2, <2>3 DEF Handler
<1> QED BY <1>1, <1>2, <1>3 DEF Next, Lock, Unlock

(***************************************************************************)
(* A hand-off of m from t to w: rest are the lists that remain, e the      *)
(* priorities once w's is computed, effT the caller's new one.             *)
(***************************************************************************)
HandoffTo(t, m, w, rest, e, effT) ==
    /\ w # t /\ walk = None /\ owner[m] = t
    /\ rest = [waiters EXCEPT ![m] = RemoveWaiter(waiters[m], w)]
    /\ \A n \in Mutex : w \notin ToSet(rest[n]) /\ t \notin ToSet(rest[n])
    /\ e = [eff EXCEPT ![w] = e[w]]
    /\ IsInherited(e[w], base[w], held[w] \cup {m}, rest, eff)
    /\ IsInherited(effT, base[t], held[t] \ {m}, rest, e)
    /\ waiters' = rest
    /\ held' = [held EXCEPT ![t] = held[t] \ {m}, ![w] = held[w] \cup {m}]
    /\ eff' = [e EXCEPT ![t] = effT]
    /\ UNCHANGED <<base, walk, repri>>

(***************************************************************************)
(* Unlock with waiters is such a hand-off.                                 *)
(***************************************************************************)
LEMMA HandoffChanges ==
    ASSUME BootAssumption, MutexAssumption, IInv,
           NEW t \in Task, NEW m \in Mutex, UnlockHandoff(t, m)
    PROVE  \E w \in Task, rest \in [Mutex -> Seq(Task)], e \in [Task -> Prio], effT \in Prio :
              HandoffTo(t, m, w, rest, e, effT)
<1>1. TypeOK /\ SchedInv /\ LockInv
  BY DEF IInv
<1>2. PICK w : w = SelectWaiter(waiters[m])
  OBVIOUS
<1>3. PICK rest : rest = [waiters EXCEPT ![m] = RemoveWaiter(waiters[m], w)]
  OBVIOUS
<1>4. PICK theirs : theirs = held[w] \cup {m}
  OBVIOUS
<1>22. PICK mine : mine = held[t] \ {m}
  OBVIOUS
<1>5. PICK effW : effW = Inherited(base[w], theirs, rest, eff)
  OBVIOUS
<1>6. PICK e : e = [eff EXCEPT ![w] = effW]
  OBVIOUS
<1>7. PICK effT : effT = Inherited(base[t], mine, rest, e)
  OBVIOUS
<1>8. /\ current = t /\ waiting_on[t] = None /\ walk = None
      /\ owner[m] = t /\ waiters[m] # <<>>
  BY CallerRuns DEF UnlockHandoff
<1>9. /\ held' = [held EXCEPT ![t] = mine, ![w] = theirs]
      /\ waiters' = rest
      /\ eff' = [e EXCEPT ![t] = effT]
      /\ UNCHANGED <<base, walk, repri>>
  BY <1>2, <1>3, <1>4, <1>22, <1>5, <1>6, <1>7 DEF UnlockHandoff
<1>10. /\ waiters[m] \in Seq(Task) /\ IsInjective(waiters[m])
       /\ w \in ToSet(waiters[m]) /\ w \in Task
  <2>1. waiters[m] \in Seq(Task) /\ IsInjective(waiters[m])
    BY <1>1 DEF TypeOK, LockInv, LockStructure
  <2> QED BY <1>2, <1>8, <2>1, HeadElement DEF SelectWaiter
<1>11. waiting_on[w] = m /\ w # t
  BY <1>1, <1>8, <1>10, MutexAssumption DEF LockInv, LockStructure
<1>12. PICK q : q = RemoveWaiter(waiters[m], w)
  OBVIOUS
<1>13. q \in Seq(Task) /\ ToSet(q) = ToSet(waiters[m]) \ {w}
  BY <1>10, <1>12, RemoveFirstElements DEF RemoveWaiter
<1>14. rest = [waiters EXCEPT ![m] = q] /\ rest \in [Mutex -> Seq(Task)]
  BY <1>1, <1>3, <1>12, <1>13 DEF TypeOK
<1>15. \A n \in Mutex : w \notin ToSet(rest[n]) /\ t \notin ToSet(rest[n])
  <2>1. \A n \in Mutex : \A u \in {w, t} : u \in ToSet(waiters[n]) => waiting_on[u] = n
    BY <1>1, <1>10 DEF LockInv, LockStructure
  <2> QED BY <1>1, <1>8, <1>11, <1>13, <1>14, <2>1, MutexAssumption DEF TypeOK
<1>16. /\ base[w] \in Prio /\ base[t] \in Prio /\ eff \in [Task -> Prio]
       /\ theirs \in SUBSET Mutex /\ mine \in SUBSET Mutex
  <2>1. held[w] \in SUBSET Mutex /\ held[t] \in SUBSET Mutex
    BY <1>1, <1>10 DEF TypeOK
  <2>2. theirs \in SUBSET Mutex /\ mine \in SUBSET Mutex
    BY <1>4, <1>22, <2>1
  <2>3. base \in [Task -> Prio] /\ eff \in [Task -> Prio]
    BY <1>1 DEF TypeOK, SchedTypeOK
  <2> QED BY <1>10, <2>2, <2>3, SMTT(60)
<1>17. effW \in Prio /\ IsInherited(effW, base[w], theirs, rest, eff)
  BY <1>5, <1>14, <1>16, InheritedExists
<1>18. e \in [Task -> Prio]
  BY <1>6, <1>16, <1>17
<1>19. effT \in Prio /\ IsInherited(effT, base[t], mine, rest, e)
  BY <1>7, <1>14, <1>16, <1>18, InheritedExists
<1>20. effW = e[w]
  BY <1>6, <1>10, <1>16
<1>21. HandoffTo(t, m, w, rest, e, effT)
  <2>1. /\ w # t /\ walk = None /\ owner[m] = t
        /\ rest = [waiters EXCEPT ![m] = RemoveWaiter(waiters[m], w)]
        /\ \A n \in Mutex : w \notin ToSet(rest[n]) /\ t \notin ToSet(rest[n])
    BY <1>3, <1>8, <1>11, <1>15
  <2>2. e = [eff EXCEPT ![w] = e[w]]
    BY <1>6, <1>20
  <2>3. /\ IsInherited(e[w], base[w], held[w] \cup {m}, rest, eff)
        /\ IsInherited(effT, base[t], held[t] \ {m}, rest, e)
    BY <1>4, <1>22, <1>17, <1>19, <1>20
  <2>4. held' = [held EXCEPT ![t] = held[t] \ {m}, ![w] = held[w] \cup {m}]
    BY <1>4, <1>22, <1>9
  <2> QED BY <1>9, <2>1, <2>2, <2>3, <2>4 DEF HandoffTo
<1> QED BY <1>10, <1>14, <1>18, <1>19, <1>21

(***************************************************************************)
(* Every step keeps the waiter lists sorted.                               *)
(***************************************************************************)
LEMMA NextSorted ==
    ASSUME BootAssumption, MutexAssumption, IInv, WaitersSorted, [Next \/ Repri]_vars
    PROVE  WaitersSorted'
<1>1. /\ waiters \in [Mutex -> Seq(Task)] /\ eff \in [Task -> Prio]
      /\ base \in [Task -> Prio] /\ held \in [Task -> SUBSET Mutex]
      /\ walk \in Task \cup {None} /\ waiting_on \in [Task -> Mutex \cup {None}]
  BY DEF IInv, TypeOK, SchedTypeOK
<1>2. \A m \in Mutex : Sorted(waiters[m], eff)
  BY DEF WaitersSorted, Sorted
<1>3. SUFFICES \A m \in Mutex : Sorted(waiters'[m], eff')
  BY DEF WaitersSorted, Sorted
<1>4. CASE UNCHANGED <<base, eff, held, waiters, walk, repri>>
  BY <1>2, <1>4
<1>5. CASE Recompute
  <2>1. PICK u \in Task : u = walk
    BY <1>1, <1>5 DEF Recompute
  <2>2. PICK p : p = Inherited(base[u], held[u], waiters, eff)
    OBVIOUS
  <2>3. p \in Prio
    BY <1>1, <2>2, InheritedExists, ZenonT(60)
  <2>4. PICK e : e = [eff EXCEPT ![u] = p]
    OBVIOUS
  <2>5. eff' = e /\ waiters' = Moved(u, e)
    BY <1>5, <2>1, <2>2, <2>4 DEF Recompute
  <2> QED BY <2>3, <2>4, <2>5, MovedSorted
<1>6. ASSUME NEW t \in Task, ExpireCleanup(t) PROVE \A m \in Mutex : Sorted(waiters'[m], eff')
  <2>1. PICK m \in Mutex : m = waiting_on[t]
    BY <1>1, <1>6 DEF ExpireCleanup
  <2>2. waiters' = [waiters EXCEPT ![m] = RemoveWaiter(waiters[m], t)] /\ eff' = eff
    BY <1>6, <2>1 DEF ExpireCleanup, schedVars
  <2>3. Sorted(RemoveWaiter(waiters[m], t), eff)
    BY <1>1, <1>2, RemoveKeepsSorted
  <2> QED BY <1>1, <1>2, <2>2, <2>3, SMTT(60)
<1>7. ASSUME NEW t \in Task, NEW m \in Mutex, LockFree(t, m)
      PROVE  \A n \in Mutex : Sorted(waiters'[n], eff')
  BY <1>2, <1>7 DEF LockFree, schedVars
<1>8. ASSUME NEW t \in Task, NEW m \in Mutex, NEW finite \in BOOLEAN, LockBlock(t, m, finite)
      PROVE  \A n \in Mutex : Sorted(waiters'[n], eff')
  <2>1. waiters' = [waiters EXCEPT ![m] = InsertWaiter(waiters[m], t, eff)] /\ eff' = eff
    BY <1>8 DEF LockBlock
  <2>2. Sorted(InsertWaiter(waiters[m], t, eff), eff)
    BY <1>1, <1>2, InsertKeepsSorted
  <2> QED BY <1>1, <1>2, <2>1, <2>2, SMTT(60)
<1>9. ASSUME NEW t \in Task, NEW m \in Mutex, UnlockFree(t, m)
      PROVE  \A n \in Mutex : Sorted(waiters'[n], eff')
  <2>1. PICK p : p = Inherited(base[t], held[t] \ {m}, waiters, eff)
    OBVIOUS
  <2>2. p \in Prio
    <3>1. base[t] \in Prio /\ held[t] \ {m} \in SUBSET Mutex
      BY <1>1
    <3> QED BY <1>1, <2>1, <3>1, InheritedExists
  <2>3. waiters' = waiters /\ eff' = [eff EXCEPT ![t] = p]
    BY <1>9, <2>1 DEF UnlockFree
  <2>4. \A n \in Mutex : t \notin ToSet(waiters[n])
    BY <1>9, CallerRuns, MutexAssumption DEF UnlockFree, IInv, LockInv, LockStructure
  <2> QED BY <1>1, <1>2, <2>2, <2>3, <2>4, SortedElsewhere
<1>10. ASSUME NEW t \in Task, NEW m \in Mutex, UnlockHandoff(t, m)
       PROVE  \A n \in Mutex : Sorted(waiters'[n], eff')
  <2>1. PICK w \in Task, rest \in [Mutex -> Seq(Task)], e \in [Task -> Prio], effT \in Prio :
              HandoffTo(t, m, w, rest, e, effT)
    BY <1>10, HandoffChanges
  <2>2. \A n \in Mutex : Sorted(rest[n], eff)
    <3>1. Sorted(RemoveWaiter(waiters[m], w), eff)
      BY <1>1, <1>2, RemoveKeepsSorted
    <3> QED BY <1>1, <1>2, <2>1, <3>1, ZenonT(60) DEF HandoffTo
  <2>3. \A n \in Mutex : Sorted(rest[n], e)
    <3>1. \A n \in Mutex : w \notin ToSet(rest[n])
      BY <2>1 DEF HandoffTo
    <3>2. PICK p \in Prio : p = e[w]
      BY <2>1
    <3>3. e = [eff EXCEPT ![w] = p]
      BY <2>1, <3>2 DEF HandoffTo
    <3>4. \A n \in Mutex : Sorted(rest[n], [eff EXCEPT ![w] = p])
      BY <1>1, <2>2, <3>1, SortedElsewhere
    <3> QED BY <3>3, <3>4
  <2>4. \A n \in Mutex : Sorted(rest[n], [e EXCEPT ![t] = effT])
    <3>1. \A n \in Mutex : t \notin ToSet(rest[n])
      BY <2>1 DEF HandoffTo
    <3> QED BY <2>3, <3>1, SortedElsewhere
  <2> QED BY <2>1, <2>4, ZenonT(60) DEF HandoffTo
<1>11. ASSUME NEW t \in Task, NEW u \in Task, NEW p \in Prio, SetPriority(t, u, p)
       PROVE  \A n \in Mutex : Sorted(waiters'[n], eff')
  <2>1. PICK q : q = IF eff[u] < base[u] /\ eff[u] < p THEN eff[u] ELSE p
    OBVIOUS
  <2>2. PICK e : e = [eff EXCEPT ![u] = q]
    OBVIOUS
  <2>3. eff' = e /\ waiters' = Moved(u, e)
    BY <1>11, <2>1, <2>2 DEF SetPriority
  <2>4. q \in Prio
    BY <1>1, <2>1
  <2> QED BY <2>2, <2>3, <2>4, MovedSorted
<1>12. CASE Repri
  <2>1. CASE SetPriorityEnd
    BY <1>2, <2>1 DEF SetPriorityEnd
  <2> QED BY <1>11, <1>12, <2>1 DEF Repri
<1>13. CASE [Next]_vars
  BY <1>4, <1>5, <1>6, <1>7, <1>8, <1>9, <1>10, <1>13, QuietOrNot
<1> QED BY <1>12, <1>13

(***************************************************************************)
(* Waiter lists are sorted at all times, whatever priorities are set:      *)
(* mutex_waiter_select, which takes the head, wakes a most urgent waiter.  *)
(***************************************************************************)
THEOREM AlwaysSorted == SpecRepri => []WaitersSorted
<1>1. Init => WaitersSorted
  BY DEF Init, WaitersSorted
<1>2. IInv /\ WaitersSorted /\ [Next \/ Repri]_vars => WaitersSorted'
  BY NextSorted, BootAssumption, MutexAssumption
<1> QED BY <1>1, <1>2, InvarianceRepri, PTL DEF SpecRepri

-----------------------------------------------------------------------------
(* Exact inheritance.                                                      *)

(***************************************************************************)
(* What a task inherits depends only on the lists of the mutexes it holds  *)
(* and on the priorities of the tasks in them.                             *)
(***************************************************************************)
LEMMA SameHeads ==
    ASSUME NEW p, NEW b, NEW ms \in SUBSET Mutex,
           NEW v \in [Mutex -> Seq(Task)], NEW w \in [Mutex -> Seq(Task)],
           NEW e \in [Task -> Prio], NEW f \in [Task -> Prio],
           \A m \in ms : w[m] = v[m],
           \A m \in ms : \A x \in ToSet(v[m]) : f[x] = e[x],
           IsInherited(p, b, ms, v, e)
    PROVE  IsInherited(p, b, ms, w, f)
<1>1. \A m \in ms : v[m] # <<>> => f[Head(v[m])] = e[Head(v[m])]
  <2>1. SUFFICES ASSUME NEW m \in ms, v[m] # <<>> PROVE f[Head(v[m])] = e[Head(v[m])]
    OBVIOUS
  <2>2. v[m] \in Seq(Task)
    OBVIOUS
  <2>3. Head(v[m]) \in ToSet(v[m])
    BY <2>1, <2>2, HeadElement
  <2> QED BY <2>3
<1>2. {n \in ms : w[n] # <<>>} = {n \in ms : v[n] # <<>>}
  OBVIOUS
<1>3. HeadPriorities(ms, w, f) = HeadPriorities(ms, v, e)
  BY <1>1, <1>2 DEF HeadPriorities
<1> QED BY <1>3 DEF IsInherited

(***************************************************************************)
(* Every task but the one in walk has exactly the priority it inherits.    *)
(***************************************************************************)
Exact == ~repri /\ \A t \in Task \ {walk} : IsInherited(eff[t], base[t], held[t], waiters, eff)

(***************************************************************************)
(* A task stays exact when a step leaves alone its own priorities, the     *)
(* lists of its mutexes and the priorities of the tasks in them.           *)
(***************************************************************************)
LEMMA OthersExact ==
    ASSUME IInv, IInv', Exact, NEW u \in Task \ {walk},
           eff'[u] = eff[u], base'[u] = base[u], held'[u] = held[u],
           \A m \in held[u] : waiters'[m] = waiters[m],
           \A m \in held[u] : \A x \in ToSet(waiters[m]) : eff'[x] = eff[x]
    PROVE  IsInherited(eff'[u], base'[u], held'[u], waiters', eff')
<1>1. /\ held[u] \in SUBSET Mutex
      /\ waiters \in [Mutex -> Seq(Task)] /\ eff \in [Task -> Prio]
  BY DEF IInv, TypeOK, SchedTypeOK
<1>2. waiters' \in [Mutex -> Seq(Task)] /\ eff' \in [Task -> Prio]
  BY DEF IInv, TypeOK, SchedTypeOK
<1>3. IsInherited(eff[u], base[u], held[u], waiters, eff)
  BY DEF Exact
<1>4. IsInherited(eff[u], base[u], held[u], waiters', eff')
  BY <1>1, <1>2, <1>3, SameHeads
<1> QED BY <1>4

(***************************************************************************)
(* What the invariant says of owners and lists, in the form used below.    *)
(***************************************************************************)
LEMMA Links ==
    ASSUME IInv, MutexAssumption
    PROVE  /\ waiters \in [Mutex -> Seq(Task)] /\ eff \in [Task -> Prio]
           /\ base \in [Task -> Prio] /\ held \in [Task -> SUBSET Mutex]
           /\ walk \in Task \cup {None} /\ waiting_on \in [Task -> Mutex \cup {None}]
           /\ owner \in [Mutex -> Task \cup {None}]
           /\ \A u \in Task : \A m \in Mutex : m \in held[u] <=> owner[m] = u
           /\ \A m \in Mutex : /\ ToSet(waiters[m]) \subseteq Task
                              /\ \A x \in ToSet(waiters[m]) : waiting_on[x] = m /\ owner[m] # x
           /\ \A u \in Task : \A m \in Mutex : waiting_on[u] = m => u \in ToSet(waiters[m])
<1>1. waiters \in [Mutex -> Seq(Task)]
  BY DEF IInv, TypeOK
<1>2. \A m \in Mutex : ToSet(waiters[m]) \subseteq Task
  BY <1>1, HeadElement
<1>3. /\ eff \in [Task -> Prio] /\ base \in [Task -> Prio] /\ held \in [Task -> SUBSET Mutex]
      /\ walk \in Task \cup {None} /\ waiting_on \in [Task -> Mutex \cup {None}]
      /\ owner \in [Mutex -> Task \cup {None}]
  BY DEF IInv, TypeOK, SchedTypeOK
<1>4. \A u \in Task : \A m \in Mutex : m \in held[u] <=> owner[m] = u
  BY DEF IInv, LockInv, LockStructure
<1>5. \A m \in Mutex : \A x \in ToSet(waiters[m]) : waiting_on[x] = m /\ owner[m] # x
  BY <1>2 DEF IInv, LockInv, LockStructure
<1>6. \A u \in Task : \A m \in Mutex : waiting_on[u] = m => u \in ToSet(waiters[m])
  BY MutexAssumption DEF IInv, LockInv, LockStructure
<1> QED BY <1>1, <1>2, <1>3, <1>4, <1>5, <1>6

(***************************************************************************)
(* The walk makes its task exact and hands the owner it disturbs on.       *)
(***************************************************************************)
LEMMA RecomputeExact ==
    ASSUME BootAssumption, MutexAssumption, IInv, IInv', Exact, Recompute
    PROVE  Exact'
<1>1. PICK u \in Task : u = walk
  BY Links DEF Recompute
<1>2. PICK p : p = Inherited(base[u], held[u], waiters, eff)
  OBVIOUS
<1>3. PICK e : e = [eff EXCEPT ![u] = p]
  OBVIOUS
<1>4. /\ eff' = e /\ waiters' = Moved(u, e) /\ walk' = Onward(u, e)
      /\ UNCHANGED <<base, held, repri>>
  BY <1>1, <1>2, <1>3 DEF Recompute
<1>5. p \in Prio /\ IsInherited(p, base[u], held[u], waiters, eff)
  BY Links, <1>2, InheritedExists, ZenonT(60)
<1>6. e \in [Task -> Prio] /\ e[u] = p /\ \A x \in Task : x # u => e[x] = eff[x]
  BY Links, <1>3, <1>5
<1>7. waiters' \in [Mutex -> Seq(Task)]
  BY DEF IInv, TypeOK
<1>8. ASSUME NEW m \in Mutex, waiting_on[u] # m
      PROVE  waiters'[m] = waiters[m] /\ \A x \in ToSet(waiters[m]) : e[x] = eff[x]
  <2>1. Moved(u, e)[m] = waiters[m]
    BY Links, <1>8 DEF Moved, Moves
  <2>2. u \notin ToSet(waiters[m]) /\ ToSet(waiters[m]) \subseteq Task
    BY Links, <1>8
  <2> QED BY <1>4, <1>6, <2>1, <2>2, ZenonT(60)
<1>9. IsInherited(p, base[u], held[u], waiters', e)
  <2>1. \A m \in held[u] : m \in Mutex /\ waiting_on[u] # m
    BY Links
  <2>2. /\ \A m \in held[u] : waiters'[m] = waiters[m]
        /\ \A m \in held[u] : \A x \in ToSet(waiters[m]) : e[x] = eff[x]
    BY <1>8, <2>1
  <2>3. PICK mine \in SUBSET Mutex : mine = held[u]
    BY Links
  <2>4. PICK b : b = base[u]
    OBVIOUS
  <2>5. waiters \in [Mutex -> Seq(Task)] /\ eff \in [Task -> Prio]
    BY Links
  <2>6. IsInherited(p, b, mine, waiters, eff)
    BY <1>5, <2>3, <2>4
  <2>7. /\ \A m \in mine : waiters'[m] = waiters[m]
        /\ \A m \in mine : \A x \in ToSet(waiters[m]) : e[x] = eff[x]
    BY <2>2, <2>3
  <2>8. e \in [Task -> Prio] /\ waiters' \in [Mutex -> Seq(Task)]
    BY <1>6, <1>7
  <2>9. IsInherited(p, b, mine, waiters', e)
    BY <2>5, <2>6, <2>7, <2>8, SameHeads, ZenonT(60)
  <2> QED BY <2>3, <2>4, <2>9
<1>10. ASSUME NEW t \in Task, t # walk', t # u
       PROVE  IsInherited(eff'[t], base'[t], held'[t], waiters', eff')
  <2>1. held[t] \in SUBSET Mutex /\ \A m \in held[t] : owner[m] = t
    BY Links, SMTT(60)
  <2>2. /\ \A m \in held[t] : waiters'[m] = waiters[m]
        /\ \A m \in held[t] : \A x \in ToSet(waiters[m]) : eff'[x] = eff[x]
    <3>1. CASE Moves(u, e)
      <4>1. \A m \in held[t] : m \in Mutex /\ waiting_on[u] # m
        BY <1>4, <1>10, <2>1, <3>1 DEF Onward
      <4> QED BY <1>4, <1>8, <4>1
    <3>2. CASE ~Moves(u, e)
      <4>1. waiters' = waiters
        BY <1>4, <3>2 DEF Moved
      <4>2. CASE e[u] = eff[u]
        <5>1. \A x \in Task : e[x] = eff[x]
          BY <1>6, <4>2
        <5>2. \A m \in held[t] : ToSet(waiters[m]) \subseteq Task
          BY <2>1, Links
        <5> QED BY <1>4, <4>1, <5>1, <5>2
      <4>3. CASE waiting_on[u] = None
        <5>1. \A m \in held[t] : m \in Mutex /\ waiting_on[u] # m
          BY <2>1, <4>3, MutexAssumption
        <5> QED BY <1>4, <1>8, <5>1
      <4> QED BY <3>2, <4>2, <4>3 DEF Moves
    <3> QED BY <3>1, <3>2
  <2>3. t \in Task \ {walk} /\ eff'[t] = eff[t] /\ base'[t] = base[t] /\ held'[t] = held[t]
    BY <1>1, <1>4, <1>6, <1>10
  <2> QED BY <2>2, <2>3, OthersExact
<1>11. IsInherited(eff'[u], base'[u], held'[u], waiters', eff')
  BY <1>4, <1>6, <1>9
<1> QED BY <1>4, <1>10, <1>11 DEF Exact

(***************************************************************************)
(* A step that changes one waiter list and sends the walk to the owner of  *)
(* that mutex.                                                             *)
(***************************************************************************)
LEMMA ListStepExact ==
    ASSUME BootAssumption, MutexAssumption, IInv, IInv', Exact, NEW m \in Mutex, walk = None,
           \A n \in Mutex : n # m => waiters'[n] = waiters[n],
           walk' = owner[m], UNCHANGED <<base, eff, held, repri>>
    PROVE  Exact'
<1>1. ASSUME NEW t \in Task, t # owner[m]
      PROVE  IsInherited(eff'[t], base'[t], held'[t], waiters', eff')
  <2>1. \A n \in held[t] : waiters'[n] = waiters[n]
    BY <1>1, Links
  <2>2. t \in Task \ {walk}
    BY BootAssumption
  <2> QED BY <2>1, <2>2, OthersExact
<1> QED BY <1>1 DEF Exact

(***************************************************************************)
(* Taking a mutex nobody waits for brings no candidate.                    *)
(***************************************************************************)
LEMMA LockFreeExact ==
    ASSUME BootAssumption, MutexAssumption, IInv, IInv', Exact,
           NEW t \in Task, NEW m \in Mutex, LockFree(t, m)
    PROVE  Exact'
<1>1. /\ held' = [held EXCEPT ![t] = held[t] \cup {m}]
      /\ UNCHANGED <<base, eff, waiters, walk, repri>>
  BY DEF LockFree, schedVars
<1>2. waiters[m] = <<>>
  BY DEF LockFree, IInv, LockInv, NoFreeMutexWithWaiters
<1>3. HeadPriorities(held[t] \cup {m}, waiters, eff) = HeadPriorities(held[t], waiters, eff)
  <2>1. {n \in held[t] \cup {m} : waiters[n] # <<>>} = {n \in held[t] : waiters[n] # <<>>}
    BY <1>2
  <2> QED BY <2>1 DEF HeadPriorities
<1>4. t # walk => IsInherited(eff[t], base[t], held[t] \cup {m}, waiters, eff)
  BY <1>3 DEF Exact, IsInherited
<1>5. held'[t] = held[t] \cup {m} /\ \A u \in Task : u # t => held'[u] = held[u]
  BY <1>1, Links
<1> QED BY <1>1, <1>4, <1>5 DEF Exact

(***************************************************************************)
(* Freeing a mutex: the caller's priority is computed anew; it waits       *)
(* nowhere, so no other task inherits it.                                  *)
(***************************************************************************)
LEMMA UnlockFreeExact ==
    ASSUME BootAssumption, MutexAssumption, IInv, IInv', Exact,
           NEW t \in Task, NEW m \in Mutex, UnlockFree(t, m)
    PROVE  Exact'
<1>1. PICK p : p = Inherited(base[t], held[t] \ {m}, waiters, eff)
  OBVIOUS
<1>2. /\ held' = [held EXCEPT ![t] = held[t] \ {m}] /\ eff' = [eff EXCEPT ![t] = p]
      /\ UNCHANGED <<base, waiters, walk, repri>>
  BY <1>1 DEF UnlockFree
<1>3. base[t] \in Prio /\ held[t] \ {m} \in SUBSET Mutex
  BY Links
<1>4. p \in Prio /\ IsInherited(p, base[t], held[t] \ {m}, waiters, eff)
  BY Links, <1>1, <1>3, InheritedExists
<1>5. waiting_on[t] = None
  BY CallerRuns DEF UnlockFree
<1>6. \A n \in Mutex : \A x \in ToSet(waiters[n]) : eff'[x] = eff[x]
  BY Links, <1>2, <1>5, MutexAssumption
<1>7. IsInherited(p, base[t], held[t] \ {m}, waiters, eff')
  <2>1. eff' \in [Task -> Prio]
    BY Links, <1>2, <1>4
  <2>2. PICK mine \in SUBSET Mutex : mine = held[t] \ {m}
    BY <1>3
  <2>3. PICK b : b = base[t]
    OBVIOUS
  <2>4. waiters \in [Mutex -> Seq(Task)] /\ eff \in [Task -> Prio]
    BY Links
  <2>5. IsInherited(p, b, mine, waiters, eff)
    BY <1>4, <2>2, <2>3
  <2>6. \A n \in mine : \A x \in ToSet(waiters[n]) : eff'[x] = eff[x]
    BY <1>6, <2>2
  <2>7. IsInherited(p, b, mine, waiters, eff')
    BY <2>1, <2>4, <2>5, <2>6, SameHeads
  <2> QED BY <2>2, <2>3, <2>7
<1>8. IsInherited(eff'[t], base'[t], held'[t], waiters', eff')
  BY Links, <1>2, <1>7
<1>9. ASSUME NEW u \in Task \ {walk}, u # t
      PROVE  IsInherited(eff'[u], base'[u], held'[u], waiters', eff')
  <2>1. eff'[u] = eff[u] /\ base'[u] = base[u] /\ held'[u] = held[u]
    BY Links, <1>2, <1>9
  <2>2. \A n \in held[u] : \A x \in ToSet(waiters[n]) : eff'[x] = eff[x]
    BY Links, <1>6
  <2> QED BY <1>2, <2>1, <2>2, OthersExact
<1> QED BY <1>2, <1>8, <1>9 DEF Exact

(***************************************************************************)
(* Passing a mutex on: both priorities are computed anew, and neither task *)
(* waits any more.                                                         *)
(***************************************************************************)
LEMMA UnlockHandoffExact ==
    ASSUME BootAssumption, MutexAssumption, IInv, IInv', Exact,
           NEW t \in Task, NEW m \in Mutex, UnlockHandoff(t, m)
    PROVE  Exact'
<1>1. PICK w \in Task, rest \in [Mutex -> Seq(Task)], e \in [Task -> Prio], p \in Prio :
              HandoffTo(t, m, w, rest, e, p)
  BY HandoffChanges
<1>2. /\ w # t /\ walk = None /\ owner[m] = t
      /\ rest = [waiters EXCEPT ![m] = RemoveWaiter(waiters[m], w)]
      /\ \A n \in Mutex : w \notin ToSet(rest[n]) /\ t \notin ToSet(rest[n])
      /\ e = [eff EXCEPT ![w] = e[w]]
      /\ IsInherited(e[w], base[w], held[w] \cup {m}, rest, eff)
      /\ IsInherited(p, base[t], held[t] \ {m}, rest, e)
      /\ waiters' = rest
      /\ held' = [held EXCEPT ![t] = held[t] \ {m}, ![w] = held[w] \cup {m}]
      /\ eff' = [e EXCEPT ![t] = p]
      /\ UNCHANGED <<base, walk, repri>>
  BY <1>1 DEF HandoffTo
<1>3. PICK f \in [Task -> Prio] : f = eff'
  BY <1>1, <1>2
<1>4. f[t] = p /\ f[w] = e[w] /\ \A x \in Task : x # t /\ x # w => e[x] = eff[x] /\ f[x] = eff[x]
  <2>1. \A x \in Task : x # w => e[x] = eff[x]
    BY Links, <1>2
  <2>2. f[t] = p /\ \A x \in Task : x # t => f[x] = e[x]
    BY <1>1, <1>2, <1>3
  <2> QED BY <1>2, <2>1, <2>2
<1>5. \A n \in Mutex : \A x \in ToSet(rest[n]) : e[x] = eff[x] /\ f[x] = eff[x] /\ f[x] = e[x]
  <2>1. SUFFICES ASSUME NEW n \in Mutex, NEW x \in ToSet(rest[n])
                 PROVE  e[x] = eff[x] /\ f[x] = eff[x] /\ f[x] = e[x]
    OBVIOUS
  <2>2. x \in Task
    BY <1>1, HeadElement
  <2>3. x # t /\ x # w
    BY <1>2, SMTT(60)
  <2> QED BY <1>4, <2>2, <2>3
<1>6. IsInherited(f[w], base[w], held'[w], rest, f)
  <2>0. held[w] \cup {m} \in SUBSET Mutex
    BY Links
  <2>1. PICK theirs \in SUBSET Mutex : theirs = held[w] \cup {m}
    BY <2>0
  <2>2. PICK b : b = base[w]
    OBVIOUS
  <2>3. PICK q : q = e[w]
    OBVIOUS
  <2>4. /\ eff \in [Task -> Prio] /\ f \in [Task -> Prio] /\ rest \in [Mutex -> Seq(Task)]
        /\ IsInherited(q, b, theirs, rest, eff)
    BY Links, <1>1, <1>2, <1>3, <2>1, <2>2, <2>3
  <2>5. \A n \in theirs : \A x \in ToSet(rest[n]) : f[x] = eff[x]
    BY <1>5, <2>1
  <2>6. IsInherited(q, b, theirs, rest, f)
    BY <2>4, <2>5, SameHeads
  <2>7. held'[w] = theirs
    BY Links, <1>2, <2>1
  <2> QED BY <1>4, <2>2, <2>3, <2>6, <2>7
<1>7. IsInherited(f[t], base[t], held'[t], rest, f)
  <2>1. PICK mine \in SUBSET Mutex : mine = held[t] \ {m}
    BY Links, ZenonT(60)
  <2>2. PICK b : b = base[t]
    OBVIOUS
  <2>3. /\ e \in [Task -> Prio] /\ f \in [Task -> Prio] /\ rest \in [Mutex -> Seq(Task)]
        /\ IsInherited(p, b, mine, rest, e)
    BY <1>1, <1>2, <1>3, <2>1, <2>2
  <2>4. \A n \in mine : \A x \in ToSet(rest[n]) : f[x] = e[x]
    BY <1>5, <2>1
  <2>5. IsInherited(p, b, mine, rest, f)
    BY <2>3, <2>4, SameHeads
  <2>6. held'[t] = mine
    BY Links, <1>2, <2>1
  <2> QED BY <1>4, <2>2, <2>5, <2>6
<1>8. ASSUME NEW u \in Task \ {walk}, u # t, u # w
      PROVE  IsInherited(eff'[u], base'[u], held'[u], waiters', eff')
  <2>1. eff'[u] = eff[u] /\ base'[u] = base[u] /\ held'[u] = held[u]
    BY Links, <1>2, <1>3, <1>4, <1>8
  <2>2. \A n \in held[u] : n \in Mutex /\ n # m
    BY Links, <1>2, <1>8
  <2>3. \A n \in held[u] : waiters'[n] = waiters[n]
    BY Links, <1>2, <2>2
  <2>4. \A n \in held[u] : \A x \in ToSet(waiters[n]) : eff'[x] = eff[x]
    BY <1>2, <1>3, <1>5, <2>2, <2>3, SMTT(60)
  <2> QED BY <2>1, <2>3, <2>4, OthersExact
<1> QED BY <1>2, <1>3, <1>6, <1>7, <1>8 DEF Exact

(***************************************************************************)
(* Every step keeps the inheritance exact.                                 *)
(***************************************************************************)
LEMMA NextExact ==
    ASSUME BootAssumption, MutexAssumption, IInv, Exact, [Next]_vars
    PROVE  Exact'
<1>1. IInv'
  BY NextIInv
<1>2. CASE UNCHANGED <<base, eff, held, waiters, walk, repri>>
  BY <1>2 DEF Exact
<1>3. ASSUME NEW t \in Task, ExpireCleanup(t) PROVE Exact'
  <2>1. PICK m \in Mutex : m = waiting_on[t]
    BY Links, <1>3 DEF ExpireCleanup
  <2>2. /\ waiters' = [waiters EXCEPT ![m] = RemoveWaiter(waiters[m], t)]
        /\ walk' = owner[m] /\ UNCHANGED <<base, eff, held, repri>>
    BY <1>3, <2>1 DEF ExpireCleanup, schedVars
  <2>3. walk = None
    BY <1>3 DEF ExpireCleanup, Masked
  <2>4. \A n \in Mutex : n # m => waiters'[n] = waiters[n]
    BY Links, <2>2
  <2> QED BY <1>1, <2>2, <2>3, <2>4, ListStepExact
<1>4. ASSUME NEW t \in Task, NEW m \in Mutex, NEW finite \in BOOLEAN, LockBlock(t, m, finite)
      PROVE  Exact'
  <2>1. /\ waiters' = [waiters EXCEPT ![m] = InsertWaiter(waiters[m], t, eff)]
        /\ walk' = owner[m] /\ UNCHANGED <<base, eff, held, repri>>
    BY <1>4 DEF LockBlock
  <2>2. walk = None
    BY <1>4, CallerRuns DEF LockBlock
  <2>3. \A n \in Mutex : n # m => waiters'[n] = waiters[n]
    BY Links, <2>1
  <2> QED BY <1>1, <2>1, <2>2, <2>3, ListStepExact
<1> QED BY <1>1, <1>2, <1>3, <1>4, QuietOrNot, RecomputeExact, LockFreeExact, UnlockFreeExact,
           UnlockHandoffExact, SMTT(60)

(***************************************************************************)
(* At the start nobody holds anything and runs at the base priority.       *)
(***************************************************************************)
LEMMA InitExact ==
    ASSUME BootAssumption, Init
    PROVE  Exact
<1>1. /\ base = BootBase /\ eff = BootBase /\ ~repri /\ waiters = [m \in Mutex |-> <<>>]
      /\ held = [t \in Task |-> {}]
  BY DEF Init, SchedInit
<1>2. ASSUME NEW t \in Task PROVE IsInherited(eff[t], base[t], held[t], waiters, eff)
  <2>1. held[t] = {} /\ eff[t] = base[t] /\ base[t] \in Nat
    BY <1>1, BootAssumption DEF Prio
  <2>2. HeadPriorities({}, waiters, eff) = {}
    BY DEF HeadPriorities
  <2> QED BY <2>1, <2>2 DEF IsInherited
<1> QED BY <1>1, <1>2 DEF Exact

(***************************************************************************)
(* Priority inheritance is exact at all times: boosted through every chain *)
(* of owners and dropped again (mutex_recompute_task_priority).            *)
(***************************************************************************)
THEOREM InheritanceExact == Spec => []PriorityInherited
<1>1. Init => Exact
  BY InitExact, BootAssumption
<1>2. IInv /\ Exact /\ [Next]_vars => Exact'
  BY NextExact, BootAssumption, MutexAssumption
<1>3. Exact => PriorityInherited
  BY DEF Exact, PriorityInherited
<1> QED BY <1>1, <1>2, <1>3, Invariance, PTL DEF Spec

-----------------------------------------------------------------------------
(* Order of arrival.                                                       *)

\* v comes after u in s.
Follows(s, u, v) == \E k, l \in 1 .. Len(s) : k < l /\ s[k] = u /\ s[l] = v

(***************************************************************************)
(* Taking a waiter out does not reorder the others.                        *)
(***************************************************************************)
LEMMA RemoveKeepsOrder ==
    ASSUME NEW s \in Seq(Task), NEW t \in Task, NEW u, NEW v,
           Follows(RemoveWaiter(s, t), u, v)
    PROVE  Follows(s, u, v)
<1>1. CASE t \notin ToSet(s)
  BY <1>1, RemoveAbsent DEF RemoveWaiter
<1>2. CASE t \in ToSet(s)
  <2>1. PICK r : r = RemoveWaiter(s, t)
    OBVIOUS
  <2>2. PICK k \in 1 .. Len(s) : r = RemoveAt(s, k)
    BY <1>2, <2>1, RemovePresent DEF RemoveWaiter
  <2>3. /\ Len(r) = Len(s) - 1
        /\ \A i \in 1 .. Len(s) - 1 : r[i] = IF i < k THEN s[i] ELSE s[i + 1]
    BY <2>2, RemoveAtPlaces
  <2>4. PICK i \in 1 .. Len(r), j \in 1 .. Len(r) : i < j /\ r[i] = u /\ r[j] = v
    BY <2>1 DEF Follows
  <2>5. PICK a \in 1 .. Len(s) : a = (IF i < k THEN i ELSE i + 1) /\ r[i] = s[a]
    BY <2>3, <2>4
  <2>6. PICK b \in 1 .. Len(s) : b = (IF j < k THEN j ELSE j + 1) /\ r[j] = s[b]
    BY <2>3, <2>4
  <2>7. a < b
    BY <2>4, <2>5, <2>6
  <2> QED BY <2>4, <2>5, <2>6, <2>7 DEF Follows
<1> QED BY <1>1, <1>2

(***************************************************************************)
(* A waiter put into a sorted list goes behind its equals.                 *)
(***************************************************************************)
LEMMA InsertGoesBehind ==
    ASSUME BootAssumption, NEW s \in Seq(Task), NEW t \in Task, NEW e \in [Task -> Prio],
           Sorted(s, e), NEW u \in Task, NEW v \in Task, v # t, e[u] = e[v],
           Follows(InsertWaiter(s, t, e), u, v)
    PROVE  Follows(s, u, v)
<1>1. PICK r : r = InsertWaiter(s, t, e)
  OBVIOUS
<1>2. PICK k \in 1 .. Len(s) + 1 :
              /\ r = InsertAt(s, k, t)
              /\ \A i \in 1 .. Len(s) : i < k => ~ (e[s[i]] > e[t])
              /\ k <= Len(s) => e[s[k]] > e[t]
  BY <1>1, InsertWaiterPlace
<1>3. /\ r \in Seq(Task) /\ Len(r) = Len(s) + 1
      /\ \A i \in 1 .. Len(s) + 1 :
            r[i] = IF i < k THEN s[i] ELSE IF i = k THEN t ELSE s[i - 1]
  <2>1. /\ InsertAt(s, k, t) \in Seq(Task) /\ Len(InsertAt(s, k, t)) = Len(s) + 1
        /\ \A i \in 1 .. Len(s) + 1 :
              InsertAt(s, k, t)[i] = IF i < k THEN s[i] ELSE IF i = k THEN t ELSE s[i - 1]
    BY InsertAtPlaces
  <2> QED BY <1>2, <2>1
<1>4. /\ \A x \in 1 .. Len(s) : x < k => r[x] = s[x]
      /\ r[k] = t
      /\ \A x \in 1 .. Len(s) : x >= k => r[x + 1] = s[x]
  <2>1. \A x \in 1 .. Len(s) : x < k => r[x] = s[x]
    BY <1>3, SMTT(60)
  <2>2. r[k] = t
    BY <1>3
  <2>3. ASSUME NEW x \in 1 .. Len(s), x >= k PROVE r[x + 1] = s[x]
    <3>1. x + 1 \in 1 .. Len(s) + 1 /\ ~(x + 1 < k) /\ x + 1 # k /\ (x + 1) - 1 = x
      BY <2>3
    <3> QED BY <1>3, <3>1, ZenonT(60)
  <2> QED BY <2>1, <2>2, <2>3
<1>5. PICK i \in 1 .. Len(r), j \in 1 .. Len(r) : i < j /\ r[i] = u /\ r[j] = v
  BY <1>1 DEF Follows
<1>8. ASSUME NEW x \in 1 .. Len(r), x # k
      PROVE  \E b \in 1 .. Len(s) : r[x] = s[b] /\ ((x < k /\ b = x) \/ (x > k /\ x = b + 1))
  <2>1. CASE x < k
    <3>1. x \in 1 .. Len(s) /\ r[x] = s[x]
      BY <1>3, <1>4, <2>1
    <3> QED BY <2>1, <3>1
  <2>2. CASE x > k
    <3>1. PICK b \in 1 .. Len(s) : x = b + 1 /\ b >= k
      <4>1. x - 1 \in 1 .. Len(s) /\ x = (x - 1) + 1 /\ x - 1 >= k
        BY <1>3, <2>2
      <4> QED BY <4>1
    <3>2. r[x] = s[b]
      BY <1>4, <3>1
    <3> QED BY <2>2, <3>1, <3>2
  <2> QED BY <1>3, <1>8, <2>1, <2>2
<1>9. j # k
  BY <1>4, <1>5
<1>10. PICK b \in 1 .. Len(s) : r[j] = s[b] /\ ((j < k /\ b = j) \/ (j > k /\ j = b + 1))
  BY <1>8, <1>9
<1>6. CASE i # k
  <2>1. PICK a \in 1 .. Len(s) : r[i] = s[a] /\ ((i < k /\ a = i) \/ (i > k /\ i = a + 1))
    BY <1>6, <1>8
  <2>2. a < b
    BY <1>3, <1>5, <1>10, <2>1, SMTT(60)
  <2> QED BY <1>5, <1>10, <2>1, <2>2 DEF Follows
<1>7. CASE i = k
  <2>1. u = t /\ k <= b /\ k \in 1 .. Len(s)
    BY <1>3, <1>4, <1>5, <1>7, <1>10, SMTT(60)
  <2>2. s[k] \in Task /\ s[b] \in Task
    BY <1>10, <2>1, SMTT(60)
  <2>3. Prio \subseteq Nat
    BY BootAssumption DEF Prio
  <2>4. PICK c \in Nat : c = e[t]
    BY <2>3
  <2>5. PICK d \in Nat : d = e[s[k]]
    BY <2>2, <2>3
  <2>6. d > c
    BY <1>2, <2>1, <2>4, <2>5
  <2>7. e[s[b]] = c
    BY <1>5, <1>10, <2>1, <2>4
  <2>8. CASE k = b
    BY <2>5, <2>6, <2>7, <2>8
  <2>9. CASE k < b
    <3>1. \A x, y \in 1 .. Len(s) : x < y => e[s[x]] <= e[s[y]]
      BY DEF Sorted
    <3>2. d <= c
      BY <2>1, <2>5, <2>7, <2>9, <3>1
    <3> QED BY <2>6, <3>2
  <2> QED BY <2>1, <2>8, <2>9
<1> QED BY <1>6, <1>7

\* e is eff after x has been given the priority p.
NewPriority(e, x, p) == e = [eff EXCEPT ![x] = p]

(***************************************************************************)
(* Moving a waiter whose priority changed puts it behind its new equals.   *)
(***************************************************************************)
LEMMA MovedGoesBehind ==
    ASSUME BootAssumption, MutexAssumption, IInv, WaitersSorted,
           NEW x \in Task, NEW p \in Prio, NEW e, NewPriority(e, x, p),
           NEW m \in Mutex, NEW u \in Task, NEW v \in Task,
           Follows(Moved(x, e)[m], u, v), e[u] = e[v], eff[v] = e[v]
    PROVE  Follows(waiters[m], u, v)
<1>1. e = [eff EXCEPT ![x] = p]
  BY DEF NewPriority
<1>2. CASE ~Moves(x, e) \/ waiting_on[x] # m
  <2>1. Moved(x, e)[m] = waiters[m]
    BY Links, <1>2 DEF Moved, Moves
  <2> QED BY <1>1, <2>1
<1>3. CASE Moves(x, e) /\ waiting_on[x] = m
  <2>1. PICK s : s = RemoveWaiter(waiters[m], x)
    OBVIOUS
  <2>2. IsInjective(waiters[m]) /\ Sorted(waiters[m], eff)
    BY DEF IInv, LockInv, LockStructure, WaitersSorted, Sorted
  <2>3. waiters[m] \in Seq(Task) /\ eff \in [Task -> Prio] /\ e \in [Task -> Prio]
    <3>1. waiters[m] \in Seq(Task) /\ eff \in [Task -> Prio]
      BY Links
    <3> QED BY <1>1, <3>1
  <2>4. s \in Seq(Task) /\ ToSet(s) = ToSet(waiters[m]) \ {x}
    BY <2>1, <2>2, <2>3, RemoveFirstElements, SMTT(60) DEF RemoveWaiter
  <2>5. Sorted(s, eff)
    BY <2>1, <2>2, <2>3, RemoveKeepsSorted
  <2>6. Sorted(s, e)
    BY <1>1, <2>3, <2>4, <2>5, SortedElsewhere
  <2>7. Moved(x, e)[m] = InsertWaiter(s, x, e)
    BY Links, <1>3, <2>1 DEF Moved
  <2>8. v # x
    BY <1>1, <1>3 DEF Moves
  <2>9. Follows(InsertWaiter(s, x, e), u, v)
    BY <1>1, <2>7
  <2>10. Follows(s, u, v)
    BY <1>1, <2>3, <2>4, <2>6, <2>8, <2>9, InsertGoesBehind
  <2> QED BY <2>1, <2>3, <2>10, RemoveKeepsOrder
<1> QED BY <1>2, <1>3

(***************************************************************************)
(* No step puts a waiter ahead of one that was there with its priority.    *)
(***************************************************************************)
LEMMA NextGoesBehind ==
    ASSUME BootAssumption, MutexAssumption, IInv, WaitersSorted, [Next \/ Repri]_vars,
           NEW m \in Mutex, NEW u \in Task, NEW v \in Task,
           Follows(waiters'[m], u, v), eff'[u] = eff'[v], waiting_on[v] = m, eff[v] = eff'[v]
    PROVE  Follows(waiters[m], u, v)
<1>1. CASE waiters' = waiters
  BY <1>1
<1>2. CASE Recompute
  <2>1. PICK x \in Task : x = walk
    BY Links, <1>2 DEF Recompute
  <2>2. PICK p : p = Inherited(base[x], held[x], waiters, eff)
    OBVIOUS
  <2>3. p \in Prio
    <3>1. /\ base[x] \in Prio /\ held[x] \in SUBSET Mutex
          /\ waiters \in [Mutex -> Seq(Task)] /\ eff \in [Task -> Prio]
      BY Links, SMTT(60)
    <3> QED BY <2>2, <3>1, InheritedExists
  <2>4. PICK e : e = [eff EXCEPT ![x] = p]
    OBVIOUS
  <2>5. eff' = e /\ waiters' = Moved(x, e)
    BY <1>2, <2>1, <2>2, <2>4 DEF Recompute
  <2>6. /\ NewPriority(e, x, p)
        /\ Follows(Moved(x, e)[m], u, v) /\ e[u] = e[v] /\ eff[v] = e[v]
    BY <2>4, <2>5 DEF NewPriority
  <2> QED BY <2>1, <2>3, <2>6, MovedGoesBehind
<1>3. ASSUME NEW t \in Task, NEW x \in Task, NEW p \in Prio, SetPriority(t, x, p)
      PROVE  Follows(waiters[m], u, v)
  <2>1. PICK q : q = IF eff[x] < base[x] /\ eff[x] < p THEN eff[x] ELSE p
    OBVIOUS
  <2>2. PICK e : e = [eff EXCEPT ![x] = q]
    OBVIOUS
  <2>3. eff' = e /\ waiters' = Moved(x, e)
    BY <1>3, <2>1, <2>2 DEF SetPriority
  <2>4. q \in Prio
    BY Links, <2>1
  <2>5. /\ NewPriority(e, x, q)
        /\ Follows(Moved(x, e)[m], u, v) /\ e[u] = e[v] /\ eff[v] = e[v]
    BY <2>2, <2>3 DEF NewPriority
  <2> QED BY <2>4, <2>5, MovedGoesBehind, SMTT(60)
<1>4. ASSUME NEW t \in Task, NEW n \in Mutex, waiters' = [waiters EXCEPT ![n] = RemoveWaiter(@, t)]
      PROVE  Follows(waiters[m], u, v)
  <2>1. CASE n # m
    BY Links, <1>4, <2>1
  <2>2. CASE n = m
    <3>1. waiters[m] \in Seq(Task) /\ Follows(RemoveWaiter(waiters[m], t), u, v)
      BY Links, <1>4, <2>2
    <3> QED BY <3>1, RemoveKeepsOrder
  <2> QED BY <2>1, <2>2
<1>5. ASSUME NEW t \in Task, ExpireCleanup(t) PROVE Follows(waiters[m], u, v)
  <2>1. PICK n \in Mutex : n = waiting_on[t]
    BY Links, <1>5 DEF ExpireCleanup
  <2>2. waiters' = [waiters EXCEPT ![n] = RemoveWaiter(@, t)]
    BY <1>5, <2>1 DEF ExpireCleanup
  <2> QED BY <1>4, <2>2
<1>6. ASSUME NEW t \in Task, NEW n \in Mutex, NEW finite \in BOOLEAN, LockBlock(t, n, finite)
      PROVE  Follows(waiters[m], u, v)
  <2>1. /\ waiters' = [waiters EXCEPT ![n] = InsertWaiter(@, t, eff)] /\ eff' = eff
        /\ waiting_on[t] = None
    BY <1>6, CallerRuns DEF LockBlock
  <2>2. CASE n # m
    BY Links, <2>1, <2>2
  <2>3. CASE n = m
    <3>1. waiters[m] \in Seq(Task) /\ eff \in [Task -> Prio]
      BY Links
    <3>2. Sorted(waiters[m], eff)
      BY DEF WaitersSorted, Sorted
    <3>3. v # t /\ eff[u] = eff[v]
      BY <2>1, MutexAssumption
    <3>4. Follows(InsertWaiter(waiters[m], t, eff), u, v)
      BY Links, <2>1, <2>3
    <3> QED BY <3>1, <3>2, <3>3, <3>4, InsertGoesBehind
  <2> QED BY <2>2, <2>3
<1>7. ASSUME NEW t \in Task, NEW n \in Mutex, UnlockHandoff(t, n)
      PROVE  Follows(waiters[m], u, v)
  <2>1. PICK w \in Task : waiters' = [waiters EXCEPT ![n] = RemoveWaiter(@, w)]
    <3>1. PICK w \in Task, rest \in [Mutex -> Seq(Task)], e \in [Task -> Prio], p \in Prio :
                HandoffTo(t, n, w, rest, e, p)
      BY <1>7, HandoffChanges
    <3> QED BY <3>1 DEF HandoffTo
  <2> QED BY <1>4, <2>1
<1>8. CASE Repri
  <2>1. CASE SetPriorityEnd
    BY <1>1, <2>1 DEF SetPriorityEnd
  <2> QED BY <1>3, <1>8, <2>1 DEF Repri
<1>9. CASE [Next]_vars
  <2>1. ASSUME NEW t \in Task, NEW n \in Mutex, LockFree(t, n) \/ UnlockFree(t, n)
        PROVE  waiters' = waiters
    BY <2>1 DEF LockFree, UnlockFree
  <2> QED BY <1>1, <1>2, <1>5, <1>6, <1>7, <1>9, <2>1, QuietOrNot
<1> QED BY <1>8, <1>9

(***************************************************************************)
(* Equals are served in the order they came to their priority              *)
(* (mutex_waiter_insert, xrtos_mutex_waiter_priority_changed).             *)
(***************************************************************************)
THEOREM ServedInOrder == SpecRepri => FifoAmongEquals
<1>1. ASSUME BootAssumption, MutexAssumption, IInv, IInv', WaitersSorted, [Next \/ Repri]_vars,
             NEW m \in Mutex, NEW i \in 1 .. Len(waiters'[m]), NEW j \in 1 .. Len(waiters'[m]),
             i < j, eff'[waiters'[m][i]] = eff'[waiters'[m][j]],
             waiting_on[waiters'[m][j]] = m,
             eff[waiters'[m][j]] = eff'[waiters'[m][j]]
      PROVE  \E k, l \in 1 .. Len(waiters[m]) :
                k < l /\ waiters[m][k] = waiters'[m][i] /\ waiters[m][l] = waiters'[m][j]
  <2>1. waiters'[m] \in Seq(Task)
    BY <1>1 DEF IInv, TypeOK
  <2>2. PICK u \in Task : u = waiters'[m][i]
    BY <2>1
  <2>3. PICK v \in Task : v = waiters'[m][j]
    BY <2>1
  <2>4. Follows(waiters'[m], u, v)
    BY <1>1, <2>2, <2>3 DEF Follows
  <2>5. Follows(waiters[m], u, v)
    BY <1>1, <2>2, <2>3, <2>4, NextGoesBehind
  <2> QED BY <2>2, <2>3, <2>5 DEF Follows
<1>2. IInv /\ IInv' /\ WaitersSorted /\ [Next \/ Repri]_vars =>
        [\A m \in Mutex : \A i, j \in 1 .. Len(waiters'[m]) :
           LET u == waiters'[m][i]
               v == waiters'[m][j]
           IN  (i < j /\ eff'[u] = eff'[v] /\ waiting_on[v] = m /\ eff[v] = eff'[v]) =>
                  \E k, l \in 1 .. Len(waiters[m]) :
                     k < l /\ waiters[m][k] = u /\ waiters[m][l] = v]_vars
  BY <1>1, BootAssumption, MutexAssumption
<1> QED BY <1>2, InvarianceRepri, AlwaysSorted, PTL DEF SpecRepri, FifoAmongEquals

-----------------------------------------------------------------------------
(* The software timers.                                                    *)

Slack == MaxLag + 1

\* The place of tick x in the window of tick c, which is itself at Slack.
PosAt(x, c) == (x + TickMod + Slack - c) % TickMod
Pos(x) == PosAt(x, tick)

TimerTypeOK ==
    /\ deferred \in Methods
    /\ tick \in Ticks /\ now \in Ticks /\ next_expiry \in Ticks
    /\ expiry \in [Timer -> Ticks]
    /\ active \subseteq Timer /\ scan \subseteq Timer
    /\ signal \in 0 .. 1 /\ lag \in 0 .. MaxLag
    /\ mode \in {"wait", "awake", "scan", "callback", "recompute"}
    /\ firing \in Timer \cup {NoTimer}

\* Where the daemon or the handler is, and what it keeps meanwhile.
Phases ==
    /\ mode = "callback" <=> firing # NoTimer
    /\ mode \in {"wait", "awake", "recompute"} => scan = {}
    /\ ~ deferred => mode \in {"wait", "scan", "callback"} /\ signal = 0 /\ lag = 0

\* A deadline is at most a period ahead and at most lag ticks past.
InWindow == \A t \in active \cup scan : Pos(expiry[t]) \in Slack - lag .. Slack + Period[t]

\* So is the tick that a scan compares with.
ScanInWindow == mode \in {"scan", "callback"} => Pos(now) \in Slack - lag .. Slack

\* The next deadline precedes every other, and is in the window with them.
NextIsFirst ==
    deferred /\ active # {} =>
        /\ Pos(next_expiry) >= Slack - lag
        /\ Asleep => Pos(next_expiry) > Slack
        /\ \A t \in active : Pos(next_expiry) <= Pos(expiry[t])

\* A timer that is due, and that no signal announces, is about to be served.
ServedSoon ==
    signal = 0 /\ mode # "awake" =>
        \A t \in active : Pos(expiry[t]) <= Slack =>
            t = firing \/ (t \in scan /\ Pos(expiry[t]) <= Pos(now))

TimersInv == TimerTypeOK /\ Phases /\ InWindow /\ ScanInWindow /\ NextIsFirst /\ ServedSoon

-----------------------------------------------------------------------------
(***************************************************************************)
(* A set of numbers that has members has a least one, which Min chooses:   *)
(* the first set bit of the daemon's bitmap.                               *)
(***************************************************************************)
LEMMA MinIsLeast ==
    ASSUME NEW S \in SUBSET Nat, S # {}
    PROVE  Min(S) \in S /\ \A x \in S : Min(S) <= x
<1>1. PICK x \in S : \A y \in S : ~ (<<y, x>> \in OpToRel(<, Nat))
  BY NatLessThanWellFounded, WFMin
<1>2. ASSUME NEW y \in S PROVE x <= y
  <2>1. <<y, x>> \in Nat \X Nat /\ ~ (<<y, x>> \in OpToRel(<, Nat))
    BY <1>1
  <2>2. ~ (y < x)
    BY <2>1 DEF OpToRel
  <2> QED BY <2>2
<1> QED BY <1>2 DEF Min

-----------------------------------------------------------------------------
(* Ticks.                                                                  *)

(***************************************************************************)
(* The remainder of a number that passes the modulus twice at most.        *)
(***************************************************************************)
LEMMA Wrap ==
    ASSUME NEW m \in Nat \ {0}, NEW n \in Nat
    PROVE  /\ n % m \in 0 .. m - 1
           /\ n < m => n % m = n
           /\ m <= n /\ n < 2 * m => n % m = n - m
           /\ 2 * m <= n /\ n < 3 * m => n % m = n - 2 * m
OBVIOUS

(***************************************************************************)
(* The place of a tick, without a remainder.                               *)
(***************************************************************************)
LEMMA PosValue ==
    ASSUME NEW c \in Ticks, NEW x \in Ticks
    PROVE  /\ PosAt(x, c) \in 0 .. TickMod - 1
           /\ \/ PosAt(x, c) = x + Slack - c
              \/ PosAt(x, c) = x + Slack - c + TickMod
              \/ PosAt(x, c) = x + Slack - c - TickMod
<1>1. TickMod \in Nat \ {0} /\ Slack \in Nat /\ 2 * Slack < TickMod
  BY TimerAssumption DEF Slack
<1>2. PICK n : n = x + TickMod + Slack - c
  OBVIOUS
<1>3. n \in Nat /\ n < 3 * TickMod
  BY <1>1, <1>2 DEF Ticks
<1>4. PosAt(x, c) = n % TickMod
  BY <1>2 DEF PosAt
<1>5. /\ n % TickMod \in 0 .. TickMod - 1
      /\ n % TickMod = n \/ n % TickMod = n - TickMod \/ n % TickMod = n - 2 * TickMod
  BY <1>1, <1>3
<1> QED BY <1>1, <1>2, <1>4, <1>5 DEF Ticks

(***************************************************************************)
(* Two ticks in the first half of the window compare as their places do    *)
(* (xRTOS_Tick_Has_Expired).                                               *)
(***************************************************************************)
LEMMA Compare ==
    ASSUME NEW c \in Ticks, NEW x \in Ticks, NEW y \in Ticks,
           2 * PosAt(x, c) < TickMod, 2 * PosAt(y, c) < TickMod
    PROVE  HasExpired(x, y) <=> PosAt(y, c) <= PosAt(x, c)
<1>1. TickMod \in Nat \ {0} /\ Slack \in Nat
  BY TimerAssumption DEF Slack
<1>2. PICK n : n = x + TickMod - y
  OBVIOUS
<1>3. n \in Nat /\ n < 2 * TickMod
  BY <1>1, <1>2 DEF Ticks
<1>4. HasExpired(x, y) <=> 2 * (n % TickMod) < TickMod
  BY <1>2 DEF HasExpired
<1>5. PICK p, q : p = PosAt(x, c) /\ q = PosAt(y, c)
  OBVIOUS
<1>6. /\ p \in 0 .. TickMod - 1 /\ q \in 0 .. TickMod - 1 /\ 2 * p < TickMod /\ 2 * q < TickMod
      /\ p = x + Slack - c \/ p = x + Slack - c + TickMod \/ p = x + Slack - c - TickMod
      /\ q = y + Slack - c \/ q = y + Slack - c + TickMod \/ q = y + Slack - c - TickMod
  BY <1>5, PosValue
<1>7. x - y \in {p - q, p - q + TickMod, p - q - TickMod, p - q + 2 * TickMod, p - q - 2 * TickMod}
  BY <1>1, <1>6 DEF Ticks
<1>8. x - y \in {p - q, p - q + TickMod, p - q - TickMod}
  BY <1>1, <1>6, <1>7 DEF Ticks
<1>9. n % TickMod = IF n < TickMod THEN n ELSE n - TickMod
  BY <1>1, <1>3
<1>10. n % TickMod = IF q <= p THEN p - q ELSE p - q + TickMod
  BY <1>1, <1>2, <1>3, <1>6, <1>8, <1>9 DEF Ticks
<1> QED BY <1>1, <1>4, <1>5, <1>6, <1>10

(***************************************************************************)
(* The present tick, and one that is n ticks away.                         *)
(***************************************************************************)
LEMMA PosLater ==
    ASSUME tick \in Ticks, NEW n \in Nat, 2 * (n + Slack) < TickMod
    PROVE  /\ Later(n) \in Ticks /\ Pos(Later(n)) = Slack + n
           /\ Pos(tick) = Slack
<1>1. TickMod \in Nat \ {0} /\ Slack \in Nat
  BY TimerAssumption DEF Slack
<1>2. tick + n \in Nat /\ tick + n < 2 * TickMod
  BY <1>1 DEF Ticks
<1>3. Later(n) \in Ticks /\ (Later(n) = tick + n \/ Later(n) = tick + n - TickMod)
  BY <1>1, <1>2 DEF Later, Ticks
<1>4. PICK l, p, q : l = Later(n) /\ p = Pos(Later(n)) /\ q = Pos(tick)
  OBVIOUS
<1>5. /\ p \in 0 .. TickMod - 1 /\ q \in 0 .. TickMod - 1
      /\ p = l + Slack - tick \/ p = l + Slack - tick + TickMod \/ p = l + Slack - tick - TickMod
      /\ q = Slack \/ q = Slack + TickMod \/ q = Slack - TickMod
  <2>1. l \in Ticks /\ p = PosAt(l, tick) /\ q = PosAt(tick, tick)
    BY <1>3, <1>4 DEF Pos
  <2>2. /\ p \in 0 .. TickMod - 1
        /\ p = l + Slack - tick \/ p = l + Slack - tick + TickMod \/ p = l + Slack - tick - TickMod
    BY <2>1, PosValue
  <2>3. /\ q \in 0 .. TickMod - 1
        /\ \/ q = tick + Slack - tick \/ q = tick + Slack - tick + TickMod
           \/ q = tick + Slack - tick - TickMod
    BY <2>1, PosValue
  <2> QED BY <1>1, <2>2, <2>3 DEF Ticks
<1>6. p = Slack + n /\ q = Slack
  BY <1>1, <1>3, <1>4, <1>5 DEF Ticks
<1> QED BY <1>3, <1>4, <1>6

LEMMA NextTick ==
    ASSUME tick \in Ticks
    PROVE  Later(1) \in Ticks /\ (Later(1) = tick + 1 \/ Later(1) = tick + 1 - TickMod)
<1>1. TickMod \in Nat \ {0} /\ tick + 1 \in Nat /\ tick + 1 < 2 * TickMod
  BY TimerAssumption DEF Ticks
<1> QED BY <1>1 DEF Later, Ticks

(***************************************************************************)
(* A tick moves the window by one place.                                   *)
(***************************************************************************)
LEMMA TickMoves ==
    ASSUME tick \in Ticks, NEW x \in Ticks, Pos(x) > 0
    PROVE  Later(1) \in Ticks /\ PosAt(x, Later(1)) = Pos(x) - 1
<1>1. TickMod \in Nat \ {0} /\ Slack \in Nat /\ 2 * Slack < TickMod
  BY TimerAssumption DEF Slack
<1>2. Later(1) \in Ticks /\ (Later(1) = tick + 1 \/ Later(1) = tick + 1 - TickMod)
  BY NextTick
<1>3. PICK p, q : p = Pos(x) /\ q = PosAt(x, Later(1))
  OBVIOUS
<1>4. /\ p \in 0 .. TickMod - 1 /\ q \in 0 .. TickMod - 1
      /\ p = x + Slack - tick \/ p = x + Slack - tick + TickMod \/ p = x + Slack - tick - TickMod
      /\ \/ q = x + Slack - Later(1) \/ q = x + Slack - Later(1) + TickMod
         \/ q = x + Slack - Later(1) - TickMod
  BY <1>2, <1>3, PosValue DEF Pos
<1>5. q - p + 1 \in {0, TickMod, 0 - TickMod, 2 * TickMod, 0 - 2 * TickMod, 3 * TickMod, 0 - 3 * TickMod}
  BY <1>1, <1>2, <1>4 DEF Ticks
<1>6. q = p - 1
  BY <1>1, <1>3, <1>4, <1>5
<1> QED BY <1>2, <1>3, <1>6

-----------------------------------------------------------------------------
(* What the invariant says of comparisons.                                 *)

LEMMA Sizes ==
    /\ TickMod \in Nat \ {0} /\ Slack \in Nat \ {0} /\ MaxLag \in Nat /\ MaxLag = Slack - 1
    /\ 2 * Slack < TickMod
    /\ \A t \in Timer : Period[t] \in Nat \ {0} /\ 2 * (Period[t] + Slack) < TickMod
    /\ NoTimer \notin Timer /\ Timer \subseteq Nat
BY TimerAssumption DEF Slack

(***************************************************************************)
(* Every deadline that is looked at lies in the first half of the window,  *)
(* and so do the tick a scan compares with and the next deadline.          *)
(***************************************************************************)
LEMMA Comparable ==
    ASSUME TimersInv
    PROVE  /\ \A t \in active \cup scan :
                 expiry[t] \in Ticks /\ Pos(expiry[t]) \in Nat /\ 2 * Pos(expiry[t]) < TickMod
           /\ mode \in {"scan", "callback"} => Pos(now) \in Nat /\ 2 * Pos(now) < TickMod
           /\ deferred /\ active # {} => Pos(next_expiry) \in Nat /\ 2 * Pos(next_expiry) < TickMod
<1>1. /\ now \in Ticks /\ next_expiry \in Ticks /\ tick \in Ticks /\ expiry \in [Timer -> Ticks]
      /\ active \subseteq Timer /\ scan \subseteq Timer /\ lag \in 0 .. MaxLag
  BY DEF TimersInv, TimerTypeOK
<1>2. ASSUME NEW t \in active \cup scan
      PROVE  expiry[t] \in Ticks /\ Pos(expiry[t]) \in Nat /\ 2 * Pos(expiry[t]) < TickMod
  <2>1. t \in Timer /\ Pos(expiry[t]) \in Slack - lag .. Slack + Period[t]
    BY <1>1, <1>2 DEF TimersInv, InWindow
  <2>2. expiry[t] \in Ticks
    BY <1>1, <2>1
  <2> QED BY <1>1, <2>1, <2>2, Sizes
<1>3. mode \in {"scan", "callback"} => Pos(now) \in Nat /\ 2 * Pos(now) < TickMod
  BY <1>1, Sizes DEF TimersInv, ScanInWindow
<1>4. ASSUME deferred, active # {}
      PROVE  Pos(next_expiry) \in Nat /\ 2 * Pos(next_expiry) < TickMod
  <2>1. PICK t \in active : TRUE
    BY <1>4
  <2>2. Pos(next_expiry) <= Pos(expiry[t]) /\ Pos(next_expiry) \in 0 .. TickMod - 1
    BY <1>1, <1>4, PosValue DEF TimersInv, NextIsFirst, Pos
  <2> QED BY <1>2, <2>2, Sizes
<1> QED BY <1>2, <1>3, <1>4

LEMMA ExpiredInWindow ==
    ASSUME tick \in Ticks, NEW x \in Ticks, NEW y \in Ticks,
           2 * Pos(x) < TickMod, 2 * Pos(y) < TickMod
    PROVE  HasExpired(x, y) <=> Pos(y) <= Pos(x)
BY Compare DEF Pos

(***************************************************************************)
(* The timers that a scan finds due: those at or before its tick.          *)
(***************************************************************************)
LEMMA DueIsPast ==
    ASSUME TimersInv, mode = "scan", NEW t \in scan
    PROVE  t \in DueTimers <=> Pos(expiry[t]) <= Pos(now)
<1>1. /\ now \in Ticks /\ tick \in Ticks /\ expiry[t] \in Ticks
      /\ 2 * Pos(now) < TickMod /\ 2 * Pos(expiry[t]) < TickMod
  BY Comparable DEF TimersInv, TimerTypeOK
<1> QED BY <1>1, ExpiredInWindow DEF DueTimers

-----------------------------------------------------------------------------
(* The steps.                                                              *)

LEMMA InitInv == TimersInit => TimersInv
<1> SUFFICES ASSUME TimersInit
             PROVE  TimersInv
  OBVIOUS
<1>1. 0 \in Ticks /\ 0 \in 0 .. MaxLag
  BY Sizes DEF Ticks
<1> QED BY <1>1, Sizes DEF TimersInit, TimersInv, TimerTypeOK, Phases, InWindow, ScanInWindow, NextIsFirst, ServedSoon

LEMMA StartInv ==
    ASSUME TimersInv, NEW t \in Timer, Start(t), deferred' = deferred
    PROVE  TimersInv'
<1>1. PICK d : d = Later(Period[t])
  OBVIOUS
<1>2. /\ tick \in Ticks /\ next_expiry \in Ticks /\ expiry \in [Timer -> Ticks] /\ lag \in 0 .. MaxLag
      /\ active \subseteq Timer /\ scan \subseteq Timer
  BY DEF TimersInv, TimerTypeOK
<1>3. d \in Ticks /\ Pos(d) = Slack + Period[t]
  BY <1>1, <1>2, Sizes, PosLater
<1>4. /\ expiry' = [expiry EXCEPT ![t] = d] /\ active' = active \cup {t}
      /\ next_expiry' = IF deferred THEN NextAfterStart(d) ELSE next_expiry
      /\ UNCHANGED <<tick, signal, mode, scan, now, firing, lag>>
  BY <1>1 DEF Start
<1>5. /\ expiry' \in [Timer -> Ticks] /\ expiry'[t] = d
      /\ \A u \in Timer \ {t} : expiry'[u] = expiry[u]
  BY <1>2, <1>3, <1>4
<1>6. deferred =>
         \/ next_expiry' = d /\ \A u \in active : Pos(d) <= Pos(expiry[u])
         \/ next_expiry' = next_expiry /\ active # {} /\ Pos(next_expiry) <= Pos(d)
  <2> SUFFICES ASSUME deferred
               PROVE  \/ next_expiry' = d /\ \A u \in active : Pos(d) <= Pos(expiry[u])
                      \/ next_expiry' = next_expiry /\ active # {} /\ Pos(next_expiry) <= Pos(d)
    OBVIOUS
  <2>1. CASE active = {}
    BY <1>4, <2>1 DEF NextAfterStart
  <2>2. CASE active # {}
    <3>1. 2 * Pos(next_expiry) < TickMod /\ 2 * Pos(d) < TickMod /\ Pos(next_expiry) \in Nat
      BY <1>3, <2>2, Comparable, Sizes
    <3>2. HasExpired(next_expiry, d) <=> Pos(d) <= Pos(next_expiry)
      BY <1>2, <1>3, <3>1, ExpiredInWindow
    <3>3. \A u \in active : Pos(next_expiry) <= Pos(expiry[u]) /\ Pos(expiry[u]) \in Nat
      BY <2>2, Comparable DEF TimersInv, NextIsFirst
    <3>4. Pos(d) \in Nat
      BY <1>3, Sizes
    <3>5. CASE HasExpired(next_expiry, d)
      BY <1>4, <3>1, <3>2, <3>3, <3>4, <3>5 DEF NextAfterStart
    <3>6. CASE ~ HasExpired(next_expiry, d)
      BY <1>4, <2>2, <3>1, <3>2, <3>4, <3>6 DEF NextAfterStart
    <3> QED BY <3>5, <3>6
  <2> QED BY <2>1, <2>2
<1>7. TimerTypeOK'
  BY <1>2, <1>3, <1>4, <1>5 DEF TimersInv, TimerTypeOK, NextAfterStart
<1>8. Phases'
  BY <1>4 DEF TimersInv, Phases
<1>9. InWindow'
  <2> SUFFICES ASSUME NEW u \in active' \cup scan'
               PROVE  Pos(expiry'[u]) \in Slack - lag .. Slack + Period[u]
    BY <1>4 DEF InWindow, Pos
  <2>1. CASE u = t
    BY <1>2, <1>3, <1>5, <2>1, Sizes
  <2>2. CASE u # t
    BY <1>2, <1>4, <1>5, <2>2 DEF TimersInv, InWindow
  <2> QED BY <2>1, <2>2
<1>10. ScanInWindow'
  BY <1>4 DEF TimersInv, ScanInWindow, Pos
<1>11. NextIsFirst'
  <2> SUFFICES ASSUME deferred
               PROVE  /\ Pos(next_expiry') >= Slack - lag
                      /\ Asleep => Pos(next_expiry') > Slack
                      /\ \A u \in active' : Pos(next_expiry') <= Pos(expiry'[u])
    BY <1>4 DEF NextIsFirst, Asleep, Pos
  <2>1. CASE next_expiry' = d /\ \A u \in active : Pos(d) <= Pos(expiry[u])
    BY <1>2, <1>3, <1>4, <1>5, <2>1, Sizes
  <2>2. CASE next_expiry' = next_expiry /\ active # {} /\ Pos(next_expiry) <= Pos(d)
    BY <1>2, <1>4, <1>5, <2>2 DEF TimersInv, NextIsFirst
  <2> QED BY <1>6, <2>1, <2>2
<1>12. ServedSoon'
  <2> SUFFICES ASSUME signal = 0, mode # "awake", NEW u \in active', Pos(expiry'[u]) <= Slack
               PROVE  u = firing \/ (u \in scan /\ Pos(expiry'[u]) <= Pos(now))
    BY <1>4 DEF ServedSoon, Pos
  <2>1. u # t
    BY <1>3, <1>5, Sizes
  <2> QED BY <1>2, <1>4, <1>5, <2>1 DEF TimersInv, ServedSoon
<1> QED BY <1>7, <1>8, <1>9, <1>10, <1>11, <1>12 DEF TimersInv

LEMMA StopInv ==
    ASSUME TimersInv, NEW t \in Timer, Stop(t), deferred' = deferred
    PROVE  TimersInv'
<1>1. active' = active \ {t} /\ UNCHANGED <<tick, expiry, next_expiry, signal, mode, scan, now, firing, lag>>
  BY DEF Stop
<1>2. TimerTypeOK' /\ Phases'
  BY <1>1 DEF TimersInv, TimerTypeOK, Phases
<1>3. InWindow' /\ ScanInWindow'
  BY <1>1 DEF TimersInv, InWindow, ScanInWindow, Pos
<1>4. NextIsFirst'
  BY <1>1 DEF TimersInv, NextIsFirst, Asleep, Pos
<1>5. ServedSoon'
  BY <1>1 DEF TimersInv, ServedSoon, Pos
<1> QED BY <1>2, <1>3, <1>4, <1>5 DEF TimersInv

LEMMA TickDeferredInv ==
    ASSUME TimersInv, TickDeferred, deferred' = deferred
    PROVE  TimersInv'
<1>1. PICK c : c = Later(1)
  OBVIOUS
<1>2. /\ tick \in Ticks /\ next_expiry \in Ticks /\ expiry \in [Timer -> Ticks] /\ lag \in 0 .. MaxLag
      /\ active \subseteq Timer /\ scan \subseteq Timer /\ now \in Ticks /\ signal \in 0 .. 1
  BY DEF TimersInv, TimerTypeOK
<1>3. /\ deferred /\ mode \notin {"scan", "recompute"} /\ tick' = c
      /\ Asleep \/ lag < MaxLag
      /\ signal' = IF SomeDue(c) THEN 1 ELSE signal
      /\ lag' = IF Asleep THEN 0 ELSE lag + 1
      /\ UNCHANGED <<active, expiry, next_expiry, mode, scan, now, firing>>
  BY <1>1 DEF TickDeferred, Unlocked
<1>4. Asleep => scan = {} /\ mode = "wait" /\ signal = 0
  BY DEF Asleep, TimersInv, Phases
<1>5. c \in Ticks /\ lag' \in 0 .. MaxLag
  <2>1. c \in Ticks
    BY <1>1, <1>2, NextTick
  <2> QED BY <1>2, <1>3, <2>1, Sizes
\* What does not lie at the far end of the window moves by one place.
<1>6. ASSUME NEW x \in Ticks, Pos(x) \in Nat, Pos(x) > 0
      PROVE  PosAt(x, c) = Pos(x) - 1
  BY <1>1, <1>2, <1>6, TickMoves
<1>7. \A t \in active \cup scan :
         /\ expiry[t] \in Ticks /\ Pos(expiry[t]) \in Slack - lag .. Slack + Period[t]
         /\ Asleep => Pos(expiry[t]) > Slack
         /\ Pos(expiry[t]) > 0 /\ Pos(expiry[t]) \in Nat
  <2> SUFFICES ASSUME NEW t \in active \cup scan
               PROVE  /\ expiry[t] \in Ticks /\ Pos(expiry[t]) \in Slack - lag .. Slack + Period[t]
                      /\ Asleep => Pos(expiry[t]) > Slack
                      /\ Pos(expiry[t]) > 0 /\ Pos(expiry[t]) \in Nat
    OBVIOUS
  <2>1. t \in Timer /\ expiry[t] \in Ticks /\ Pos(expiry[t]) \in Slack - lag .. Slack + Period[t]
    BY <1>2 DEF TimersInv, InWindow
  <2>2. Pos(expiry[t]) \in Nat
    BY Comparable
  <2>3. Asleep => Pos(expiry[t]) > Slack
    <3> SUFFICES ASSUME Asleep
                 PROVE  Pos(expiry[t]) > Slack
      OBVIOUS
    <3>1. t \in active /\ firing = NoTimer
      BY <1>4 DEF TimersInv, Phases
    <3> QED BY <1>4, <2>1, <2>2, <3>1, Sizes DEF TimersInv, ServedSoon
  <2> QED BY <1>2, <2>1, <2>2, <2>3, Sizes
<1>8. \A t \in active \cup scan :
         /\ PosAt(expiry[t], c) = Pos(expiry[t]) - 1
         /\ PosAt(expiry[t], c) \in Slack - lag' .. Slack + Period[t]
  <2> SUFFICES ASSUME NEW t \in active \cup scan
               PROVE  /\ PosAt(expiry[t], c) = Pos(expiry[t]) - 1
                      /\ PosAt(expiry[t], c) \in Slack - lag' .. Slack + Period[t]
    OBVIOUS
  <2>1. /\ expiry[t] \in Ticks /\ Pos(expiry[t]) \in Slack - lag .. Slack + Period[t]
        /\ Asleep => Pos(expiry[t]) > Slack
        /\ Pos(expiry[t]) > 0 /\ Pos(expiry[t]) \in Nat /\ t \in Timer
    BY <1>2, <1>7
  <2>2. PosAt(expiry[t], c) = Pos(expiry[t]) - 1
    BY <1>6, <2>1
  <2>3. Period[t] \in Nat
    BY <2>1, Sizes
  <2> QED BY <1>2, <1>3, <2>1, <2>2, <2>3, Sizes
<1>9. active # {} => /\ Pos(next_expiry) \in Nat /\ Pos(next_expiry) >= Slack - lag
                     /\ Asleep => Pos(next_expiry) > Slack
                     /\ Pos(next_expiry) > 0 /\ 2 * Pos(next_expiry) < TickMod
                     /\ PosAt(next_expiry, c) = Pos(next_expiry) - 1
  <2> SUFFICES ASSUME active # {}
               PROVE  /\ Pos(next_expiry) \in Nat /\ Pos(next_expiry) >= Slack - lag
                      /\ Asleep => Pos(next_expiry) > Slack
                      /\ Pos(next_expiry) > 0 /\ 2 * Pos(next_expiry) < TickMod
                      /\ PosAt(next_expiry, c) = Pos(next_expiry) - 1
    OBVIOUS
  <2>1. Pos(next_expiry) \in Nat /\ 2 * Pos(next_expiry) < TickMod
    BY <1>3, Comparable
  <2>2. Pos(next_expiry) >= Slack - lag /\ (Asleep => Pos(next_expiry) > Slack)
    BY <1>3 DEF TimersInv, NextIsFirst
  <2>3. Pos(next_expiry) > 0
    BY <1>2, <1>3, <2>1, <2>2, Sizes
  <2> QED BY <1>2, <1>6, <2>1, <2>2, <2>3
<1>10. active # {} => (SomeDue(c) <=> PosAt(next_expiry, c) <= Slack)
  <2> SUFFICES ASSUME active # {}
               PROVE  SomeDue(c) <=> PosAt(next_expiry, c) <= Slack
    OBVIOUS
  <2>1. PosAt(c, c) = Slack /\ 2 * PosAt(c, c) < TickMod
    <3>1. PosAt(c, c) \in 0 .. TickMod - 1
          /\ (PosAt(c, c) = c + Slack - c \/ PosAt(c, c) = c + Slack - c + TickMod
                \/ PosAt(c, c) = c + Slack - c - TickMod)
      BY <1>5, PosValue
    <3> QED BY <1>5, <3>1, Sizes DEF Ticks
  <2>2. 2 * PosAt(next_expiry, c) < TickMod
    BY <1>9, Sizes
  <2> QED BY <1>2, <1>5, <2>1, <2>2, Compare DEF SomeDue
<1>11. TimerTypeOK' /\ Phases'
  <2>1. signal' \in 0 .. 1
    BY <1>2, <1>3
  <2>2. TimerTypeOK'
    BY <1>3, <1>5, <2>1 DEF TimersInv, TimerTypeOK
  <2>3. Phases'
    BY <1>3 DEF TimersInv, Phases
  <2> QED BY <2>2, <2>3
<1>12. InWindow'
  BY <1>3, <1>8 DEF InWindow, Pos
<1>13. ScanInWindow'
  <2> SUFFICES ASSUME mode = "callback"
               PROVE  PosAt(now, c) \in Slack - lag' .. Slack
    BY <1>3 DEF ScanInWindow, Pos
  <2>1. Pos(now) \in Slack - lag .. Slack /\ Pos(now) \in Nat /\ ~ Asleep
    BY Comparable DEF TimersInv, ScanInWindow, Asleep
  <2>2. PosAt(now, c) = Pos(now) - 1
    BY <1>2, <1>3, <1>6, <2>1, Sizes
  <2> QED BY <1>2, <1>3, <2>1, <2>2, Sizes
<1>14. NextIsFirst'
  <2> SUFFICES ASSUME active # {}
               PROVE  /\ PosAt(next_expiry, c) >= Slack - lag'
                      /\ mode = "wait" /\ signal' = 0 => PosAt(next_expiry, c) > Slack
                      /\ \A t \in active : PosAt(next_expiry, c) <= PosAt(expiry[t], c)
    BY <1>3 DEF NextIsFirst, Asleep, Pos
  <2>1. PosAt(next_expiry, c) >= Slack - lag'
    BY <1>2, <1>3, <1>9, Sizes
  <2>2. mode = "wait" /\ signal' = 0 => PosAt(next_expiry, c) > Slack
    <3>1. PosAt(next_expiry, c) \in Nat
      BY <1>9
    <3> QED BY <1>3, <1>10, <3>1, Sizes
  <2>3. \A t \in active : PosAt(next_expiry, c) <= PosAt(expiry[t], c)
    BY <1>3, <1>7, <1>8, <1>9 DEF TimersInv, NextIsFirst
  <2> QED BY <2>1, <2>2, <2>3
<1>15. ServedSoon'
  <2> SUFFICES ASSUME signal' = 0, mode # "awake", NEW t \in active, PosAt(expiry[t], c) <= Slack
               PROVE  FALSE
    BY <1>3 DEF ServedSoon, Pos
  <2>1. active # {} /\ ~ SomeDue(c)
    BY <1>3
  <2>2. ~ (PosAt(next_expiry, c) <= Slack)
    BY <1>10, <2>1
  <2>3. PosAt(next_expiry, c) <= PosAt(expiry[t], c)
    BY <1>3, <1>7, <1>8, <1>9 DEF TimersInv, NextIsFirst
  <2>4. PosAt(next_expiry, c) \in Nat /\ PosAt(expiry[t], c) \in Nat
    BY <1>7, <1>8, <1>9
  <2> QED BY <2>2, <2>3, <2>4, Sizes
<1> QED BY <1>11, <1>12, <1>13, <1>14, <1>15 DEF TimersInv

LEMMA TickInlineInv ==
    ASSUME TimersInv, TickInline, deferred' = deferred
    PROVE  TimersInv'
<1>1. PICK c : c = Later(1)
  OBVIOUS
<1>2. /\ tick \in Ticks /\ next_expiry \in Ticks /\ expiry \in [Timer -> Ticks] /\ lag = 0
      /\ active \subseteq Timer /\ scan = {} /\ now \in Ticks /\ signal = 0 /\ firing = NoTimer
  BY DEF TimersInv, TimerTypeOK, Phases, TickInline
<1>3. /\ ~ deferred /\ mode = "wait" /\ tick' = c /\ scan' = active /\ now' = c /\ mode' = "scan"
      /\ UNCHANGED <<active, expiry, next_expiry, signal, firing, lag>>
  BY <1>1 DEF TickInline
<1>4. c \in Ticks /\ PosAt(c, c) = Slack
  <2>1. c \in Ticks
    BY <1>1, <1>2, NextTick
  <2>2. PosAt(c, c) \in 0 .. TickMod - 1
        /\ (PosAt(c, c) = c + Slack - c \/ PosAt(c, c) = c + Slack - c + TickMod
              \/ PosAt(c, c) = c + Slack - c - TickMod)
    BY <2>1, PosValue
  <2> QED BY <2>1, <2>2, Sizes DEF Ticks
<1>5. \A t \in active : PosAt(expiry[t], c) \in Slack .. Slack + Period[t]
  <2> SUFFICES ASSUME NEW t \in active
               PROVE  PosAt(expiry[t], c) \in Slack .. Slack + Period[t]
    OBVIOUS
  <2>1. /\ t \in Timer /\ expiry[t] \in Ticks /\ Pos(expiry[t]) \in Slack - lag .. Slack + Period[t]
        /\ Period[t] \in Nat
    BY <1>2, Sizes DEF TimersInv, InWindow
  <2>2. Pos(expiry[t]) > Slack
    BY <1>2, <1>3, <2>1, Sizes DEF TimersInv, ServedSoon
  <2>3. PosAt(expiry[t], c) = Pos(expiry[t]) - 1
    <3>1. Pos(expiry[t]) > 0
      BY <1>2, <2>1, <2>2, Sizes
    <3> QED BY <1>1, <1>2, <2>1, <3>1, TickMoves
  <2> QED BY <1>2, <2>1, <2>2, <2>3, Sizes
<1>6. TimerTypeOK' /\ Phases'
  BY <1>2, <1>3, <1>4, Sizes DEF TimersInv, TimerTypeOK, Phases
<1>7. InWindow' /\ ScanInWindow'
  BY <1>2, <1>3, <1>4, <1>5, Sizes DEF InWindow, ScanInWindow, Pos
<1>8. NextIsFirst'
  BY <1>3 DEF NextIsFirst
<1>9. ServedSoon'
  <2> SUFFICES ASSUME NEW t \in active, PosAt(expiry[t], c) <= Slack
               PROVE  PosAt(expiry[t], c) <= PosAt(c, c)
    BY <1>3 DEF ServedSoon, Pos
  <2> QED BY <1>4
<1> QED BY <1>6, <1>7, <1>8, <1>9 DEF TimersInv

LEMMA TakeSignalInv ==
    ASSUME TimersInv, TakeSignal, deferred' = deferred
    PROVE  TimersInv'
<1>1. /\ mode = "wait" /\ signal = 1 /\ signal' = 0 /\ mode' = "awake"
      /\ UNCHANGED <<tick, active, expiry, next_expiry, scan, now, firing, lag>>
  BY DEF TakeSignal
<1>2. TimerTypeOK' /\ Phases'
  BY <1>1 DEF TimersInv, TimerTypeOK, Phases
<1>3. InWindow' /\ ScanInWindow' /\ ServedSoon'
  BY <1>1 DEF TimersInv, InWindow, ScanInWindow, ServedSoon, Pos
<1>4. NextIsFirst'
  BY <1>1 DEF TimersInv, NextIsFirst, Asleep, Pos
<1> QED BY <1>2, <1>3, <1>4 DEF TimersInv

LEMMA LockAndScanInv ==
    ASSUME TimersInv, LockAndScan, deferred' = deferred
    PROVE  TimersInv'
<1>1. /\ mode = "awake" /\ mode' = "scan" /\ scan' = active /\ now' = tick
      /\ UNCHANGED <<tick, active, expiry, next_expiry, signal, firing, lag>>
  BY DEF LockAndScan
<1>2. TimerTypeOK' /\ Phases'
  BY <1>1 DEF TimersInv, TimerTypeOK, Phases
<1>3. InWindow'
  BY <1>1 DEF TimersInv, InWindow, Pos
<1>4. PosAt(tick, tick) = Slack /\ lag \in 0 .. MaxLag
  <2>1. tick \in Ticks /\ lag \in 0 .. MaxLag
    BY DEF TimersInv, TimerTypeOK
  <2> QED BY <2>1, PosLater, Sizes DEF Pos
<1>5. ScanInWindow' /\ ServedSoon'
  BY <1>1, <1>4, Sizes DEF ScanInWindow, ServedSoon, Pos
<1>6. NextIsFirst'
  BY <1>1 DEF TimersInv, NextIsFirst, Asleep, Pos
<1> QED BY <1>2, <1>3, <1>5, <1>6 DEF TimersInv

(***************************************************************************)
(* The timer that fires is due, and the due ones after it stay in the scan.*)
(***************************************************************************)
LEMMA FirstDue ==
    ASSUME TimersInv, Fire
    PROVE  /\ firing' \in DueTimers /\ \A t \in DueTimers : t >= firing'
           /\ mode = "scan" /\ mode' = "callback" /\ scan' = {t \in scan : t > firing'}
           /\ UNCHANGED <<tick, active, expiry, next_expiry, signal, now, lag>>
<1>1. DueTimers \in SUBSET Nat /\ DueTimers # {}
  BY Sizes DEF TimersInv, TimerTypeOK, DueTimers, Fire
<1>2. Min(DueTimers) \in DueTimers /\ \A t \in DueTimers : Min(DueTimers) <= t
  BY <1>1, MinIsLeast
<1>3. \A t \in DueTimers : t \in Nat
  BY <1>1
<1> QED BY <1>2, <1>3 DEF Fire

LEMMA FireInv ==
    ASSUME TimersInv, Fire, deferred' = deferred
    PROVE  TimersInv'
<1>1. /\ firing' \in DueTimers /\ (\A t \in DueTimers : t >= firing')
      /\ mode = "scan" /\ mode' = "callback" /\ scan' = {t \in scan : t > firing'}
      /\ UNCHANGED <<tick, active, expiry, next_expiry, signal, now, lag>>
  BY FirstDue
<1>2. firing' \in scan /\ firing' \in Timer /\ firing' # NoTimer /\ scan \subseteq Timer
  BY <1>1, Sizes DEF DueTimers, TimersInv, TimerTypeOK
<1>3. TimerTypeOK' /\ Phases'
  BY <1>1, <1>2 DEF TimersInv, TimerTypeOK, Phases
<1>4. InWindow' /\ ScanInWindow'
  BY <1>1 DEF TimersInv, InWindow, ScanInWindow, Pos
<1>5. NextIsFirst'
  BY <1>1 DEF TimersInv, NextIsFirst, Asleep, Pos
<1>6. ServedSoon'
  <2> SUFFICES ASSUME signal = 0, NEW t \in active, Pos(expiry[t]) <= Slack
               PROVE  t = firing' \/ (t \in scan' /\ Pos(expiry[t]) <= Pos(now))
    BY <1>1 DEF ServedSoon, Pos
  <2>1. firing = NoTimer /\ t \in Timer
    BY <1>1 DEF TimersInv, Phases, TimerTypeOK
  <2>2. t \in scan /\ Pos(expiry[t]) <= Pos(now)
    BY <1>1, <2>1, Sizes DEF TimersInv, ServedSoon
  <2>3. t \in DueTimers
    BY <1>1, <2>2, DueIsPast
  <2>4. t >= firing' /\ t \in Nat /\ firing' \in Nat
    BY <1>1, <1>2, <2>1, <2>3, Sizes
  <2> QED BY <1>1, <2>2, <2>4
<1> QED BY <1>3, <1>4, <1>5, <1>6 DEF TimersInv

LEMMA CallbackReturnsInv ==
    ASSUME TimersInv, CallbackReturns, deferred' = deferred
    PROVE  TimersInv'
<1>1. PICK f : f = firing
  OBVIOUS
<1>2. PICK d : d = Later(Period[f])
  OBVIOUS
<1>3. /\ tick \in Ticks /\ next_expiry \in Ticks /\ expiry \in [Timer -> Ticks] /\ lag \in 0 .. MaxLag
      /\ active \subseteq Timer /\ scan \subseteq Timer
  BY DEF TimersInv, TimerTypeOK
<1>4. f \in Timer /\ mode = "callback"
  BY <1>1 DEF CallbackReturns, TimersInv, Phases, TimerTypeOK
<1>5. d \in Ticks /\ Pos(d) = Slack + Period[f] /\ Period[f] \in Nat \ {0}
  BY <1>2, <1>3, <1>4, Sizes, PosLater
<1>6. /\ firing' = NoTimer /\ mode' = "scan"
      /\ UNCHANGED <<tick, next_expiry, signal, scan, now, lag>>
      /\ \/ active' = active /\ expiry' = [expiry EXCEPT ![f] = d]
         \/ active' = active /\ expiry' = expiry /\ f \notin active
         \/ active' = active \ {f} /\ expiry' = expiry
  BY <1>1, <1>2 DEF CallbackReturns
<1>7. /\ expiry' \in [Timer -> Ticks] /\ active' \subseteq active /\ (f \in active' => expiry'[f] = d)
      /\ expiry'[f] = d \/ expiry'[f] = expiry[f]
      /\ \A t \in Timer \ {f} : expiry'[t] = expiry[t]
  BY <1>3, <1>4, <1>5, <1>6
<1>8. TimerTypeOK' /\ Phases'
  BY <1>3, <1>4, <1>6, <1>7 DEF TimersInv, TimerTypeOK, Phases
<1>9. InWindow'
  <2> SUFFICES ASSUME NEW t \in active' \cup scan'
               PROVE  Pos(expiry'[t]) \in Slack - lag .. Slack + Period[t]
    BY <1>6 DEF InWindow, Pos
  <2>1. t \in active \cup scan /\ t \in Timer
    BY <1>3, <1>6, <1>7
  <2>2. Pos(expiry[t]) \in Slack - lag .. Slack + Period[t]
    BY <2>1 DEF TimersInv, InWindow
  <2>3. expiry'[t] = expiry[t] \/ (t = f /\ expiry'[t] = d)
    BY <1>7, <2>1
  <2> QED BY <1>3, <1>5, <2>2, <2>3, Sizes
<1>10. ScanInWindow'
  BY <1>4, <1>6 DEF TimersInv, ScanInWindow, Pos
<1>11. NextIsFirst'
  <2> SUFFICES ASSUME deferred, active' # {}
               PROVE  /\ Pos(next_expiry) >= Slack - lag
                      /\ \A t \in active' : Pos(next_expiry) <= Pos(expiry'[t])
    BY <1>6 DEF NextIsFirst, Asleep, Pos
  <2>1. /\ Pos(next_expiry) >= Slack - lag /\ Pos(next_expiry) \in Nat
        /\ \A t \in active : Pos(next_expiry) <= Pos(expiry[t])
    BY <1>7, Comparable DEF TimersInv, NextIsFirst
  <2>2. ASSUME NEW t \in active'
        PROVE  Pos(next_expiry) <= Pos(expiry'[t])
    <3>1. t \in active /\ t \in Timer
      BY <1>3, <1>7
    <3>2. CASE t # f
      BY <1>7, <2>1, <3>1, <3>2
    <3>3. CASE t = f
      <4>1. Pos(expiry[f]) \in Slack - lag .. Slack + Period[f] /\ Pos(next_expiry) <= Pos(expiry[f])
        BY <2>1, <3>1, <3>3 DEF TimersInv, InWindow
      <4> QED BY <1>3, <1>5, <1>7, <2>1, <2>2, <3>3, <4>1, Sizes
    <3> QED BY <3>2, <3>3
  <2> QED BY <2>1, <2>2
<1>12. ServedSoon'
  <2> SUFFICES ASSUME signal = 0, NEW t \in active', Pos(expiry'[t]) <= Slack
               PROVE  t \in scan /\ Pos(expiry'[t]) <= Pos(now)
    BY <1>6 DEF ServedSoon, Pos
  <2>1. t # f /\ t \in active /\ t \in Timer
    BY <1>3, <1>5, <1>7, Sizes
  <2>2. expiry'[t] = expiry[t]
    BY <1>7, <2>1
  <2> QED BY <1>1, <1>4, <2>1, <2>2 DEF TimersInv, ServedSoon
<1> QED BY <1>8, <1>9, <1>10, <1>11, <1>12 DEF TimersInv

LEMMA ScanEndsInv ==
    ASSUME TimersInv, ScanEnds, deferred' = deferred
    PROVE  TimersInv'
<1>1. /\ mode = "scan" /\ DueTimers = {} /\ scan' = {} /\ now' = 0
      /\ mode' = IF deferred THEN "recompute" ELSE "wait"
      /\ UNCHANGED <<tick, active, expiry, next_expiry, signal, firing, lag>>
  BY DEF ScanEnds
<1>2. TimerTypeOK' /\ Phases'
  BY <1>1, Sizes DEF TimersInv, TimerTypeOK, Phases, Ticks
<1>3. InWindow' /\ ScanInWindow'
  BY <1>1 DEF TimersInv, InWindow, ScanInWindow, Pos
<1>4. NextIsFirst'
  BY <1>1 DEF TimersInv, NextIsFirst, Asleep, Pos
<1>5. ServedSoon'
  <2> SUFFICES ASSUME signal = 0, NEW t \in active, Pos(expiry[t]) <= Slack
               PROVE  FALSE
    BY <1>1 DEF ServedSoon, Pos
  <2>1. firing = NoTimer /\ t \in Timer
    BY <1>1 DEF TimersInv, Phases, TimerTypeOK
  <2>2. t \in scan /\ Pos(expiry[t]) <= Pos(now)
    BY <1>1, <2>1, Sizes DEF TimersInv, ServedSoon
  <2> QED BY <1>1, <2>2, DueIsPast
<1> QED BY <1>2, <1>3, <1>4, <1>5 DEF TimersInv

(***************************************************************************)
(* Among active timers one has a deadline that no other precedes.          *)
(***************************************************************************)
LEMMA EarliestExists ==
    ASSUME TimersInv, active # {}
    PROVE  \E t \in active : Earliest = expiry[t] /\ \A u \in active : Pos(expiry[t]) <= Pos(expiry[u])
<1>1. \A t \in active : /\ expiry[t] \in Ticks /\ Pos(expiry[t]) \in Nat
                        /\ 2 * Pos(expiry[t]) < TickMod
  BY Comparable
<1>2. tick \in Ticks
  BY DEF TimersInv, TimerTypeOK
<1>3. \A t, u \in active : HasExpired(expiry[u], expiry[t]) <=> Pos(expiry[t]) <= Pos(expiry[u])
  BY <1>1, <1>2, ExpiredInWindow
<1>4. PICK S : S = {Pos(expiry[t]) : t \in active}
  OBVIOUS
<1>5. Min(S) \in S /\ \A p \in S : Min(S) <= p
  <2>1. S \in SUBSET Nat /\ S # {}
    BY <1>1, <1>4
  <2> QED BY <2>1, MinIsLeast
<1>6. \E t \in active : \A u \in active : HasExpired(expiry[u], expiry[t])
  BY <1>3, <1>4, <1>5
<1> QED BY <1>3, <1>6 DEF Earliest

LEMMA RecomputeInv ==
    ASSUME TimersInv, FindNextExpiry, deferred' = deferred
    PROVE  TimersInv'
<1>1. /\ mode = "recompute" /\ mode' = "wait"
      /\ next_expiry' = IF active = {} THEN next_expiry ELSE Earliest
      /\ lag' = IF signal = 0 THEN 0 ELSE lag
      /\ UNCHANGED <<tick, active, expiry, signal, scan, now, firing>>
  BY DEF FindNextExpiry
<1>2. /\ lag \in 0 .. MaxLag /\ signal \in 0 .. 1 /\ scan = {} /\ firing = NoTimer /\ next_expiry \in Ticks
      /\ active \subseteq Timer /\ deferred
  BY <1>1 DEF TimersInv, TimerTypeOK, Phases
<1>3. active # {} => \E t \in active :
         next_expiry' = expiry[t] /\ \A u \in active : Pos(expiry[t]) <= Pos(expiry[u])
  BY <1>1, EarliestExists
<1>4. \A t \in active : /\ expiry[t] \in Ticks /\ Pos(expiry[t]) \in Slack - lag' .. Slack + Period[t]
                        /\ Pos(expiry[t]) \in Nat
                        /\ signal = 0 => Pos(expiry[t]) > Slack
  <2> SUFFICES ASSUME NEW t \in active
               PROVE  /\ expiry[t] \in Ticks /\ Pos(expiry[t]) \in Slack - lag' .. Slack + Period[t]
                      /\ Pos(expiry[t]) \in Nat
                      /\ signal = 0 => Pos(expiry[t]) > Slack
    OBVIOUS
  <2>1. expiry[t] \in Ticks /\ Pos(expiry[t]) \in Nat
    BY Comparable
  <2>2. Pos(expiry[t]) \in Slack - lag .. Slack + Period[t]
    BY DEF TimersInv, InWindow
  <2>3. signal = 0 => Pos(expiry[t]) > Slack
    <3>1. t # NoTimer
      BY <1>2, Sizes
    <3> QED BY <1>1, <1>2, <2>1, <3>1, Sizes DEF TimersInv, ServedSoon
  <2> QED BY <1>1, <1>2, <2>1, <2>2, <2>3, Sizes
<1>5. TimerTypeOK'
  <2>1. next_expiry' \in Ticks
    BY <1>1, <1>2, <1>3, <1>4
  <2>2. lag' \in 0 .. MaxLag
    BY <1>1, <1>2, Sizes
  <2> QED BY <1>1, <2>1, <2>2 DEF TimersInv, TimerTypeOK
<1>6. Phases'
  BY <1>1, <1>2 DEF TimersInv, Phases
<1>7. InWindow' /\ ScanInWindow'
  BY <1>1, <1>2, <1>4 DEF InWindow, ScanInWindow, Pos
<1>8. NextIsFirst'
  <2> SUFFICES ASSUME active # {}
               PROVE  /\ Pos(next_expiry') >= Slack - lag'
                      /\ signal = 0 => Pos(next_expiry') > Slack
                      /\ \A t \in active : Pos(next_expiry') <= Pos(expiry[t])
    BY <1>1 DEF NextIsFirst, Asleep, Pos
  <2>1. PICK t \in active : next_expiry' = expiry[t] /\ \A u \in active : Pos(expiry[t]) <= Pos(expiry[u])
    BY <1>3
  <2> QED BY <1>4, <2>1
<1>9. ServedSoon'
  BY <1>1, <1>4, Sizes DEF ServedSoon, Pos
<1> QED BY <1>5, <1>6, <1>7, <1>8, <1>9 DEF TimersInv

LEMMA NextInv ==
    ASSUME TimersInv, [TimersNext]_timerVars
    PROVE  TimersInv'
<1>1. CASE TimersNext
  BY <1>1, StartInv, StopInv, TickDeferredInv, TickInlineInv, TakeSignalInv, LockAndScanInv, FireInv,
     CallbackReturnsInv, ScanEndsInv, RecomputeInv DEF TimersNext, Daemon
<1>2. CASE UNCHANGED timerVars
  BY <1>2 DEF timerVars, TimersInv, TimerTypeOK, Phases, InWindow, ScanInWindow, NextIsFirst, ServedSoon, Asleep, Pos
<1> QED BY <1>1, <1>2

-----------------------------------------------------------------------------
(* The theorems.                                                           *)

(***************************************************************************)
(* The inductive invariant: every deadline and the next one lie in one     *)
(* half of the range of ticks, and a timer that is due is announced or     *)
(* about to be served.                                                     *)
(***************************************************************************)
THEOREM TimersInOrder == TimersSpec => []TimersInv
BY InitInv, NextInv, PTL DEF TimersSpec

(***************************************************************************)
(* next_timer_expiry_tick is never later than the deadline of an active    *)
(* timer while interrupts may look at it (xRTOS_Timer_Start and the        *)
(* recomputation in xrtos_timer_daemon_entry).                             *)
(***************************************************************************)
THEOREM NextExpiryAlwaysCovers == TimersSpec => []NextExpiryCovers
<1>1. TimersInv => NextExpiryCovers
  <2> SUFFICES ASSUME TimersInv, deferred, NEW t \in active
               PROVE  HasExpired(expiry[t], next_expiry)
    BY DEF NextExpiryCovers
  <2>1. /\ tick \in Ticks /\ next_expiry \in Ticks /\ expiry[t] \in Ticks
        /\ 2 * Pos(expiry[t]) < TickMod /\ 2 * Pos(next_expiry) < TickMod
    BY Comparable DEF TimersInv, TimerTypeOK
  <2>2. Pos(next_expiry) <= Pos(expiry[t])
    BY DEF TimersInv, NextIsFirst
  <2> QED BY <2>1, <2>2, ExpiredInWindow
<1> QED BY <1>1, TimersInOrder, PTL

(***************************************************************************)
(* When the daemon sleeps and no signal waits for it, no active timer is   *)
(* past its deadline, whatever was started, stopped or became due while it *)
(* ran (xrtos_timer_daemon_entry).                                         *)
(***************************************************************************)
THEOREM NothingOverdue == TimersSpec => []NoneOverdue
<1>1. TimersInv => NoneOverdue
  <2> SUFFICES ASSUME TimersInv, Asleep, NEW t \in active, HasExpired(tick, expiry[t])
               PROVE  FALSE
    BY DEF NoneOverdue
  <2>1. tick \in Ticks /\ Pos(tick) = Slack /\ 2 * Pos(tick) < TickMod
    BY PosLater, Sizes DEF TimersInv, TimerTypeOK
  <2>2. expiry[t] \in Ticks /\ 2 * Pos(expiry[t]) < TickMod
    BY Comparable
  <2>3. Pos(expiry[t]) <= Slack
    BY <2>1, <2>2, ExpiredInWindow
  <2>4. mode = "wait" /\ signal = 0 /\ scan = {} /\ firing = NoTimer /\ t # NoTimer
    BY Sizes DEF Asleep, TimersInv, Phases, TimerTypeOK
  <2> QED BY <2>3, <2>4 DEF TimersInv, ServedSoon
<1> QED BY <1>1, TimersInOrder, PTL

(***************************************************************************)
(* No callback runs before the deadline of its timer, also when the tick   *)
(* counter wraps around (xRTOS_Tick_Has_Expired).                          *)
(***************************************************************************)
THEOREM NoneFiresEarly == TimersSpec => NeverEarly
<1>1. TimersInv /\ [TimersNext]_timerVars =>
         [mode' = "callback" /\ mode # "callback" => HasExpired(tick, expiry[firing'])]_timerVars
  <2> SUFFICES ASSUME TimersInv, TimersNext, mode' = "callback", mode # "callback"
               PROVE  HasExpired(tick, expiry[firing'])
    OBVIOUS
  <2>1. Fire
    BY DEF TimersNext, Start, Stop, TickDeferred, TickInline, Daemon, TakeSignal, LockAndScan, CallbackReturns,
           ScanEnds, FindNextExpiry
  <2>2. firing' \in scan /\ firing' \in DueTimers /\ mode = "scan"
    BY <2>1, FirstDue DEF DueTimers
  <2>3. /\ tick \in Ticks /\ Pos(tick) = Slack /\ 2 * Pos(tick) < TickMod /\ Slack \in Nat
        /\ lag \in 0 .. MaxLag
    BY PosLater, Sizes DEF TimersInv, TimerTypeOK
  <2>4. /\ expiry[firing'] \in Ticks /\ 2 * Pos(expiry[firing']) < TickMod
        /\ Pos(expiry[firing']) \in Nat
    BY <2>2, Comparable
  <2>5. Pos(expiry[firing']) <= Pos(now)
    BY <2>2, DueIsPast
  <2>6. Pos(now) \in Slack - lag .. Slack
    BY <2>2 DEF TimersInv, ScanInWindow
  <2>7. Pos(expiry[firing']) <= Slack
    BY <2>3, <2>4, <2>5, <2>6, Sizes
  <2> QED BY <2>3, <2>4, <2>7, ExpiredInWindow
<1> QED BY <1>1, TimersInOrder, PTL DEF TimersSpec, NeverEarly
=============================================================================
