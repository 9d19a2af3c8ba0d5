------------------------- MODULE XrtosKernelProofs -------------------------
(***************************************************************************)
(* Proofs about the objects of the kernel.  Each object has an inductive   *)
(* invariant - the scheduler in order, the object's variables, its wait    *)
(* maps and waiters in agreement - and every step of the object keeps it;  *)
(* from it follow the invariants of XrtosKernel and that semaphore and     *)
(* queue implement the abstract services.                                  *)
(***************************************************************************)
EXTENDS XrtosKernel, TLAPS

\* The lemmas about the scheduler, for the tasks of either group.
Sched == INSTANCE XrtosSchedProofs WITH
    RoundRobin <- FALSE, BootBase <- Base, BootReady <- Ready

FewSched == INSTANCE XrtosSchedProofs WITH
    Task <- Few, Idle <- FewIdle, RoundRobin <- FALSE, BootBase <- FewBase,
    BootReady <- FewReady

-----------------------------------------------------------------------------
(* Each object's copy of the scheduler.                                    *)

(***************************************************************************)
(* The semaphore's scheduler is the one the lemmas are about.              *)
(***************************************************************************)
LEMMA SemSched ==
    ASSUME NEW t, NEW b, NEW s
    PROVE  /\ Sem!BootAssumption <=> Sched!BootAssumption
           /\ Sem!SchedInit <=> Sched!SchedInit
           /\ Sem!Yield(t) <=> Sched!Yield(t)
           /\ Sem!TaskYield(t) <=> Sched!TaskYield(t)
           /\ Sem!YieldIf(t, b) <=> Sched!YieldIf(t, b)
           /\ Sem!BlockCurrent(t, b) <=> Sched!BlockCurrent(t, b)
           /\ Sem!TaskDelay(t) <=> Sched!TaskDelay(t)
           /\ Sem!Outranks(t) <=> Sched!Outranks(t)
           /\ Sem!Unblock(t, s) <=> Sched!Unblock(t, s)
           /\ Sem!MostUrgent(s) = Sched!MostUrgent(s)
           /\ Sem!TickEnter <=> Sched!TickEnter
           /\ Sem!Expired(t) <=> Sched!Expired(t)
           /\ Sem!WakeExpired(t) <=> Sched!WakeExpired(t)
           /\ Sem!SchedTypeOK <=> Sched!SchedTypeOK
           /\ Sem!RunningIsMostUrgent <=> Sched!RunningIsMostUrgent
           /\ Sem!IsrExit <=> Sched!IsrExit
<1>1. Sem!BootAssumption <=> Sched!BootAssumption
  BY DEF Sem!BootAssumption, Sched!BootAssumption, Sem!Prio, Sched!Prio,
         Sem!ToSet, Sched!ToSet, Sem!IsInjective, Sched!IsInjective,
         Sem!IsFiniteSet, Sched!IsFiniteSet
<1>2. Sem!SchedInit <=> Sched!SchedInit
  BY DEF Sem!SchedInit, Sched!SchedInit
<1>3. Sem!ContextSwitch <=> Sched!ContextSwitch
  BY DEF Sem!ContextSwitch, Sched!ContextSwitch, Sem!SelectNext,
         Sched!SelectNext, Sem!IsBest, Sched!IsBest, Sem!ReadyMap,
         Sched!ReadyMap, Sem!ReadyAdd, Sched!ReadyAdd, Sem!ToSet, Sched!ToSet,
         Sem!ReadyRemove, Sched!ReadyRemove, Sem!RemoveFirst, Sched!RemoveFirst,
         Sem!RemoveAt, Sched!RemoveAt, Sem!SelectInSeq, Sched!SelectInSeq,
         Sem!Min, Sched!Min, Sem!Prio, Sched!Prio
<1>4. Sem!Yield(t) <=> Sched!Yield(t)
  BY <1>3 DEF Sem!Yield, Sched!Yield, Sem!NoSwitch, Sched!NoSwitch
<1>5. Sem!TaskYield(t) <=> Sched!TaskYield(t)
  BY DEF Sem!TaskYield, Sched!TaskYield
<1>6. Sem!YieldIf(t, b) <=> Sched!YieldIf(t, b)
  BY DEF Sem!YieldIf, Sched!YieldIf
<1>7. Sem!BlockCurrent(t, b) <=> Sched!BlockCurrent(t, b)
  BY DEF Sem!BlockCurrent, Sched!BlockCurrent, Sem!ReadyRemove,
         Sched!ReadyRemove, Sem!RemoveFirst, Sched!RemoveFirst, Sem!RemoveAt,
         Sched!RemoveAt, Sem!SelectInSeq, Sched!SelectInSeq, Sem!Min, Sched!Min,
         Sem!Prio, Sched!Prio
<1>8. Sem!TaskDelay(t) <=> Sched!TaskDelay(t)
  BY DEF Sem!TaskDelay, Sched!TaskDelay, Sem!BlockCurrent, Sched!BlockCurrent,
         Sem!ReadyRemove, Sched!ReadyRemove, Sem!RemoveFirst, Sched!RemoveFirst,
         Sem!RemoveAt, Sched!RemoveAt, Sem!SelectInSeq, Sched!SelectInSeq,
         Sem!Min, Sched!Min, Sem!Prio, Sched!Prio
<1>9. Sem!Outranks(t) <=> Sched!Outranks(t)
  BY DEF Sem!Outranks, Sched!Outranks
<1>10. Sem!Unblock(t, s) <=> Sched!Unblock(t, s)
  BY DEF Sem!Unblock, Sched!Unblock, Sem!Prio, Sched!Prio, Sem!ReadyMap,
         Sched!ReadyMap, Sem!ReadyAdd, Sched!ReadyAdd, Sem!ToSet, Sched!ToSet
<1>11. Sem!MostUrgent(s) = Sched!MostUrgent(s)
  BY DEF Sem!MostUrgent, Sched!MostUrgent
<1>12. Sem!TickEnter <=> Sched!TickEnter
  BY DEF Sem!TickEnter, Sched!TickEnter
<1>13. Sem!Expired(t) <=> Sched!Expired(t)
  BY DEF Sem!Expired, Sched!Expired
<1>14. Sem!WakeExpired(t) <=> Sched!WakeExpired(t)
  BY DEF Sem!WakeExpired, Sched!WakeExpired, Sem!Unblock, Sched!Unblock,
         Sem!Outranks, Sched!Outranks, Sem!Prio, Sched!Prio, Sem!ReadyMap,
         Sched!ReadyMap, Sem!ReadyAdd, Sched!ReadyAdd, Sem!ToSet, Sched!ToSet
<1>15. Sem!SchedTypeOK <=> Sched!SchedTypeOK
  BY DEF Sem!SchedTypeOK, Sched!SchedTypeOK, Sem!TaskState, Sched!TaskState,
         Sem!Status, Sched!Status, Sem!Prio, Sched!Prio
<1>16. Sem!RunningIsMostUrgent <=> Sched!RunningIsMostUrgent
  BY DEF Sem!RunningIsMostUrgent, Sched!RunningIsMostUrgent
<1>17. Sem!IsrExit <=> Sched!IsrExit
  BY <1>3 DEF Sem!IsrExit, Sched!IsrExit, Sem!RoundRobinDue,
              Sched!RoundRobinDue, Sem!NoSwitch, Sched!NoSwitch
<1> QED BY <1>1, <1>2, <1>4, <1>5, <1>6, <1>7, <1>8, <1>9, <1>10, <1>11, <1>12,
           <1>13, <1>14, <1>15, <1>16, <1>17

(***************************************************************************)
(* So is the queue's ...                                                   *)
(***************************************************************************)
LEMMA QueueSched ==
    ASSUME NEW t, NEW b, NEW s
    PROVE  /\ Queue!BootAssumption <=> Sched!BootAssumption
           /\ Queue!SchedInit <=> Sched!SchedInit
           /\ Queue!Yield(t) <=> Sched!Yield(t)
           /\ Queue!YieldIf(t, b) <=> Sched!YieldIf(t, b)
           /\ Queue!BlockCurrent(t, b) <=> Sched!BlockCurrent(t, b)
           /\ Queue!Outranks(t) <=> Sched!Outranks(t)
           /\ Queue!Unblock(t, s) <=> Sched!Unblock(t, s)
           /\ Queue!MostUrgent(s) = Sched!MostUrgent(s)
           /\ Queue!TickEnter <=> Sched!TickEnter
           /\ Queue!Expired(t) <=> Sched!Expired(t)
           /\ Queue!WakeExpired(t) <=> Sched!WakeExpired(t)
           /\ Queue!SchedTypeOK <=> Sched!SchedTypeOK
           /\ Queue!RunningIsMostUrgent <=> Sched!RunningIsMostUrgent
           /\ Queue!IsrExit <=> Sched!IsrExit
<1>1. Queue!BootAssumption <=> Sched!BootAssumption
  BY DEF Queue!BootAssumption, Sched!BootAssumption, Queue!Prio, Sched!Prio,
         Queue!ToSet, Sched!ToSet, Queue!IsInjective, Sched!IsInjective,
         Queue!IsFiniteSet, Sched!IsFiniteSet
<1>2. Queue!SchedInit <=> Sched!SchedInit
  BY DEF Queue!SchedInit, Sched!SchedInit
<1>3. Queue!ContextSwitch <=> Sched!ContextSwitch
  BY DEF Queue!ContextSwitch, Sched!ContextSwitch, Queue!SelectNext,
         Sched!SelectNext, Queue!IsBest, Sched!IsBest, Queue!ReadyMap,
         Sched!ReadyMap, Queue!ReadyAdd, Sched!ReadyAdd, Queue!ToSet,
         Sched!ToSet, Queue!ReadyRemove, Sched!ReadyRemove, Queue!RemoveFirst,
         Sched!RemoveFirst, Queue!RemoveAt, Sched!RemoveAt, Queue!SelectInSeq,
         Sched!SelectInSeq, Queue!Min, Sched!Min, Queue!Prio, Sched!Prio
<1>4. Queue!Yield(t) <=> Sched!Yield(t)
  BY <1>3 DEF Queue!Yield, Sched!Yield, Queue!NoSwitch, Sched!NoSwitch
<1>5. Queue!YieldIf(t, b) <=> Sched!YieldIf(t, b)
  BY DEF Queue!YieldIf, Sched!YieldIf
<1>6. Queue!BlockCurrent(t, b) <=> Sched!BlockCurrent(t, b)
  BY DEF Queue!BlockCurrent, Sched!BlockCurrent, Queue!ReadyRemove,
         Sched!ReadyRemove, Queue!RemoveFirst, Sched!RemoveFirst,
         Queue!RemoveAt, Sched!RemoveAt, Queue!SelectInSeq, Sched!SelectInSeq,
         Queue!Min, Sched!Min, Queue!Prio, Sched!Prio
<1>7. Queue!Outranks(t) <=> Sched!Outranks(t)
  BY DEF Queue!Outranks, Sched!Outranks
<1>8. Queue!Unblock(t, s) <=> Sched!Unblock(t, s)
  BY DEF Queue!Unblock, Sched!Unblock, Queue!Prio, Sched!Prio, Queue!ReadyMap,
         Sched!ReadyMap, Queue!ReadyAdd, Sched!ReadyAdd, Queue!ToSet,
         Sched!ToSet
<1>9. Queue!MostUrgent(s) = Sched!MostUrgent(s)
  BY DEF Queue!MostUrgent, Sched!MostUrgent
<1>10. Queue!TickEnter <=> Sched!TickEnter
  BY DEF Queue!TickEnter, Sched!TickEnter
<1>11. Queue!Expired(t) <=> Sched!Expired(t)
  BY DEF Queue!Expired, Sched!Expired
<1>12. Queue!WakeExpired(t) <=> Sched!WakeExpired(t)
  BY DEF Queue!WakeExpired, Sched!WakeExpired, Queue!Unblock, Sched!Unblock,
         Queue!Outranks, Sched!Outranks, Queue!Prio, Sched!Prio, Queue!ReadyMap,
         Sched!ReadyMap, Queue!ReadyAdd, Sched!ReadyAdd, Queue!ToSet,
         Sched!ToSet
<1>13. Queue!SchedTypeOK <=> Sched!SchedTypeOK
  BY DEF Queue!SchedTypeOK, Sched!SchedTypeOK, Queue!TaskState, Sched!TaskState,
         Queue!Status, Sched!Status, Queue!Prio, Sched!Prio
<1>14. Queue!RunningIsMostUrgent <=> Sched!RunningIsMostUrgent
  BY DEF Queue!RunningIsMostUrgent, Sched!RunningIsMostUrgent
<1>15. Queue!IsrExit <=> Sched!IsrExit
  BY <1>3 DEF Queue!IsrExit, Sched!IsrExit, Queue!RoundRobinDue,
              Sched!RoundRobinDue, Queue!NoSwitch, Sched!NoSwitch
<1> QED BY <1>1, <1>2, <1>4, <1>5, <1>6, <1>7, <1>8, <1>9, <1>10, <1>11, <1>12,
           <1>13, <1>14, <1>15

(***************************************************************************)
(* ... and, with the tasks that use events or notifications, the event     *)
(* object's ...                                                            *)
(***************************************************************************)
LEMMA EventSched ==
    ASSUME NEW t, NEW b, NEW s
    PROVE  /\ Event!BootAssumption <=> FewSched!BootAssumption
           /\ Event!SchedInit <=> FewSched!SchedInit
           /\ Event!Yield(t) <=> FewSched!Yield(t)
           /\ Event!YieldIf(t, b) <=> FewSched!YieldIf(t, b)
           /\ Event!BlockCurrent(t, b) <=> FewSched!BlockCurrent(t, b)
           /\ Event!TaskDelay(t) <=> FewSched!TaskDelay(t)
           /\ Event!Outranks(t) <=> FewSched!Outranks(t)
           /\ Event!Unblock(t, s) <=> FewSched!Unblock(t, s)
           /\ Event!TickEnter <=> FewSched!TickEnter
           /\ Event!Expired(t) <=> FewSched!Expired(t)
           /\ Event!WakeExpired(t) <=> FewSched!WakeExpired(t)
           /\ \A q : Event!ById(q) = FewSched!ById(q)
           /\ Event!UnblockAll(b, s) <=> FewSched!UnblockAll(b, s)
           /\ Event!SchedTypeOK <=> FewSched!SchedTypeOK
           /\ Event!RunningIsMostUrgent <=> FewSched!RunningIsMostUrgent
           /\ Event!IsrExit <=> FewSched!IsrExit
<1>1. Event!BootAssumption <=> FewSched!BootAssumption
  BY DEF Event!BootAssumption, FewSched!BootAssumption, Event!Prio,
         FewSched!Prio, Event!ToSet, FewSched!ToSet, Event!IsInjective,
         FewSched!IsInjective, Event!IsFiniteSet, FewSched!IsFiniteSet
<1>2. Event!SchedInit <=> FewSched!SchedInit
  BY DEF Event!SchedInit, FewSched!SchedInit
<1>3. Event!ContextSwitch <=> FewSched!ContextSwitch
  BY DEF Event!ContextSwitch, FewSched!ContextSwitch, Event!SelectNext,
         FewSched!SelectNext, Event!IsBest, FewSched!IsBest, Event!ReadyMap,
         FewSched!ReadyMap, Event!ReadyAdd, FewSched!ReadyAdd, Event!ToSet,
         FewSched!ToSet, Event!ReadyRemove, FewSched!ReadyRemove,
         Event!RemoveFirst, FewSched!RemoveFirst, Event!RemoveAt,
         FewSched!RemoveAt, Event!SelectInSeq, FewSched!SelectInSeq, Event!Min,
         FewSched!Min, Event!Prio, FewSched!Prio
<1>4. Event!Yield(t) <=> FewSched!Yield(t)
  BY <1>3 DEF Event!Yield, FewSched!Yield, Event!NoSwitch, FewSched!NoSwitch
<1>5. Event!YieldIf(t, b) <=> FewSched!YieldIf(t, b)
  BY DEF Event!YieldIf, FewSched!YieldIf
<1>6. Event!BlockCurrent(t, b) <=> FewSched!BlockCurrent(t, b)
  BY DEF Event!BlockCurrent, FewSched!BlockCurrent, Event!ReadyRemove,
         FewSched!ReadyRemove, Event!RemoveFirst, FewSched!RemoveFirst,
         Event!RemoveAt, FewSched!RemoveAt, Event!SelectInSeq,
         FewSched!SelectInSeq, Event!Min, FewSched!Min, Event!Prio,
         FewSched!Prio
<1>7. Event!TaskDelay(t) <=> FewSched!TaskDelay(t)
  BY DEF Event!TaskDelay, FewSched!TaskDelay, Event!BlockCurrent,
         FewSched!BlockCurrent, Event!ReadyRemove, FewSched!ReadyRemove,
         Event!RemoveFirst, FewSched!RemoveFirst, Event!RemoveAt,
         FewSched!RemoveAt, Event!SelectInSeq, FewSched!SelectInSeq, Event!Min,
         FewSched!Min, Event!Prio, FewSched!Prio
<1>8. Event!Outranks(t) <=> FewSched!Outranks(t)
  BY DEF Event!Outranks, FewSched!Outranks
<1>9. Event!Unblock(t, s) <=> FewSched!Unblock(t, s)
  BY DEF Event!Unblock, FewSched!Unblock, Event!Prio, FewSched!Prio,
         Event!ReadyMap, FewSched!ReadyMap, Event!ReadyAdd, FewSched!ReadyAdd,
         Event!ToSet, FewSched!ToSet
<1>10. Event!TickEnter <=> FewSched!TickEnter
  BY DEF Event!TickEnter, FewSched!TickEnter
<1>11. Event!Expired(t) <=> FewSched!Expired(t)
  BY DEF Event!Expired, FewSched!Expired
<1>12. Event!WakeExpired(t) <=> FewSched!WakeExpired(t)
  BY DEF Event!WakeExpired, FewSched!WakeExpired, Event!Unblock,
         FewSched!Unblock, Event!Outranks, FewSched!Outranks, Event!Prio,
         FewSched!Prio, Event!ReadyMap, FewSched!ReadyMap, Event!ReadyAdd,
         FewSched!ReadyAdd, Event!ToSet, FewSched!ToSet
<1>13. \A q : Event!ById(q) = FewSched!ById(q)
  BY DEF Event!ById, FewSched!ById, Event!Cardinality, FewSched!Cardinality
<1>14. Event!UnblockAll(b, s) <=> FewSched!UnblockAll(b, s)
  BY <1>13 DEF Event!UnblockAll, FewSched!UnblockAll, Event!Prio, FewSched!Prio
<1>15. Event!SchedTypeOK <=> FewSched!SchedTypeOK
  BY DEF Event!SchedTypeOK, FewSched!SchedTypeOK, Event!TaskState,
         FewSched!TaskState, Event!Status, FewSched!Status, Event!Prio,
         FewSched!Prio
<1>16. Event!RunningIsMostUrgent <=> FewSched!RunningIsMostUrgent
  BY DEF Event!RunningIsMostUrgent, FewSched!RunningIsMostUrgent
<1>17. Event!IsrExit <=> FewSched!IsrExit
  BY <1>3 DEF Event!IsrExit, FewSched!IsrExit, Event!RoundRobinDue,
              FewSched!RoundRobinDue, Event!NoSwitch, FewSched!NoSwitch
<1> QED BY <1>1, <1>2, <1>4, <1>5, <1>6, <1>7, <1>8, <1>9, <1>10, <1>11, <1>12,
           <1>13, <1>14, <1>15, <1>16, <1>17

(***************************************************************************)
(* ... and that of the notifications.                                      *)
(***************************************************************************)
LEMMA NotifySched ==
    ASSUME NEW t, NEW b, NEW s
    PROVE  /\ Notify!BootAssumption <=> FewSched!BootAssumption
           /\ Notify!SchedInit <=> FewSched!SchedInit
           /\ Notify!Yield(t) <=> FewSched!Yield(t)
           /\ Notify!YieldIf(t, b) <=> FewSched!YieldIf(t, b)
           /\ Notify!BlockCurrent(t, b) <=> FewSched!BlockCurrent(t, b)
           /\ Notify!TaskDelay(t) <=> FewSched!TaskDelay(t)
           /\ Notify!Outranks(t) <=> FewSched!Outranks(t)
           /\ Notify!Unblock(t, s) <=> FewSched!Unblock(t, s)
           /\ Notify!TickEnter <=> FewSched!TickEnter
           /\ Notify!Expired(t) <=> FewSched!Expired(t)
           /\ Notify!WakeExpired(t) <=> FewSched!WakeExpired(t)
           /\ Notify!SchedTypeOK <=> FewSched!SchedTypeOK
           /\ Notify!RunningIsMostUrgent <=> FewSched!RunningIsMostUrgent
           /\ Notify!IsrExit <=> FewSched!IsrExit
<1>1. Notify!BootAssumption <=> FewSched!BootAssumption
  BY DEF Notify!BootAssumption, FewSched!BootAssumption, Notify!Prio,
         FewSched!Prio, Notify!ToSet, FewSched!ToSet, Notify!IsInjective,
         FewSched!IsInjective, Notify!IsFiniteSet, FewSched!IsFiniteSet
<1>2. Notify!SchedInit <=> FewSched!SchedInit
  BY DEF Notify!SchedInit, FewSched!SchedInit
<1>3. Notify!ContextSwitch <=> FewSched!ContextSwitch
  BY DEF Notify!ContextSwitch, FewSched!ContextSwitch, Notify!SelectNext,
         FewSched!SelectNext, Notify!IsBest, FewSched!IsBest, Notify!ReadyMap,
         FewSched!ReadyMap, Notify!ReadyAdd, FewSched!ReadyAdd, Notify!ToSet,
         FewSched!ToSet, Notify!ReadyRemove, FewSched!ReadyRemove,
         Notify!RemoveFirst, FewSched!RemoveFirst, Notify!RemoveAt,
         FewSched!RemoveAt, Notify!SelectInSeq, FewSched!SelectInSeq,
         Notify!Min, FewSched!Min, Notify!Prio, FewSched!Prio
<1>4. Notify!Yield(t) <=> FewSched!Yield(t)
  BY <1>3 DEF Notify!Yield, FewSched!Yield, Notify!NoSwitch, FewSched!NoSwitch
<1>5. Notify!YieldIf(t, b) <=> FewSched!YieldIf(t, b)
  BY DEF Notify!YieldIf, FewSched!YieldIf
<1>6. Notify!BlockCurrent(t, b) <=> FewSched!BlockCurrent(t, b)
  BY DEF Notify!BlockCurrent, FewSched!BlockCurrent, Notify!ReadyRemove,
         FewSched!ReadyRemove, Notify!RemoveFirst, FewSched!RemoveFirst,
         Notify!RemoveAt, FewSched!RemoveAt, Notify!SelectInSeq,
         FewSched!SelectInSeq, Notify!Min, FewSched!Min, Notify!Prio,
         FewSched!Prio
<1>7. Notify!TaskDelay(t) <=> FewSched!TaskDelay(t)
  BY DEF Notify!TaskDelay, FewSched!TaskDelay, Notify!BlockCurrent,
         FewSched!BlockCurrent, Notify!ReadyRemove, FewSched!ReadyRemove,
         Notify!RemoveFirst, FewSched!RemoveFirst, Notify!RemoveAt,
         FewSched!RemoveAt, Notify!SelectInSeq, FewSched!SelectInSeq,
         Notify!Min, FewSched!Min, Notify!Prio, FewSched!Prio
<1>8. Notify!Outranks(t) <=> FewSched!Outranks(t)
  BY DEF Notify!Outranks, FewSched!Outranks
<1>9. Notify!Unblock(t, s) <=> FewSched!Unblock(t, s)
  BY DEF Notify!Unblock, FewSched!Unblock, Notify!Prio, FewSched!Prio,
         Notify!ReadyMap, FewSched!ReadyMap, Notify!ReadyAdd, FewSched!ReadyAdd,
         Notify!ToSet, FewSched!ToSet
<1>10. Notify!TickEnter <=> FewSched!TickEnter
  BY DEF Notify!TickEnter, FewSched!TickEnter
<1>11. Notify!Expired(t) <=> FewSched!Expired(t)
  BY DEF Notify!Expired, FewSched!Expired
<1>12. Notify!WakeExpired(t) <=> FewSched!WakeExpired(t)
  BY DEF Notify!WakeExpired, FewSched!WakeExpired, Notify!Unblock,
         FewSched!Unblock, Notify!Outranks, FewSched!Outranks, Notify!Prio,
         FewSched!Prio, Notify!ReadyMap, FewSched!ReadyMap, Notify!ReadyAdd,
         FewSched!ReadyAdd, Notify!ToSet, FewSched!ToSet
<1>13. Notify!SchedTypeOK <=> FewSched!SchedTypeOK
  BY DEF Notify!SchedTypeOK, FewSched!SchedTypeOK, Notify!TaskState,
         FewSched!TaskState, Notify!Status, FewSched!Status, Notify!Prio,
         FewSched!Prio
<1>14. Notify!RunningIsMostUrgent <=> FewSched!RunningIsMostUrgent
  BY DEF Notify!RunningIsMostUrgent, FewSched!RunningIsMostUrgent
<1>15. Notify!IsrExit <=> FewSched!IsrExit
  BY <1>3 DEF Notify!IsrExit, FewSched!IsrExit, Notify!RoundRobinDue,
              FewSched!RoundRobinDue, Notify!NoSwitch, FewSched!NoSwitch
<1> QED BY <1>1, <1>2, <1>4, <1>5, <1>6, <1>7, <1>8, <1>9, <1>10, <1>11, <1>12,
           <1>13, <1>14, <1>15

-----------------------------------------------------------------------------
(* The semaphore.                                                          *)

SemInv ==
    /\ Sched!InOrder
    /\ count \in 0 .. MaxCount /\ sem_wait_map \in SUBSET Task /\ taking \in SUBSET Task
    /\ Sem!NoTokenWithWaiters /\ Sem!WaitMapAgrees

(***************************************************************************)
(* What the kernel assumes of the tasks that use semaphore and queue.      *)
(***************************************************************************)
LEMMA SchedBoot == Sched!BootAssumption
BY KernelAssumption, SemSched

(***************************************************************************)
(* A semaphore starts with its tokens and nobody waiting.                  *)
(***************************************************************************)
LEMMA SemInit ==
    ASSUME Sem!SchedInit, Sem!Created
    PROVE  SemInv
<1>1. Sched!InOrder
  BY SchedBoot, SemSched, Sched!InitInOrder
<1> QED BY <1>1, KernelAssumption
   DEF SemInv, Sem!CountAssumption, Sem!Created, Sem!NoTokenWithWaiters,
                    Sem!WaitMapAgrees

(***************************************************************************)
(* A step that leaves the semaphore alone and blocks or wakes nobody in it.*)
(***************************************************************************)
LEMMA SemElsewhere ==
    ASSUME SemInv, Sched!InOrder', UNCHANGED semPart,
           \A t \in taking : state'[t] = "BLOCKED" <=> state[t] = "BLOCKED"
    PROVE  SemInv'
BY DEF SemInv, semPart, Sem!NoTokenWithWaiters, Sem!WaitMapAgrees

(***************************************************************************)
(* Take with a token.                                                      *)
(***************************************************************************)
LEMMA SemTakeToken ==
    ASSUME SemInv, NEW t \in Task, Sem!TakeToken(t)
    PROVE  SemInv'
<1>1. Sched!InOrder' /\ UNCHANGED state
  BY SchedBoot, Sched!SameInOrder DEF SemInv, Sem!TakeToken, Sem!schedVars, Sched!schedVars
<1>2. count' \in 0 .. MaxCount /\ sem_wait_map = {}
  BY KernelAssumption DEF SemInv, Sem!TakeToken, Sem!CountAssumption, Sem!NoTokenWithWaiters
<1> QED BY <1>1, <1>2 DEF SemInv, Sem!TakeToken, Sem!NoTokenWithWaiters, Sem!WaitMapAgrees

(***************************************************************************)
(* The end of a take that blocked (xRTOS_Semaphore_Take).                  *)
(***************************************************************************)
LEMMA SemTakeReturn ==
    ASSUME SemInv, NEW t \in Task, Sem!TakeReturn(t)
    PROVE  SemInv' /\ t \notin sem_wait_map
<1>1. Sched!InOrder' /\ UNCHANGED state
  BY SchedBoot, Sched!SameInOrder DEF SemInv, Sem!TakeReturn, Sem!schedVars, Sched!schedVars
<1>2. state[t] = "RUNNING"
  BY SchedBoot, Sched!CallerIsRunning DEF SemInv, Sem!TakeReturn
<1> QED BY <1>1, <1>2 DEF SemInv, Sem!TakeReturn, Sem!NoTokenWithWaiters, Sem!WaitMapAgrees

(***************************************************************************)
(* Take without a token.                                                   *)
(***************************************************************************)
LEMMA SemTakeBlock ==
    ASSUME SemInv, NEW t \in Task, NEW finite \in BOOLEAN, Sem!TakeBlock(t, finite)
    PROVE  SemInv' /\ block_status' = [block_status EXCEPT ![t] = "OK"]
<1>1. current = t /\ ~isr /\ state[t] = "RUNNING" /\ t \notin taking /\ count = 0
  BY SchedBoot, Sched!CallerIsRunning DEF SemInv, Sem!TakeBlock, Sem!Calls
<1>2. Sched!BlockCurrent(t, finite) /\ UNCHANGED <<base, eff, isr, expiring>>
  BY SemSched DEF Sem!TakeBlock
<1>3. /\ Sched!InOrder' /\ state' = [state EXCEPT ![t] = "BLOCKED"]
      /\ block_status' = [block_status EXCEPT ![t] = "OK"]
  BY <1>1, <1>2, SchedBoot, Sched!BlockInOrder DEF SemInv
<1>4. state \in [Task -> Sched!TaskState]
  BY DEF SemInv, Sched!InOrder, Sched!SchedTypeOK
<1>5. sem_wait_map' = sem_wait_map \cup {t} /\ taking' = taking \cup {t} /\ count' = count
  BY DEF Sem!TakeBlock
<1>6. Sem!WaitMapAgrees'
  BY <1>1, <1>3, <1>4, <1>5 DEF SemInv, Sem!WaitMapAgrees
<1>7. Sem!NoTokenWithWaiters'
  BY <1>1, <1>5 DEF Sem!NoTokenWithWaiters
<1> QED BY <1>1, <1>3, <1>5, <1>6, <1>7 DEF SemInv

(***************************************************************************)
(* Give, from a task or a handler: it stores a token or wakes one taker.   *)
(***************************************************************************)
LEMMA SemGive ==
    ASSUME SemInv, expiring = {}, Sem!GiveCore,
           pending' = (pending \/ Sem!GiveOutranks),
           pc' \in [Task -> {"run", "yield"}], pc'[current] = "run" => state[current] = "RUNNING"
    PROVE  /\ SemInv'
           /\ \/ sem_wait_map = {} /\ count < MaxCount /\ count' = count + 1
                 /\ UNCHANGED <<sem_wait_map, taking, block_status>>
              \/ \E w \in sem_wait_map :
                    /\ sem_wait_map' = sem_wait_map \ {w}
                    /\ block_status' = [block_status EXCEPT ![w] = "OK"]
                    /\ UNCHANGED <<count, taking>>
<1>1. UNCHANGED <<base, eff, current, isr, expiring, taking>>
  BY DEF Sem!GiveCore
<1>2. CASE Sem!Store
  <2>1. /\ sem_wait_map = {} /\ count < MaxCount /\ count' = count + 1
        /\ UNCHANGED <<state, ready, timed, block_status, sem_wait_map>>
    BY <1>2 DEF Sem!Store
  <2>2. pending' = pending
    BY <2>1 DEF Sem!GiveOutranks, SemInv, Sched!InOrder, Sched!SchedTypeOK
  <2>3. Sched!InOrder'
    BY <1>1, <2>1, <2>2, SchedBoot, Sched!CallInOrder DEF SemInv, Sched!InOrder, Sched!SchedTypeOK
  <2>4. count' \in 0 .. MaxCount
    BY <2>1, KernelAssumption DEF SemInv, Sem!CountAssumption
  <2> QED BY <1>1, <2>1, <2>3, <2>4 DEF SemInv, Sem!NoTokenWithWaiters, Sem!WaitMapAgrees
<1>3. CASE sem_wait_map # {} /\ Sem!WakeTaker(Sem!MostUrgent(sem_wait_map))
  <2>1. PICK w \in sem_wait_map : w = Sem!MostUrgent(sem_wait_map)
    BY <1>3, SemSched, SchedBoot, Sched!MostUrgentIsIn DEF SemInv, Sched!InOrder
  <2>2. /\ Sched!Unblock(w, "OK") /\ sem_wait_map' = sem_wait_map \ {w}
        /\ count' = count /\ w \in Task
    BY <1>3, <2>1, SemSched DEF Sem!WakeTaker, SemInv
  <2>3. state[w] = "BLOCKED" /\ count = 0
    BY <2>1, KernelAssumption
       DEF SemInv, Sem!WaitMapAgrees, Sem!NoTokenWithWaiters, Sem!CountAssumption
  <2>4. pending' = (pending \/ Sched!Outranks(w))
    BY <1>3, <2>1, SemSched DEF Sem!GiveOutranks
  <2>5. /\ Sched!InOrder'
        /\ state' = [state EXCEPT ![w] = "READY"]
        /\ block_status' = [block_status EXCEPT ![w] = "OK"]
    BY <1>1, <2>2, <2>3, <2>4, SchedBoot, Sched!WakeInOrder DEF SemInv
  <2>6. state \in [Task -> Sched!TaskState]
    BY DEF SemInv, Sched!InOrder, Sched!SchedTypeOK
  <2>7. Sem!WaitMapAgrees'
    BY <1>1, <2>2, <2>5, <2>6 DEF SemInv, Sem!WaitMapAgrees
  <2> QED BY <1>1, <2>1, <2>2, <2>3, <2>5, <2>7 DEF SemInv, Sem!NoTokenWithWaiters
<1> QED BY <1>2, <1>3 DEF Sem!GiveCore

(***************************************************************************)
(* A deadline ends the wait of a taker, or of a task that waits elsewhere. *)
(***************************************************************************)
LEMMA SemExpire ==
    ASSUME SemInv, NEW t \in Task, Sem!Expire(t)
    PROVE  SemInv' /\ block_status' = [block_status EXCEPT ![t] = "TIMEOUT"]
           /\ (t \in taking => t \in sem_wait_map)
<1>1. Sched!Expired(t) /\ Sched!WakeExpired(t)
  BY SemSched DEF Sem!Expire
<1>2. /\ Sched!InOrder'
      /\ state[t] = "BLOCKED" /\ state' = [state EXCEPT ![t] = "READY"]
      /\ block_status' = [block_status EXCEPT ![t] = "TIMEOUT"]
  BY <1>1, SchedBoot, Sched!ExpireInOrder DEF SemInv
<1>3. sem_wait_map' = sem_wait_map \ {t} /\ count' = count /\ taking' = taking
  BY DEF Sem!Expire
<1>4. state \in [Task -> Sched!TaskState]
  BY DEF SemInv, Sched!InOrder, Sched!SchedTypeOK
<1>5. Sem!WaitMapAgrees'
  BY <1>2, <1>3, <1>4 DEF SemInv, Sem!WaitMapAgrees
<1> QED BY <1>2, <1>3, <1>5 DEF SemInv, Sem!NoTokenWithWaiters, Sem!WaitMapAgrees

(***************************************************************************)
(* What the callers of Take will learn.                                    *)
(***************************************************************************)
Taker == [t \in Task |-> Sem!Progress(t)]

(***************************************************************************)
(* It follows from the takes under way, the wait map and the status ...    *)
(***************************************************************************)
LEMMA TakerValues ==
    ASSUME NEW t \in Task
    PROVE  /\ t \notin taking => Taker[t] = "idle"
           /\ t \in taking /\ t \in sem_wait_map => Taker[t] = "waiting"
           /\ t \in taking /\ t \notin sem_wait_map =>
                 Taker[t] = IF block_status[t] = "OK" THEN "granted" ELSE "refused"
BY DEF Taker, Sem!Progress

(***************************************************************************)
(* ... after a step as before it.                                          *)
(***************************************************************************)
LEMMA TakerNextValues ==
    ASSUME NEW t \in Task
    PROVE  /\ t \notin taking' => Taker'[t] = "idle"
           /\ t \in taking' /\ t \in sem_wait_map' => Taker'[t] = "waiting"
           /\ t \in taking' /\ t \notin sem_wait_map' =>
                 Taker'[t] = IF block_status'[t] = "OK" THEN "granted" ELSE "refused"
BY DEF Taker, Sem!Progress

(***************************************************************************)
(* A step concerns one task when the others learn what they would have.    *)
(***************************************************************************)
LEMMA TakerOfOne ==
    ASSUME NEW t \in Task,
           \A u \in Task \ {t} : /\ u \in taking' <=> u \in taking
                                 /\ u \in sem_wait_map' <=> u \in sem_wait_map
                                 /\ block_status'[u] = block_status[u]
    PROVE  Taker' = [Taker EXCEPT ![t] = Taker'[t]]
<1>1. ASSUME NEW u \in Task \ {t} PROVE Taker'[u] = Taker[u]
  BY <1>1, TakerValues, TakerNextValues
<1> QED BY <1>1 DEF Taker

(***************************************************************************)
(* The tokens and the takers of the abstract service.                      *)
(***************************************************************************)
LEMMA SemServiceSteps ==
    /\ \A t \in Task :
          /\ Taker[t] = "idle" /\ count > 0 /\ count' = count - 1 /\ Taker' = Taker
                => Sem!Service!Next
          /\ count = 0 /\ Taker[t] = "idle" /\ Taker' = [Taker EXCEPT ![t] = "waiting"]
                /\ count' = count => Sem!Service!Next
          /\ Taker[t] = "waiting" /\ Taker' = [Taker EXCEPT ![t] = "granted"]
                /\ count' = count => Sem!Service!Next
          /\ Taker[t] = "waiting" /\ Taker' = [Taker EXCEPT ![t] = "refused"]
                /\ count' = count => Sem!Service!Next
          /\ Taker[t] \in {"granted", "refused"} /\ Taker' = [Taker EXCEPT ![t] = "idle"]
                /\ count' = count => Sem!Service!Next
    /\ (\A t \in Task : Taker[t] # "waiting") /\ count < MaxCount /\ count' = count + 1
          /\ Taker' = Taker => Sem!Service!Next
    /\ count' = count /\ Taker' = Taker => UNCHANGED Sem!Service!vars
BY DEF Taker, Sem!Service!Next, Sem!Service!TakeNow, Sem!Service!Ask, Sem!Service!Store,
       Sem!Service!PassOn, Sem!Service!GiveUp, Sem!Service!Leave, Sem!Service!Become,
       Sem!Service!Waiting, Sem!Service!vars

(***************************************************************************)
(* A step keeps the invariant and is a step of the token service, or none  *)
(* that its users see.                                                     *)
(***************************************************************************)
SemGood == SemInv' /\ [Sem!Service!Next]_(Sem!Service!vars)

(***************************************************************************)
(* A step that changes no token, no take and no answer is none that the    *)
(* users of the semaphore see.                                             *)
(***************************************************************************)
LEMMA SemUnseen ==
    ASSUME SemInv', count' = count, taking' = taking, sem_wait_map' = sem_wait_map,
           \A t \in taking : t \notin sem_wait_map => block_status'[t] = block_status[t]
    PROVE  SemGood
<1>1. ASSUME NEW t \in Task PROVE Taker'[t] = Taker[t]
  BY TakerValues, TakerNextValues
<1>2. Taker' = Taker
  BY <1>1 DEF Taker
<1> QED BY <1>2, SemServiceSteps DEF SemGood

(***************************************************************************)
(* A give stores a token or passes it on.                                  *)
(***************************************************************************)
LEMMA SemGiven ==
    ASSUME SemInv, expiring = {}, Sem!GiveCore,
           pending' = (pending \/ Sem!GiveOutranks),
           pc' \in [Task -> {"run", "yield"}], pc'[current] = "run" => state[current] = "RUNNING"
    PROVE  SemGood
<1>1. /\ SemInv'
      /\ \/ sem_wait_map = {} /\ count < MaxCount /\ count' = count + 1
            /\ UNCHANGED <<sem_wait_map, taking, block_status>>
         \/ \E w \in sem_wait_map :
               /\ sem_wait_map' = sem_wait_map \ {w}
               /\ block_status' = [block_status EXCEPT ![w] = "OK"]
               /\ UNCHANGED <<count, taking>>
  BY SemGive
<1>2. CASE /\ sem_wait_map = {} /\ count < MaxCount /\ count' = count + 1
           /\ UNCHANGED <<sem_wait_map, taking, block_status>>
  <2>1. Taker' = Taker
    BY <1>2 DEF Taker, Sem!Progress
  <2>2. \A t \in Task : Taker[t] # "waiting"
    BY <1>2, TakerValues
  <2> QED BY <1>1, <1>2, <2>1, <2>2, SemServiceSteps DEF SemGood
<1>3. ASSUME NEW w \in sem_wait_map, sem_wait_map' = sem_wait_map \ {w},
             block_status' = [block_status EXCEPT ![w] = "OK"], UNCHANGED <<count, taking>>
      PROVE  SemGood
  <2>1. w \in taking /\ w \in Task /\ block_status \in [Task -> Sched!Status]
    BY DEF SemInv, Sem!WaitMapAgrees, Sched!InOrder, Sched!SchedTypeOK
  <2>2. Taker[w] = "waiting" /\ Taker'[w] = "granted"
    BY <1>3, <2>1, TakerValues, TakerNextValues
  <2>3. Taker' = [Taker EXCEPT ![w] = "granted"]
    BY <1>3, <2>1, <2>2, TakerOfOne
  <2> QED BY <1>1, <1>3, <2>1, <2>2, <2>3, SemServiceSteps DEF SemGood
<1> QED BY <1>1, <1>2, <1>3

(***************************************************************************)
(* Outside a handler no deadline is being handled.                         *)
(***************************************************************************)
LEMMA SemIdleHandler ==
    ASSUME SemInv, ~isr
    PROVE  expiring = {}
BY DEF SemInv, Sched!InOrder, Sched!SchedInv, Sched!DeadlinesOnlyForWaiters

(***************************************************************************)
(* So is every step of a task (xrtos_sem.c) ...                            *)
(***************************************************************************)
LEMMA SemTaskStep ==
    ASSUME SemInv, NEW t \in Task, Sem!TaskStep(t)
    PROVE  SemGood
<1>1. CASE Sem!TakeToken(t)
  <2>1. SemInv' /\ t \notin taking /\ count > 0 /\ count' = count - 1
    BY <1>1, SemTakeToken DEF Sem!TakeToken, Sem!Calls
  <2>2. UNCHANGED <<taking, sem_wait_map, block_status>>
    BY <1>1 DEF Sem!TakeToken, Sem!schedVars
  <2>3. Taker[t] = "idle" /\ Taker' = Taker
    BY <2>1, <2>2, TakerValues DEF Taker, Sem!Progress
  <2> QED BY <2>1, <2>3, SemServiceSteps DEF SemGood
<1>2. ASSUME NEW finite \in BOOLEAN, Sem!TakeBlock(t, finite) PROVE SemGood
  <2>1. SemInv' /\ block_status' = [block_status EXCEPT ![t] = "OK"]
    BY <1>2, SemTakeBlock
  <2>2. /\ count = 0 /\ count' = count /\ t \notin taking
        /\ taking' = taking \cup {t} /\ sem_wait_map' = sem_wait_map \cup {t}
    BY <1>2 DEF Sem!TakeBlock, Sem!Calls
  <2>3. Taker[t] = "idle" /\ Taker'[t] = "waiting"
    BY <2>2, TakerValues, TakerNextValues
  <2>4. \A u \in Task \ {t} : block_status'[u] = block_status[u]
    BY <2>1
  <2>5. Taker' = [Taker EXCEPT ![t] = "waiting"]
    BY <2>2, <2>3, <2>4, TakerOfOne
  <2> QED BY <2>1, <2>2, <2>3, <2>5, SemServiceSteps DEF SemGood
<1>3. CASE Sem!TakeReturn(t)
  <2>1. SemInv' /\ t \notin sem_wait_map
    BY <1>3, SemTakeReturn
  <2>2. /\ count' = count /\ t \in taking /\ taking' = taking \ {t}
        /\ UNCHANGED <<sem_wait_map, block_status>>
    BY <1>3 DEF Sem!TakeReturn, Sem!schedVars
  <2>3. Taker[t] \in {"granted", "refused"} /\ Taker'[t] = "idle"
    BY <2>1, <2>2, TakerValues, TakerNextValues
  <2>4. Taker' = [Taker EXCEPT ![t] = "idle"]
    BY <2>2, <2>3, TakerOfOne
  <2> QED BY <2>1, <2>2, <2>3, <2>4, SemServiceSteps DEF SemGood
<1>4. CASE Sem!Give(t)
  <2>1. /\ current = t /\ ~isr /\ state[t] = "RUNNING"
        /\ Sem!GiveCore /\ Sem!YieldIf(t, pending \/ Sem!GiveOutranks)
    BY <1>4, SchedBoot, Sched!CallerIsRunning DEF SemInv, Sem!Give, Sem!Calls
  <2>2. pending' = (pending \/ Sem!GiveOutranks) /\ pc' \in [Task -> {"run", "yield"}]
    BY <2>1 DEF Sem!YieldIf, SemInv, Sched!InOrder, Sched!SchedTypeOK
  <2> QED BY <2>1, <2>2, SemIdleHandler, SemGiven
<1>5. CASE Sem!Calls(t) /\ Sem!TaskYield(t) /\ UNCHANGED Sem!semVars
  <2>1. current = t /\ state[t] = "RUNNING" /\ Sched!TaskYield(t) /\ UNCHANGED semPart
    BY <1>5, SchedBoot, SemSched, Sched!CallerIsRunning DEF SemInv, Sem!Calls, Sem!semVars, semPart
  <2>2. Sched!InOrder' /\ UNCHANGED <<state, block_status>>
    <3>1. pc' \in [Task -> {"run", "yield"}] /\ pending'
      BY <2>1 DEF SemInv, Sched!InOrder, Sched!SchedTypeOK, Sched!TaskYield
    <3> QED BY <2>1, <3>1, SchedBoot, Sched!CallInOrder DEF SemInv, Sched!TaskYield
  <2>3. SemInv'
    BY <2>1, <2>2, SemElsewhere
  <2> QED BY <2>1, <2>2, <2>3, SemUnseen DEF semPart
<1>6. CASE Sem!Calls(t) /\ Sem!TaskDelay(t) /\ UNCHANGED Sem!semVars
  <2>1. /\ current = t /\ ~isr /\ state[t] = "RUNNING" /\ t \notin taking
        /\ Sched!BlockCurrent(t, TRUE) /\ UNCHANGED <<base, eff, isr, expiring>>
        /\ UNCHANGED semPart
    BY <1>6, SchedBoot, SemSched, Sched!CallerIsRunning
       DEF SemInv, Sem!Calls, Sem!semVars, semPart, Sched!TaskDelay
  <2>2. /\ Sched!InOrder' /\ state' = [state EXCEPT ![t] = "BLOCKED"]
        /\ block_status' = [block_status EXCEPT ![t] = "OK"]
    BY <2>1, SchedBoot, Sched!BlockInOrder DEF SemInv
  <2>3. SemInv'
    BY <2>1, <2>2, SemElsewhere
  <2> QED BY <2>1, <2>2, <2>3, SemUnseen DEF semPart
<1>7. CASE Sem!Yield(t) /\ UNCHANGED Sem!semVars
  <2>1. /\ Sched!InOrder' /\ UNCHANGED block_status /\ UNCHANGED semPart
        /\ \A u \in Task : state'[u] = "BLOCKED" <=> state[u] = "BLOCKED"
    BY <1>7, SchedBoot, SemSched, Sched!YieldInOrder DEF SemInv, Sem!semVars, semPart
  <2>2. SemInv'
    BY <2>1, SemElsewhere DEF SemInv
  <2> QED BY <2>1, <2>2, SemUnseen DEF semPart
<1> QED BY <1>1, <1>2, <1>3, <1>4, <1>5, <1>6, <1>7 DEF Sem!TaskStep

(***************************************************************************)
(* ... and every step of a handler.                                        *)
(***************************************************************************)
LEMMA SemHandlerStep ==
    ASSUME SemInv, Sem!Handler
    PROVE  SemGood
<1>1. CASE Sem!TickEnter /\ UNCHANGED Sem!semVars
  <2>1. Sched!InOrder' /\ UNCHANGED <<state, block_status>> /\ UNCHANGED semPart
    BY <1>1, SchedBoot, SemSched, Sched!TickEnterInOrder DEF SemInv, Sem!semVars, semPart
  <2>2. SemInv'
    BY <2>1, SemElsewhere
  <2> QED BY <2>1, <2>2, SemUnseen DEF semPart
<1>2. ASSUME NEW t \in Task, Sem!Expire(t) PROVE SemGood
  <2>1. /\ SemInv' /\ block_status' = [block_status EXCEPT ![t] = "TIMEOUT"]
        /\ (t \in taking => t \in sem_wait_map)
    BY <1>2, SemExpire
  <2>2. sem_wait_map' = sem_wait_map \ {t} /\ count' = count /\ taking' = taking
    BY <1>2 DEF Sem!Expire
  <2>3. block_status \in [Task -> Sched!Status]
    BY DEF SemInv, Sched!InOrder, Sched!SchedTypeOK
  <2>4. CASE t \notin taking
    BY <2>1, <2>2, <2>4, SemUnseen DEF SemInv, Sem!WaitMapAgrees
  <2>5. CASE t \in taking
    <3>1. Taker[t] = "waiting" /\ Taker'[t] = "refused"
      BY <2>1, <2>2, <2>3, <2>5, TakerValues, TakerNextValues
    <3>2. \A u \in Task \ {t} : block_status'[u] = block_status[u]
      BY <2>1
    <3>3. Taker' = [Taker EXCEPT ![t] = "refused"]
      BY <2>2, <3>1, <3>2, TakerOfOne
    <3> QED BY <2>1, <2>2, <3>1, <3>3, SemServiceSteps DEF SemGood
  <2> QED BY <2>4, <2>5
<1>3. CASE Sem!GiveFromIsr
  <2>1. /\ expiring = {} /\ Sem!GiveCore /\ pending' = (pending \/ Sem!GiveOutranks)
        /\ pc' = pc
    BY <1>3 DEF Sem!GiveFromIsr
  <2>2. /\ pc' \in [Task -> {"run", "yield"}]
        /\ pc'[current] = "run" => state[current] = "RUNNING"
    BY <2>1, SchedBoot, Sched!CallerIsRunning DEF SemInv, Sched!InOrder, Sched!SchedTypeOK
  <2> QED BY <2>1, <2>2, SemGiven
<1>4. CASE Sem!IsrExit /\ UNCHANGED Sem!semVars
  <2>1. /\ Sched!InOrder' /\ UNCHANGED block_status /\ UNCHANGED semPart
        /\ \A u \in Task : state'[u] = "BLOCKED" <=> state[u] = "BLOCKED"
    BY <1>4, SchedBoot, SemSched, Sched!IsrExitInOrder DEF SemInv, Sem!semVars, semPart
  <2>2. SemInv'
    BY <2>1, SemElsewhere DEF SemInv
  <2> QED BY <2>1, <2>2, SemUnseen DEF semPart
<1> QED BY <1>1, <1>2, <1>3, <1>4 DEF Sem!Handler

-----------------------------------------------------------------------------
(* The queue.                                                              *)

\* The ring buffer: types, and the tail used places behind the head.
RingInv ==
    /\ storage \in [0 .. Capacity - 1 -> Item \cup {None}]
    /\ head \in 0 .. Capacity - 1 /\ tail \in 0 .. Capacity - 1 /\ used \in 0 .. Capacity
    /\ tail = IF head + used < Capacity THEN head + used ELSE head + used - Capacity

QueueInv ==
    /\ Sched!InOrder /\ RingInv
    /\ recv_wait_map \in SUBSET Task /\ send_wait_map \in SUBSET Task
    /\ payload \in [Task -> Item \cup {None}]
    /\ delivered \in Task \X (Item \cup {None})
    /\ calling \in SUBSET Task
    /\ Queue!WaitersMatchBuffer /\ Queue!WaitMapsAgree

(***************************************************************************)
(* A queue starts empty with nobody waiting.                               *)
(***************************************************************************)
LEMMA QueueInit ==
    ASSUME Queue!SchedInit, Queue!Created
    PROVE  QueueInv
<1>1. Sched!InOrder
  BY SchedBoot, QueueSched, Sched!InitInOrder
<1>2. Capacity \in Nat \ {0} /\ None \notin Item
  BY KernelAssumption DEF Queue!QueueAssumption
<1>3. BootFirst \in Task
  BY SchedBoot DEF Sched!BootAssumption
<1> QED BY <1>1, <1>2, <1>3 DEF QueueInv, RingInv, Queue!Created, Queue!Slot,
                                Queue!WaitersMatchBuffer, Queue!WaitMapsAgree

(***************************************************************************)
(* A step that leaves the queue alone and blocks or wakes nobody in it.    *)
(***************************************************************************)
LEMMA QueueElsewhere ==
    ASSUME QueueInv, Sched!InOrder', UNCHANGED queuePart,
           \A t \in calling : state'[t] = "BLOCKED" <=> state[t] = "BLOCKED"
    PROVE  QueueInv'
<1>1. RingInv'
  BY DEF QueueInv, RingInv, queuePart
<1> QED BY <1>1 DEF QueueInv, queuePart, Queue!WaitersMatchBuffer, Queue!WaitMapsAgree

-----------------------------------------------------------------------------
(* The ring buffer.                                                        *)

(***************************************************************************)
(* Its content is a list of as many items as are used.                     *)
(***************************************************************************)
LEMMA ContentIsList ==
    ASSUME RingInv
    PROVE  /\ Queue!Content \in Seq(Item \cup {None})
           /\ Len(Queue!Content) = used
           /\ \A i \in 1 .. used :
                 Queue!Content[i] = storage[IF head + i <= Capacity THEN head + i - 1
                                            ELSE head + i - 1 - Capacity]
           /\ Queue!Content = <<>> <=> used = 0
<1>1. Capacity \in Nat \ {0}
  BY KernelAssumption DEF Queue!QueueAssumption
<1>2. \A i \in 1 .. used : Queue!Place(i) \in 0 .. Capacity - 1
  BY <1>1 DEF RingInv, Queue!Place
<1>3. /\ Queue!Content \in Seq(Item \cup {None}) /\ Len(Queue!Content) = used
      /\ \A i \in 1 .. used : Queue!Content[i] = storage[Queue!Place(i)]
  BY <1>1, <1>2 DEF RingInv, Queue!Content
<1> QED BY <1>3 DEF Queue!Place, RingInv

(***************************************************************************)
(* The same after a step.                                                  *)
(***************************************************************************)
LEMMA ContentIsListNext ==
    ASSUME RingInv'
    PROVE  /\ Queue!Content' \in Seq(Item \cup {None})
           /\ Len(Queue!Content') = used'
           /\ \A i \in 1 .. used' :
                 Queue!Content'[i] = storage'[IF head' + i <= Capacity THEN head' + i - 1
                                              ELSE head' + i - 1 - Capacity]
<1>1. Capacity \in Nat \ {0}
  BY KernelAssumption DEF Queue!QueueAssumption
<1>2. PICK h : h = head'
  OBVIOUS
<1>3. PICK n : n = used'
  OBVIOUS
<1>4. h \in 0 .. Capacity - 1 /\ n \in 0 .. Capacity
  BY <1>2, <1>3 DEF RingInv
<1>5. \A i \in 1 .. n : (IF h + i <= Capacity THEN h + i - 1
                         ELSE h + i - 1 - Capacity) \in 0 .. Capacity - 1
  BY <1>1, <1>4
<1>6. PICK g : g = storage'
  OBVIOUS
<1>7. g \in [0 .. Capacity - 1 -> Item \cup {None}]
  BY <1>6 DEF RingInv
<1>8. Queue!Content' = [i \in 1 .. n |-> g[IF h + i <= Capacity THEN h + i - 1
                                          ELSE h + i - 1 - Capacity]]
  BY <1>2, <1>3, <1>6 DEF Queue!Content, Queue!Place
<1>9. PICK c : c = [i \in 1 .. n |-> g[IF h + i <= Capacity THEN h + i - 1
                                      ELSE h + i - 1 - Capacity]]
  OBVIOUS
<1>10. c \in Seq(Item \cup {None}) /\ Len(c) = n
  BY <1>1, <1>4, <1>5, <1>7, <1>9
<1> QED BY <1>2, <1>3, <1>6, <1>8, <1>9, <1>10

(***************************************************************************)
(* queue_enqueue appends to the content.                                   *)
(***************************************************************************)
LEMMA EnqueueAppends ==
    ASSUME RingInv, used < Capacity, NEW item \in Item, Queue!Enqueue(item), head' = head
    PROVE  RingInv' /\ Queue!Content' = Append(Queue!Content, item)
<1>1. Capacity \in Nat \ {0}
  BY KernelAssumption DEF Queue!QueueAssumption
<1>2. /\ storage' = [storage EXCEPT ![tail] = item] /\ used' = used + 1
      /\ tail' = IF tail + 1 = Capacity THEN 0 ELSE tail + 1
  BY DEF Queue!Enqueue, Queue!Advance
<1>3. RingInv'
  BY <1>1, <1>2 DEF RingInv
<1>4. PICK c : c = Queue!Content
  OBVIOUS
<1>5. PICK d : d = Queue!Content'
  OBVIOUS
<1>6. /\ c \in Seq(Item \cup {None}) /\ Len(c) = used
      /\ \A i \in 1 .. used : c[i] = storage[IF head + i <= Capacity THEN head + i - 1
                                            ELSE head + i - 1 - Capacity]
  BY <1>4, ContentIsList
<1>7. /\ d \in Seq(Item \cup {None}) /\ Len(d) = used + 1
      /\ \A i \in 1 .. used + 1 : d[i] = storage'[IF head + i <= Capacity THEN head + i - 1
                                                  ELSE head + i - 1 - Capacity]
  BY <1>2, <1>3, <1>5, ContentIsListNext
<1>8. ASSUME NEW i \in 1 .. used + 1 PROVE d[i] = IF i <= used THEN c[i] ELSE item
  <2>1. CASE i <= used
    BY <1>1, <1>2, <1>6, <1>7, <2>1, SMTT(60) DEF RingInv
  <2>2. CASE i = used + 1
    BY <1>1, <1>2, <1>7, <2>2 DEF RingInv
  <2> QED BY <2>1, <2>2 DEF RingInv
<1>9. d = Append(c, item)
  BY <1>6, <1>7, <1>8 DEF RingInv
<1> QED BY <1>3, <1>4, <1>5, <1>9

(***************************************************************************)
(* queue_dequeue takes the oldest item off the content.                    *)
(***************************************************************************)
LEMMA DequeueTakesHead ==
    ASSUME RingInv, used > 0, head' = Queue!Advance(head), used' = used - 1, tail' = tail,
           storage' = [storage EXCEPT ![head] = None]
    PROVE  /\ RingInv' /\ Queue!Content' = Tail(Queue!Content)
           /\ Head(Queue!Content) = storage[head]
<1>1. Capacity \in Nat \ {0}
  BY KernelAssumption DEF Queue!QueueAssumption
<1>2. head' = IF head + 1 = Capacity THEN 0 ELSE head + 1
  BY DEF Queue!Advance
<1>3. RingInv'
  BY <1>1, <1>2 DEF RingInv
<1>4. PICK c : c = Queue!Content
  OBVIOUS
<1>5. PICK d : d = Queue!Content'
  OBVIOUS
<1>6. /\ c \in Seq(Item \cup {None}) /\ Len(c) = used
      /\ \A i \in 1 .. used : c[i] = storage[IF head + i <= Capacity THEN head + i - 1
                                            ELSE head + i - 1 - Capacity]
  BY <1>4, ContentIsList
<1>7. /\ d \in Seq(Item \cup {None}) /\ Len(d) = used - 1
      /\ \A i \in 1 .. used - 1 : d[i] = storage'[IF head' + i <= Capacity THEN head' + i - 1
                                                  ELSE head' + i - 1 - Capacity]
  BY <1>3, <1>5, ContentIsListNext
<1>8. ASSUME NEW i \in 1 .. used - 1 PROVE d[i] = c[i + 1]
  <2>1. PICK k : k = IF head' + i <= Capacity THEN head' + i - 1 ELSE head' + i - 1 - Capacity
    OBVIOUS
  <2>2. head \in 0 .. Capacity - 1 /\ used \in 0 .. Capacity
    BY DEF RingInv
  <2>3. /\ k \in 0 .. Capacity - 1 /\ k # head /\ i + 1 \in 1 .. used
        /\ k = IF head + (i + 1) <= Capacity THEN head + (i + 1) - 1
               ELSE head + (i + 1) - 1 - Capacity
    BY <1>1, <1>2, <2>1, <2>2
  <2>4. d[i] = storage'[k] /\ c[i + 1] = storage[k]
    BY <1>6, <1>7, <2>1, <2>3
  <2> QED BY <2>3, <2>4 DEF RingInv
<1>9. c # <<>> /\ Head(c) = storage[head]
  BY <1>1, <1>6 DEF RingInv
<1>10. d = Tail(c)
  BY <1>6, <1>7, <1>8, <1>9 DEF RingInv
<1> QED BY <1>3, <1>4, <1>5, <1>9, <1>10

(***************************************************************************)
(* Of a full queue, the place that becomes free goes to a waiting sender.  *)
(***************************************************************************)
LEMMA DequeueAdmits ==
    ASSUME RingInv, used = Capacity, NEW item \in Item,
           head' = Queue!Advance(head), used' = used, tail' = Queue!Advance(tail),
           storage' = [storage EXCEPT ![head] = None, ![tail] = item]
    PROVE  /\ RingInv' /\ Queue!Content' = Append(Tail(Queue!Content), item)
           /\ Head(Queue!Content) = storage[head]
<1>1. Capacity \in Nat \ {0}
  BY KernelAssumption DEF Queue!QueueAssumption
<1>2. /\ tail = head /\ tail' = head'
      /\ head' = IF head + 1 = Capacity THEN 0 ELSE head + 1
      /\ storage' = [storage EXCEPT ![head] = item]
  <2>1. tail = head
    BY <1>1 DEF RingInv
  <2>2. [storage EXCEPT ![head] = None, ![head] = item] = [storage EXCEPT ![head] = item]
    BY DEF RingInv
  <2> QED BY <2>1, <2>2 DEF Queue!Advance
<1>3. RingInv'
  BY <1>1, <1>2 DEF RingInv
<1>4. PICK c : c = Queue!Content
  OBVIOUS
<1>5. PICK d : d = Queue!Content'
  OBVIOUS
<1>6. /\ c \in Seq(Item \cup {None}) /\ Len(c) = Capacity
      /\ \A i \in 1 .. Capacity : c[i] = storage[IF head + i <= Capacity THEN head + i - 1
                                                ELSE head + i - 1 - Capacity]
  BY <1>4, ContentIsList
<1>7. /\ d \in Seq(Item \cup {None}) /\ Len(d) = Capacity
      /\ \A i \in 1 .. Capacity : d[i] = storage'[IF head' + i <= Capacity THEN head' + i - 1
                                                 ELSE head' + i - 1 - Capacity]
  BY <1>3, <1>5, ContentIsListNext
<1>8. ASSUME NEW i \in 1 .. Capacity PROVE d[i] = IF i < Capacity THEN c[i + 1] ELSE item
  BY <1>1, <1>2, <1>6, <1>7, SMTT(60) DEF RingInv
<1>9. c # <<>> /\ Head(c) = storage[head]
  BY <1>1, <1>6 DEF RingInv
<1>10. /\ Tail(c) \in Seq(Item \cup {None}) /\ Len(Tail(c)) = Capacity - 1
       /\ \A i \in 1 .. Capacity - 1 : Tail(c)[i] = c[i + 1]
  BY <1>1, <1>6, <1>9
<1>11. d = Append(Tail(c), item)
  BY <1>1, <1>7, <1>8, <1>10
<1> QED BY <1>3, <1>4, <1>5, <1>9, <1>11

-----------------------------------------------------------------------------
(* The steps of the queue.                                                 *)

\* What the callers of Send and Receive will learn.
Role == [t \in Task |-> Queue!Progress(t)]

(***************************************************************************)
(* It follows from the calls under way, the wait maps and the status.      *)
(***************************************************************************)
LEMMA RoleValues ==
    ASSUME NEW t \in Task
    PROVE  /\ t \notin calling => Role[t] = "idle"
           /\ t \in calling /\ t \in send_wait_map /\ t \notin recv_wait_map
                 => Role[t] = "sending"
           /\ t \in calling /\ t \notin send_wait_map /\ t \in recv_wait_map
                 => Role[t] = "receiving"
           /\ t \in calling /\ t \notin send_wait_map /\ t \notin recv_wait_map
                 => Role[t] = IF block_status[t] = "OK" THEN "done" ELSE "refused"
<1>1. t \in (calling \cap send_wait_map) <=> t \in calling /\ t \in send_wait_map
  OBVIOUS
<1>2. t \in (calling \cap recv_wait_map) <=> t \in calling /\ t \in recv_wait_map
  OBVIOUS
<1>3. Role[t] = Queue!Progress(t)
  BY DEF Role
<1>4. CASE t \notin calling
  BY <1>1, <1>2, <1>3, <1>4 DEF Queue!Progress
<1>5. CASE t \in calling /\ t \in send_wait_map /\ t \notin recv_wait_map
  BY <1>1, <1>2, <1>3, <1>5 DEF Queue!Progress
<1>6. CASE t \in calling /\ t \notin send_wait_map /\ t \in recv_wait_map
  BY <1>1, <1>2, <1>3, <1>6 DEF Queue!Progress
<1>7. CASE t \in calling /\ t \notin send_wait_map /\ t \notin recv_wait_map
  BY <1>1, <1>2, <1>3, <1>7 DEF Queue!Progress
<1> QED BY <1>4, <1>5, <1>6, <1>7

(***************************************************************************)
(* The same after a step.                                                  *)
(***************************************************************************)
LEMMA RoleNextValues ==
    ASSUME NEW t \in Task
    PROVE  /\ t \notin calling' => Role'[t] = "idle"
           /\ t \in calling' /\ t \in send_wait_map' /\ t \notin recv_wait_map'
                 => Role'[t] = "sending"
           /\ t \in calling' /\ t \notin send_wait_map' /\ t \in recv_wait_map'
                 => Role'[t] = "receiving"
           /\ t \in calling' /\ t \notin send_wait_map' /\ t \notin recv_wait_map'
                 => Role'[t] = IF block_status'[t] = "OK" THEN "done" ELSE "refused"
<1>1. t \in (calling \cap send_wait_map)' <=> t \in calling' /\ t \in send_wait_map'
  OBVIOUS
<1>2. t \in (calling \cap recv_wait_map)' <=> t \in calling' /\ t \in recv_wait_map'
  OBVIOUS
<1>3. Role'[t] = Queue!Progress(t)'
  BY DEF Role
<1>4. CASE t \notin calling'
  BY <1>1, <1>2, <1>3, <1>4 DEF Queue!Progress
<1>5. CASE t \in calling' /\ t \in send_wait_map' /\ t \notin recv_wait_map'
  BY <1>1, <1>2, <1>3, <1>5 DEF Queue!Progress
<1>6. CASE t \in calling' /\ t \notin send_wait_map' /\ t \in recv_wait_map'
  BY <1>1, <1>2, <1>3, <1>6 DEF Queue!Progress
<1>7. CASE t \in calling' /\ t \notin send_wait_map' /\ t \notin recv_wait_map'
  BY <1>1, <1>2, <1>3, <1>7 DEF Queue!Progress
<1> QED BY <1>4, <1>5, <1>6, <1>7

(***************************************************************************)
(* A step concerns one task when the others learn what they would have.    *)
(***************************************************************************)
LEMMA RoleOfOne ==
    ASSUME NEW t \in Task, QueueInv, QueueInv',
           \A u \in Task \ {t} : /\ u \in calling' <=> u \in calling
                                 /\ u \in send_wait_map' <=> u \in send_wait_map
                                 /\ u \in recv_wait_map' <=> u \in recv_wait_map
                                 /\ block_status'[u] = block_status[u]
    PROVE  Role' = [Role EXCEPT ![t] = Role'[t]]
<1>1. \A u : /\ ~ (u \in recv_wait_map /\ u \in send_wait_map)
            /\ ~ (u \in recv_wait_map' /\ u \in send_wait_map')
  BY DEF QueueInv, Queue!WaitMapsAgree
<1>2. ASSUME NEW u \in Task \ {t} PROVE Role'[u] = Role[u]
  BY <1>1, <1>2, RoleValues, RoleNextValues
<1> QED BY <1>2 DEF Role

(***************************************************************************)
(* Who waits, as the channel sees it.                                      *)
(***************************************************************************)
LEMMA RoleWaiters ==
    ASSUME QueueInv, NEW t \in Task
    PROVE  /\ Role[t] = "sending" <=> t \in send_wait_map
           /\ Role[t] = "receiving" <=> t \in recv_wait_map
<1>1. t \in send_wait_map \/ t \in recv_wait_map => t \in calling
  BY DEF QueueInv, Queue!WaitMapsAgree
<1>2. ~ (t \in send_wait_map /\ t \in recv_wait_map)
  BY DEF QueueInv, Queue!WaitMapsAgree
<1> QED BY <1>1, <1>2, RoleValues

QueueGood == QueueInv' /\ [Queue!Service!Next]_(Queue!Service!vars)

(***************************************************************************)
(* A step of the queue that its users do not see.                          *)
(***************************************************************************)
LEMMA QueueUnseen ==
    ASSUME QueueInv, QueueInv', UNCHANGED <<storage, head, tail, used, recv_wait_map, send_wait_map,
                                  payload, delivered, calling>>,
           \A t \in calling : t \notin send_wait_map /\ t \notin recv_wait_map
                                 => block_status'[t] = block_status[t]
    PROVE  QueueGood
<1>1. ASSUME NEW t \in Task PROVE Role'[t] = Role[t]
  <2>1. ~ (t \in recv_wait_map /\ t \in send_wait_map)
    BY DEF QueueInv, Queue!WaitMapsAgree
  <2> QED BY <2>1, RoleValues, RoleNextValues
<1>2. Role' = Role
  BY <1>1 DEF Role
<1>3. Queue!Content' = Queue!Content
  BY DEF Queue!Content, Queue!Place
<1>4. UNCHANGED Queue!Service!vars
  BY <1>2, <1>3 DEF Role, Queue!Service!vars
<1> QED BY <1>4 DEF QueueGood

(***************************************************************************)
(* An item arrives, from a task or a handler: it is stored or handed to a  *)
(* receiver that waits.                                                    *)
(***************************************************************************)
LEMMA QueueSent ==
    ASSUME QueueInv, expiring = {}, NEW item \in Item, Queue!TrySend(item),
           pending' = (pending \/ Queue!WakeOutranks(recv_wait_map)),
           pc' \in [Task -> {"run", "yield"}], pc'[current] = "run" => state[current] = "RUNNING"
    PROVE  QueueGood
<1>1. UNCHANGED <<base, eff, current, isr, expiring, send_wait_map, payload, calling>>
  BY DEF Queue!TrySend
<1>2. CASE Queue!Buffer(item)
  <2>1. /\ recv_wait_map = {} /\ used < Capacity /\ Queue!Enqueue(item)
        /\ UNCHANGED <<state, ready, timed, block_status, recv_wait_map, delivered, head>>
    BY <1>2 DEF Queue!Buffer
  <2>2. pending' = pending
    BY <2>1 DEF Queue!WakeOutranks, QueueInv, Sched!InOrder, Sched!SchedTypeOK
  <2>3. Sched!InOrder'
    BY <1>1, <2>1, <2>2, SchedBoot, Sched!CallInOrder
       DEF QueueInv, Sched!InOrder, Sched!SchedTypeOK
  <2>4. RingInv' /\ Queue!Content' = Append(Queue!Content, item)
    BY <2>1, EnqueueAppends DEF QueueInv
  <2>5. send_wait_map = {}
    BY <2>1 DEF QueueInv, RingInv, Queue!WaitersMatchBuffer
  <2>6. QueueInv'
    BY <1>1, <2>1, <2>3, <2>4, <2>5
       DEF QueueInv, Queue!WaitersMatchBuffer, Queue!WaitMapsAgree
  <2>7. Role' = Role
    BY <1>1, <2>1 DEF Role, Queue!Progress
  <2>8. Len(Queue!Content) = used
    BY ContentIsList DEF QueueInv
  <2>9. \A t \in Task : Role[t] # "receiving"
    BY <2>1, RoleWaiters
  <2>10. Queue!Service!Store(item)
    BY <1>1, <2>1, <2>4, <2>7, <2>8, <2>9
       DEF Role, Queue!Service!Store, Queue!Service!Receivers
  <2> QED BY <2>6, <2>10 DEF QueueGood, Queue!Service!Next
<1>3. CASE recv_wait_map # {} /\ Queue!HandTo(Queue!MostUrgent(recv_wait_map), item)
  <2>1. PICK r \in recv_wait_map : r = Queue!MostUrgent(recv_wait_map)
    BY <1>3, SchedBoot, QueueSched, Sched!MostUrgentIsIn DEF QueueInv, Sched!InOrder
  <2>2. /\ Sched!Unblock(r, "OK") /\ recv_wait_map' = recv_wait_map \ {r}
        /\ delivered' = <<r, item>> /\ r \in Task
        /\ UNCHANGED <<storage, head, tail, used>>
    BY <1>3, <2>1, QueueSched DEF Queue!HandTo, QueueInv
  <2>3. state[r] = "BLOCKED" /\ r \in calling /\ r \notin send_wait_map /\ used = 0
    BY <2>1 DEF QueueInv, Queue!WaitMapsAgree, Queue!WaitersMatchBuffer
  <2>4. pending' = (pending \/ Sched!Outranks(r))
    BY <1>3, <2>1, QueueSched DEF Queue!WakeOutranks
  <2>5. /\ Sched!InOrder'
        /\ state' = [state EXCEPT ![r] = "READY"]
        /\ block_status' = [block_status EXCEPT ![r] = "OK"]
    BY <1>1, <2>2, <2>3, <2>4, SchedBoot, Sched!WakeInOrder DEF QueueInv
  <2>6. state \in [Task -> Sched!TaskState] /\ block_status \in [Task -> Sched!Status]
    BY DEF QueueInv, Sched!InOrder, Sched!SchedTypeOK
  <2>7. Queue!WaitMapsAgree'
    BY <1>1, <2>2, <2>3, <2>5, <2>6 DEF QueueInv, Queue!WaitMapsAgree
  <2>8. RingInv'
    BY <2>2 DEF QueueInv, RingInv
  <2>9. QueueInv'
    BY <1>1, <2>2, <2>5, <2>7, <2>8 DEF QueueInv, Queue!WaitersMatchBuffer
  <2>10. Role[r] = "receiving" /\ Role'[r] = "done"
    BY <1>1, <2>1, <2>2, <2>3, <2>5, <2>6, RoleValues, RoleNextValues
  <2>11. Role' = [Role EXCEPT ![r] = "done"]
    BY <1>1, <2>2, <2>5, <2>9, <2>10, RoleOfOne
  <2>12. Queue!Content = <<>> /\ Queue!Content' = Queue!Content
    BY <2>2, <2>3, ContentIsList DEF QueueInv, Queue!Content, Queue!Place
  <2>13. Queue!Service!Hand(item, r)
    BY <1>1, <2>2, <2>10, <2>11, <2>12
       DEF Role, Queue!Service!Hand, Queue!Service!Receivers, Queue!Service!Become
  <2> QED BY <2>2, <2>9, <2>13 DEF QueueGood, Queue!Service!Next
<1> QED BY <1>2, <1>3 DEF Queue!TrySend

(***************************************************************************)
(* Send on a full queue.                                                   *)
(***************************************************************************)
LEMMA QueueSendBlock ==
    ASSUME QueueInv, NEW t \in Task, NEW item \in Item, NEW finite \in BOOLEAN,
           Queue!SendBlock(t, item, finite)
    PROVE  QueueGood
<1>1. /\ current = t /\ ~isr /\ state[t] = "RUNNING" /\ t \notin calling
      /\ recv_wait_map = {} /\ used = Capacity
  BY SchedBoot, Sched!CallerIsRunning DEF QueueInv, Queue!SendBlock, Queue!Calls
<1>2. /\ payload' = [payload EXCEPT ![t] = item] /\ send_wait_map' = send_wait_map \cup {t}
      /\ calling' = calling \cup {t}
      /\ UNCHANGED <<storage, head, tail, used, recv_wait_map, delivered>>
  BY DEF Queue!SendBlock
<1>3. Sched!BlockCurrent(t, finite) /\ UNCHANGED <<base, eff, isr, expiring>>
  BY QueueSched DEF Queue!SendBlock
<1>4. /\ Sched!InOrder' /\ state' = [state EXCEPT ![t] = "BLOCKED"]
      /\ block_status' = [block_status EXCEPT ![t] = "OK"]
  BY <1>1, <1>3, SchedBoot, Sched!BlockInOrder DEF QueueInv
<1>5. state \in [Task -> Sched!TaskState] /\ None \notin Item
  BY KernelAssumption DEF QueueInv, Sched!InOrder, Sched!SchedTypeOK, Queue!QueueAssumption
<1>6. Queue!WaitMapsAgree'
  BY <1>1, <1>2, <1>4, <1>5 DEF QueueInv, Queue!WaitMapsAgree
<1>7. RingInv' /\ Queue!Content' = Queue!Content
  BY <1>2 DEF QueueInv, RingInv, Queue!Content, Queue!Place
<1>8. QueueInv'
  BY <1>1, <1>2, <1>4, <1>6, <1>7 DEF QueueInv, Queue!WaitersMatchBuffer
<1>9. Role[t] = "idle" /\ Role'[t] = "sending"
  BY <1>1, <1>2, RoleValues, RoleNextValues
<1>10. \A u \in Task \ {t} : block_status'[u] = block_status[u]
  BY <1>4
<1>11. Role' = [Role EXCEPT ![t] = "sending"]
  BY <1>2, <1>8, <1>9, <1>10, RoleOfOne
<1>12. Len(Queue!Content) = Capacity
  BY <1>1, ContentIsList DEF QueueInv
<1>13. Queue!Service!OfferAndWait(t, item)
  BY <1>2, <1>7, <1>9, <1>11, <1>12 DEF Role, Queue!Service!OfferAndWait, Queue!Service!Become
<1> QED BY <1>8, <1>13 DEF QueueGood, Queue!Service!Next

(***************************************************************************)
(* Receive on an empty queue.                                              *)
(***************************************************************************)
LEMMA QueueReceiveBlock ==
    ASSUME QueueInv, NEW t \in Task, NEW finite \in BOOLEAN, Queue!ReceiveBlock(t, finite)
    PROVE  QueueGood
<1>1. /\ current = t /\ ~isr /\ state[t] = "RUNNING" /\ t \notin calling /\ used = 0
  BY SchedBoot, Sched!CallerIsRunning DEF QueueInv, Queue!ReceiveBlock, Queue!Calls
<1>2. /\ recv_wait_map' = recv_wait_map \cup {t} /\ calling' = calling \cup {t}
      /\ UNCHANGED <<storage, head, tail, used, send_wait_map, payload, delivered>>
  BY DEF Queue!ReceiveBlock
<1>3. Sched!BlockCurrent(t, finite) /\ UNCHANGED <<base, eff, isr, expiring>>
  BY QueueSched DEF Queue!ReceiveBlock
<1>4. /\ Sched!InOrder' /\ state' = [state EXCEPT ![t] = "BLOCKED"]
      /\ block_status' = [block_status EXCEPT ![t] = "OK"]
  BY <1>1, <1>3, SchedBoot, Sched!BlockInOrder DEF QueueInv
<1>5. state \in [Task -> Sched!TaskState] /\ t \notin send_wait_map
  BY <1>1 DEF QueueInv, Sched!InOrder, Sched!SchedTypeOK, Queue!WaitMapsAgree
<1>6. Queue!WaitMapsAgree'
  BY <1>1, <1>2, <1>4, <1>5 DEF QueueInv, Queue!WaitMapsAgree
<1>7. RingInv' /\ Queue!Content' = Queue!Content
  BY <1>2 DEF QueueInv, RingInv, Queue!Content, Queue!Place
<1>8. QueueInv'
  BY <1>1, <1>2, <1>4, <1>6, <1>7 DEF QueueInv, Queue!WaitersMatchBuffer
<1>9. Role[t] = "idle" /\ Role'[t] = "receiving"
  BY <1>1, <1>2, <1>5, RoleValues, RoleNextValues
<1>10. \A u \in Task \ {t} : block_status'[u] = block_status[u]
  BY <1>4
<1>11. Role' = [Role EXCEPT ![t] = "receiving"]
  BY <1>2, <1>8, <1>9, <1>10, RoleOfOne
<1>12. Queue!Content = <<>>
  BY <1>1, ContentIsList DEF QueueInv
<1>13. Queue!Service!WaitForItem(t)
  BY <1>2, <1>7, <1>9, <1>11, <1>12 DEF Role, Queue!Service!WaitForItem, Queue!Service!Become
<1> QED BY <1>8, <1>13 DEF QueueGood, Queue!Service!Next

(***************************************************************************)
(* Receive takes the oldest item; a sender that waits gets the free place. *)
(***************************************************************************)
LEMMA QueueReceive ==
    ASSUME QueueInv, NEW t \in Task, Queue!Receive(t)
    PROVE  QueueGood
<1>1. /\ current = t /\ ~isr /\ pc[t] = "run" /\ state[t] = "RUNNING" /\ t \notin calling
      /\ used > 0
  BY SchedBoot, Sched!CallerIsRunning DEF QueueInv, Queue!Receive, Queue!Calls
<1>2. /\ delivered' = <<t, storage[head]>> /\ head' = Queue!Advance(head)
      /\ UNCHANGED <<base, eff, current, isr, expiring, recv_wait_map, calling>>
  BY DEF Queue!Receive
<1>3. /\ pending' = (pending \/ Queue!WakeOutranks(send_wait_map))
      /\ pc' \in [Task -> {"run", "yield"}]
  BY DEF Queue!Receive, Queue!YieldIf, QueueInv, Sched!InOrder, Sched!SchedTypeOK
<1>4. expiring = {}
  BY <1>1 DEF QueueInv, Sched!InOrder, Sched!SchedInv, Sched!DeadlinesOnlyForWaiters
<1>5. /\ recv_wait_map = {} /\ Role[t] = "idle" /\ Queue!Content # <<>>
      /\ Queue!Content \in Seq(Item \cup {None})
      /\ delivered' \in Task \X (Item \cup {None})
  <2>1. storage[head] \in Item \cup {None}
    BY DEF QueueInv, RingInv
  <2>2. used # 0
    BY <1>1
  <2> QED BY <1>1, <1>2, <2>1, <2>2, RoleValues, ContentIsList
     DEF QueueInv, Queue!WaitersMatchBuffer
<1>6. CASE Queue!AdmitNone
  <2>1. /\ send_wait_map = {} /\ storage' = [storage EXCEPT ![head] = None] /\ used' = used - 1
        /\ UNCHANGED <<tail, send_wait_map, payload, state, ready, timed, block_status>>
    BY <1>6 DEF Queue!AdmitNone
  <2>2. pending' = pending
    BY <1>3, <2>1 DEF Queue!WakeOutranks, QueueInv, Sched!InOrder, Sched!SchedTypeOK
  <2>3. Sched!InOrder'
    BY <1>1, <1>2, <1>3, <2>1, <2>2, SchedBoot, Sched!CallInOrder
       DEF QueueInv, Sched!InOrder, Sched!SchedTypeOK
  <2>4. /\ RingInv' /\ Queue!Content' = Tail(Queue!Content)
        /\ Head(Queue!Content) = storage[head]
    BY <1>1, <1>2, <2>1, DequeueTakesHead DEF QueueInv
  <2>5. QueueInv'
    BY <1>2, <1>5, <2>1, <2>3, <2>4 DEF QueueInv, Queue!WaitersMatchBuffer, Queue!WaitMapsAgree
  <2>6. Role' = Role
    BY <1>2, <2>1 DEF Role, Queue!Progress
  <2>7. \A u \in Task : Role[u] # "sending"
    BY <2>1, RoleWaiters
  <2>8. Queue!Service!Receive(t)
    BY <1>2, <1>5, <2>1, <2>4, <2>6, <2>7
       DEF Role, Queue!Service!Receive, Queue!Service!Senders
  <2> QED BY <2>5, <2>8 DEF QueueGood, Queue!Service!Next
<1>7. CASE send_wait_map # {} /\ Queue!AdmitSender(Queue!MostUrgent(send_wait_map))
  <2>1. PICK s \in send_wait_map : s = Queue!MostUrgent(send_wait_map)
    BY <1>7, SchedBoot, QueueSched, Sched!MostUrgentIsIn DEF QueueInv, Sched!InOrder
  <2>2. /\ storage' = [storage EXCEPT ![head] = None, ![tail] = payload[s]]
        /\ tail' = Queue!Advance(tail) /\ used' = used
        /\ payload' = [payload EXCEPT ![s] = None]
        /\ send_wait_map' = send_wait_map \ {s}
        /\ Sched!Unblock(s, "OK") /\ s \in Task
    BY <1>7, <2>1, QueueSched DEF Queue!AdmitSender, QueueInv
  <2>3. /\ state[s] = "BLOCKED" /\ s \in calling /\ s \notin recv_wait_map
        /\ used = Capacity /\ payload[s] \in Item
    BY <2>1 DEF QueueInv, Queue!WaitMapsAgree, Queue!WaitersMatchBuffer
  <2>4. pending' = (pending \/ Sched!Outranks(s))
    BY <1>3, <1>7, <2>1, QueueSched DEF Queue!WakeOutranks
  <2>5. /\ Sched!InOrder'
        /\ state' = [state EXCEPT ![s] = "READY"]
        /\ block_status' = [block_status EXCEPT ![s] = "OK"]
    BY <1>1, <1>2, <1>3, <1>4, <2>2, <2>3, <2>4, SchedBoot, Sched!WakeInOrder DEF QueueInv
  <2>6. state \in [Task -> Sched!TaskState] /\ block_status \in [Task -> Sched!Status]
    BY DEF QueueInv, Sched!InOrder, Sched!SchedTypeOK
  <2>7. Queue!WaitMapsAgree'
    BY <1>2, <2>2, <2>3, <2>5, <2>6 DEF QueueInv, Queue!WaitMapsAgree
  <2>8. /\ RingInv' /\ Queue!Content' = Append(Tail(Queue!Content), payload[s])
        /\ Head(Queue!Content) = storage[head]
    BY <1>2, <2>2, <2>3, DequeueAdmits DEF QueueInv
  <2>9. QueueInv'
    BY <1>2, <1>5, <2>2, <2>3, <2>5, <2>7, <2>8 DEF QueueInv, Queue!WaitersMatchBuffer
  <2>10. Role[s] = "sending" /\ Role'[s] = "done"
    BY <1>2, <2>1, <2>2, <2>3, <2>5, <2>6, RoleValues, RoleNextValues
  <2>11. Role' = [Role EXCEPT ![s] = "done"]
    BY <1>2, <2>2, <2>5, <2>9, <2>10, RoleOfOne
  <2>12. Queue!Service!ReceiveAndAdmit(t, s)
    BY <1>2, <1>5, <2>2, <2>8, <2>10, <2>11
       DEF Role, Queue!Service!ReceiveAndAdmit, Queue!Service!Senders, Queue!Service!Become
  <2> QED BY <2>2, <2>9, <2>12 DEF QueueGood, Queue!Service!Next
<1> QED BY <1>6, <1>7 DEF Queue!Receive

(***************************************************************************)
(* A blocked call returns what it learned.                                 *)
(***************************************************************************)
LEMMA QueueReturn ==
    ASSUME QueueInv, NEW t \in Task, Queue!Return(t)
    PROVE  QueueGood
<1>1. Sched!InOrder' /\ UNCHANGED <<state, block_status>>
  BY SchedBoot, Sched!SameInOrder DEF QueueInv, Queue!Return, Queue!schedVars, Sched!schedVars
<1>2. state[t] = "RUNNING"
  BY SchedBoot, Sched!CallerIsRunning DEF QueueInv, Queue!Return
<1>3. /\ t \in calling /\ calling' = calling \ {t}
      /\ UNCHANGED <<storage, head, tail, used, recv_wait_map, send_wait_map, payload, delivered>>
  BY DEF Queue!Return
<1>4. t \notin recv_wait_map /\ t \notin send_wait_map
  BY <1>2 DEF QueueInv, Queue!WaitMapsAgree
<1>5. RingInv' /\ Queue!Content' = Queue!Content
  BY <1>3 DEF QueueInv, RingInv, Queue!Content, Queue!Place
<1>6. QueueInv'
  BY <1>1, <1>3, <1>4, <1>5 DEF QueueInv, Queue!WaitersMatchBuffer, Queue!WaitMapsAgree
<1>7. Role[t] \in {"done", "refused"} /\ Role'[t] = "idle"
  BY <1>3, <1>4, RoleValues, RoleNextValues
<1>8. Role' = [Role EXCEPT ![t] = "idle"]
  BY <1>1, <1>3, <1>6, <1>7, RoleOfOne
<1>9. Queue!Service!Leave(t)
  BY <1>3, <1>5, <1>7, <1>8 DEF Role, Queue!Service!Leave, Queue!Service!Become
<1> QED BY <1>6, <1>9 DEF QueueGood, Queue!Service!Next

(***************************************************************************)
(* A deadline ends the wait of a sender or receiver, or of a task that     *)
(* waits elsewhere.                                                        *)
(***************************************************************************)
LEMMA QueueExpire ==
    ASSUME QueueInv, NEW t \in Task, Queue!Expire(t)
    PROVE  QueueGood
<1>1. Sched!Expired(t) /\ Sched!WakeExpired(t)
  BY QueueSched DEF Queue!Expire
<1>2. /\ Sched!InOrder'
      /\ state[t] = "BLOCKED" /\ state' = [state EXCEPT ![t] = "READY"]
      /\ block_status' = [block_status EXCEPT ![t] = "TIMEOUT"]
  BY <1>1, SchedBoot, Sched!ExpireInOrder DEF QueueInv
<1>3. /\ recv_wait_map' = recv_wait_map \ {t} /\ send_wait_map' = send_wait_map \ {t}
      /\ payload' = [payload EXCEPT ![t] = None]
      /\ UNCHANGED <<storage, head, tail, used, delivered, calling>>
  BY DEF Queue!Expire
<1>4. state \in [Task -> Sched!TaskState] /\ block_status \in [Task -> Sched!Status]
  BY DEF QueueInv, Sched!InOrder, Sched!SchedTypeOK
<1>5. Queue!WaitMapsAgree'
  BY <1>2, <1>3, <1>4 DEF QueueInv, Queue!WaitMapsAgree
<1>6. RingInv' /\ Queue!Content' = Queue!Content
  BY <1>3 DEF QueueInv, RingInv, Queue!Content, Queue!Place
<1>7. QueueInv'
  BY <1>2, <1>3, <1>5, <1>6 DEF QueueInv, Queue!WaitersMatchBuffer
<1>8. CASE t \notin calling
  <2>1. t \notin recv_wait_map /\ t \notin send_wait_map
    BY <1>8 DEF QueueInv, Queue!WaitMapsAgree
  <2>2. payload' = payload
    BY <1>3, <2>1 DEF QueueInv, Queue!WaitMapsAgree
  <2> QED BY <1>2, <1>3, <1>4, <1>7, <1>8, <2>1, <2>2, QueueUnseen
<1>9. CASE t \in calling
  <2>1. t \in recv_wait_map \/ t \in send_wait_map
    BY <1>2, <1>9 DEF QueueInv, Queue!WaitMapsAgree
  <2>2. Role[t] \in {"sending", "receiving"}
    BY <2>1, RoleWaiters
  <2>3. Role'[t] = "refused"
    BY <1>2, <1>3, <1>4, <1>9, RoleNextValues
  <2>4. \A u \in Task \ {t} : block_status'[u] = block_status[u]
    BY <1>2
  <2>5. Role' = [Role EXCEPT ![t] = "refused"]
    BY <1>3, <1>7, <2>3, <2>4, RoleOfOne
  <2>6. Queue!Service!GiveUp(t)
    BY <1>3, <1>6, <2>2, <2>5 DEF Role, Queue!Service!GiveUp, Queue!Service!Become
  <2> QED BY <1>7, <2>6 DEF QueueGood, Queue!Service!Next
<1> QED BY <1>8, <1>9

(***************************************************************************)
(* Every step of a task keeps the queue's invariant and is a step of the   *)
(* channel, or none that its users see.                                    *)
(***************************************************************************)
LEMMA QueueTaskStep ==
    ASSUME QueueInv, NEW t \in Task, Queue!TaskStep(t)
    PROVE  QueueGood
<1>1. ASSUME NEW item \in Item, Queue!Send(t, item) PROVE QueueGood
  <2>1. /\ current = t /\ ~isr /\ state[t] = "RUNNING" /\ Queue!TrySend(item)
        /\ Queue!YieldIf(t, pending \/ Queue!WakeOutranks(recv_wait_map))
    BY <1>1, SchedBoot, Sched!CallerIsRunning DEF QueueInv, Queue!Send, Queue!Calls
  <2>2. /\ pending' = (pending \/ Queue!WakeOutranks(recv_wait_map))
        /\ pc' \in [Task -> {"run", "yield"}]
    BY <2>1 DEF Queue!YieldIf, QueueInv, Sched!InOrder, Sched!SchedTypeOK
  <2>3. expiring = {}
    BY <2>1 DEF QueueInv, Sched!InOrder, Sched!SchedInv, Sched!DeadlinesOnlyForWaiters
  <2> QED BY <2>1, <2>2, <2>3, QueueSent
<1>2. CASE Queue!Yield(t) /\ UNCHANGED Queue!queueVars
  <2>1. /\ Sched!InOrder' /\ UNCHANGED block_status /\ UNCHANGED queuePart
        /\ \A u \in Task : state'[u] = "BLOCKED" <=> state[u] = "BLOCKED"
    BY <1>2, SchedBoot, QueueSched, Sched!YieldInOrder DEF QueueInv, Queue!queueVars, queuePart
  <2>2. QueueInv'
    BY <2>1, QueueElsewhere DEF QueueInv
  <2> QED BY <2>1, <2>2, QueueUnseen DEF queuePart
<1> QED BY <1>1, <1>2, QueueSendBlock, QueueReceive, QueueReceiveBlock, QueueReturn
       DEF Queue!TaskStep

(***************************************************************************)
(* The steps of the handlers.                                              *)
(***************************************************************************)
LEMMA QueueHandlerStep ==
    ASSUME QueueInv, Queue!Handler
    PROVE  QueueGood
<1>1. CASE Queue!TickEnter /\ UNCHANGED Queue!queueVars
  <2>1. Sched!InOrder' /\ UNCHANGED <<state, block_status>> /\ UNCHANGED queuePart
    BY <1>1, SchedBoot, QueueSched, Sched!TickEnterInOrder DEF QueueInv, Queue!queueVars, queuePart
  <2>2. QueueInv'
    BY <2>1, QueueElsewhere
  <2> QED BY <2>1, <2>2, QueueUnseen DEF queuePart
<1>2. ASSUME NEW item \in Item, Queue!SendFromIsr(item) PROVE QueueGood
  <2>1. /\ expiring = {} /\ Queue!TrySend(item) /\ pc' = pc
        /\ pending' = (pending \/ Queue!WakeOutranks(recv_wait_map))
    BY <1>2 DEF Queue!SendFromIsr
  <2>2. current' = current
    BY <2>1 DEF Queue!TrySend
  <2>3. /\ pc' \in [Task -> {"run", "yield"}]
        /\ pc'[current] = "run" => state[current] = "RUNNING"
    BY <2>1, SchedBoot, Sched!CallerIsRunning DEF QueueInv, Sched!InOrder, Sched!SchedTypeOK
  <2> QED BY <2>1, <2>3, QueueSent
<1>3. CASE Queue!IsrExit /\ UNCHANGED Queue!queueVars
  <2>1. /\ Sched!InOrder' /\ UNCHANGED block_status /\ UNCHANGED queuePart
        /\ \A u \in Task : state'[u] = "BLOCKED" <=> state[u] = "BLOCKED"
    BY <1>3, SchedBoot, QueueSched, Sched!IsrExitInOrder DEF QueueInv, Queue!queueVars, queuePart
  <2>2. QueueInv'
    BY <2>1, QueueElsewhere DEF QueueInv
  <2> QED BY <2>1, <2>2, QueueUnseen DEF queuePart
<1> QED BY <1>1, <1>2, <1>3, QueueExpire DEF Queue!Handler

-----------------------------------------------------------------------------
(* The event object.                                                       *)

EventInv ==
    /\ FewSched!InOrder
    /\ flags \in SUBSET Flag
    /\ event_wait_map \in SUBSET Few /\ event_waiting \in SUBSET Few
    /\ asked \in [Few -> Event!Request] /\ mask \in [Few -> SUBSET Flag]
    /\ Event!NobodyOverslept /\ Event!WaitMapAgrees /\ Event!AnswerMeetsRequest

(***************************************************************************)
(* What the kernel assumes of the tasks that use events or notifications.  *)
(***************************************************************************)
LEMMA FewBoot == FewSched!BootAssumption
BY KernelAssumption, EventSched

(***************************************************************************)
(* The arguments that stand for no Wait are a request.                     *)
(***************************************************************************)
LEMMA AnyIsRequest == Event!AnyRequest \in Event!Request
<1>1. Flag \in (SUBSET Flag) \ {{}}
  BY KernelAssumption DEF Event!FlagAssumption
<1> QED BY <1>1 DEF Event!AnyRequest, Event!Request

(***************************************************************************)
(* An event object starts without flags and with nobody waiting.           *)
(***************************************************************************)
LEMMA EventInit ==
    ASSUME Event!SchedInit, Event!Created
    PROVE  EventInv
<1>1. FewSched!InOrder
  BY FewBoot, EventSched, FewSched!InitInOrder
<1>2. Event!AnyRequest \in Event!Request
  BY AnyIsRequest
<1> QED BY <1>1, <1>2 DEF EventInv, Event!Created, Event!NobodyOverslept, Event!WaitMapAgrees,
                          Event!AnswerMeetsRequest

(***************************************************************************)
(* With fewer flags no more requests are met.                              *)
(***************************************************************************)
LEMMA FewerFlagsMeetLess ==
    ASSUME NEW fs, NEW gs \in SUBSET fs, NEW req, Event!Met(gs, req)
    PROVE  Event!Met(fs, req)
BY DEF Event!Met

(***************************************************************************)
(* A step that blocks or wakes no waiter, changes no answer and sets no    *)
(* flag.                                                                   *)
(***************************************************************************)
LEMMA EventElsewhere ==
    ASSUME EventInv, FewSched!InOrder', flags' \in SUBSET flags,
           UNCHANGED <<event_wait_map, asked, mask, event_waiting>>,
           \A t \in event_waiting : /\ state'[t] = "BLOCKED" <=> state[t] = "BLOCKED"
                                    /\ block_status'[t] = block_status[t]
    PROVE  EventInv'
<1>1. Event!NobodyOverslept'
  BY FewerFlagsMeetLess DEF EventInv, Event!NobodyOverslept
<1>2. Event!WaitMapAgrees'
  BY DEF EventInv, Event!WaitMapAgrees
<1>3. Event!AnswerMeetsRequest'
  <2>1. ASSUME NEW t \in event_waiting \ event_wait_map
        PROVE  block_status'[t] = block_status[t]
    OBVIOUS
  <2> QED BY <2>1 DEF EventInv, Event!AnswerMeetsRequest
<1> QED BY <1>1, <1>2, <1>3 DEF EventInv

(***************************************************************************)
(* Wait without flags that meet the request.                               *)
(***************************************************************************)
LEMMA EventWaitBlock ==
    ASSUME EventInv, NEW t \in Few, NEW req \in Event!Request, NEW finite \in BOOLEAN,
           Event!WaitBlock(t, req, finite)
    PROVE  EventInv'
<1>1. current = t /\ ~isr /\ state[t] = "RUNNING" /\ t \notin event_waiting
  BY FewBoot, FewSched!CallerIsRunning DEF EventInv, Event!WaitBlock, Event!Calls
<1>2. /\ event_wait_map' = event_wait_map \cup {t} /\ event_waiting' = event_waiting \cup {t}
      /\ asked' = [asked EXCEPT ![t] = req] /\ mask' = [mask EXCEPT ![t] = req.want]
      /\ flags' = flags /\ ~Event!Met(flags, req)
  BY DEF Event!WaitBlock
<1>3. FewSched!BlockCurrent(t, finite) /\ UNCHANGED <<base, eff, isr, expiring>>
  BY EventSched DEF Event!WaitBlock
<1>4. /\ FewSched!InOrder' /\ state' = [state EXCEPT ![t] = "BLOCKED"]
      /\ block_status' = [block_status EXCEPT ![t] = "OK"]
  BY <1>1, <1>3, FewBoot, FewSched!BlockInOrder DEF EventInv
<1>5. /\ state \in [Few -> FewSched!TaskState] /\ block_status \in [Few -> FewSched!Status]
      /\ req.want \in SUBSET Flag
  BY DEF EventInv, FewSched!InOrder, FewSched!SchedTypeOK, Event!Request
<1>6. /\ asked' \in [Few -> Event!Request] /\ mask' \in [Few -> SUBSET Flag]
      /\ event_wait_map' \in SUBSET Few /\ event_waiting' \in SUBSET Few
  BY <1>2, <1>5 DEF EventInv
<1>7. \A u \in Few : u # t => /\ asked'[u] = asked[u] /\ mask'[u] = mask[u]
                              /\ block_status'[u] = block_status[u]
  BY <1>2, <1>4 DEF EventInv
<1>8. asked'[t] = req /\ mask'[t] = req.want
  BY <1>2 DEF EventInv
<1>9. Event!NobodyOverslept'
  BY <1>2, <1>7, <1>8 DEF EventInv, Event!NobodyOverslept
<1>10. Event!WaitMapAgrees'
  <2>1. event_wait_map' = {u \in event_waiting' : state'[u] = "BLOCKED"}
    BY <1>1, <1>2, <1>4, <1>5 DEF EventInv, Event!WaitMapAgrees
  <2>2. \A u \in event_wait_map' : mask'[u] = asked'[u].want
    BY <1>2, <1>7, <1>8 DEF EventInv, Event!WaitMapAgrees
  <2> QED BY <2>1, <2>2 DEF Event!WaitMapAgrees
<1>11. Event!AnswerMeetsRequest'
  BY <1>2, <1>7 DEF EventInv, Event!AnswerMeetsRequest
<1> QED BY <1>2, <1>4, <1>6, <1>9, <1>10, <1>11 DEF EventInv

(***************************************************************************)
(* A Wait returns what it learned.                                         *)
(***************************************************************************)
LEMMA EventWaitReturn ==
    ASSUME EventInv, NEW t \in Few, Event!WaitReturn(t)
    PROVE  EventInv'
<1>1. FewSched!InOrder' /\ UNCHANGED <<state, block_status>>
  BY FewBoot, FewSched!SameInOrder
     DEF EventInv, Event!WaitReturn, Event!schedVars, FewSched!schedVars
<1>2. state[t] = "RUNNING"
  BY FewBoot, FewSched!CallerIsRunning DEF EventInv, Event!WaitReturn
<1>3. /\ event_waiting' = event_waiting \ {t} /\ UNCHANGED <<flags, event_wait_map>>
      /\ asked' = [asked EXCEPT ![t] = Event!AnyRequest] /\ mask' = [mask EXCEPT ![t] = {}]
  BY DEF Event!WaitReturn
<1>4. t \notin event_wait_map
  BY <1>2 DEF EventInv, Event!WaitMapAgrees
<1>5. Event!AnyRequest \in Event!Request
  BY AnyIsRequest
<1>6. asked' \in [Few -> Event!Request] /\ mask' \in [Few -> SUBSET Flag]
  BY <1>3, <1>5 DEF EventInv
<1>7. \A u \in Few : u # t => asked'[u] = asked[u] /\ mask'[u] = mask[u]
  BY <1>3 DEF EventInv
<1>8. Event!NobodyOverslept' /\ Event!WaitMapAgrees'
  BY <1>1, <1>3, <1>4, <1>7 DEF EventInv, Event!NobodyOverslept, Event!WaitMapAgrees
<1>9. Event!AnswerMeetsRequest'
  BY <1>1, <1>3, <1>7 DEF EventInv, Event!AnswerMeetsRequest
<1> QED BY <1>1, <1>3, <1>6, <1>8, <1>9 DEF EventInv

(***************************************************************************)
(* Set, from a task or a handler: every waiter it satisfies wakes with     *)
(* what it matched, and the others still wait for more.                    *)
(***************************************************************************)
LEMMA EventSet ==
    ASSUME EventInv, expiring = {}, NEW raised \in SUBSET Flag, Event!SetCore(raised),
           pending' = (pending \/ Event!SetOutranks(raised)),
           pc' \in [Few -> {"run", "yield"}], pc'[current] = "run" => state[current] = "RUNNING"
    PROVE  EventInv'
<1>1. PICK fs : fs = flags \cup raised
  OBVIOUS
<1>2. PICK W : W = Event!Satisfied(fs)
  OBVIOUS
<1>3. /\ flags' = fs \ Event!Consumed(fs)
      /\ Event!Wake(W, fs)
      /\ UNCHANGED <<base, eff, current, isr, expiring, asked, event_waiting>>
  BY <1>1, <1>2 DEF Event!SetCore, Event!WakeSatisfied
<1>4. /\ event_wait_map' = event_wait_map \ W
      /\ mask' = [t \in Few |-> IF t \in W THEN fs \cap mask[t] ELSE mask[t]]
      /\ FewSched!UnblockAll(W, "OK")
  BY <1>3, EventSched DEF Event!Wake, Event!Matched
<1>5. /\ W \subseteq event_wait_map /\ W \in SUBSET Few
      /\ \A t \in W : Event!Met(fs, asked[t])
      /\ \A t \in event_wait_map : t \notin W => ~Event!Met(fs, asked[t])
  BY <1>2 DEF Event!Satisfied, EventInv
<1>6. \A t \in W : state[t] = "BLOCKED" /\ t \in event_waiting /\ mask[t] = asked[t].want
  BY <1>5 DEF EventInv, Event!WaitMapAgrees
<1>7. pending' = (pending \/ \E t \in W : FewSched!Outranks(t))
  BY <1>1, <1>2, EventSched DEF Event!SetOutranks
<1>8. FewSched!InOrder'
  <2>1. FewSched!InOrder /\ \A t \in W : state[t] = "BLOCKED"
    BY <1>6 DEF EventInv
  <2>2. UNCHANGED <<base, eff, current, isr, expiring>>
    BY <1>3
  <2> QED BY <1>4, <1>5, <1>7, <2>1, <2>2, FewBoot, FewSched!WakeAllInOrder
<1>9. /\ state' = [t \in Few |-> IF t \in W THEN "READY" ELSE state[t]]
      /\ block_status' = [t \in Few |-> IF t \in W THEN "OK" ELSE block_status[t]]
  BY <1>4 DEF FewSched!UnblockAll
<1>10. fs \in SUBSET Flag /\ flags' \in SUBSET Flag /\ flags' \in SUBSET fs
  BY <1>1, <1>3 DEF EventInv
<1>11. mask' \in [Few -> SUBSET Flag]
  BY <1>4, <1>10 DEF EventInv
<1>12. Event!NobodyOverslept'
  <2>1. ASSUME NEW t \in event_wait_map, t \notin W PROVE ~Event!Met(flags', asked[t])
    BY <1>5, <1>10, <2>1, FewerFlagsMeetLess
  <2> QED BY <1>3, <1>4, <2>1 DEF Event!NobodyOverslept
<1>13. Event!WaitMapAgrees'
  <2>1. event_wait_map' = {t \in event_waiting' : state'[t] = "BLOCKED"}
    BY <1>3, <1>4, <1>9 DEF EventInv, Event!WaitMapAgrees
  <2>2. \A t \in event_wait_map' : mask'[t] = asked'[t].want
    BY <1>3, <1>4 DEF EventInv, Event!WaitMapAgrees
  <2> QED BY <2>1, <2>2 DEF Event!WaitMapAgrees
<1>14. Event!AnswerMeetsRequest'
  <2>1. ASSUME NEW t \in W
        PROVE  /\ block_status'[t] = "OK" /\ mask'[t] \subseteq asked[t].want
               /\ Event!Met(mask'[t], asked[t])
    <3>1. t \in Few /\ mask'[t] = fs \cap asked[t].want /\ block_status'[t] = "OK"
      BY <1>4, <1>5, <1>6, <1>9
    <3>2. Event!Met(fs \cap asked[t].want, asked[t])
      BY <1>5 DEF Event!Met
    <3> QED BY <3>1, <3>2
  <2>2. ASSUME NEW t \in event_waiting, t \notin event_wait_map
        PROVE  mask'[t] = mask[t] /\ block_status'[t] = block_status[t]
    BY <1>4, <1>5, <1>9, <2>2 DEF EventInv
  <2>3. ASSUME NEW t \in event_waiting \ (event_wait_map \ W)
        PROVE  IF block_status'[t] = "OK"
                 THEN mask'[t] \subseteq asked[t].want /\ Event!Met(mask'[t], asked[t])
                 ELSE mask'[t] = {}
    <3>1. CASE t \in W
      BY <2>1, <3>1
    <3>2. CASE t \notin W
      <4>1. t \in event_waiting \ event_wait_map
        BY <3>2
      <4> QED BY <2>2, <4>1 DEF EventInv, Event!AnswerMeetsRequest
    <3> QED BY <3>1, <3>2
  <2> QED BY <1>3, <1>4, <2>3 DEF Event!AnswerMeetsRequest
<1> QED BY <1>3, <1>4, <1>8, <1>10, <1>11, <1>12, <1>13, <1>14 DEF EventInv

(***************************************************************************)
(* A deadline ends a Wait, or the delay of a task that waits elsewhere.    *)
(***************************************************************************)
LEMMA EventExpire ==
    ASSUME EventInv, NEW t \in Few, Event!Expire(t)
    PROVE  EventInv'
<1>1. FewSched!Expired(t) /\ FewSched!WakeExpired(t)
  BY EventSched DEF Event!Expire
<1>2. /\ FewSched!InOrder'
      /\ state[t] = "BLOCKED" /\ state' = [state EXCEPT ![t] = "READY"]
      /\ block_status' = [block_status EXCEPT ![t] = "TIMEOUT"]
  BY <1>1, FewBoot, FewSched!ExpireInOrder DEF EventInv
<1>3. /\ event_wait_map' = event_wait_map \ {t} /\ mask' = [mask EXCEPT ![t] = {}]
      /\ UNCHANGED <<flags, asked, event_waiting>>
  BY DEF Event!Expire
<1>4. state \in [Few -> FewSched!TaskState] /\ block_status \in [Few -> FewSched!Status]
  BY DEF EventInv, FewSched!InOrder, FewSched!SchedTypeOK
<1>5. mask' \in [Few -> SUBSET Flag] /\ mask'[t] = {} /\ block_status'[t] = "TIMEOUT"
  BY <1>2, <1>3, <1>4 DEF EventInv
<1>6. \A u \in Few : u # t => mask'[u] = mask[u] /\ block_status'[u] = block_status[u]
  BY <1>2, <1>3 DEF EventInv
<1>7. Event!NobodyOverslept'
  BY <1>3 DEF EventInv, Event!NobodyOverslept
<1>8. Event!WaitMapAgrees'
  BY <1>2, <1>3, <1>4, <1>6 DEF EventInv, Event!WaitMapAgrees
<1>9. Event!AnswerMeetsRequest'
  BY <1>3, <1>5, <1>6 DEF EventInv, Event!AnswerMeetsRequest
<1> QED BY <1>2, <1>3, <1>5, <1>7, <1>8, <1>9 DEF EventInv

(***************************************************************************)
(* Every step of the event object keeps its invariant.                     *)
(***************************************************************************)
LEMMA EventStep ==
    ASSUME EventInv, Event!Next
    PROVE  EventInv'
<1>1. ASSUME NEW t \in Few, Event!TaskStep(t) PROVE EventInv'
  <2>1. ASSUME NEW req \in Event!Request, Event!WaitFast(t, req) PROVE EventInv'
    <3>1. FewSched!InOrder' /\ UNCHANGED <<state, block_status>>
      BY <2>1, FewBoot, FewSched!SameInOrder
         DEF EventInv, Event!WaitFast, Event!schedVars, FewSched!schedVars
    <3>2. flags' \in SUBSET flags /\ UNCHANGED <<event_wait_map, asked, mask, event_waiting>>
      BY <2>1 DEF Event!WaitFast
    <3> QED BY <3>1, <3>2, EventElsewhere
  <2>2. ASSUME NEW fs \in SUBSET Flag, Event!Set(t, fs) PROVE EventInv'
    <3>1. /\ current = t /\ ~isr /\ state[t] = "RUNNING" /\ Event!SetCore(fs)
          /\ Event!YieldIf(t, pending \/ Event!SetOutranks(fs))
      BY <2>2, FewBoot, FewSched!CallerIsRunning DEF EventInv, Event!Set, Event!Calls
    <3>2. /\ pending' = (pending \/ Event!SetOutranks(fs))
          /\ pc' \in [Few -> {"run", "yield"}]
      BY <3>1 DEF Event!YieldIf, EventInv, FewSched!InOrder, FewSched!SchedTypeOK
    <3>3. expiring = {}
      BY <3>1 DEF EventInv, FewSched!InOrder, FewSched!SchedInv, FewSched!DeadlinesOnlyForWaiters
    <3> QED BY <3>1, <3>2, <3>3, EventSet
  <2>3. ASSUME NEW fs \in SUBSET Flag, Event!Clear(t, fs) PROVE EventInv'
    <3>1. FewSched!InOrder' /\ UNCHANGED <<state, block_status>>
      BY <2>3, FewBoot, FewSched!SameInOrder
         DEF EventInv, Event!Clear, Event!schedVars, FewSched!schedVars
    <3>2. flags' \in SUBSET flags /\ UNCHANGED <<event_wait_map, asked, mask, event_waiting>>
      BY <2>3 DEF Event!Clear
    <3> QED BY <3>1, <3>2, EventElsewhere
  <2>4. CASE Event!Calls(t) /\ Event!TaskDelay(t) /\ UNCHANGED Event!eventVars
    <3>1. /\ current = t /\ ~isr /\ state[t] = "RUNNING" /\ t \notin event_waiting
          /\ FewSched!BlockCurrent(t, TRUE) /\ UNCHANGED <<base, eff, isr, expiring>>
          /\ UNCHANGED <<flags, event_wait_map, asked, mask, event_waiting>>
      BY <2>4, FewBoot, EventSched, FewSched!CallerIsRunning
         DEF EventInv, Event!Calls, Event!eventVars, FewSched!TaskDelay
    <3>2. /\ FewSched!InOrder' /\ state' = [state EXCEPT ![t] = "BLOCKED"]
          /\ block_status' = [block_status EXCEPT ![t] = "OK"]
      BY <3>1, FewBoot, FewSched!BlockInOrder DEF EventInv
    <3> QED BY <3>1, <3>2, EventElsewhere
  <2>5. CASE Event!Yield(t) /\ UNCHANGED Event!eventVars
    <3>1. /\ FewSched!InOrder' /\ UNCHANGED block_status
          /\ UNCHANGED <<flags, event_wait_map, asked, mask, event_waiting>>
          /\ \A u \in Few : state'[u] = "BLOCKED" <=> state[u] = "BLOCKED"
      BY <2>5, FewBoot, EventSched, FewSched!YieldInOrder DEF EventInv, Event!eventVars
    <3> QED BY <3>1, EventElsewhere DEF EventInv
  <2> QED BY <1>1, <2>1, <2>2, <2>3, <2>4, <2>5, EventWaitBlock, EventWaitReturn
          DEF Event!TaskStep
<1>2. CASE Event!Handler
  <2>1. CASE Event!TickEnter /\ UNCHANGED Event!eventVars
    <3>1. /\ FewSched!InOrder' /\ UNCHANGED <<state, block_status>>
          /\ UNCHANGED <<flags, event_wait_map, asked, mask, event_waiting>>
      BY <2>1, FewBoot, EventSched, FewSched!TickEnterInOrder DEF EventInv, Event!eventVars
    <3> QED BY <3>1, EventElsewhere
  <2>2. ASSUME NEW fs \in SUBSET Flag, Event!SetFromIsr(fs) PROVE EventInv'
    <3>1. /\ expiring = {} /\ Event!SetCore(fs) /\ pc' = pc
          /\ pending' = (pending \/ Event!SetOutranks(fs))
      BY <2>2 DEF Event!SetFromIsr
    <3>2. /\ pc' \in [Few -> {"run", "yield"}]
          /\ pc'[current] = "run" => state[current] = "RUNNING"
      BY <3>1, FewBoot, FewSched!CallerIsRunning
         DEF EventInv, FewSched!InOrder, FewSched!SchedTypeOK
    <3> QED BY <3>1, <3>2, EventSet
  <2>3. CASE Event!IsrExit /\ UNCHANGED Event!eventVars
    <3>1. /\ FewSched!InOrder' /\ UNCHANGED block_status
          /\ UNCHANGED <<flags, event_wait_map, asked, mask, event_waiting>>
          /\ \A u \in Few : state'[u] = "BLOCKED" <=> state[u] = "BLOCKED"
      BY <2>3, FewBoot, EventSched, FewSched!IsrExitInOrder DEF EventInv, Event!eventVars
    <3> QED BY <3>1, EventElsewhere DEF EventInv
  <2> QED BY <1>2, <2>1, <2>2, <2>3, EventExpire DEF Event!Handler
<1> QED BY <1>1, <1>2 DEF Event!Next

-----------------------------------------------------------------------------
(* The notifications.                                                      *)

NotifyInv ==
    /\ FewSched!InOrder
    /\ value \in [Few -> SUBSET Bit] /\ note \in [Few -> BOOLEAN]
    /\ keep \in [Few -> SUBSET Bit] /\ collected \in [Few -> SUBSET Bit]
    /\ notify_wait_map \in SUBSET Few /\ notify_waiting \in SUBSET Few
    /\ Notify!NoSleepBesideNote /\ Notify!WaitMapAgrees

\* A step keeps the invariant and loses no bit.
NotifyGood == NotifyInv' /\ Notify!BitsKept

(***************************************************************************)
(* Tasks start without notifications, and none waits for one.              *)
(***************************************************************************)
LEMMA NotifyInit ==
    ASSUME Notify!SchedInit, Notify!Created
    PROVE  NotifyInv
<1>1. FewSched!InOrder
  BY FewBoot, NotifySched, FewSched!InitInOrder
<1> QED BY <1>1 DEF NotifyInv, Notify!Created, Notify!NoSleepBesideNote, Notify!WaitMapAgrees

(***************************************************************************)
(* A step that leaves the notifications alone and blocks or wakes nobody   *)
(* who waits for one.                                                      *)
(***************************************************************************)
LEMMA NotifyElsewhere ==
    ASSUME NotifyInv, FewSched!InOrder', UNCHANGED notifyPart,
           \A t \in notify_waiting : state'[t] = "BLOCKED" <=> state[t] = "BLOCKED"
    PROVE  NotifyGood
<1>1. \A t \in Few : value'[t] = value[t]
  BY DEF notifyPart
<1>2. Notify!BitsKept
  BY <1>1 DEF Notify!BitsKept
<1> QED BY <1>2 DEF NotifyGood, NotifyInv, notifyPart, Notify!NoSleepBesideNote,
                    Notify!WaitMapAgrees

(***************************************************************************)
(* A task changes only its own word: bits it takes out are its own affair. *)
(***************************************************************************)
LEMMA OwnWordKept ==
    ASSUME NEW t \in Few, NEW bits, current = t, ~isr,
           value \in [Few -> SUBSET Bit], value' = [value EXCEPT ![t] = bits]
    PROVE  Notify!BitsKept
<1>1. \A u \in Few : u # t => value'[u] = value[u]
  OBVIOUS
<1> QED BY <1>1 DEF Notify!BitsKept

(***************************************************************************)
(* Wait: a pending notification, none and no time to wait, none and a      *)
(* wait.                                                                   *)
(***************************************************************************)
LEMMA NotifyWaits ==
    ASSUME NotifyInv, NEW t \in Few, NEW entry \in {{}, Bit}, NEW leave \in {{}, Bit},
           NEW finite \in BOOLEAN,
           \/ Notify!WaitFast(t, entry, leave)
           \/ Notify!WaitNothing(t, entry)
           \/ Notify!WaitBlock(t, entry, leave, finite)
    PROVE  NotifyGood
<1>1. /\ current = t /\ ~isr /\ state[t] = "RUNNING" /\ t \notin notify_waiting
      /\ t \notin notify_wait_map
  <2>1. current = t /\ ~isr /\ pc[t] = "run" /\ t \notin notify_waiting
    BY DEF Notify!WaitFast, Notify!WaitNothing, Notify!WaitBlock, Notify!Calls
  <2>2. state[t] = "RUNNING"
    BY <2>1, FewBoot, FewSched!CallerIsRunning DEF NotifyInv
  <2> QED BY <2>1, <2>2 DEF NotifyInv, Notify!WaitMapAgrees
<1>2. CASE Notify!WaitFast(t, entry, leave) \/ Notify!WaitNothing(t, entry)
  <2>1. FewSched!InOrder' /\ UNCHANGED state
    BY <1>2, FewBoot, FewSched!SameInOrder
       DEF NotifyInv, Notify!WaitFast, Notify!WaitNothing, Notify!schedVars, FewSched!schedVars
  <2>2. /\ note' = [note EXCEPT ![t] = FALSE] \/ note' = note
        /\ UNCHANGED <<notify_wait_map, keep, collected, notify_waiting>>
    BY <1>2 DEF Notify!WaitFast, Notify!WaitNothing
  <2>3. \E bits \in SUBSET Bit : value' = [value EXCEPT ![t] = bits]
    <3>1. value[t] \in SUBSET Bit
      BY DEF NotifyInv
    <3>2. CASE Notify!WaitFast(t, entry, leave)
      BY <3>1, <3>2 DEF Notify!WaitFast
    <3>3. CASE Notify!WaitNothing(t, entry)
      BY <3>1, <3>3 DEF Notify!WaitNothing
    <3> QED BY <1>2, <3>2, <3>3
  <2>4. Notify!BitsKept /\ value' \in [Few -> SUBSET Bit]
    BY <1>1, <2>3, OwnWordKept DEF NotifyInv
  <2> QED BY <2>1, <2>2, <2>4
          DEF NotifyGood, NotifyInv, Notify!NoSleepBesideNote, Notify!WaitMapAgrees
<1>3. CASE Notify!WaitBlock(t, entry, leave, finite)
  <2>1. /\ value' = [value EXCEPT ![t] = @ \cap entry] /\ keep' = [keep EXCEPT ![t] = leave]
        /\ collected' = [collected EXCEPT ![t] = {}]
        /\ notify_wait_map' = notify_wait_map \cup {t}
        /\ notify_waiting' = notify_waiting \cup {t}
        /\ note' = note /\ ~note[t]
    BY <1>3 DEF Notify!WaitBlock
  <2>2. FewSched!BlockCurrent(t, finite) /\ UNCHANGED <<base, eff, isr, expiring>>
    BY <1>3, NotifySched DEF Notify!WaitBlock
  <2>3. FewSched!InOrder' /\ state' = [state EXCEPT ![t] = "BLOCKED"]
    BY <1>1, <2>2, FewBoot, FewSched!BlockInOrder DEF NotifyInv
  <2>4. state \in [Few -> FewSched!TaskState]
    BY DEF NotifyInv, FewSched!InOrder, FewSched!SchedTypeOK
  <2>5. Notify!WaitMapAgrees'
    BY <1>1, <2>1, <2>3, <2>4 DEF NotifyInv, Notify!WaitMapAgrees
  <2>6. value[t] \cap entry \in SUBSET Bit /\ value' = [value EXCEPT ![t] = value[t] \cap entry]
    BY <2>1 DEF NotifyInv
  <2>7. Notify!BitsKept /\ value' \in [Few -> SUBSET Bit]
    BY <1>1, <2>6, OwnWordKept DEF NotifyInv
  <2>8. keep' \in [Few -> SUBSET Bit] /\ collected' \in [Few -> SUBSET Bit]
    BY <2>1 DEF NotifyInv
  <2> QED BY <2>1, <2>3, <2>5, <2>7, <2>8
          DEF NotifyGood, NotifyInv, Notify!NoSleepBesideNote
<1> QED BY <1>2, <1>3

(***************************************************************************)
(* The end of a wait that blocked (xRTOS_Task_Notify_Wait).                *)
(***************************************************************************)
LEMMA NotifyWaitReturn ==
    ASSUME NotifyInv, NEW t \in Few, Notify!WaitReturn(t)
    PROVE  NotifyGood
<1>1. FewSched!InOrder' /\ UNCHANGED state
  BY FewBoot, FewSched!SameInOrder
     DEF NotifyInv, Notify!WaitReturn, Notify!schedVars, FewSched!schedVars
<1>2. state[t] = "RUNNING"
  BY FewBoot, FewSched!CallerIsRunning DEF NotifyInv, Notify!WaitReturn
<1>3. /\ notify_waiting' = notify_waiting \ {t}
      /\ collected' = [collected EXCEPT ![t] = {}] /\ keep' = [keep EXCEPT ![t] = {}]
      /\ UNCHANGED <<value, note, notify_wait_map>>
  BY DEF Notify!WaitReturn
<1>4. Notify!BitsKept
  BY <1>3 DEF Notify!BitsKept
<1> QED BY <1>1, <1>2, <1>3, <1>4
        DEF NotifyGood, NotifyInv, Notify!NoSleepBesideNote, Notify!WaitMapAgrees

(***************************************************************************)
(* A notification is latched or handed over to a task that waits.          *)
(***************************************************************************)
LEMMA NotifyDelivers ==
    ASSUME NotifyInv, expiring = {}, NEW to \in Few, NEW bits \in SUBSET Bit,
           Notify!NotifyCore(to, bits),
           pending' = (pending \/ Notify!WakeOutranks(to)),
           pc' \in [Few -> {"run", "yield"}], pc'[current] = "run" => state[current] = "RUNNING"
    PROVE  NotifyGood
<1>1. UNCHANGED <<base, eff, current, isr, expiring, notify_waiting>>
  BY DEF Notify!NotifyCore
<1>2. CASE Notify!Latch(to, bits)
  <2>1. /\ to \notin notify_wait_map /\ value' = [value EXCEPT ![to] = @ \cup bits]
        /\ note' = [note EXCEPT ![to] = TRUE]
        /\ UNCHANGED <<state, ready, timed, block_status, notify_wait_map, keep, collected>>
    BY <1>2 DEF Notify!Latch
  <2>2. pending' = pending
    BY <2>1 DEF Notify!WakeOutranks, NotifyInv, FewSched!InOrder, FewSched!SchedTypeOK
  <2>3. FewSched!InOrder'
    BY <1>1, <2>1, <2>2, FewBoot, FewSched!CallInOrder
       DEF NotifyInv, FewSched!InOrder, FewSched!SchedTypeOK
  <2>4. value' \in [Few -> SUBSET Bit] /\ note' \in [Few -> BOOLEAN]
    BY <2>1 DEF NotifyInv
  <2>5. Notify!NoSleepBesideNote'
    BY <2>1 DEF NotifyInv, Notify!NoSleepBesideNote
  <2>6. \A t \in Few : value[t] \subseteq value'[t]
    BY <2>1 DEF NotifyInv
  <2>7. Notify!BitsKept
    BY <2>6 DEF Notify!BitsKept
  <2> QED BY <1>1, <2>1, <2>3, <2>4, <2>5, <2>7 DEF NotifyGood, NotifyInv, Notify!WaitMapAgrees
<1>3. CASE Notify!HandOver(to, bits)
  <2>1. /\ to \in notify_wait_map /\ collected' = [collected EXCEPT ![to] = value[to] \cup bits]
        /\ value' = [value EXCEPT ![to] = (@ \cup bits) \cap keep[to]]
        /\ note' = [note EXCEPT ![to] = FALSE]
        /\ notify_wait_map' = notify_wait_map \ {to}
        /\ FewSched!Unblock(to, "OK") /\ keep' = keep
    BY <1>3, NotifySched DEF Notify!HandOver
  <2>2. state[to] = "BLOCKED"
    BY <2>1 DEF NotifyInv, Notify!WaitMapAgrees
  <2>3. pending' = (pending \/ FewSched!Outranks(to))
    BY <2>1, NotifySched DEF Notify!WakeOutranks
  <2>4. FewSched!InOrder' /\ state' = [state EXCEPT ![to] = "READY"]
    BY <1>1, <2>1, <2>2, <2>3, FewBoot, FewSched!WakeInOrder DEF NotifyInv
  <2>5. state \in [Few -> FewSched!TaskState]
    BY DEF NotifyInv, FewSched!InOrder, FewSched!SchedTypeOK
  <2>6. Notify!WaitMapAgrees'
    BY <1>1, <2>1, <2>4, <2>5 DEF NotifyInv, Notify!WaitMapAgrees
  <2>7. /\ value' \in [Few -> SUBSET Bit] /\ note' \in [Few -> BOOLEAN]
        /\ collected' \in [Few -> SUBSET Bit]
    BY <2>1 DEF NotifyInv
  <2>8. Notify!NoSleepBesideNote'
    BY <2>1 DEF NotifyInv, Notify!NoSleepBesideNote
  <2>9. ASSUME NEW t \in Few PROVE value[t] \subseteq value'[t] \cup collected'[t]
    <3>1. CASE t = to
      BY <2>1, <3>1 DEF NotifyInv
    <3>2. CASE t # to
      BY <2>1, <3>2 DEF NotifyInv
    <3> QED BY <3>1, <3>2
  <2>10. Notify!BitsKept
    BY <2>9 DEF Notify!BitsKept
  <2> QED BY <1>1, <2>1, <2>4, <2>6, <2>7, <2>8, <2>10 DEF NotifyGood, NotifyInv
<1> QED BY <1>2, <1>3 DEF Notify!NotifyCore

(***************************************************************************)
(* A deadline ends a Wait, or the delay of a task that waits elsewhere.    *)
(***************************************************************************)
LEMMA NotifyExpire ==
    ASSUME NotifyInv, NEW t \in Few, Notify!Expire(t)
    PROVE  NotifyGood
<1>1. FewSched!Expired(t) /\ FewSched!WakeExpired(t)
  BY NotifySched DEF Notify!Expire
<1>2. /\ FewSched!InOrder'
      /\ state[t] = "BLOCKED" /\ state' = [state EXCEPT ![t] = "READY"]
  BY <1>1, FewBoot, FewSched!ExpireInOrder DEF NotifyInv
<1>3. /\ notify_wait_map' = notify_wait_map \ {t}
      /\ UNCHANGED <<value, note, keep, collected, notify_waiting>>
  BY DEF Notify!Expire
<1>4. state \in [Few -> FewSched!TaskState]
  BY DEF NotifyInv, FewSched!InOrder, FewSched!SchedTypeOK
<1>5. Notify!WaitMapAgrees'
  BY <1>2, <1>3, <1>4 DEF NotifyInv, Notify!WaitMapAgrees
<1>6. Notify!BitsKept
  BY <1>3 DEF Notify!BitsKept
<1> QED BY <1>2, <1>3, <1>5, <1>6 DEF NotifyGood, NotifyInv, Notify!NoSleepBesideNote

(***************************************************************************)
(* Every step keeps the invariant and loses no bit.                        *)
(***************************************************************************)
LEMMA NotifyStep ==
    ASSUME NotifyInv, Notify!Next
    PROVE  NotifyGood
<1>1. ASSUME NEW t \in Few, Notify!TaskStep(t) PROVE NotifyGood
  <2>1. ASSUME NEW to \in Few, NEW bits \in SUBSET Bit, Notify!Notify(t, to, bits)
        PROVE  NotifyGood
    <3>1. /\ current = t /\ ~isr /\ state[t] = "RUNNING" /\ Notify!NotifyCore(to, bits)
          /\ Notify!YieldIf(t, pending \/ Notify!WakeOutranks(to))
      BY <2>1, FewBoot, FewSched!CallerIsRunning DEF NotifyInv, Notify!Notify, Notify!Calls
    <3>2. /\ pending' = (pending \/ Notify!WakeOutranks(to))
          /\ pc' \in [Few -> {"run", "yield"}]
      BY <3>1 DEF Notify!YieldIf, NotifyInv, FewSched!InOrder, FewSched!SchedTypeOK
    <3>3. expiring = {}
      BY <3>1 DEF NotifyInv, FewSched!InOrder, FewSched!SchedInv, FewSched!DeadlinesOnlyForWaiters
    <3> QED BY <3>1, <3>2, <3>3, NotifyDelivers
  <2>2. CASE Notify!Calls(t) /\ Notify!TaskDelay(t) /\ UNCHANGED Notify!notifyVars
    <3>1. /\ current = t /\ ~isr /\ state[t] = "RUNNING" /\ t \notin notify_waiting
          /\ FewSched!BlockCurrent(t, TRUE) /\ UNCHANGED <<base, eff, isr, expiring>>
          /\ UNCHANGED notifyPart
      BY <2>2, FewBoot, NotifySched, FewSched!CallerIsRunning
         DEF NotifyInv, Notify!Calls, Notify!notifyVars, notifyPart, FewSched!TaskDelay
    <3>2. FewSched!InOrder' /\ state' = [state EXCEPT ![t] = "BLOCKED"]
      BY <3>1, FewBoot, FewSched!BlockInOrder DEF NotifyInv
    <3> QED BY <3>1, <3>2, NotifyElsewhere
  <2>3. CASE Notify!Yield(t) /\ UNCHANGED Notify!notifyVars
    <3>1. /\ FewSched!InOrder' /\ UNCHANGED notifyPart
          /\ \A u \in Few : state'[u] = "BLOCKED" <=> state[u] = "BLOCKED"
      BY <2>3, FewBoot, NotifySched, FewSched!YieldInOrder
         DEF NotifyInv, Notify!notifyVars, notifyPart
    <3> QED BY <3>1, NotifyElsewhere DEF NotifyInv
  <2>4. ASSUME NEW entry \in {{}, Bit}, NEW leave \in {{}, Bit},
               \/ Notify!WaitFast(t, entry, leave)
               \/ Notify!WaitNothing(t, entry)
               \/ \E finite \in BOOLEAN : Notify!WaitBlock(t, entry, leave, finite)
        PROVE  NotifyGood
    BY <2>4, NotifyWaits
  <2> QED BY <1>1, <2>1, <2>2, <2>3, <2>4, NotifyWaitReturn DEF Notify!TaskStep
<1>2. CASE Notify!Handler
  <2>1. CASE Notify!TickEnter /\ UNCHANGED Notify!notifyVars
    <3>1. FewSched!InOrder' /\ UNCHANGED state /\ UNCHANGED notifyPart
      BY <2>1, FewBoot, NotifySched, FewSched!TickEnterInOrder
         DEF NotifyInv, Notify!notifyVars, notifyPart
    <3> QED BY <3>1, NotifyElsewhere
  <2>2. ASSUME NEW to \in Few, NEW bits \in SUBSET Bit, Notify!NotifyFromIsr(to, bits)
        PROVE  NotifyGood
    <3>1. /\ expiring = {} /\ Notify!NotifyCore(to, bits) /\ pc' = pc
          /\ pending' = (pending \/ Notify!WakeOutranks(to))
      BY <2>2 DEF Notify!NotifyFromIsr
    <3>2. /\ pc' \in [Few -> {"run", "yield"}]
          /\ pc'[current] = "run" => state[current] = "RUNNING"
      BY <3>1, FewBoot, FewSched!CallerIsRunning
         DEF NotifyInv, FewSched!InOrder, FewSched!SchedTypeOK
    <3> QED BY <3>1, <3>2, NotifyDelivers
  <2>3. CASE Notify!IsrExit /\ UNCHANGED Notify!notifyVars
    <3>1. /\ FewSched!InOrder' /\ UNCHANGED notifyPart
          /\ \A u \in Few : state'[u] = "BLOCKED" <=> state[u] = "BLOCKED"
      BY <2>3, FewBoot, NotifySched, FewSched!IsrExitInOrder
         DEF NotifyInv, Notify!notifyVars, notifyPart
    <3> QED BY <3>1, NotifyElsewhere DEF NotifyInv
  <2> QED BY <1>2, <2>1, <2>2, <2>3, NotifyExpire DEF Notify!Handler
<1> QED BY <1>1, <1>2 DEF Notify!Next

-----------------------------------------------------------------------------
(* The kernel.                                                             *)

\* An object that is not exercised has no call under way.
SemKept   == IF use = "sem" THEN SemInv ELSE taking = {}
QueueKept == IF use = "queue" THEN QueueInv ELSE calling = {}

(***************************************************************************)
(* The services start as the abstract ones do.                             *)
(***************************************************************************)
LEMMA ServicesInit ==
    ASSUME Init
    PROVE  SemKept /\ QueueKept /\ Sem!Service!Init /\ Queue!Service!Init
<1>1. Sem!Created /\ Queue!Created
  BY DEF Init
<1>2. SemKept
  BY <1>1, SemInit DEF Init, SemKept, Sem!Created
<1>3. Sem!SchedInit <=> Queue!SchedInit
  BY SemSched, QueueSched
<1>4. QueueKept
  BY <1>1, <1>3, QueueInit DEF Init, QueueKept, Queue!Created
<1>5. Sem!Service!Init
  BY <1>1 DEF Sem!Created, Sem!Service!Init, Sem!Progress
<1>6. Queue!Service!Init
  <2>1. calling = {} /\ used = 0 /\ payload = [t \in Task |-> None] /\ delivered = <<BootFirst, None>>
    BY <1>1 DEF Queue!Created
  <2>2. [t \in Task |-> Queue!Progress(t)] = [t \in Task |-> "idle"]
    BY <2>1 DEF Queue!Progress
  <2>3. Queue!Content = <<>>
    BY <2>1 DEF Queue!Content
  <2>4. delivered \in Task \X {None}
    BY <2>1, SchedBoot DEF Sched!BootAssumption
  <2> QED BY <2>1, <2>2, <2>3, <2>4 DEF Queue!Service!Init
<1> QED BY <1>2, <1>4, <1>5, <1>6

(***************************************************************************)
(* An object that is not exercised does nothing that its users see.        *)
(***************************************************************************)
LEMMA SemAtRest ==
    ASSUME taking = {}, UNCHANGED semPart
    PROVE  taking' = {} /\ UNCHANGED Sem!Service!vars
<1>1. Taker' = Taker
  BY DEF Taker, Sem!Progress, semPart
<1> QED BY <1>1, SemServiceSteps DEF semPart

(***************************************************************************)
(* The same of the queue.                                                  *)
(***************************************************************************)
LEMMA QueueAtRest ==
    ASSUME calling = {}, UNCHANGED queuePart
    PROVE  calling' = {} /\ UNCHANGED Queue!Service!vars
<1>1. Role' = Role
  BY DEF Role, Queue!Progress, queuePart
<1>2. Queue!Content' = Queue!Content
  BY DEF Queue!Content, Queue!Place, queuePart
<1> QED BY <1>1, <1>2 DEF Role, queuePart, Queue!Service!vars

(***************************************************************************)
(* A step in which nothing changes.                                        *)
(***************************************************************************)
LEMMA ServicesStutter ==
    ASSUME SemKept, QueueKept, UNCHANGED vars
    PROVE  /\ SemKept' /\ QueueKept'
           /\ UNCHANGED Sem!Service!vars /\ UNCHANGED Queue!Service!vars
<1>1. /\ UNCHANGED <<use, semPart, queuePart, block_status>> /\ UNCHANGED Sched!schedVars
  BY DEF vars, waits, Sched!schedVars
<1>2. CASE use = "sem"
  <2>1. SemInv' /\ Sched!InOrder'
    <3>1. Sched!InOrder' /\ UNCHANGED state
      BY <1>1, <1>2, SchedBoot, Sched!SameInOrder DEF SemKept, SemInv, Sched!schedVars
    <3> QED BY <1>1, <1>2, <3>1, SemElsewhere DEF SemKept
  <2>2. Taker' = Taker
    BY <1>1 DEF Taker, Sem!Progress, semPart
  <2> QED BY <1>1, <1>2, <2>1, <2>2, SemServiceSteps, QueueAtRest
          DEF SemKept, QueueKept, semPart
<1>3. CASE use = "queue"
  <2>1. QueueInv'
    <3>1. Sched!InOrder' /\ UNCHANGED state
      BY <1>1, <1>3, SchedBoot, Sched!SameInOrder DEF QueueKept, QueueInv, Sched!schedVars
    <3> QED BY <1>1, <1>3, <3>1, QueueElsewhere DEF QueueKept
  <2>2. Role' = Role
    BY <1>1 DEF Role, Queue!Progress, queuePart
  <2>3. Queue!Content' = Queue!Content
    BY <1>1 DEF Queue!Content, Queue!Place, queuePart
  <2>4. UNCHANGED Queue!Service!vars
    BY <1>1, <2>2, <2>3 DEF Role, queuePart, Queue!Service!vars
  <2> QED BY <1>1, <1>3, <2>1, <2>4, SemAtRest DEF SemKept, QueueKept
<1>4. CASE use \notin {"sem", "queue"}
  BY <1>1, <1>4, SemAtRest, QueueAtRest DEF SemKept, QueueKept
<1> QED BY <1>2, <1>3, <1>4

(***************************************************************************)
(* Every step of the kernel is a step of the exercised service.            *)
(***************************************************************************)
LEMMA ServicesStep ==
    ASSUME SemKept, QueueKept, [Next]_vars
    PROVE  /\ SemKept' /\ QueueKept'
           /\ [Sem!Service!Next]_(Sem!Service!vars)
           /\ [Queue!Service!Next]_(Queue!Service!vars)
<1>1. CASE UNCHANGED vars
  BY <1>1, ServicesStutter
<1>2. CASE use' = use /\ use = "sem" /\ Sem!Next /\ UNCHANGED queuePart
  <2>1. SemGood
    BY <1>2, SemTaskStep, SemHandlerStep DEF SemKept, Sem!Next
  <2>2. calling' = {} /\ UNCHANGED Queue!Service!vars
    BY <1>2, QueueAtRest DEF QueueKept
  <2> QED BY <1>2, <2>1, <2>2 DEF SemKept, QueueKept, SemGood
<1>3. CASE use' = use /\ use = "queue" /\ Queue!Next /\ UNCHANGED semPart
  <2>1. QueueGood
    BY <1>3, QueueTaskStep, QueueHandlerStep DEF QueueKept, Queue!Next
  <2>2. taking' = {} /\ UNCHANGED Sem!Service!vars
    BY <1>3, SemAtRest DEF SemKept
  <2> QED BY <1>3, <2>1, <2>2 DEF SemKept, QueueKept, QueueGood
<1>4. CASE use' = use /\ use \notin {"sem", "queue"} /\ UNCHANGED semPart /\ UNCHANGED queuePart
  BY <1>4, SemAtRest, QueueAtRest DEF SemKept, QueueKept
<1>5. Next => \/ use' = use /\ use = "sem" /\ Sem!Next /\ UNCHANGED queuePart
              \/ use' = use /\ use = "queue" /\ Queue!Next /\ UNCHANGED semPart
              \/ use' = use /\ use \notin {"sem", "queue"} /\ UNCHANGED semPart
                 /\ UNCHANGED queuePart
  BY DEF Next
<1> QED BY <1>1, <1>2, <1>3, <1>4, <1>5

(***************************************************************************)
(* The semaphore implements the token service: for any number of tasks,    *)
(* priorities and tokens, no order of gives, takes, time-outs and          *)
(* interrupts makes or loses a token, and a Take reports OK exactly when   *)
(* it got one (sem_give_core, xRTOS_Semaphore_Take).                       *)
(***************************************************************************)
THEOREM SemServiceImplemented == Spec => ImplementsSemService
<1>1. Init => SemKept /\ QueueKept /\ Sem!Service!Init
  BY ServicesInit
<1>2. SemKept /\ QueueKept /\ [Next]_vars
        => SemKept' /\ QueueKept' /\ [Sem!Service!Next]_(Sem!Service!vars)
  BY ServicesStep
<1> QED BY <1>1, <1>2, PTL DEF Spec, ImplementsSemService, Sem!Service!Spec

(***************************************************************************)
(* The queue implements a bounded FIFO channel: for any capacity and any   *)
(* tasks, every accepted item is received once and in order, across the    *)
(* wrap of the ring buffer and the direct hand-over to and from blocked    *)
(* tasks (queue_try_send_locked, xRTOS_Queue_Receive).                     *)
(***************************************************************************)
THEOREM QueueServiceImplemented == Spec => ImplementsQueueService
<1>1. Init => SemKept /\ QueueKept /\ Queue!Service!Init
  BY ServicesInit
<1>2. SemKept /\ QueueKept /\ [Next]_vars
        => SemKept' /\ QueueKept' /\ [Queue!Service!Next]_(Queue!Service!vars)
  BY ServicesStep
<1> QED BY <1>1, <1>2, PTL DEF Spec, ImplementsQueueService, Queue!Service!Spec

-----------------------------------------------------------------------------
(* The invariants of the kernel.                                           *)

EventKept  == use = "event" => EventInv
NotifyKept == use = "notify" => NotifyInv

ObjectsKept == use \in Uses /\ SemKept /\ QueueKept /\ EventKept /\ NotifyKept

(***************************************************************************)
(* Whatever a behaviour exercises starts in order.                         *)
(***************************************************************************)
LEMMA ObjectsInit ==
    ASSUME Init
    PROVE  ObjectsKept
<1>1. use \in Uses /\ SemKept /\ QueueKept
  BY ServicesInit DEF Init
<1>2. Event!Created /\ Notify!Created /\ (use \in {"event", "notify"} => Event!SchedInit)
  BY DEF Init
<1>3. Event!SchedInit <=> Notify!SchedInit
  BY EventSched, NotifySched
<1>4. EventKept /\ NotifyKept
  BY <1>2, <1>3, EventInit, NotifyInit DEF EventKept, NotifyKept
<1> QED BY <1>1, <1>4 DEF ObjectsKept

(***************************************************************************)
(* Every step keeps the exercised object in order, and none loses a        *)
(* notified bit.                                                           *)
(***************************************************************************)
LEMMA ObjectsStep ==
    ASSUME ObjectsKept, [Next]_vars
    PROVE  ObjectsKept' /\ [use = "notify" => Notify!BitsKept]_vars
<1>1. SemKept' /\ QueueKept'
  BY ServicesStep DEF ObjectsKept
<1>2. CASE UNCHANGED vars
  <2>1. /\ UNCHANGED <<use, eventPart, notifyPart, block_status, state>>
        /\ UNCHANGED FewSched!schedVars
    BY <1>2 DEF vars, waits, FewSched!schedVars
  <2>2. EventKept'
    <3>1. CASE use = "event"
      <4>1. FewSched!InOrder'
        BY <2>1, <3>1, FewBoot, FewSched!SameInOrder DEF ObjectsKept, EventKept, EventInv
      <4>2. flags' \in SUBSET flags /\ UNCHANGED <<event_wait_map, asked, mask, event_waiting>>
        BY <2>1 DEF eventPart
      <4> QED BY <2>1, <3>1, <4>1, <4>2, EventElsewhere DEF ObjectsKept, EventKept
    <3> QED BY <2>1, <3>1 DEF EventKept
  <2>3. NotifyKept'
    <3>1. CASE use = "notify"
      <4>1. FewSched!InOrder'
        BY <2>1, <3>1, FewBoot, FewSched!SameInOrder DEF ObjectsKept, NotifyKept, NotifyInv
      <4> QED BY <2>1, <3>1, <4>1, NotifyElsewhere DEF ObjectsKept, NotifyKept, NotifyGood
    <3> QED BY <2>1, <3>1 DEF NotifyKept
  <2> QED BY <1>1, <1>2, <2>1, <2>2, <2>3 DEF ObjectsKept
<1>3. CASE Next
  <2>1. /\ use' = use
        /\ use = "event" => Event!Next
        /\ use = "notify" => Notify!Next
    BY <1>3 DEF Next
  <2>2. EventKept'
    BY <2>1, EventStep DEF ObjectsKept, EventKept
  <2>3. NotifyKept' /\ (use = "notify" => Notify!BitsKept)
    BY <2>1, NotifyStep DEF ObjectsKept, NotifyKept, NotifyGood
  <2> QED BY <1>1, <2>1, <2>2, <2>3 DEF ObjectsKept
<1> QED BY <1>2, <1>3

(***************************************************************************)
(* What the invariants of the objects imply.                               *)
(***************************************************************************)
LEMMA ObjectsInOrder ==
    ASSUME ObjectsKept
    PROVE  /\ NobodyOverslept /\ WaitMapsAgree /\ AnswerMeetsRequest
           /\ use # "registry" => TypeOK
           /\ use # "registry" => RunningIsMostUrgent
<1>1. Uses \subseteq {"sem", "queue", "event", "notify", "registry"}
  BY KernelAssumption
<1>2. NobodyOverslept
  BY DEF ObjectsKept, SemKept, QueueKept, EventKept, NotifyKept, SemInv, QueueInv, EventInv,
         NotifyInv, NobodyOverslept
<1>3. WaitMapsAgree
  BY DEF ObjectsKept, SemKept, QueueKept, EventKept, NotifyKept, SemInv, QueueInv, EventInv,
         NotifyInv, WaitMapsAgree
<1>4. AnswerMeetsRequest
  BY DEF ObjectsKept, EventKept, EventInv, AnswerMeetsRequest
<1>5. ASSUME use # "registry" PROVE TypeOK
  <2>1. use = "sem" => Sem!TypeOK
    BY SemSched DEF ObjectsKept, SemKept, SemInv, Sched!InOrder, Sem!TypeOK
  <2>2. use = "queue" => Queue!TypeOK
    BY QueueSched DEF ObjectsKept, QueueKept, QueueInv, RingInv, Sched!InOrder, Queue!TypeOK,
                      Queue!Slot
  <2>3. use = "event" => Event!TypeOK
    BY EventSched DEF ObjectsKept, EventKept, EventInv, FewSched!InOrder, Event!TypeOK
  <2>4. use = "notify" => Notify!TypeOK
    BY NotifySched DEF ObjectsKept, NotifyKept, NotifyInv, FewSched!InOrder, Notify!TypeOK
  <2> QED BY <1>5, <2>1, <2>2, <2>3, <2>4 DEF TypeOK, ObjectsKept
<1>6. ASSUME use # "registry" PROVE RunningIsMostUrgent
  <2>1. CASE use \in {"sem", "queue"}
    <3>1. Sched!Urgent
      BY <2>1 DEF ObjectsKept, SemKept, QueueKept, SemInv, QueueInv, Sched!InOrder
    <3>2. Sem!RunningIsMostUrgent
      BY <3>1 DEF Sched!Urgent, Sem!RunningIsMostUrgent
    <3> QED BY <2>1, <3>2 DEF RunningIsMostUrgent
  <2>2. CASE use \in {"event", "notify"}
    <3>1. FewSched!Urgent
      BY <2>2 DEF ObjectsKept, EventKept, NotifyKept, EventInv, NotifyInv, FewSched!InOrder
    <3>2. Event!RunningIsMostUrgent
      BY <3>1 DEF FewSched!Urgent, Event!RunningIsMostUrgent
    <3> QED BY <2>2, <3>2 DEF RunningIsMostUrgent
  <2> QED BY <1>1, <1>6, <2>1, <2>2 DEF ObjectsKept
<1> QED BY <1>2, <1>3, <1>4, <1>5, <1>6

(***************************************************************************)
(* Every object stays in order.                                            *)
(***************************************************************************)
LEMMA AlwaysKept == Spec => []ObjectsKept
<1>1. Init => ObjectsKept
  BY ObjectsInit
<1>2. ObjectsKept /\ [Next]_vars => ObjectsKept'
  BY ObjectsStep
<1> QED BY <1>1, <1>2, PTL DEF Spec

(***************************************************************************)
(* No task ever sleeps beside what it waits for, for any tasks,            *)
(* priorities, tokens, capacities, flags and bits (sem_give_core,          *)
(* queue_try_send_locked, event_set_core, notify_core).                    *)
(***************************************************************************)
THEOREM NobodyEverOverslept == Spec => []NobodyOverslept
<1>1. ObjectsKept => NobodyOverslept
  BY ObjectsInOrder
<1> QED BY <1>1, AlwaysKept, PTL

(***************************************************************************)
(* The wait maps hold exactly the tasks blocked on the object, with their  *)
(* payloads (xrtos_blocking.h).                                            *)
(***************************************************************************)
THEOREM WaitMapsAlwaysAgree == Spec => []WaitMapsAgree
<1>1. ObjectsKept => WaitMapsAgree
  BY ObjectsInOrder
<1> QED BY <1>1, AlwaysKept, PTL

(***************************************************************************)
(* A Wait on an event object answers with flags that meet its request, or  *)
(* with none and TIMEOUT (event_set_core).                                 *)
(***************************************************************************)
THEOREM AnswersMeetRequests == Spec => []AnswerMeetsRequest
<1>1. ObjectsKept => AnswerMeetsRequest
  BY ObjectsInOrder
<1> QED BY <1>1, AlwaysKept, PTL

(***************************************************************************)
(* No step of another task or of a handler loses a notified bit            *)
(* (notify_core).                                                          *)
(***************************************************************************)
THEOREM BitsAlwaysAccountedFor == Spec => BitsAccountedFor
<1>1. ObjectsKept /\ [Next]_vars => [use = "notify" => Notify!BitsKept]_vars
  BY ObjectsStep
<1> QED BY <1>1, AlwaysKept, PTL DEF Spec, BitsAccountedFor

-----------------------------------------------------------------------------
(* The registry of the tasks.                                              *)

Reg == INSTANCE XrtosTaskProofs WITH Prio <- CtxPrio, First <- BootFirst

(***************************************************************************)
(* The registry is the one that the lemmas about the life of tasks are     *)
(* about.                                                                  *)
(***************************************************************************)
LEMMA RegistrySame ==
    /\ Registry!TaskAssumption <=> Reg!TaskAssumption
    /\ Registry!Init <=> Reg!Init
    /\ Registry!Next <=> Reg!Next
    /\ Registry!TypeOK <=> Reg!TypeOK
    /\ Registry!FramesOwn <=> Reg!FramesOwn
    /\ Registry!RunningIsMostUrgent <=> Reg!RunningIsMostUrgent
<1>1. Registry!TaskAssumption <=> Reg!TaskAssumption
  BY DEF Registry!TaskAssumption, Reg!TaskAssumption, Registry!IsFiniteSet, Reg!IsFiniteSet
<1>2. Registry!Slots = Reg!Slots /\ Registry!Levels = Reg!Levels
  BY DEF Registry!Slots, Reg!Slots, Registry!Levels, Reg!Levels
<1>3. \A tab, p : Registry!FirstAt(tab, p) = Reg!FirstAt(tab, p)
  BY <1>2 DEF Registry!FirstAt, Reg!FirstAt
<1>4. \A p : Registry!Queues(p) = Reg!Queues(p)
  BY DEF Registry!Queues, Reg!Queues, Registry!SetToSeqs, Reg!SetToSeqs, Registry!ToSet,
         Reg!ToSet, Registry!Cardinality, Reg!Cardinality
<1>5. Registry!Init <=> Reg!Init
  BY <1>2, <1>3, <1>4 DEF Registry!Init, Reg!Init
<1>6. ASSUME NEW f PROVE Registry!Switch(f) <=> Reg!Switch(f)
  BY <1>2 DEF Registry!Switch, Reg!Switch, Registry!RunsOn, Reg!RunsOn, Registry!SlotOf,
              Reg!SlotOf, Registry!IsBest, Reg!IsBest
<1>7. Registry!Save = Reg!Save
  BY DEF Registry!Save, Reg!Save
<1>8. /\ Registry!Yield <=> Reg!Yield
      /\ Registry!IsrEnter <=> Reg!IsrEnter
      /\ Registry!IsrExit <=> Reg!IsrExit
  <2>1. Registry!SoftwareInterrupt <=> Reg!SoftwareInterrupt
    BY <1>6, <1>7 DEF Registry!SoftwareInterrupt, Reg!SoftwareInterrupt, Registry!scheduler,
                      Reg!scheduler
  <2> QED BY <1>6, <1>7, <2>1
          DEF Registry!Yield, Reg!Yield, Registry!GoTo, Reg!GoTo, Registry!IsrEnter, Reg!IsrEnter,
              Registry!IsrExit, Reg!IsrExit, Registry!scheduler, Reg!scheduler
<1>9. ASSUME NEW c PROVE Registry!Unqueued(c) = Reg!Unqueued(c)
  BY DEF Registry!Unqueued, Reg!Unqueued, Registry!RemoveFirst, Reg!RemoveFirst,
         Registry!SelectInSeq, Reg!SelectInSeq, Registry!RemoveAt, Reg!RemoveAt,
         Registry!Min, Reg!Min
<1>10. ASSUME NEW c
       PROVE  /\ Registry!TaskCreates(c) <=> Reg!TaskCreates(c)
              /\ Registry!IsrCreate(c) <=> Reg!IsrCreate(c)
              /\ Registry!IsrWake(c) <=> Reg!IsrWake(c)
  <2>1. Registry!Create(c) <=> Reg!Create(c)
    BY DEF Registry!Create, Reg!Create, Registry!SlotFree, Reg!SlotFree, Registry!Outranks,
           Reg!Outranks
  <2> QED BY <2>1 DEF Registry!TaskCreates, Reg!TaskCreates, Registry!IsrCreate, Reg!IsrCreate,
                      Registry!IsrWake, Reg!IsrWake, Registry!Outranks, Reg!Outranks
<1>11. /\ Registry!Block <=> Reg!Block
       /\ Registry!ExitMark <=> Reg!ExitMark
       /\ Registry!ExitUnregister <=> Reg!ExitUnregister
       /\ Registry!ExitIndex <=> Reg!ExitIndex
  BY <1>3, <1>9
     DEF Registry!Block, Reg!Block, Registry!ExitMark, Reg!ExitMark, Registry!Running,
         Reg!Running, Registry!ExitUnregister, Reg!ExitUnregister, Registry!ExitIndex,
         Reg!ExitIndex, Registry!GoTo, Reg!GoTo, Registry!scheduler, Reg!scheduler
<1>12. Registry!Next <=> Reg!Next
  BY <1>8, <1>10, <1>11 DEF Registry!Next, Reg!Next
<1>13. Registry!TypeOK <=> Reg!TypeOK
  BY <1>2 DEF Registry!TypeOK, Reg!TypeOK, Registry!Points, Reg!Points
<1>14. Registry!FramesOwn <=> Reg!FramesOwn
  BY DEF Registry!FramesOwn, Reg!FramesOwn, Registry!Left, Reg!Left
<1>15. Registry!RunningIsMostUrgent <=> Reg!RunningIsMostUrgent
  BY DEF Registry!RunningIsMostUrgent, Reg!RunningIsMostUrgent
<1> QED BY <1>1, <1>5, <1>12, <1>13, <1>14, <1>15

RegistryKept == use \in Uses /\ (use = "registry" => Reg!RegistryInv)

(***************************************************************************)
(* The registry stays in order in the behaviours that exercise it.         *)
(***************************************************************************)
LEMMA RegistryAlwaysKept == Spec => []RegistryKept
<1>1. Reg!TaskAssumption
  BY RegistrySame, KernelAssumption
<1>2. Init => RegistryKept
  <2> SUFFICES ASSUME Init, use = "registry" PROVE Reg!RegistryInv
    BY DEF Init, RegistryKept
  <2>1. Reg!Init
    BY RegistrySame DEF Init
  <2> QED BY <1>1, <2>1, Reg!RegistryInit
<1>3. RegistryKept /\ [Next]_vars => RegistryKept'
  <2> SUFFICES ASSUME RegistryKept, [Next]_vars PROVE RegistryKept'
    OBVIOUS
  <2>1. use' = use
    BY DEF Next, vars
  <2>2. ASSUME use = "registry" PROVE Reg!RegistryInv'
    <3>1. CASE Next
      <4>1. Reg!Next
        BY <2>2, <3>1, RegistrySame DEF Next
      <4> QED BY <1>1, <2>2, <4>1, Reg!RegistryStep DEF RegistryKept
    <3>2. CASE UNCHANGED vars
      <4>1. UNCHANGED Reg!vars
        BY <3>2 DEF vars, stacks, Reg!vars, Reg!scheduler
      <4> QED BY <2>2, <4>1, Reg!SameRegistry DEF RegistryKept
    <3> QED BY <3>1, <3>2
  <2> QED BY <2>1, <2>2 DEF RegistryKept
<1> QED BY <1>2, <1>3, PTL DEF Spec

(***************************************************************************)
(* What the registry's invariant says of the kernel.                       *)
(***************************************************************************)
LEMMA RegistryShows ==
    ASSUME RegistryKept
    PROVE  /\ FramesOwn
           /\ use = "registry" => TypeOK /\ RunningIsMostUrgent
<1>1. ASSUME use = "registry"
      PROVE  Registry!TypeOK /\ Registry!FramesOwn /\ Registry!RunningIsMostUrgent
  BY <1>1, Reg!RegistryInOrder, RegistrySame DEF RegistryKept
<1> QED BY <1>1 DEF RegistryKept, FramesOwn, TypeOK, RunningIsMostUrgent

(***************************************************************************)
(* Every variable keeps its type, whichever object is used: lists of       *)
(* tasks, positions in the ring buffer, masks, slots, frames               *)
(* (xrtos_scheduler.c, xrtos_queue.c, xrtos_core.c).                       *)
(***************************************************************************)
THEOREM ObjectsTypeOK == Spec => []TypeOK
<1>1. ObjectsKept /\ RegistryKept => TypeOK
  BY ObjectsInOrder, RegistryShows
<1> QED BY <1>1, AlwaysKept, RegistryAlwaysKept, PTL

(***************************************************************************)
(* The task that runs is at least as urgent as every queued one, whichever *)
(* object woke, blocked, created or ended whom (README: "Strict preemptive *)
(* priority"; xRTOS_Scheduler_Unblock, xRTOS_Task_Create).                 *)
(***************************************************************************)
THEOREM MostUrgentRuns == Spec => []RunningIsMostUrgent
<1>1. ObjectsKept /\ RegistryKept => RunningIsMostUrgent
  BY ObjectsInOrder, RegistryShows
<1> QED BY <1>1, AlwaysKept, RegistryAlwaysKept, PTL

(***************************************************************************)
(* Every task that waits will resume on its own stack, for any contexts,   *)
(* ids and priorities, whatever tasks and handlers create, in the slot of  *)
(* a task that is ending too; on the CH32H417 such a task may get the      *)
(* stack of the one that ended, and of no other                            *)
(* (xrtos_port_arm_r5_asm.S, SW_Handler, xRTOS_Task_Exit).                 *)
(***************************************************************************)
THEOREM FramesAlwaysOwn == Spec => []FramesOwn
<1>1. RegistryKept => FramesOwn
  BY RegistryShows
<1> QED BY <1>1, RegistryAlwaysKept, PTL
=============================================================================
