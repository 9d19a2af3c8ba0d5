----------------------------- MODULE XrtosQueue -----------------------------
(***************************************************************************)
(* An xRTOS queue (xrtos_queue.c): a ring buffer of fixed-size items, with *)
(* tasks that wait for an item or for space, and interrupts that send.     *)
(***************************************************************************)
EXTENDS XrtosSched

CONSTANTS
    Item,      \* the values sent
    Capacity   \* queue_ctx->item_count

QueueAssumption == Capacity \in Nat \ {0} /\ None \notin Item

VARIABLES
    storage, head, tail, used,  \* the ring buffer
    recv_wait_map,              \* tasks waiting for an item
    send_wait_map,              \* tasks waiting for space
    payload,                    \* what a waiting sender's block_payload points at
    delivered,                  \* the item last copied out, and to which task
    calling                     \* tasks in the blocking path of Send or Receive

queueVars == <<storage, head, tail, used, recv_wait_map, send_wait_map,
               payload, delivered, calling>>
vars == <<schedVars, queueVars>>

Slot == 0 .. Capacity - 1

TypeOK ==
    /\ SchedTypeOK
    /\ storage \in [Slot -> Item \cup {None}]
    /\ head \in Slot /\ tail \in Slot /\ used \in 0 .. Capacity
    /\ recv_wait_map \in SUBSET Task /\ send_wait_map \in SUBSET Task
    /\ payload \in [Task -> Item \cup {None}]
    /\ delivered \in Task \X (Item \cup {None})
    /\ calling \in SUBSET Task

\* A queue that was just created.
Created ==
    /\ storage = [s \in Slot |-> None]
    /\ head = 0 /\ tail = 0 /\ used = 0
    /\ recv_wait_map = {} /\ send_wait_map = {}
    /\ payload = [t \in Task |-> None]
    /\ delivered = <<BootFirst, None>>
    /\ calling = {}

Init == SchedInit /\ Created

\* t runs its own code, between two API calls.
Calls(t) == ~isr /\ current = t /\ t # Idle /\ pc[t] = "run" /\ t \notin calling

-----------------------------------------------------------------------------
(* The ring buffer.  A slot that was read is never read again before it is *)
(* written, so the model empties it.                                       *)

Advance(i) == IF i + 1 = Capacity THEN 0 ELSE i + 1

\* queue_enqueue.
Enqueue(item) ==
    /\ storage' = [storage EXCEPT ![tail] = item]
    /\ tail' = Advance(tail)
    /\ used' = used + 1

-----------------------------------------------------------------------------
(* queue_try_send_locked.                                                  *)

\* Fault: the receiver is woken without its item.
WakeEmptyHanded(r, item) ==
    /\ Unblock(r, "OK")
    /\ recv_wait_map' = recv_wait_map \ {r}
    /\ UNCHANGED <<storage, head, tail, used, delivered>>

\* No receiver waits: the item goes into the buffer.
Buffer(item) ==
    /\ recv_wait_map = {} /\ used < Capacity
    /\ Enqueue(item)
    /\ UNCHANGED <<state, ready, timed, block_status, recv_wait_map, delivered, head>>

\* queue_complete_waiting_receive: the item is copied to the receiver's buffer.
HandTo(r, item) ==
    /\ Unblock(r, "OK")
    /\ recv_wait_map' = recv_wait_map \ {r}
    /\ delivered' = <<r, item>>
    /\ UNCHANGED <<storage, head, tail, used>>

\* Waking the most urgent of these tasks asks for a reschedule.
WakeOutranks(waiters) == waiters # {} /\ Outranks(MostUrgent(waiters))

TrySend(item) ==
    /\ Buffer(item) \/ (recv_wait_map # {} /\ HandTo(MostUrgent(recv_wait_map), item))
    /\ UNCHANGED <<base, eff, current, isr, expiring, send_wait_map, payload, calling>>

\* xRTOS_Queue_Send; with NO_WAIT on a full queue it returns without a change.
Send(t, item) ==
    Calls(t) /\ TrySend(item) /\ YieldIf(t, pending \/ WakeOutranks(recv_wait_map))

SendBlock(t, item, finite) ==
    /\ Calls(t) /\ recv_wait_map = {} /\ used = Capacity
    /\ payload' = [payload EXCEPT ![t] = item]
    /\ send_wait_map' = send_wait_map \cup {t}
    /\ calling' = calling \cup {t}
    /\ BlockCurrent(t, finite)
    /\ UNCHANGED <<base, eff, isr, expiring, storage, head, tail, used, recv_wait_map, delivered>>

\* xRTOS_Queue_Send_From_ISR.
SendFromIsr(item) ==
    /\ isr /\ expiring = {}
    /\ TrySend(item)
    /\ pending' = (pending \/ WakeOutranks(recv_wait_map))
    /\ UNCHANGED pc

-----------------------------------------------------------------------------
(* xRTOS_Queue_Receive.                                                    *)

\* queue_complete_waiting_send for a sender that waits.
AdmitSender(s) ==
    /\ storage' = [storage EXCEPT ![head] = None, ![tail] = payload[s]]
    /\ tail' = Advance(tail)
    /\ used' = used
    /\ payload' = [payload EXCEPT ![s] = None]
    /\ send_wait_map' = send_wait_map \ {s}
    /\ Unblock(s, "OK")

AdmitNone ==
    /\ send_wait_map = {}
    /\ storage' = [storage EXCEPT ![head] = None]
    /\ used' = used - 1
    /\ UNCHANGED <<tail, send_wait_map, payload, state, ready, timed, block_status>>

\* queue_dequeue, then the free slot is given to a blocked sender.
Receive(t) ==
    /\ Calls(t) /\ used > 0
    /\ delivered' = <<t, storage[head]>>
    /\ head' = Advance(head)
    /\ AdmitNone \/ (send_wait_map # {} /\ AdmitSender(MostUrgent(send_wait_map)))
    /\ YieldIf(t, pending \/ WakeOutranks(send_wait_map))
    /\ UNCHANGED <<base, eff, current, isr, expiring, recv_wait_map, calling>>

ReceiveBlock(t, finite) ==
    /\ Calls(t) /\ used = 0
    /\ recv_wait_map' = recv_wait_map \cup {t}
    /\ calling' = calling \cup {t}
    /\ BlockCurrent(t, finite)
    /\ UNCHANGED <<base, eff, isr, expiring, storage, head, tail, used,
                   send_wait_map, payload, delivered>>

\* A blocked Send or Receive resumes and returns block_status.
Return(t) ==
    /\ ~isr /\ current = t /\ pc[t] = "run" /\ t \in calling
    /\ calling' = calling \ {t}
    /\ UNCHANGED <<schedVars, storage, head, tail, used, recv_wait_map, send_wait_map,
                   payload, delivered>>

-----------------------------------------------------------------------------
\* Fault: the time-out leaves the payload behind.
ExpireDirty(t) ==
    /\ Expired(t)
    /\ WakeExpired(t)
    /\ recv_wait_map' = recv_wait_map \ {t}
    /\ send_wait_map' = send_wait_map \ {t}
    /\ UNCHANGED <<storage, head, tail, used, payload, delivered, calling>>

\* The tick: xrtos_blocking_payload_cleanup, then the wake-up.
Expire(t) ==
    /\ Expired(t)
    /\ WakeExpired(t)
    /\ recv_wait_map' = recv_wait_map \ {t}
    /\ send_wait_map' = send_wait_map \ {t}
    /\ payload' = [payload EXCEPT ![t] = None]
    /\ UNCHANGED <<storage, head, tail, used, delivered, calling>>

TaskStep(t) ==
    \/ \E item \in Item :
          Send(t, item) \/ \E finite \in BOOLEAN : SendBlock(t, item, finite)
    \/ Receive(t)
    \/ \E finite \in BOOLEAN : ReceiveBlock(t, finite)
    \/ Return(t)
    \/ Yield(t) /\ UNCHANGED queueVars

Handler ==
    \/ TickEnter /\ UNCHANGED queueVars
    \/ \E t \in Task : Expire(t)
    \/ \E item \in Item : SendFromIsr(item)
    \/ IsrExit /\ UNCHANGED queueVars

Next == (\E t \in Task : TaskStep(t)) \/ Handler

Spec == Init /\ [][Next]_vars

-----------------------------------------------------------------------------
(* Properties.                                                             *)

(***************************************************************************)
(* Tasks wait for an item only while the buffer is empty and for space     *)
(* only while it is full - so an item never overtakes another, and no task *)
(* sleeps beside what it waits for.                                        *)
(***************************************************************************)
WaitersMatchBuffer ==
    /\ recv_wait_map # {} => used = 0
    /\ send_wait_map # {} => used = Capacity

(***************************************************************************)
(* A task is in a wait map exactly while it is blocked in the call, and    *)
(* only a waiting sender has a payload: no hand-off reads or writes the    *)
(* buffer of a task that has left (queue_complete_waiting_*, time-outs).   *)
(***************************************************************************)
WaitMapsAgree ==
    /\ recv_wait_map \cap send_wait_map = {}
    /\ recv_wait_map \cup send_wait_map = {t \in calling : state[t] = "BLOCKED"}
    /\ \A t \in Task : payload[t] # None <=> t \in send_wait_map

\* The content of the ring buffer, oldest item first; Place is where the i-th lies.
Place(i) == IF head + i <= Capacity THEN head + i - 1 ELSE head + i - 1 - Capacity

Content == [i \in 1 .. used |-> storage[Place(i)]]

\* How far a task's call has got, as its caller will learn.
Progress(t) ==
    CASE t \notin calling -> "idle"
      [] t \in calling \cap send_wait_map -> "sending"
      [] t \in calling \cap recv_wait_map -> "receiving"
      [] OTHER -> IF block_status[t] = "OK" THEN "done" ELSE "refused"

Service == INSTANCE QueueService WITH
    chan <- Content, role <- [t \in Task |-> Progress(t)], offer <- payload

(***************************************************************************)
(* The queue implements a bounded FIFO channel: whatever the order of      *)
(* sends, receives, interrupts and time-outs, every accepted item is       *)
(* received once and in order, also across the wrap of the ring buffer and *)
(* the direct hand-over to and from blocked tasks (xrtos_queue.c).         *)
(***************************************************************************)
ImplementsQueueService == Service!Spec
=============================================================================
