---------------------------- MODULE QueueService ----------------------------
(***************************************************************************)
(* What the queue API promises: a bounded first-in first-out channel.      *)
(* Every item accepted is received once, in the order of acceptance; a     *)
(* sender that gave up has sent nothing, a receiver that gave up has taken *)
(* nothing.  No ring buffer, no wait maps, no priorities.                  *)
(***************************************************************************)
EXTENDS Naturals, Sequences

CONSTANTS Task, Item, None, Capacity

VARIABLES
    chan,   \* the items accepted and not yet received
    role,   \* how far each task's blocking call has got
    offer,  \* the item a waiting sender offers
    delivered  \* the item received last, and by whom

vars == <<chan, role, offer, delivered>>

Init ==
    /\ chan = <<>>
    /\ role = [t \in Task |-> "idle"]
    /\ offer = [t \in Task |-> None]
    /\ delivered \in Task \X {None}

Senders   == {t \in Task : role[t] = "sending"}
Receivers == {t \in Task : role[t] = "receiving"}

Become(t, r) == role' = [role EXCEPT ![t] = r]

\* An item arrives: stored, or handed to a receiver that waits.
Store(i) ==
    /\ Receivers = {} /\ Len(chan) < Capacity
    /\ chan' = Append(chan, i)
    /\ UNCHANGED <<role, offer, delivered>>

Hand(i, r) ==
    /\ chan = <<>> /\ r \in Receivers
    /\ delivered' = <<r, i>>
    /\ Become(r, "done")
    /\ UNCHANGED <<chan, offer>>

OfferAndWait(t, i) ==
    /\ role[t] = "idle" /\ Len(chan) = Capacity
    /\ offer' = [offer EXCEPT ![t] = i]
    /\ Become(t, "sending")
    /\ UNCHANGED <<chan, delivered>>

\* The oldest item leaves; a sender that waits gets the free place.
Receive(t) ==
    /\ role[t] = "idle" /\ chan # <<>> /\ Senders = {}
    /\ delivered' = <<t, Head(chan)>>
    /\ chan' = Tail(chan)
    /\ UNCHANGED <<role, offer>>

ReceiveAndAdmit(t, s) ==
    /\ role[t] = "idle" /\ chan # <<>> /\ s \in Senders
    /\ delivered' = <<t, Head(chan)>>
    /\ chan' = Append(Tail(chan), offer[s])
    /\ offer' = [offer EXCEPT ![s] = None]
    /\ Become(s, "done")

WaitForItem(t) ==
    /\ role[t] = "idle" /\ chan = <<>>
    /\ Become(t, "receiving")
    /\ UNCHANGED <<chan, offer, delivered>>

GiveUp(t) ==
    /\ role[t] \in {"sending", "receiving"}
    /\ offer' = [offer EXCEPT ![t] = None]
    /\ Become(t, "refused")
    /\ UNCHANGED <<chan, delivered>>

Leave(t) ==
    /\ role[t] \in {"done", "refused"}
    /\ Become(t, "idle")
    /\ UNCHANGED <<chan, offer, delivered>>

Next ==
    \/ \E i \in Item : Store(i) \/ \E t \in Task : Hand(i, t) \/ OfferAndWait(t, i)
    \/ \E t \in Task :
          \/ Receive(t) \/ WaitForItem(t) \/ GiveUp(t) \/ Leave(t)
          \/ \E s \in Task : ReceiveAndAdmit(t, s)

Spec == Init /\ [][Next]_vars
=============================================================================
