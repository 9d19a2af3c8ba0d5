----------------------------- MODULE SemService -----------------------------
(***************************************************************************)
(* What the semaphore API promises: tokens are neither made nor lost.  A   *)
(* give either stores a token or lets exactly one waiting taker have it;   *)
(* a taker that gave up gets none; what a taker is told is what happened.  *)
(***************************************************************************)
EXTENDS Naturals

CONSTANTS Task, MaxCount, InitCount

VARIABLES
    tokens,   \* tokens nobody has taken
    taker     \* how far each task's blocking take has got

vars == <<tokens, taker>>

Init ==
    /\ tokens = InitCount
    /\ taker = [t \in Task |-> "idle"]

Waiting == {t \in Task : taker[t] = "waiting"}

Become(t, from, to) == taker[t] = from /\ taker' = [taker EXCEPT ![t] = to]

TakeNow(t) == taker[t] = "idle" /\ tokens > 0 /\ tokens' = tokens - 1 /\ UNCHANGED taker
Ask(t)     == tokens = 0 /\ Become(t, "idle", "waiting") /\ UNCHANGED tokens
Store      == Waiting = {} /\ tokens < MaxCount /\ tokens' = tokens + 1 /\ UNCHANGED taker
PassOn(t)  == Become(t, "waiting", "granted") /\ UNCHANGED tokens
GiveUp(t)  == Become(t, "waiting", "refused") /\ UNCHANGED tokens
Leave(t)   == (Become(t, "granted", "idle") \/ Become(t, "refused", "idle")) /\ UNCHANGED tokens

Next ==
    \/ Store
    \/ \E t \in Task : TakeNow(t) \/ Ask(t) \/ PassOn(t) \/ GiveUp(t) \/ Leave(t)

Spec == Init /\ [][Next]_vars
=============================================================================
