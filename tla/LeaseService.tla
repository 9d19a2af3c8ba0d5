---------------------------- MODULE LeaseService ----------------------------
(***************************************************************************)
(* What a DHCP client promises: it holds an address only while time is     *)
(* left on the lease that a server granted it, and a lease begins anew     *)
(* only when the client has asked for it.                                  *)
(***************************************************************************)
EXTENDS Naturals

CONSTANTS Address, Nobody, Longest

VARIABLES held, left, asking

Init == held = Nobody /\ left = 0 /\ asking = FALSE

\* A server grants an address for a time, anew or once more.
Grant ==
    /\ asking /\ ~asking'
    /\ held' \in Address
    /\ left' \in 0 .. Longest

\* Time passes, some of the lease remains, and its renewal may come due.
Pass ==
    /\ left' \in 1 .. left - 1
    /\ asking' \in {asking, TRUE}
    /\ UNCHANGED held

\* The lease ends, is refused or given up, and another may be asked for.
Lapse == held' = Nobody /\ left' = 0 /\ asking' \in BOOLEAN

Next == Grant \/ Pass \/ Lapse

Spec == Init /\ [][Next]_<<held, left, asking>>
=============================================================================
