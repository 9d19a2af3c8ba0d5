------------------------------ MODULE MCXnet ------------------------------
(* Three buffers and two cache entries for three hosts: P, Q and the       *)
(* gateway.  Times are counted in a unit of which a second has two.  A     *)
(* lease of 17 s overflows the word of 32 and ends after 2 units; one of   *)
(* 4 s with an early t2 outlasts the retries of the rebinding client.      *)
EXTENDS XnetStack, TLC

CONSTANTS hostP, hostQ, router, distant

ThreePeers == ("traffic" :> {hostP, hostQ, router}) @@ ("lease" :> {hostP}) @@ ("names" :> {router})

FewGrants ==
    {[lease |-> 0, t1 |-> 0, t2 |-> 0, gateway |-> router],
     [lease |-> 4, t1 |-> 1, t2 |-> 2, gateway |-> None],
     [lease |-> 17, t1 |-> 0, t2 |-> 0, gateway |-> router]}
=============================================================================
