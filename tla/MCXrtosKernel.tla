--------------------------- MODULE MCXrtosKernel ---------------------------
(* Three tasks, two of them of equal priority, and the idle task; for      *)
(* events and notifications two tasks of different priority.  In the       *)
(* registry, contexts 1, 2 and the idle task 5 exist from the start, and   *)
(* contexts 3 and 4 are created later, 3 with the id that context 2 uses.  *)
EXTENDS XrtosKernel, TLC

BaseEq  == (1 :> 0) @@ (2 :> 1) @@ (3 :> 1) @@ (4 :> 2)
ReadyEq == (0 :> <<>>) @@ (1 :> <<2, 3>>) @@ (2 :> <<4>>)

Base2  == (1 :> 0) @@ (2 :> 1) @@ (3 :> 2)
Ready2 == (0 :> <<>>) @@ (1 :> <<2>>) @@ (2 :> <<3>>)

IdEq   == (1 :> 1) @@ (2 :> 2) @@ (3 :> 2) @@ (4 :> 3) @@ (5 :> 0)
PrioEq == (1 :> 1) @@ (2 :> 2) @@ (3 :> 2) @@ (4 :> 1) @@ (5 :> 7)

\* The items, flags and bits are only compared with each other.
Alike == Permutations(Item) \cup Permutations(Flag) \cup Permutations(Bit)

AllUses == {"sem", "queue", "event", "notify", "registry"}
=============================================================================
