---------------------------- MODULE MCXrtosMutex ----------------------------
(* Three tasks and the idle task, created with the priorities below.       *)
EXTENDS XrtosMutex

Base3 == (1 :> 0) @@ (2 :> 1) @@ (3 :> 2) @@ (4 :> 3)
Ready3 == (0 :> <<>>) @@ (1 :> <<2>>) @@ (2 :> <<3>>) @@ (3 :> <<4>>)

\* Two tasks share a priority.
BaseEq == (1 :> 0) @@ (2 :> 1) @@ (3 :> 1) @@ (4 :> 2)
ReadyEq == (0 :> <<>>) @@ (1 :> <<2, 3>>) @@ (2 :> <<4>>)
=============================================================================
