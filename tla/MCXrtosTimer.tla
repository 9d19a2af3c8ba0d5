---------------------------- MODULE MCXrtosTimer ----------------------------
(* Three timers of which two have the same period.                         *)
EXTENDS XrtosTimer, TLC

PeriodEq == (1 :> 1) @@ (2 :> 2) @@ (3 :> 2)
PeriodOfTwo == (1 :> 1) @@ (2 :> 1)
=============================================================================
