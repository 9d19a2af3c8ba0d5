----------------------------- MODULE XrtosEvent -----------------------------
(***************************************************************************)
(* An xRTOS event object (xrtos_event.c): flags that tasks and interrupts  *)
(* set, and tasks that wait for any or all of some flags.  One Set wakes   *)
(* every task it satisfies, and a waiter may consume the flags it matched. *)
(***************************************************************************)
EXTENDS XrtosSched

CONSTANT Flag

FlagAssumption == Flag # {}

VARIABLES
    flags,     \* event_ctx->flags
    wait_map,  \* event_ctx->wait_map
    asked,     \* what each task's last Wait asked for: its arguments
    mask,      \* block_payload.event.wait_mask: first asked for, then matched
    waiting    \* tasks in the blocking path of Wait

eventVars == <<flags, wait_map, asked, mask, waiting>>
vars == <<schedVars, eventVars>>

\* The arguments of Wait; all and clear are the bits of options.
Request == [want : (SUBSET Flag) \ {{}}, all : BOOLEAN, clear : BOOLEAN]

TypeOK ==
    /\ SchedTypeOK
    /\ flags \subseteq Flag
    /\ wait_map \subseteq Task /\ waiting \subseteq Task
    /\ asked \in [Task -> Request]
    /\ mask \in [Task -> SUBSET Flag]

AnyRequest == [want |-> Flag, all |-> FALSE, clear |-> FALSE]

\* An event object that was just created.
Created ==
    /\ flags = {}
    /\ wait_map = {} /\ waiting = {}
    /\ asked = [t \in Task |-> AnyRequest]
    /\ mask = [t \in Task |-> {}]

Init == SchedInit /\ Created

\* t runs its own code, between two API calls.
Calls(t) == ~isr /\ current = t /\ t # Idle /\ pc[t] = "run" /\ t \notin waiting

\* is_condition_met.
Met(fs, req) == IF req.all THEN req.want \subseteq fs ELSE fs \cap req.want # {}

-----------------------------------------------------------------------------
(* xRTOS_Event_Wait.  With NO_WAIT and nothing met it changes nothing.     *)

WaitFast(t, req) ==
    /\ Calls(t) /\ Met(flags, req)
    /\ flags' = IF req.clear THEN flags \ req.want ELSE flags
    /\ UNCHANGED <<schedVars, wait_map, asked, mask, waiting>>

WaitBlock(t, req, finite) ==
    /\ Calls(t) /\ ~Met(flags, req)
    /\ wait_map' = wait_map \cup {t}
    /\ asked' = [asked EXCEPT ![t] = req]
    /\ mask' = [mask EXCEPT ![t] = req.want]
    /\ waiting' = waiting \cup {t}
    /\ BlockCurrent(t, finite)
    /\ UNCHANGED <<base, eff, isr, expiring, flags>>

\* The blocked call resumes, hands out the matched flags and resets the payload.
WaitReturn(t) ==
    /\ ~isr /\ current = t /\ pc[t] = "run" /\ t \in waiting
    /\ waiting' = waiting \ {t}
    /\ asked' = [asked EXCEPT ![t] = AnyRequest]
    /\ mask' = [mask EXCEPT ![t] = {}]
    /\ UNCHANGED <<schedVars, flags, wait_map>>

-----------------------------------------------------------------------------
(* event_set_core.                                                         *)

Satisfied(fs) == {t \in wait_map : Met(fs, asked[t])}

\* Fault: all flags are reported.
MatchedRaw(fs, t) == fs

Matched(fs, t) == fs \cap mask[t]

\* clear_mask: what the satisfied waiters with CLEAR_ON_EXIT matched.
Consumed(fs) == UNION {Matched(fs, t) : t \in {u \in Satisfied(fs) : asked[u].clear}}

\* The second scan: what each of these tasks matched becomes its answer.
Wake(woken, fs) ==
    /\ wait_map' = wait_map \ woken
    /\ mask' = [t \in Task |-> IF t \in woken THEN Matched(fs, t) ELSE mask[t]]
    /\ UnblockAll(woken, "OK")

\* Fault: only the first satisfied waiter is woken.
WakeFirst(fs) == Wake({t \in Satisfied(fs) : \A u \in Satisfied(fs) : t <= u}, fs)

WakeSatisfied(fs) == Wake(Satisfied(fs), fs)

SetOutranks(raised) == \E t \in Satisfied(flags \cup raised) : Outranks(t)

SetCore(raised) ==
    /\ flags' = (flags \cup raised) \ Consumed(flags \cup raised)
    /\ WakeSatisfied(flags \cup raised)
    /\ UNCHANGED <<base, eff, current, isr, expiring, asked, waiting>>

Set(t, raised) ==
    Calls(t) /\ SetCore(raised) /\ YieldIf(t, pending \/ SetOutranks(raised))

SetFromIsr(raised) ==
    /\ isr /\ expiring = {}
    /\ SetCore(raised)
    /\ pending' = (pending \/ SetOutranks(raised))
    /\ UNCHANGED pc

\* xRTOS_Event_Clear.
Clear(t, cleared) ==
    /\ Calls(t)
    /\ flags' = flags \ cleared
    /\ UNCHANGED <<schedVars, wait_map, asked, mask, waiting>>

-----------------------------------------------------------------------------
\* The tick: xrtos_blocking_payload_cleanup, then the wake-up.
Expire(t) ==
    /\ Expired(t)
    /\ WakeExpired(t)
    /\ wait_map' = wait_map \ {t}
    /\ mask' = [mask EXCEPT ![t] = {}]
    /\ UNCHANGED <<flags, asked, waiting>>

TaskStep(t) ==
    \/ \E req \in Request :
          WaitFast(t, req) \/ \E finite \in BOOLEAN : WaitBlock(t, req, finite)
    \/ WaitReturn(t)
    \/ \E fs \in (SUBSET Flag) \ {{}} : Set(t, fs) \/ Clear(t, fs)
    \/ Calls(t) /\ TaskDelay(t) /\ UNCHANGED eventVars
    \/ Yield(t) /\ UNCHANGED eventVars

Handler ==
    \/ TickEnter /\ UNCHANGED eventVars
    \/ \E t \in Task : Expire(t)
    \/ \E fs \in (SUBSET Flag) \ {{}} : SetFromIsr(fs)
    \/ IsrExit /\ UNCHANGED eventVars

Next == (\E t \in Task : TaskStep(t)) \/ Handler

Spec == Init /\ [][Next]_vars

-----------------------------------------------------------------------------
(* Properties.                                                             *)

(***************************************************************************)
(* No task sleeps on a condition the flags satisfy: one Set wakes all it   *)
(* satisfies, also when flags gather over several Sets (event_set_core).   *)
(***************************************************************************)
NobodyOverslept == \A t \in wait_map : ~Met(flags, asked[t])

(***************************************************************************)
(* The wait map holds exactly the tasks blocked in Wait, with the mask     *)
(* they asked for: a Set can neither wake a task that has timed out nor    *)
(* overwrite its answer.                                                   *)
(***************************************************************************)
WaitMapAgrees ==
    /\ wait_map = {t \in waiting : state[t] = "BLOCKED"}
    /\ \A t \in wait_map : mask[t] = asked[t].want

(***************************************************************************)
(* A Wait that reports OK reports flags that meet its request, although    *)
(* any number of Sets, Clears and time-outs came between the wake-up and   *)
(* the return; one that reports TIMEOUT reports none.                      *)
(***************************************************************************)
AnswerMeetsRequest ==
    \A t \in waiting \ wait_map :
        IF block_status[t] = "OK"
          THEN mask[t] \subseteq asked[t].want /\ Met(mask[t], asked[t])
          ELSE mask[t] = {}

=============================================================================
