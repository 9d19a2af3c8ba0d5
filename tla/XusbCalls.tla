----------------------------- MODULE XusbCalls -----------------------------
(* What the two USB stacks have in common: endpoint addresses, the payload *)
(* of a transfer, and calls.  A stack is one record g; a call is a         *)
(* function of it and leaves its status in g.st.                           *)
EXTENDS Integers, Sequences, FiniteSets

(* Endpoint addresses, with the type and the direction they stand for.     *)
EP0 == "ep0"
Bulk == {"in", "out", "in2", "out2"}
Interrupt == {"int", "int2"}
Address == {EP0} \cup Bulk \cup Interrupt
OutAddress == {"out", "out2"}
InAddress == Address \ (OutAddress \cup {EP0})

None == -1
NoAddress == "none"

(* A control request or a payload; most need no more than their name.      *)
Request(op) == [op |-> op]
Nothing == Request("none")

Ok(g) == [g EXCEPT !.st = "OK"]
Failed(g, st) == [g EXCEPT !.st = st]
IsOk(g) == g.st = "OK"

(* The sets make TLC evaluate an intermediate record once.                 *)
Then(g, Next(_)) ==
    CHOOSE r \in {IF IsOk(v) THEN Next(v) ELSE v : v \in {g}} : TRUE
Either(g, Next(_), Else(_)) ==
    CHOOSE r \in {IF IsOk(v) THEN Next(v) ELSE Else(v) : v \in {g}} : TRUE
Always(g, Next(_)) == CHOOSE r \in {Next(v) : v \in {g}} : TRUE

(* A loop over 0 .. n - 1 that ends at the first step that fails, and one   *)
(* that does not.                                                          *)
While(g, n, Step(_, _)) ==
    LET after[i \in 0 .. n] == IF i = 0 THEN g ELSE Then(after[i - 1], LAMBDA v : Step(v, i - 1))
    IN  after[n]
Every(g, n, Step(_, _)) ==
    LET after[i \in 0 .. n] == IF i = 0 THEN g ELSE Always(after[i - 1], LAMBDA v : Step(v, i - 1))
    IN  after[n]

First(S) == CHOOSE i \in S : \A j \in S : i <= j

(* A SCSI command: its data stage moves n units, to the device or from it. *)
NoCommand == [op |-> "none", lba |-> 0, n |-> 0, val |-> 0]
Command(op, lba, n, val) == [op |-> op, lba |-> lba, n |-> n, val |-> val]
DataIn(cmd) == cmd.op \notin {"Write10", "TestUnitReady"}
=============================================================================
