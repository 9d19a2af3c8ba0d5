------------------------------- MODULE MCXkit -------------------------------
(* The drivers, the tools, the applications and the boot loader, each with  *)
(* the part of it that a behaviour uses; the other three are not there.     *)
EXTENDS Xdrivers, Xtools, Xapps, Xboot

Absent == [kind |-> "off"]
parts == <<drv, tool, app, boot>>

Init ==
    \/ DriversInit /\ tool = Absent /\ app = Absent /\ boot = Absent
    \/ ToolsInit /\ drv = Absent /\ app = Absent /\ boot = Absent
    \/ AppsInit /\ drv = Absent /\ tool = Absent /\ boot = Absent
    \/ BootStart /\ drv = Absent /\ tool = Absent /\ app = Absent

Next ==
    \/ DriversNext /\ UNCHANGED <<tool, app, boot>>
    \/ ToolsNext /\ UNCHANGED <<drv, app, boot>>
    \/ AppsNext /\ UNCHANGED <<drv, tool, boot>>
    \/ BootSteps /\ UNCHANGED <<drv, tool, app>>

SpecFair == Init /\ [][Next]_parts /\ DriversFairness /\ ToolsFairness

(* A transfer that was started is answered, and a fault ends in the halt,   *)
(* whatever else happens: xUART_Abort, the time-outs of xSPI_Transfer,      *)
(* xfault_halt.                                                             *)
EveryStartEnds == DriversAnswered /\ FaultHalts
=============================================================================
