------------------------------ MODULE MCXusb ------------------------------
(* One root port, one mass storage function with a single block and one    *)
(* boot HID, and the devices, hosts and budgets that meet them.            *)
EXTENDS XusbBus

MCCommands == {Command("Write10", 0, 1, 1), Command("Read10", 0, 1, 0)}

MCPcRequests ==
    {Request("Config"), Request("GetConfiguration"), Request("SetConfiguration"),
     Request("Unconfigure"), Request("SetConfiguration2"), Request("ClearOut"), Request("SetWake"),
     [op |-> "SetAddress", addr |-> 1], [op |-> "SetAddress", addr |-> 2],
     [op |-> "SetHalt", ep |-> "in"],
     [op |-> "GetInterface", index |-> 0], [op |-> "SetInterface", index |-> 0, value |-> 0],
     [op |-> "GetProtocol", index |-> 1], [op |-> "SetReport", index |-> 1],
     [op |-> "BulkReset", index |-> 0]}

(* Whatever the host sends can be read as a wrapper or as data.            *)
Wrapped(cmd) == [op |-> "CBW", tag |-> 1, cmd |-> cmd, val |-> 0]
MCPcPayloads ==
    {[op |-> "DATA", val |-> 1], Wrapped(Command("TestUnitReady", 0, 0, 0)),
     Wrapped(Command("Write10", 0, 1, 1)), Wrapped(Command("Write10", 3, 1, 1))}

MscFunction == <<[kind |-> "interface", cls |-> "msc", alt |-> 0, n |-> 2],
                 [kind |-> "endpoint", addr |-> "out"], [kind |-> "endpoint", addr |-> "in"]>>
HidFunction == <<[kind |-> "interface", cls |-> "hid", alt |-> 0, n |-> 1],
                 [kind |-> "endpoint", addr |-> "int"]>>
Alternate == <<[kind |-> "interface", cls |-> "other", alt |-> 1, n |-> 1],
               [kind |-> "endpoint", addr |-> "in2"]>>

(* A good device, one with an alternate setting, one whose second mass     *)
(* storage function cannot be bound, one that announces too many endpoints *)
(* and one that repeats an address.                                        *)
MCForeignItems ==
    {MscFunction \o HidFunction, HidFunction \o Alternate,
     HidFunction \o MscFunction \o <<[kind |-> "interface", cls |-> "msc", alt |-> 0, n |-> 0]>>,
     <<[kind |-> "interface", cls |-> "hid", alt |-> 0, n |-> 2], [kind |-> "endpoint", addr |-> "int"]>>,
     MscFunction \o <<[kind |-> "interface", cls |-> "hid", alt |-> 0, n |-> 1],
                      [kind |-> "endpoint", addr |-> "in"]>>}

(* The third class of the first list is refused for want of interfaces.     *)
MCClassLists == {<<"msc", "hid", "cdc">>, <<"win", "hid">>}
=============================================================================
