----------------------------- MODULE XnetStack -----------------------------
(***************************************************************************)
(* One interface of xNET with all that uses it.  The driver's frames, the  *)
(* two ticks and the calls of applications come in any order, each to its  *)
(* end.  A behaviour exercises one of three uses: traffic to hosts under   *)
(* static addresses, a leased address, or queries for names.               *)
(***************************************************************************)
EXTENDS XnetDhcp, XnetDns

CONSTANTS
    Uses,
    Peers,       \* the hosts that a use exchanges packets with
    Elapsed,     \* the times between two ticks
    AppSocket

ASSUME StackAssumption ==
    /\ Uses \subseteq {"traffic", "lease", "names"}
    /\ LinkAssumption /\ UdpAssumption /\ DhcpAssumption /\ DnsAssumption
    /\ \A u \in Uses : Peers[u] \subseteq Host
    /\ Elapsed \subseteq Nat \ {0}
    /\ DhcpSocket \notin Query
    /\ AppSocket \in Socket \ (Query \cup {DhcpSocket})

\* No lease comes within a tick of the 2^32 ms that the client counts: the
\* count would wrap before the lease is over.
ASSUME LeasesFit ==
    \A g \in Grants, ms \in Elapsed :
        Ms(IF g.lease # 0 THEN g.lease ELSE DefaultLease) + ms <= Word

VARIABLES use

vars == <<use, linkVars, udpVars, dhcp, dnsVars>>

\* A client that ran before may have lost a buffer for good, see LostOnlyWithLease.
\* Names are looked up from an address that came with a server's.
Init ==
    /\ use \in Uses
    /\ \/ use = "traffic" /\ \E lost \in {{}, {Min(Buf)}} : LinkInit(NoAddress, lost)
       \/ use = "lease" /\ LinkInit(NoAddress, {})
       \/ /\ use = "names"
          /\ \E a \in Own : LinkInit([Static(a) EXCEPT !.dns = DnsServer], {})
    /\ UdpInit /\ DhcpInit /\ DnsInit

-----------------------------------------------------------------------------
\* An application opens a socket, on the client's port or an ephemeral one,
\* or closes it.
AppOpen ==
    /\ port[AppSocket] = None
    /\ IF use = "lease" THEN OpenAt(AppSocket, DhcpPort) ELSE OpenEphemeral(AppSocket)
    /\ UNCHANGED linkVars

AppClose ==
    /\ port[AppSocket] # None
    /\ Close(AppSocket)
    /\ UNCHANGED linkVars

Tick == \E ms \in Elapsed : NetTick(ms)

\* Packets of the hosts, and to them.
Traffic ==
    \/ \E h \in Peers[use] : ArpIn(h) \/ EchoIn(h) \/ AppSend(h)
    \/ Retransmit

\* An application that sets an address itself does not run the client.
SetAddress == ~dhcp.active /\ \E a \in Own : ConfigStatic(a)

Client ==
    \/ DhcpStart
    \/ DhcpStop
    \/ \E s \in Server :
          \/ DhcpOffer(s)
          \/ DhcpNak(s)
          \/ \E a \in Own, g \in Grants : DhcpAck(s, a, DnsServer, g)

Lookups ==
    \E q \in Query :
        \/ DnsQuery(q)
        \/ DnsAnswer(q)
        \/ \E ms \in Elapsed : DnsTick(q, ms)

Next ==
    /\ UNCHANGED use
    /\ \/ (Traffic \/ SetAddress) /\ UNCHANGED <<udpVars, dhcp, dnsVars>>
       \/ Tick /\ UNCHANGED dnsVars
       \/ use # "traffic" /\ (AppOpen \/ AppClose) /\ UNCHANGED <<dhcp, dnsVars>>
       \/ use = "lease" /\ Client /\ UNCHANGED dnsVars
       \/ use = "names" /\ Lookups /\ UNCHANGED dhcp

Spec == Init /\ [][Next]_vars

\* The main loop keeps ticking the stack and every query.
Fairness ==
    /\ WF_vars(use = "traffic" /\ UNCHANGED <<use, dnsVars>> /\ Tick)
    /\ \A q \in Query : WF_vars(/\ use = "names" /\ UNCHANGED <<use, dhcp>>
                                /\ \E ms \in Elapsed : DnsTick(q, ms))

FairSpec == Spec /\ Fairness

-----------------------------------------------------------------------------
(* Properties.                                                             *)

\* Every variable of the stack keeps its type.
TypeOK == use \in Uses /\ LinkTypeOK /\ UdpTypeOK /\ DhcpTypeOK /\ DnsTypeOK

(***************************************************************************)
(* Between two handlers a packet waits in one pending entry of the cache,  *)
(* carries the present address of the interface and owns its buffer,       *)
(* whatever evicted, renewed, expired or flushed entries before            *)
(* (arp_cache_allocate_entry, arp_cache_update, xNET_ARP_Resolve); and a   *)
(* socket is listed under one port while something listens on it.  The     *)
(* waits of a client and of a query double with each try and pass no limit *)
(* (dhcp_tick_retries, xNET_DNS_Tick).                                     *)
(***************************************************************************)
StateAccounted ==
    /\ TypeOK /\ PacketsAccounted /\ PortsDistinct
    /\ QueriesListening /\ ClientListening
    /\ ClientWaits /\ QueriesWait

(***************************************************************************)
(* A buffer that is neither free nor parked is lost for good.  Handlers    *)
(* lose none, on whichever path they return, but for one kind of step: the *)
(* DHCP client starts, or begins or gives up a lease, and clears the cache *)
(* over the packets parked there (xNET_ARP_Cache_Init).                    *)
(***************************************************************************)
ClearsForLease ==
    /\ link'.arp = EmptyCache
    /\ dhcp'.state \in {"BOUND", "SELECTING"}
    /\ dhcp'.state # dhcp.state \/ dhcp'.active # dhcp.active

LostOnlyWithLease ==
    [][Lost(link') \subseteq Lost(link) \/ ClearsForLease]_vars

(***************************************************************************)
(* A pool that parked packets have filled, so that no ARP reply can come   *)
(* in any more, empties again by the retries alone (xNET_ARP_Tick), even    *)
(* when a buffer has been lost before.                                     *)
(***************************************************************************)
PoolRecovers == (use = "traffic" /\ Full(link)) ~> ~Full(link)

(***************************************************************************)
(* While the client runs, the address of the interface is a lease with     *)
(* time left on it, whose time starts anew only when a server grants what  *)
(* the client asked for, through offers, refusals, renewals and retries in *)
(* any order (dhcp_tick_lease, dhcp_handle_active_state).                  *)
(***************************************************************************)
ImplementsLeaseService == Service!Spec

(***************************************************************************)
(* Every query that was accepted ends with its callback, though datagrams  *)
(* are dropped without a word, and although the callback may reuse the     *)
(* context (dns_handle_query_failed, dns_rx_callback).                     *)
(***************************************************************************)
EveryQueryAnswered ==
    \A q \in Query, n \in 0 .. 1 : Waits(q, n) ~> called[q] # n

(***************************************************************************)
(* xnet_dhcp.c:655, in dhcp_tick_lease: "REBINDING, wait for ACK or lease  *)
(* expiration".  A tick takes an address away only when its lease is over. *)
(***************************************************************************)
KeptUntilExpiry ==
    [][Leased /\ ~Leased' /\ Tick => \E ms \in Elapsed : dhcp.elapsed + ms >= Ms(dhcp.lease)]_vars
=============================================================================
