------------------------------ MODULE XnetLink ------------------------------
(***************************************************************************)
(* The lower half of xNET: the packet pool (xnet_packet.c), the ARP cache  *)
(* with the packet each unresolved entry parks (xnet_arp.c), sending       *)
(* (xnet_ipv4.c, xnet_ethernet.c), the address of the one interface and    *)
(* the sockets (xnet_udp.c): net_ctx->udp_list as the port each listed     *)
(* socket is bound to.                                                     *)
(*                                                                         *)
(* The stack has no threads: a handler runs to its end and calls the       *)
(* layers below it, so a handler of this model is an operator that takes   *)
(* the link (pool and cache) and returns what it becomes.                  *)
(***************************************************************************)
EXTENDS Naturals, FiniteSetsExt

CONSTANTS
    None,
    Buf,          \* indices of net_ctx->packet_pool
    Slot,         \* indices of interface_ctx->arp_cache
    Own,          \* addresses the interface can be given
    Near, Far,    \* hosts on its subnet and beyond the gateway
    Gateway,      \* the gateway, a host on the subnet
    Broadcast,
    RetryMs, EntryMs, MaxRetries,  \* xNET_CONFIG_ARP_...
    Socket,       \* the contexts that are ever opened
    DhcpPort,     \* xNET_DHCP_CLIENT_PORT
    FirstEph, LastEph              \* the ephemeral ports

LinkAssumption ==
    /\ Buf \subseteq Nat /\ Buf # {} /\ IsFiniteSet(Buf)
    /\ Slot \subseteq Nat /\ Slot # {} /\ IsFiniteSet(Slot)
    /\ None \notin Buf \cup Own \cup Near \cup Far
    /\ Gateway \in Near /\ Own \cap (Near \cup Far) = {} /\ Near \cap Far = {}
    /\ Broadcast \notin {None} \cup Own \cup Near \cup Far
    /\ {RetryMs, EntryMs, MaxRetries} \subseteq Nat

UdpAssumption ==
    /\ FirstEph \in Nat /\ LastEph \in Nat /\ FirstEph <= LastEph
    /\ DhcpPort \in Nat /\ DhcpPort \notin FirstEph .. LastEph
    /\ None \notin Socket \cup Nat

VARIABLES
    link,    \* pool: the buffers in use; arp: the entries of the cache
    addr,    \* ip, gateway and dns_primary of the interface, None for 0.0.0.0
    port,            \* the port of each socket, None when it is not listed
    next_ephemeral   \* the static counter of xNET_UDP_Open

linkVars == <<link, addr>>

Host == Near \cup Far

\* Doubled n times: how much longer than the first the wait after n tries is.
Doubled[n \in Nat] == IF n = 0 THEN 1 ELSE 2 * Doubled[n - 1]

\* The wait is the first one, doubled with each try, and not yet over.
WaitDoubled(elapsed, timeout, count, first) ==
    elapsed <= timeout /\ timeout \in {0, first * Doubled[count]}

\* An entry: the time left to its retry (PENDING) or its timeout (RESOLVED);
\* src is the source address in the header of the parked packet.  What
\* nothing reads in a FREE entry is blank.
Entry == [state: {"FREE", "PENDING", "RESOLVED"}, ip: Host \cup {None},
          left: 0 .. RetryMs + EntryMs, retries: 0 .. MaxRetries, resend: BOOLEAN,
          parked: Buf \cup {None}, src: Own \cup {None}]
Free == [state |-> "FREE", ip |-> None, left |-> 0, retries |-> 0, resend |-> FALSE,
         parked |-> None, src |-> None]
EmptyCache == [s \in Slot |-> Free]

NoAddress == [ip |-> None, gateway |-> None, dns |-> None]
Static(a) == [ip |-> a, gateway |-> Gateway, dns |-> None]

LinkTypeOK ==
    /\ link \in [pool: SUBSET Buf, arp: [Slot -> Entry]]
    /\ addr \in [ip: Own \cup {None}, gateway: {Gateway, None}, dns: Far \cup {None}]

-----------------------------------------------------------------------------
(* The pool: the first free buffer is taken; releasing a free buffer is    *)
(* refused.                                                                *)

Full(l) == l.pool = Buf
FirstFree(l) == Min(Buf \ l.pool)
Take(l, b) == [l EXCEPT !.pool = @ \cup {b}]
Release(l, b) == [l EXCEPT !.pool = @ \ {b}]

\* xNET_Ethernet_TX consumes the packet, whether the driver sent it or not.
Transmit(l, b) == Release(l, b)

-----------------------------------------------------------------------------
(* The ARP cache.                                                          *)

Pending(l)   == {s \in Slot : l.arp[s].state = "PENDING"}
Resolved(l)  == {s \in Slot : l.arp[s].state = "RESOLVED"}
For(l, host) == {s \in Slot : l.arp[s].state # "FREE" /\ l.arp[s].ip = host}
Parked(l)    == {l.arp[s].parked : s \in Slot} \ {None}

\* Fault: the displaced packet keeps its buffer.
Overwrite(l, s, e) == [l EXCEPT !.arp[s] = e]

\* Entry s becomes e; a packet that it parked until now is released.
Replace(l, s, e) ==
    LET old == l.arp[s].parked
    IN  [pool |-> l.pool \ {old}, arp |-> [l.arp EXCEPT ![s] = e]]

\* The first of the entries in S with the least time left.
Oldest(l, S) ==
    LET least == Min({l.arp[s].left : s \in S})
    IN  Min({s \in S : l.arp[s].left = least})

\* arp_cache_allocate_entry: a free entry, else the oldest resolved one, else
\* the oldest pending one.
Victim(l) ==
    IF \E s \in Slot : l.arp[s].state = "FREE"
    THEN Min({s \in Slot : l.arp[s].state = "FREE"})
    ELSE Oldest(l, IF Resolved(l) # {} THEN Resolved(l) ELSE Pending(l))

\* Fault: no look at the entry that the host already has.
SlotAnew(l, host) == Victim(l)

\* The entry an event about this host belongs to.
SlotFor(l, host) ==
    IF For(l, host) # {} THEN Min(For(l, host)) ELSE Victim(l)

\* xNET_ARP_Resolve: the packet leaves at once, or is parked in place of an
\* older one.  The ARP request is a second buffer, sent and released, or
\* nothing when the pool is full.
Resolve(l, host, b, src) ==
    IF host = Broadcast \/ \E s \in For(l, host) : l.arp[s].state = "RESOLVED"
    THEN Transmit(l, b)
    ELSE LET s == SlotFor(l, host)
             e == IF For(l, host) # {} THEN l.arp[s]
                  ELSE [Free EXCEPT !.state = "PENDING", !.ip = host, !.left = RetryMs,
                                    !.retries = MaxRetries]
         IN  Replace(l, s, [e EXCEPT !.parked = b, !.src = src])

\* arp_cache_update: what the entry parked is transmitted.
Learn(l, host) ==
    LET s == SlotFor(l, host)
    IN  Replace(l, s, [Free EXCEPT !.state = "RESOLVED", !.ip = host, !.left = EntryMs])

\* xNET_ARP_Cache_Init forgets the parked packets without releasing them.
CacheInit(l) == [l EXCEPT !.arp = EmptyCache]

\* Fault: a retry is not counted.
OnceMore(e) == [e EXCEPT !.left = RetryMs, !.resend = TRUE]

OneRetryLess(e) == [e EXCEPT !.retries = @ - 1, !.left = RetryMs, !.resend = TRUE]

\* xNET_ARP_Tick.  A packet is parked only in a pending entry.
Aged(e, ms) ==
    IF e.left > ms THEN [e EXCEPT !.left = @ - ms]
    ELSE IF e.state = "PENDING" /\ e.retries > 0
    THEN OneRetryLess(e)
    ELSE IF e.state = "PENDING" THEN Free
    ELSE [Free EXCEPT !.parked = e.parked, !.src = e.src]

ArpTick(l, ms) ==
    LET aged == [s \in Slot |-> Aged(l.arp[s], ms)]
        gone == {s \in Pending(l) : aged[s].state = "FREE"}
    IN  [pool |-> l.pool \ {l.arp[s].parked : s \in gone}, arp |-> aged]

-----------------------------------------------------------------------------
(* Sending.                                                                *)

\* The next hop; with no address the netmask is zero and every host is near.
Hop(a, dest) ==
    IF dest \in Far /\ a.ip # None /\ a.gateway # None THEN a.gateway ELSE dest

Ipv4Tx(l, a, dest, b) == Resolve(l, Hop(a, dest), b, a.ip)

\* xNET_UDP_Send_To.
UdpSend(l, a, dest) ==
    IF Full(l) THEN l
    ELSE Ipv4Tx(Take(l, FirstFree(l)), a, dest, FirstFree(l))

\* What UdpSend may return as OK.  Without a buffer it fails, and so does the
\* driver or a link that is down, at any time; a parked packet counts as sent.
SendResults(l, a, dest) ==
    IF Full(l) THEN {FALSE}
    ELSE IF Hop(a, dest) # Broadcast
            /\ \A s \in For(l, Hop(a, dest)) : l.arp[s].state = "PENDING"
    THEN {TRUE}
    ELSE BOOLEAN

-----------------------------------------------------------------------------
(* Receiving.  A frame takes a buffer or is lost.  Whichever layer refuses *)
(* it, xNET_Interface_RX_Frame gives the buffer back, for the second time  *)
(* after a refusal of UDP or ICMP; nothing is allocated in between, so the *)
(* release is refused.  A frame that is malformed, a fragment or for       *)
(* somebody else changes nothing.                                          *)

Arrives == ~Full(link)

\* xNET_IPv4_RX, of a packet to this address.  Broadcast is the limited one;
\* what goes to a group or to all of the subnet passes the same filter.
Accepted(dest) == Arrives /\ dest \in {addr.ip, Broadcast}

\* xNET_UDP_RX, to socket s.  A checksum that the driver has not looked at is
\* summed over the address of the interface instead of the one the datagram
\* was sent to: a broadcast fails it, unless the interface has no address,
\* as 0.0.0.0 and 255.255.255.255 sum to the same.
Delivered(s) ==
    /\ port[s] # None
    /\ \E dest \in Own \cup {Broadcast}, checked \in BOOLEAN :
          /\ Accepted(dest)
          /\ checked \/ dest = (IF addr.ip = None THEN Broadcast ELSE addr.ip)

-----------------------------------------------------------------------------
(* The actions of the link.                                                *)

LinkInit(a, lost) ==
    /\ link = [pool |-> lost, arp |-> EmptyCache]
    /\ addr = a

\* xNET_ARP_RX of a request or reply for our address.  The reply we send to a
\* request is a buffer sent and released.
ArpIn(host) ==
    /\ Arrives
    /\ LET b == FirstFree(link)
       IN  link' = Release(Learn(Take(link, b), host), b)
    /\ UNCHANGED addr

\* xNET_ICMP_RX of an echo request: the reply goes out in the same buffer.
EchoIn(host) ==
    /\ \E dest \in Own \cup {Broadcast} : Accepted(dest)
    /\ LET b == FirstFree(link)
       IN  link' = Ipv4Tx(Take(link, b), addr, host, b)
    /\ UNCHANGED addr

\* An application sends a datagram.
AppSend(dest) ==
    /\ ~Full(link)
    /\ link' = UdpSend(link, addr, dest)
    /\ UNCHANGED addr

\* The end of xNET_Process: requests that a tick asked for are sent.
Retransmit ==
    /\ \E s \in Pending(link) : link.arp[s].resend
    /\ link' = [link EXCEPT !.arp =
                  [s \in Slot |-> IF s \in Pending(link)
                                  THEN [link.arp[s] EXCEPT !.resend = FALSE]
                                  ELSE link.arp[s]]]
    /\ UNCHANGED addr

\* xNET_IPv4_Config_Static flushes the cache and releases what it parked.
ConfigStatic(a) ==
    /\ addr' = Static(a)
    /\ link' = [pool |-> link.pool \ Parked(link), arp |-> EmptyCache]

-----------------------------------------------------------------------------
\* What holds a buffer between two handlers: every parked packet sits in one
\* pending entry, came from the present address, and its buffer is in use.
PacketsAccounted ==
    /\ Parked(link) \subseteq link.pool
    /\ \A s \in Slot : link.arp[s].parked # None =>
          /\ link.arp[s].state = "PENDING"
          /\ link.arp[s].src = addr.ip
    /\ \A s, t \in Slot : s # t =>
          /\ link.arp[s].parked = None \/ link.arp[s].parked # link.arp[t].parked
          /\ link.arp[s].state = "FREE" \/ link.arp[t].state = "FREE"
                \/ link.arp[s].ip # link.arp[t].ip

\* No buffer is in use that no entry parks.
Lost(l) == l.pool \ Parked(l)

-----------------------------------------------------------------------------
(* The sockets.                                                            *)

udpVars == <<port, next_ephemeral>>

Ephemeral == FirstEph .. LastEph

UdpTypeOK ==
    /\ port \in [Socket -> {None, DhcpPort} \cup Ephemeral]
    /\ next_ephemeral \in Ephemeral

UdpInit ==
    /\ port = [s \in Socket |-> None]
    /\ next_ephemeral = FirstEph

\* The operators take the list as ports and the counter as from.
InUse(ports, p) == \E s \in Socket : ports[s] = p

\* The ephemeral port k further on.
After(p, k) == FirstEph + ((p - FirstEph + k) % (LastEph - FirstEph + 1))

\* How many ports in use the search skips: one number, or none when all are.
Skips(ports, from) ==
    {k \in 0 .. LastEph - FirstEph :
        /\ ~InUse(ports, After(from, k))
        /\ \A j \in 0 .. k - 1 : InUse(ports, After(from, j))}

\* xNET_UDP_Open with a port, and with port 0.  A port in use is refused, and
\* a search that finds none leaves the counter where it was.
OpenAt(s, p) ==
    /\ ~InUse(port, p)
    /\ port' = [port EXCEPT ![s] = p]
    /\ UNCHANGED next_ephemeral

OpenEphemeral(s) ==
    \E k \in Skips(port, next_ephemeral) :
        /\ port' = [port EXCEPT ![s] = After(next_ephemeral, k)]
        /\ next_ephemeral' = After(next_ephemeral, k + 1)

\* xNET_UDP_Close.
Close(s) ==
    /\ port' = [port EXCEPT ![s] = None]
    /\ UNCHANGED next_ephemeral

\* Datagrams go to one socket only.
PortsDistinct ==
    \A s, t \in Socket : s # t => port[s] = None \/ port[s] # port[t]
=============================================================================
