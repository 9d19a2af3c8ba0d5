------------------------------ MODULE XnetDhcp ------------------------------
(***************************************************************************)
(* The DHCP client of an interface (xnet_dhcp.c).  It renews over the same *)
(* sockets, cache and packet pool as everything else on the interface.     *)
(*                                                                         *)
(* A reply with another transaction id is dropped, so the network is free  *)
(* to deliver any reply, of any server and in any order.                   *)
(***************************************************************************)
EXTENDS XnetLink

CONSTANTS
    Server,                  \* hosts on the subnet that answer
    Grants,                  \* lease, t1 and t2 of their ACKs, 0 when absent, and
                             \* the gateway that their replies have named
    DefaultLease,            \* 3600 s
    DhcpRetryMs, DhcpRetries,   \* 4000 ms, 4
    Second, Word,            \* 1000 ms; 2^32
    DhcpSocket

Lease == [lease: Nat, t1: Nat, t2: Nat, gateway: {Gateway, None}]

DhcpAssumption ==
    /\ Server \subseteq Near /\ DhcpSocket \in Socket
    /\ Grants \subseteq Lease
    /\ {DefaultLease, DhcpRetryMs, DhcpRetries, Second, Word} \subseteq Nat \ {0}

VARIABLES dhcp

(***************************************************************************)
(* The handlers take and return the state they share with the layers       *)
(* below: w.d is the client's context, w.l the link and w.a the address.   *)
(* The three elapsed times of the context are set and advanced together.   *)
(* The address of an offer is what the server wants back, data no property *)
(* looks at.                                                               *)
(***************************************************************************)
Idle == [state |-> "INIT", active |-> FALSE, server |-> None,
         lease |-> 0, t1 |-> 0, t2 |-> 0, elapsed |-> 0,
         retry_elapsed |-> 0, timeout |-> 0, count |-> 0]

Asking == {"SELECTING", "REQUESTING", "RENEWING", "REBINDING"}
Holding == {"BOUND", "RENEWING", "REBINDING"}

\* The longest time without an answer before the client gives a state up.
LongestWait == DhcpRetryMs * Doubled[DhcpRetries]

Context == [state: Asking \cup Holding \cup {"INIT", "FAILED"}, active: BOOLEAN,
            server: Server \cup {None}, lease: Nat, t1: Nat, t2: Nat, elapsed: 0 .. Word - 1,
            retry_elapsed: 0 .. LongestWait, timeout: 0 .. LongestWait, count: 0 .. DhcpRetries]

DhcpTypeOK == dhcp \in Context

DhcpInit == dhcp = Idle

World == [d |-> dhcp, l |-> link, a |-> addr]

\* dhcp_send_message; its errors are ignored, and the retry comes anyway.
Send(w) ==
    [w EXCEPT !.l = UdpSend(w.l, w.a,
                            IF w.d.state = "RENEWING" THEN w.d.server ELSE Broadcast)]

Retries(d) == [d EXCEPT !.retry_elapsed = 0, !.timeout = DhcpRetryMs, !.count = 0]

\* A fresh exchange in this state, announced by its message.
Enter(w, s) == Send([w EXCEPT !.d = [Retries(@) EXCEPT !.state = s]])

\* Fault: the cache is cleared and the address stays.
DropNothing(w) == [w EXCEPT !.l = CacheInit(@)]

\* The interface loses its address; dns_primary stays.
DropAddress(w) ==
    [w EXCEPT !.l = CacheInit(@), !.a = [NoAddress EXCEPT !.dns = w.a.dns]]

\* Seconds as the 32-bit product of the code.
Ms(s) == (s * Second) % Word

-----------------------------------------------------------------------------
(* dhcp_rx_callback.                                                       *)

\* dhcp_handle_selecting_state, of an OFFER.
Offer(w) == IF w.d.state = "SELECTING" THEN Enter(w, "REQUESTING") ELSE w

\* dhcp_handle_active_state, of an ACK that grants address a.
Ack(w, a, dns, g) ==
    IF w.d.state \notin Asking \ {"SELECTING"} THEN w
    ELSE LET lease == IF g.lease # 0 THEN g.lease ELSE DefaultLease
         IN  [l |-> CacheInit(w.l),
              a |-> [ip |-> a, gateway |-> g.gateway, dns |-> dns],
              d |-> [w.d EXCEPT !.state = "BOUND", !.elapsed = 0, !.lease = lease,
                     !.t1 = IF g.t1 # 0 THEN g.t1 ELSE lease \div 2,
                     !.t2 = IF g.t2 # 0 THEN g.t2 ELSE ((lease * 7) % Word) \div 8]]

\* dhcp_handle_active_state, of a NAK.
Nak(w) ==
    IF w.d.state \notin Asking \ {"SELECTING"} THEN w
    ELSE Enter(DropAddress(w), "SELECTING")

\* The options of a reply are stored before its type is looked at: in every
\* state the server becomes the one that spoke last.  Every reply names it.
Heard(w, server) == [w EXCEPT !.d.server = server]

-----------------------------------------------------------------------------
(* xNET_DHCP_Tick.                                                         *)

\* dhcp_handle_retry_exhausted.  It leaves the retry timer at zero.
Exhausted(w) ==
    CASE w.d.state = "SELECTING"  -> [w EXCEPT !.d.state = "FAILED", !.d.active = FALSE]
      [] w.d.state = "REQUESTING" -> Enter(w, "SELECTING")
      [] w.d.state = "RENEWING"   -> Enter(w, "REBINDING")
      [] w.d.state = "REBINDING"  -> Enter(DropAddress(w), "SELECTING")

\* dhcp_tick_retries.
TickRetries(w, ms) ==
    IF w.d.state \notin Asking THEN w
    ELSE IF w.d.retry_elapsed + ms < w.d.timeout
    THEN [w EXCEPT !.d.retry_elapsed = @ + ms]
    ELSE LET due == [w EXCEPT !.d.retry_elapsed = 0]
         IN  IF w.d.count < DhcpRetries
             THEN Send([due EXCEPT !.d.count = @ + 1, !.d.timeout = @ * 2])
             ELSE Exhausted(due)

Expired(w) == w.d.elapsed >= Ms(w.d.lease)

\* dhcp_tick_lease.
TickLease(w, ms) ==
    IF w.d.state \notin Holding THEN w
    ELSE LET on == [w EXCEPT !.d.elapsed = (@ + ms) % Word]
         IN  CASE Expired(on) -> Enter(DropAddress(on), "SELECTING")
               [] ~Expired(on) /\ on.d.state = "BOUND" /\ on.d.elapsed >= Ms(on.d.t1)
                    -> Enter(on, "RENEWING")
               [] ~Expired(on) /\ on.d.state = "RENEWING" /\ on.d.elapsed >= Ms(on.d.t2)
                    -> Enter(on, "REBINDING")
               [] OTHER -> on

\* The lease is looked at after the retries, which may have left its states.
TickClient(w, ms) ==
    IF w.d.active THEN TickLease(TickRetries(w, ms), ms) ELSE w

-----------------------------------------------------------------------------
(* The actions of the client.                                              *)

Becomes(w) == dhcp' = w.d /\ link' = w.l /\ addr' = w.a

\* xNET_DHCP_Start of a client that does not run: started again while it
\* runs, it would list its socket twice.
DhcpStart ==
    /\ port[DhcpSocket] = None
    /\ LET fresh == [Idle EXCEPT !.active = TRUE, !.timeout = DhcpRetryMs]
       IN  \/ /\ OpenAt(DhcpSocket, DhcpPort)
              /\ Becomes(Enter(DropAddress([World EXCEPT !.d = fresh]), "SELECTING"))
           \/ /\ InUse(port, DhcpPort)
              /\ Becomes([World EXCEPT !.d = [fresh EXCEPT !.active = FALSE]])
              /\ UNCHANGED udpVars

DhcpStop ==
    /\ dhcp.active
    /\ dhcp' = [dhcp EXCEPT !.active = FALSE, !.state = "FAILED"]
    /\ Close(DhcpSocket)
    /\ UNCHANGED linkVars

\* A reply arrives in a buffer, which is held while the handler sends.
DhcpReply(Handle(_), server) ==
    /\ Delivered(DhcpSocket) /\ dhcp.active
    /\ LET b == FirstFree(link)
           w == Handle(Heard([World EXCEPT !.l = Take(@, b)], server))
       IN  Becomes([w EXCEPT !.l = Release(@, b)])
    /\ UNCHANGED udpVars

DhcpOffer(server) == DhcpReply(Offer, server)
DhcpNak(server) == DhcpReply(Nak, server)
DhcpAck(server, a, dns, g) ==
    DhcpReply(LAMBDA w : Ack(w, a, dns, g), server)

\* xNET_Tick: the cache first, then the client, which closes its socket when
\* it gives up.
NetTick(ms) ==
    /\ Becomes(TickClient([World EXCEPT !.l = ArpTick(@, ms)], ms))
    /\ IF dhcp.active /\ ~dhcp'.active THEN Close(DhcpSocket) ELSE UNCHANGED udpVars

-----------------------------------------------------------------------------
\* A client that runs has its socket, and only then.
ClientListening == dhcp.active <=> port[DhcpSocket] # None

ClientWaits == WaitDoubled(dhcp.retry_elapsed, dhcp.timeout, dhcp.count, DhcpRetryMs)

\* The lease the client holds, while it runs.
Leased == dhcp.active /\ dhcp.state \in Holding

Service == INSTANCE LeaseService WITH
    Address <- Own, Nobody <- None, Longest <- Word,
    held <- IF dhcp.active THEN addr.ip ELSE None,
    left <- IF Leased THEN Ms(dhcp.lease) - dhcp.elapsed ELSE 0,
    asking <- dhcp.active /\ dhcp.state \in Asking \ {"SELECTING"}
=============================================================================
