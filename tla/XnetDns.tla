------------------------------ MODULE XnetDns ------------------------------
(***************************************************************************)
(* DNS queries (xnet_dns.c): contexts that an application owns, each with  *)
(* a socket on an ephemeral port and one query at a time.  The result      *)
(* callback may start the next query of its context.                       *)
(*                                                                         *)
(* An answer for another port or transaction id is dropped.                *)
(***************************************************************************)
EXTENDS XnetLink

CONSTANTS
    Query,                     \* the query contexts; their sockets have their names
    DnsServer,                 \* what dns_primary is when it is set
    DnsRetryMs, DnsRetries     \* xNET_CONFIG_DNS_...

DnsAssumption ==
    /\ Query \subseteq Socket /\ DnsServer \in Far
    /\ {DnsRetryMs, DnsRetries} \subseteq Nat \ {0}

VARIABLES
    dns,      \* for each context: is_active and the retries
    called    \* how often its on_result was called, modulo 2

dnsVars == <<dns, called>>

NoQuery == [active |-> FALSE, elapsed |-> 0, timeout |-> 0, count |-> 0]
NewQuery == [NoQuery EXCEPT !.active = TRUE, !.timeout = DnsRetryMs]

LongestQuery == DnsRetryMs * Doubled[DnsRetries]

DnsTypeOK ==
    /\ dns \in [Query -> [active: BOOLEAN, elapsed: 0 .. LongestQuery,
                          timeout: 0 .. LongestQuery, count: 0 .. DnsRetries]]
    /\ called \in [Query -> 0 .. 1]

DnsInit ==
    /\ dns = [q \in Query |-> NoQuery]
    /\ called = [q \in Query |-> 0]

\* dns_find_server.
HasServer == addr.ip # None /\ addr.dns # None

\* The state that a handler works on: p the ports, n the ephemeral counter,
\* c the contexts, r the calls of on_result, and l the link.
Names == [p |-> port, n |-> next_ephemeral, c |-> dns, r |-> called, l |-> link]

\* dns_send_query is one datagram to the server.
Sent(u) == [u EXCEPT !.l = UdpSend(@, addr, DnsServer)]

\* xNET_DNS_Query_A, whatever it comes to: without a server it returns at once;
\* a name that cannot be encoded or a datagram that is refused closes the socket
\* again; else the query is under way.
Asked(u, q) ==
    IF ~HasServer THEN {u}
    ELSE UNION {LET v == [u EXCEPT !.n = After(u.n, k + 1)]
                    w == [Sent(v) EXCEPT !.p[q] = After(u.n, k), !.c[q] = NewQuery]
                IN  {v} \cup {IF ok THEN w ELSE Sent(v) :
                                ok \in SendResults(u.l, addr, DnsServer)} :
                k \in Skips(u.p, u.n)}

\* dns_handle_query_failed and the end of dns_rx_callback: inactive, socket
\* closed, and only then on_result, which may ask again.
Finished(u, q) ==
    LET done == [u EXCEPT !.p[q] = None, !.c[q] = NoQuery, !.r[q] = 1 - @]
    IN  {done} \cup Asked(done, q)

\* Fault: the try is not counted.
Uncounted(d) == d

\* One more try, after twice the time.
Again(d) == [d EXCEPT !.count = @ + 1, !.timeout = @ * 2]

\* xNET_DNS_Tick.
Ticked(u, q, ms) ==
    LET d == u.c[q]
    IN  IF d.elapsed + ms < d.timeout THEN {[u EXCEPT !.c[q].elapsed = @ + ms]}
        ELSE IF d.count < DnsRetries
        THEN {Sent([u EXCEPT !.c[q] = [Again(d) EXCEPT !.elapsed = 0]])}
        ELSE Finished(u, q)

BecomesNames(u) ==
    /\ port' = u.p /\ next_ephemeral' = u.n /\ dns' = u.c /\ called' = u.r
    /\ link' = u.l
    /\ UNCHANGED addr

-----------------------------------------------------------------------------
DnsQuery(q) ==
    /\ ~dns[q].active
    /\ \E u \in Asked(Names, q) : BecomesNames(u)

\* An answer or an error, in a buffer that is held while the callback runs.
DnsAnswer(q) ==
    /\ Delivered(q) /\ dns[q].active
    /\ LET b == FirstFree(link)
       IN  \E u \in Finished([Names EXCEPT !.l = Take(@, b)], q) :
              BecomesNames([u EXCEPT !.l = Release(@, b)])

DnsTick(q, ms) ==
    /\ dns[q].active
    /\ \E u \in Ticked(Names, q, ms) : BecomesNames(u)

-----------------------------------------------------------------------------
\* A context has a socket exactly while its query is under way.
QueriesListening == \A q \in Query : dns[q].active <=> port[q] # None

QueriesWait ==
    \A q \in Query : WaitDoubled(dns[q].elapsed, dns[q].timeout, dns[q].count, DnsRetryMs)

\* q waits for call n of its callback.
Waits(q, n) == dns[q].active /\ called[q] = n
=============================================================================
