----------------------------- MODULE XnetProofs -----------------------------
(***************************************************************************)
(* Proofs about xNET, for every number of buffers, cache entries, sockets  *)
(* and hosts: every buffer stays accounted for, no handler loses one but   *)
(* the DHCP client clearing the cache, the waits double within their       *)
(* limits, and the DHCP client implements a plain lease service.           *)
(*                                                                         *)
(* The handlers are operators on the link, so the proof has a lemma for    *)
(* each operator, in the order of the code's layers, and one step for each *)
(* action.                                                                 *)
(***************************************************************************)
EXTENDS XnetStack, WellFoundedInduction, TLAPS

-----------------------------------------------------------------------------
(* Numbers.                                                                *)

(***************************************************************************)
(* A set of numbers that has members has a least one, and Min is it: the   *)
(* searches of xNET for a free buffer or entry find one.                   *)
(***************************************************************************)
LEMMA MinIsLeast ==
    ASSUME NEW S \in SUBSET Nat, S # {}
    PROVE  Min(S) \in S /\ \A x \in S : Min(S) <= x
<1>1. PICK x \in S : \A y \in S : ~ (<<y, x>> \in OpToRel(<, Nat))
  BY NatLessThanWellFounded, WFMin
<1>2. ASSUME NEW y \in S PROVE x <= y
  <2>1. <<y, x>> \in Nat \X Nat /\ ~ (<<y, x>> \in OpToRel(<, Nat))
    BY <1>1
  <2>2. ~ (y < x)
    BY <2>1 DEF OpToRel
  <2> QED BY <2>2
<1> QED BY <1>2 DEF Min

(***************************************************************************)
(* Powers of two up to the n-th: what Doubled is on 0 .. n.                *)
(***************************************************************************)
Ladder(n, f) ==
    /\ f \in [0 .. n -> Nat] /\ f[0] = 1
    /\ \A i \in 1 .. n : f[i] = 2 * f[i - 1]

LEMMA LadderExists ==
    ASSUME NEW n \in Nat
    PROVE  \E f : Ladder(n, f)
<1> SUFFICES ASSUME ~ \E f : Ladder(n, f)
             PROVE  FALSE
  OBVIOUS
<1>1. PICK S : S = {k \in Nat : ~ \E f : Ladder(k, f)}
  OBVIOUS
<1>2. S \in SUBSET Nat /\ S # {}
  BY <1>1
<1>3. PICK m \in S : \A x \in S : m <= x
  BY <1>2, MinIsLeast
<1>4. m \in Nat /\ ~ \E f : Ladder(m, f)
  BY <1>1, <1>3
<1>5. m # 0
  <2>1. Ladder(0, [i \in 0 .. 0 |-> 1])
    BY DEF Ladder
  <2> QED BY <2>1, <1>4
<1>6. m - 1 \in Nat /\ m - 1 \notin S
  BY <1>3, <1>4, <1>5
<1>7. PICK f : Ladder(m - 1, f)
  BY <1>1, <1>6
<1>8. Ladder(m, [i \in 0 .. m |-> IF i = m THEN 2 * f[m - 1] ELSE f[i]])
  BY <1>4, <1>5, <1>7 DEF Ladder
<1> QED BY <1>4, <1>8

LEMMA LaddersAgree ==
    ASSUME NEW n \in Nat, NEW m \in Nat, NEW f, NEW g, Ladder(n, f), Ladder(m, g),
           NEW i \in 0 .. n, i <= m
    PROVE  f[i] = g[i]
<1> SUFFICES ASSUME f[i] # g[i]
             PROVE  FALSE
  OBVIOUS
<1>1. PICK S : S = {k \in 0 .. n : k <= m /\ f[k] # g[k]}
  OBVIOUS
<1>2. S \in SUBSET Nat /\ S # {}
  BY <1>1
<1>3. PICK k \in S : \A x \in S : k <= x
  BY <1>2, MinIsLeast
<1>4. k # 0
  BY <1>1, <1>3 DEF Ladder
<1>5. k - 1 \in 0 .. n /\ k - 1 <= m /\ k - 1 \notin S
  BY <1>1, <1>3, <1>4
<1>6. f[k - 1] = g[k - 1]
  BY <1>1, <1>5
<1>7. f[k] = 2 * f[k - 1] /\ g[k] = 2 * g[k - 1]
  BY <1>1, <1>3, <1>4 DEF Ladder
<1> QED BY <1>1, <1>3, <1>6, <1>7

(***************************************************************************)
(* The wait is doubled with each try: the recursion has a solution, and    *)
(* the limit is the wait of the last try.                                  *)
(***************************************************************************)
LEMMA DoubledValues ==
    /\ Doubled \in [Nat -> Nat] /\ Doubled[0] = 1
    /\ \A n \in Nat : Doubled[n + 1] = 2 * Doubled[n]
<1> DEFINE G(n) == CHOOSE f : Ladder(n, f)
           F == [n \in Nat |-> G(n)[n]]
           R(f) == [n \in Nat |-> IF n = 0 THEN 1 ELSE 2 * f[n - 1]]
<1>1. \A n \in Nat : Ladder(n, G(n))
  BY LadderExists
<1>2. F[0] = 1
  BY <1>1 DEF Ladder
<1>3. ASSUME NEW n \in Nat, n # 0
      PROVE  F[n] = 2 * F[n - 1]
  <2>1. n - 1 \in Nat /\ n - 1 \in 0 .. n - 1 /\ n - 1 <= n
    BY <1>3
  <2>2. Ladder(n, G(n)) /\ Ladder(n - 1, G(n - 1))
    BY <1>1, <2>1
  <2>3. G(n - 1)[n - 1] = G(n)[n - 1]
    <3> HIDE DEF G
    <3> QED BY <2>1, <2>2, LaddersAgree
  <2>4. G(n)[n] = 2 * G(n)[n - 1]
    <3>1. n \in 1 .. n
      BY <1>3
    <3> HIDE DEF G
    <3> QED BY <3>1, <2>2 DEF Ladder
  <2> HIDE DEF G
  <2> QED BY <2>1, <2>3, <2>4
<1>4. \A n \in Nat : F[n] \in Nat
  <2> SUFFICES ASSUME NEW n \in Nat PROVE G(n)[n] \in Nat
    OBVIOUS
  <2>1. Ladder(n, G(n))
    BY <1>1
  <2> HIDE DEF G
  <2> QED BY <2>1 DEF Ladder
<1> HIDE DEF G
<1>5. F = R(F)
  <2> HIDE DEF F
  <2>1. F = [n \in Nat |-> F[n]]
    BY DEF F
  <2>2. \A n \in Nat : F[n] = IF n = 0 THEN 1 ELSE 2 * F[n - 1]
    BY <1>2, <1>3
  <2> QED BY <2>1, <2>2
<1> HIDE DEF F
<1>6. Doubled = R(Doubled)
  BY <1>5 DEF Doubled
<1>7. \A n \in Nat : Doubled[n] = IF n = 0 THEN 1 ELSE 2 * Doubled[n - 1]
  BY <1>6
<1>8. ASSUME NEW n \in Nat, Doubled[n] \notin Nat
      PROVE  FALSE
  <2>1. PICK S : S = {k \in Nat : Doubled[k] \notin Nat}
    OBVIOUS
  <2>2. S \in SUBSET Nat /\ S # {}
    BY <1>8, <2>1
  <2>3. PICK k \in S : \A x \in S : k <= x
    BY <2>2, MinIsLeast
  <2>4. k \in Nat /\ Doubled[k] \notin Nat
    BY <2>1, <2>3
  <2>5. k # 0 /\ Doubled[k] = 2 * Doubled[k - 1]
    BY <1>7, <2>4
  <2>6. k - 1 \in Nat /\ k - 1 \notin S
    BY <2>3, <2>4, <2>5
  <2> QED BY <2>1, <2>4, <2>5, <2>6
<1>9. \A n \in Nat : Doubled[n + 1] = 2 * Doubled[n]
  BY <1>7
<1>10. Doubled = [n \in Nat |-> Doubled[n]]
  BY <1>6
<1>11. Doubled \in [Nat -> Nat]
  BY <1>8, <1>10
<1> QED BY <1>7, <1>9, <1>11

LEMMA DoubledGrows ==
    ASSUME NEW n \in Nat, NEW m \in Nat, m <= n
    PROVE  Doubled[m] <= Doubled[n]
<1> SUFFICES ASSUME ~ (Doubled[m] <= Doubled[n])
             PROVE  FALSE
  OBVIOUS
<1>1. PICK S : S = {k \in Nat : m <= k /\ ~ (Doubled[m] <= Doubled[k])}
  OBVIOUS
<1>2. S \in SUBSET Nat /\ S # {}
  BY <1>1
<1>3. PICK k \in S : \A x \in S : k <= x
  BY <1>2, MinIsLeast
<1>4. k \in Nat /\ m <= k /\ ~ (Doubled[m] <= Doubled[k])
  BY <1>1, <1>3
<1>5. m # k
  BY <1>4, DoubledValues
<1>6. k - 1 \in Nat /\ m <= k - 1 /\ k - 1 \notin S
  BY <1>3, <1>4, <1>5
<1>7. Doubled[m] <= Doubled[k - 1]
  BY <1>1, <1>6
<1>8. Doubled[(k - 1) + 1] = 2 * Doubled[k - 1]
  BY <1>6, DoubledValues
<1>9. (k - 1) + 1 = k
  BY <1>4
<1>10. Doubled[k - 1] \in Nat /\ Doubled[m] \in Nat
  BY <1>6, DoubledValues
<1> QED BY <1>4, <1>7, <1>8, <1>9, <1>10

-----------------------------------------------------------------------------
(* The pool and the cache.                                                 *)

Links == [pool: SUBSET Buf, arp: [Slot -> Entry]]

\* PacketsAccounted, of any link of an interface with this address.
PoolSound(l, ip) ==
    /\ l \in Links
    /\ \A s \in Slot : l.arp[s].parked # None =>
          /\ l.arp[s].parked \in l.pool
          /\ l.arp[s].state = "PENDING"
          /\ l.arp[s].src = ip
    /\ \A s, t \in Slot : s # t =>
          /\ l.arp[s].parked = None \/ l.arp[s].parked # l.arp[t].parked
          /\ l.arp[s].state = "FREE" \/ l.arp[t].state = "FREE"
                \/ l.arp[s].ip # l.arp[t].ip

(***************************************************************************)
(* The entry chosen for a host exists, and it is the host's own entry when *)
(* there is one (arp_cache_allocate_entry).                                *)
(***************************************************************************)
LEMMA VictimIsSlot ==
    ASSUME NEW l \in Links
    PROVE  Victim(l) \in Slot
<1>0. Slot \subseteq Nat /\ Slot # {}
  BY StackAssumption DEF LinkAssumption
<1>1. CASE \E s \in Slot : l.arp[s].state = "FREE"
  <2>1. {s \in Slot : l.arp[s].state = "FREE"} \in SUBSET Nat
        /\ {s \in Slot : l.arp[s].state = "FREE"} # {}
    BY <1>0, <1>1
  <2> QED BY <1>1, <2>1, MinIsLeast DEF Victim
<1>2. CASE ~ \E s \in Slot : l.arp[s].state = "FREE"
  <2>1. PICK S : S = IF Resolved(l) # {} THEN Resolved(l) ELSE Pending(l)
    OBVIOUS
  <2>2. S \subseteq Slot /\ S # {}
    BY <1>0, <1>2, <2>1 DEF Resolved, Pending, Links, Entry
  <2>3. PICK L : L = {l.arp[s].left : s \in S}
    OBVIOUS
  <2>4. L \in SUBSET Nat /\ L # {}
    <3>1. \A s \in S : l.arp[s] \in Entry
      BY <2>2 DEF Links
    <3>2. \A e \in Entry : e.left \in Nat
      BY StackAssumption DEF Entry, LinkAssumption
    <3> QED BY <2>2, <2>3, <3>1, <3>2
  <2>5. PICK T : T = {s \in S : l.arp[s].left = Min(L)}
    OBVIOUS
  <2>6. T \in SUBSET Nat /\ T # {} /\ T \subseteq Slot
    BY <1>0, <2>2, <2>3, <2>4, <2>5, MinIsLeast
  <2>7. Victim(l) = Min(T)
    BY <1>2, <2>1, <2>3, <2>5 DEF Victim, Oldest
  <2> QED BY <2>6, <2>7, MinIsLeast
<1> QED BY <1>1, <1>2

LEMMA SlotForHost ==
    ASSUME NEW l \in Links, NEW host
    PROVE  /\ SlotFor(l, host) \in Slot
           /\ For(l, host) # {} => SlotFor(l, host) \in For(l, host)
<1>1. CASE For(l, host) # {}
  <2>1. For(l, host) \in SUBSET Nat /\ For(l, host) \subseteq Slot
    BY StackAssumption DEF For, LinkAssumption
  <2> QED BY <1>1, <2>1, MinIsLeast DEF SlotFor
<1>2. CASE For(l, host) = {}
  BY <1>2, VictimIsSlot DEF SlotFor
<1> QED BY <1>1, <1>2

(***************************************************************************)
(* A new entry in slot s: what it parks is lost no more, and nothing else  *)
(* becomes lost, for the packet it displaces is released.                  *)
(***************************************************************************)
LEMMA ReplaceSound ==
    ASSUME NEW l, NEW ip, PoolSound(l, ip), NEW s \in Slot, NEW e \in Entry,
           e.parked # None => e.parked \in Lost(l) /\ e.state = "PENDING" /\ e.src = ip,
           e.state = "FREE" \/ \A t \in Slot \ {s} : l.arp[t].state = "FREE" \/ l.arp[t].ip # e.ip
    PROVE  /\ PoolSound(Replace(l, s, e), ip)
           /\ Lost(Replace(l, s, e)) = Lost(l) \ {e.parked}
<1> DEFINE r == Replace(l, s, e)
<1>1. /\ r.pool = l.pool \ {l.arp[s].parked}
      /\ r.arp = [l.arp EXCEPT ![s] = e]
      /\ r = [pool |-> r.pool, arp |-> r.arp]
  BY DEF Replace
<1>2. l.pool \subseteq Buf /\ l.arp \in [Slot -> Entry]
  BY DEF PoolSound, Links
<1>3. r.arp[s] = e /\ \A t \in Slot \ {s} : r.arp[t] = l.arp[t]
  BY <1>1, <1>2
<1>4. r \in Links
  BY <1>1, <1>2 DEF Links
<1>5. None \notin Buf
  BY StackAssumption DEF LinkAssumption
<1>6. \A t \in Slot \ {s} : l.arp[t].parked # None => l.arp[t].parked # e.parked
  <2> SUFFICES ASSUME NEW t \in Slot \ {s}, l.arp[t].parked # None, l.arp[t].parked = e.parked
               PROVE  FALSE
    OBVIOUS
  <2>1. e.parked \in Lost(l)
    OBVIOUS
  <2> QED BY <2>1 DEF Lost, Parked
<1>7. e.parked # None => e.parked \in l.pool /\ e.parked # l.arp[s].parked
  BY DEF Lost, Parked
<1> HIDE DEF r
<1>8. PoolSound(r, ip)
  <2>1. ASSUME NEW t \in Slot, r.arp[t].parked # None
        PROVE  r.arp[t].parked \in r.pool /\ r.arp[t].state = "PENDING" /\ r.arp[t].src = ip
    <3>1. CASE t = s
      BY <1>1, <1>3, <1>7, <2>1, <3>1
    <3>2. CASE t # s
      BY <1>1, <1>3, <2>1, <3>2 DEF PoolSound
    <3> QED BY <3>1, <3>2
  <2>2. ASSUME NEW t \in Slot, NEW u \in Slot, t # u
        PROVE  /\ r.arp[t].parked = None \/ r.arp[t].parked # r.arp[u].parked
               /\ r.arp[t].state = "FREE" \/ r.arp[u].state = "FREE" \/ r.arp[t].ip # r.arp[u].ip
    <3>1. CASE t = s
      BY <1>3, <1>6, <2>2, <3>1
    <3>2. CASE u = s
      BY <1>3, <1>6, <2>2, <3>2
    <3>3. CASE t # s /\ u # s
      BY <1>3, <2>2, <3>3 DEF PoolSound
    <3> QED BY <3>1, <3>2, <3>3
  <2> QED BY <1>4, <2>1, <2>2 DEF PoolSound
<1>9. Lost(r) = Lost(l) \ {e.parked}
  <2>1. ASSUME NEW b \in Lost(r)
        PROVE  b \in Lost(l) \ {e.parked}
    <3>1. b \in l.pool /\ b # l.arp[s].parked /\ b # None
      BY <1>1, <1>2, <1>5, <2>1 DEF Lost
    <3>2. b # e.parked /\ \A t \in Slot \ {s} : b # l.arp[t].parked
      BY <1>3, <2>1, <3>1 DEF Lost, Parked
    <3> QED BY <3>1, <3>2 DEF Lost, Parked
  <2>2. ASSUME NEW b \in Lost(l) \ {e.parked}
        PROVE  b \in Lost(r)
    <3>1. b \in l.pool /\ b # None /\ \A t \in Slot : b # l.arp[t].parked
      BY <1>2, <1>5, <2>2 DEF Lost, Parked
    <3>2. b \in r.pool /\ \A t \in Slot : b # r.arp[t].parked
      BY <1>1, <1>3, <2>2, <3>1
    <3> QED BY <3>1, <3>2 DEF Lost, Parked
  <2> QED BY <2>1, <2>2
<1> QED BY <1>8, <1>9 DEF r

(***************************************************************************)
(* Taking the first free buffer and releasing one that is not parked.      *)
(***************************************************************************)
LEMMA TakeSound ==
    ASSUME NEW l, NEW ip, PoolSound(l, ip), ~ Full(l)
    PROVE  /\ FirstFree(l) \in Buf /\ FirstFree(l) \notin Lost(l)
           /\ PoolSound(Take(l, FirstFree(l)), ip)
           /\ Lost(Take(l, FirstFree(l))) = Lost(l) \cup {FirstFree(l)}
<1>1. Buf \subseteq Nat /\ None \notin Buf /\ l.pool \subseteq Buf
  BY StackAssumption DEF LinkAssumption, PoolSound, Links
<1>2. PICK b : b = FirstFree(l)
  OBVIOUS
<1>3. Buf \ l.pool \in SUBSET Nat /\ Buf \ l.pool # {}
  BY <1>1 DEF Full
<1>4. b \in Buf \ l.pool
  BY <1>2, <1>3, MinIsLeast DEF FirstFree
<1>5. /\ Take(l, b) = [pool |-> l.pool \cup {b}, arp |-> l.arp]
      /\ Take(l, b).pool = l.pool \cup {b} /\ Take(l, b).arp = l.arp
  BY DEF Take, PoolSound, Links
<1>6. PoolSound(Take(l, b), ip)
  <2>1. Take(l, b) \in Links
    BY <1>1, <1>4, <1>5 DEF Links, PoolSound
  <2> QED BY <1>5, <2>1 DEF PoolSound
<1>7. Lost(Take(l, b)) = Lost(l) \cup {b}
  <2>1. Parked(Take(l, b)) = Parked(l)
    BY <1>5 DEF Parked
  <2>2. b \notin Parked(l)
    BY <1>4 DEF Parked, PoolSound
  <2> QED BY <1>5, <2>1, <2>2 DEF Lost
<1> QED BY <1>2, <1>4, <1>6, <1>7 DEF Lost

LEMMA ReleaseSound ==
    ASSUME NEW l, NEW ip, PoolSound(l, ip), NEW b \in Lost(l)
    PROVE  /\ PoolSound(Release(l, b), ip)
           /\ Lost(Release(l, b)) = Lost(l) \ {b}
           /\ Release(l, b).arp = l.arp
<1>1. /\ Release(l, b) = [pool |-> l.pool \ {b}, arp |-> l.arp]
      /\ Release(l, b).pool = l.pool \ {b} /\ Release(l, b).arp = l.arp
  <2>1. l \in [pool: SUBSET Buf, arp: [Slot -> Entry]]
    BY DEF PoolSound, Links
  <2> QED BY <2>1 DEF Release
<1>2. Parked(Release(l, b)) = Parked(l)
  BY <1>1 DEF Parked
<1>3. \A s \in Slot : l.arp[s].parked # None => l.arp[s].parked # b
  BY DEF Lost, Parked
<1>4. Release(l, b) \in Links
  BY <1>1 DEF Links, PoolSound
<1>5. PoolSound(Release(l, b), ip)
  BY <1>1, <1>3, <1>4 DEF PoolSound
<1> QED BY <1>1, <1>2, <1>5 DEF Lost

(***************************************************************************)
(* xNET_ARP_Resolve uses up the buffer it is given: sent, or parked in the *)
(* one entry of the host.  A broadcast leaves the cache alone.             *)
(***************************************************************************)
LEMMA ResolveSound ==
    ASSUME NEW l, NEW ip \in Own \cup {None}, PoolSound(l, ip),
           NEW host \in Host \cup {None, Broadcast}, NEW b \in Lost(l)
    PROVE  /\ PoolSound(Resolve(l, host, b, ip), ip)
           /\ Lost(Resolve(l, host, b, ip)) = Lost(l) \ {b}
           /\ host = Broadcast => Resolve(l, host, b, ip).arp = l.arp
<1>1. CASE host = Broadcast \/ \E s \in For(l, host) : l.arp[s].state = "RESOLVED"
  BY <1>1, ReleaseSound DEF Resolve, Transmit
<1>2. CASE ~ (host = Broadcast \/ \E s \in For(l, host) : l.arp[s].state = "RESOLVED")
  <2>1. PICK s : s = SlotFor(l, host)
    OBVIOUS
  <2>2. PICK e : e = [(IF For(l, host) # {} THEN l.arp[s]
                       ELSE [Free EXCEPT !.state = "PENDING", !.ip = host, !.left = RetryMs,
                                         !.retries = MaxRetries])
                      EXCEPT !.parked = b, !.src = ip]
    OBVIOUS
  <2>3. Resolve(l, host, b, ip) = Replace(l, s, e)
    BY <1>2, <2>1, <2>2 DEF Resolve
  <2>4. /\ l \in Links /\ b \in Buf /\ None \notin Buf /\ host \in Host \cup {None}
        /\ RetryMs \in Nat /\ EntryMs \in Nat /\ MaxRetries \in Nat
    BY <1>2, StackAssumption DEF PoolSound, Links, Lost, LinkAssumption
  <2>5. s \in Slot /\ (For(l, host) # {} => s \in For(l, host))
    BY <2>1, <2>4, SlotForHost
  <2>6. l.arp[s] \in Entry
    BY <2>4, <2>5 DEF Links
  <2>7. e \in Entry /\ e.parked = b /\ e.state = "PENDING" /\ e.src = ip /\ e.ip = host
    <3>1. CASE For(l, host) # {}
      <4>1. s \in For(l, host) /\ l.arp[s].state = "PENDING" /\ l.arp[s].ip = host
        BY <1>2, <2>5, <2>6, <3>1 DEF For, Entry
      <4>2. e = [l.arp[s] EXCEPT !.parked = b, !.src = ip]
        BY <2>2, <3>1
      <4> QED BY <2>4, <2>6, <4>1, <4>2 DEF Entry
    <3>2. CASE For(l, host) = {}
      <4>1. e = [state |-> "PENDING", ip |-> host, left |-> RetryMs, retries |-> MaxRetries,
                 resend |-> FALSE, parked |-> b, src |-> ip]
        BY <2>2, <3>2 DEF Free
      <4>2. RetryMs \in 0 .. RetryMs + EntryMs /\ MaxRetries \in 0 .. MaxRetries
        BY <2>4
      <4> QED BY <2>4, <4>1, <4>2 DEF Entry
    <3> QED BY <3>1, <3>2
  <2>8. \A t \in Slot \ {s} : l.arp[t].state = "FREE" \/ l.arp[t].ip # e.ip
    BY <2>5, <2>7 DEF For, PoolSound
  <2>9. /\ PoolSound(Replace(l, s, e), ip)
        /\ Lost(Replace(l, s, e)) = Lost(l) \ {e.parked}
    BY <2>5, <2>7, <2>8, ReplaceSound
  <2> QED BY <1>2, <2>3, <2>7, <2>9
<1> QED BY <1>1, <1>2

(***************************************************************************)
(* xNET_UDP_Send_To: the datagram's buffer is sent or parked, and nothing  *)
(* is lost, whatever the cache evicts for it.                              *)
(***************************************************************************)
Addresses == [ip: Own \cup {None}, gateway: {Gateway, None}, dns: Far \cup {None}]

LEMMA HopIsHost ==
    ASSUME NEW a \in Addresses, NEW dest \in Host \cup {None, Broadcast}
    PROVE  Hop(a, dest) \in Host \cup {None, Broadcast} /\ (dest = Broadcast => Hop(a, dest) = Broadcast)
BY StackAssumption DEF Addresses, Hop, LinkAssumption, Host

LEMMA UdpSendSound ==
    ASSUME NEW l, NEW a \in Addresses, PoolSound(l, a.ip),
           NEW dest \in Host \cup {None, Broadcast}
    PROVE  /\ PoolSound(UdpSend(l, a, dest), a.ip)
           /\ Lost(UdpSend(l, a, dest)) = Lost(l)
           /\ dest = Broadcast => UdpSend(l, a, dest).arp = l.arp
<1>1. CASE Full(l)
  BY <1>1 DEF UdpSend
<1>2. CASE ~ Full(l)
  <2>1. PICK b : b = FirstFree(l)
    OBVIOUS
  <2>2. PICK k : k = Take(l, b)
    OBVIOUS
  <2>3. PoolSound(k, a.ip) /\ Lost(k) = Lost(l) \cup {b} /\ b \notin Lost(l)
    BY <1>2, <2>1, <2>2, TakeSound
  <2>4. k.arp = l.arp
    BY <2>2 DEF Take, PoolSound, Links
  <2>5. UdpSend(l, a, dest) = Resolve(k, Hop(a, dest), b, a.ip)
    BY <1>2, <2>1, <2>2 DEF UdpSend, Ipv4Tx
  <2>6. a.ip \in Own \cup {None}
    BY DEF Addresses
  <2>7. /\ PoolSound(Resolve(k, Hop(a, dest), b, a.ip), a.ip)
        /\ Lost(Resolve(k, Hop(a, dest), b, a.ip)) = Lost(k) \ {b}
        /\ Hop(a, dest) = Broadcast => Resolve(k, Hop(a, dest), b, a.ip).arp = k.arp
    BY <2>3, <2>6, HopIsHost, ResolveSound
  <2> QED BY <2>3, <2>4, <2>5, <2>7, HopIsHost
<1> QED BY <1>1, <1>2

(***************************************************************************)
(* A host becomes known (arp_cache_update): its entry gives up the packet  *)
(* it parked, and so does an entry evicted for it.                         *)
(***************************************************************************)
LEMMA LearnSound ==
    ASSUME NEW l, NEW ip, PoolSound(l, ip), NEW host \in Host
    PROVE  PoolSound(Learn(l, host), ip) /\ Lost(Learn(l, host)) = Lost(l)
<1>1. PICK s : s = SlotFor(l, host)
  OBVIOUS
<1>2. PICK e : e = [Free EXCEPT !.state = "RESOLVED", !.ip = host, !.left = EntryMs]
  OBVIOUS
<1>3. Learn(l, host) = Replace(l, s, e)
  BY <1>1, <1>2 DEF Learn
<1>0. e = [state |-> "RESOLVED", ip |-> host, left |-> EntryMs, retries |-> 0,
           resend |-> FALSE, parked |-> None, src |-> None]
  BY <1>2 DEF Free
<1>4. l \in Links /\ None \notin Buf /\ EntryMs \in 0 .. RetryMs + EntryMs /\ 0 \in 0 .. MaxRetries
  BY StackAssumption DEF PoolSound, Links, LinkAssumption
<1>5. s \in Slot /\ (For(l, host) # {} => s \in For(l, host))
  BY <1>1, <1>4, SlotForHost
<1>6. e \in Entry
  BY <1>0, <1>4 DEF Entry
<1>7. \A t \in Slot \ {s} : l.arp[t].state = "FREE" \/ l.arp[t].ip # e.ip
  BY <1>0, <1>5 DEF For, PoolSound
<1>8. e.parked = None /\ None \notin Lost(l)
  BY <1>0, <1>4 DEF Lost, PoolSound, Links
<1>9. PoolSound(Replace(l, s, e), ip) /\ Lost(Replace(l, s, e)) = Lost(l) \ {e.parked}
  BY <1>5, <1>6, <1>7, <1>8, ReplaceSound
<1> QED BY <1>3, <1>8, <1>9

(***************************************************************************)
(* xNET_ARP_Cache_Init leaves a sound link for any address.                *)
(***************************************************************************)
LEMMA FreeIsEntry ==
    Free \in Entry /\ Free.state = "FREE" /\ Free.parked = None /\ EmptyCache \in [Slot -> Entry]
<1>1. Free \in Entry
  <2>1. 0 \in 0 .. RetryMs + EntryMs /\ 0 \in 0 .. MaxRetries
    BY StackAssumption DEF LinkAssumption
  <2> QED BY <2>1 DEF Free, Entry
<1> QED BY <1>1 DEF Free, EmptyCache

LEMMA EmptyIsSound ==
    ASSUME NEW l \in Links, NEW ip, l.arp = EmptyCache
    PROVE  PoolSound(l, ip) /\ Parked(l) = {}
<1>1. \A s \in Slot : l.arp[s].state = "FREE" /\ l.arp[s].parked = None
  BY FreeIsEntry DEF EmptyCache
<1> QED BY <1>1 DEF PoolSound, Parked

LEMMA CacheInitSound ==
    ASSUME NEW l \in Links, NEW ip
    PROVE  /\ PoolSound(CacheInit(l), ip) /\ CacheInit(l).arp = EmptyCache
           /\ CacheInit(l).pool = l.pool
<1>1. CacheInit(l) \in Links /\ CacheInit(l).arp = EmptyCache /\ CacheInit(l).pool = l.pool
  BY FreeIsEntry DEF CacheInit, Links
<1> QED BY <1>1, EmptyIsSound

(***************************************************************************)
(* xNET_ARP_Tick releases what the entries that end had parked, and no     *)
(* other packet moves.                                                     *)
(***************************************************************************)
LEMMA AgedEntry ==
    ASSUME NEW e \in Entry, NEW ms \in Nat, e.parked # None => e.state = "PENDING"
    PROVE  /\ Aged(e, ms) \in Entry
           /\ Aged(e, ms).state = "FREE" => Aged(e, ms).parked = None
           /\ Aged(e, ms).state # "FREE" =>
                 /\ Aged(e, ms).state = e.state /\ Aged(e, ms).ip = e.ip
                 /\ Aged(e, ms).parked = e.parked /\ Aged(e, ms).src = e.src
<1>0. RetryMs \in Nat /\ EntryMs \in Nat /\ MaxRetries \in Nat
  BY StackAssumption DEF LinkAssumption
<1>1. CASE e.left > ms
  <2>1. Aged(e, ms) = [e EXCEPT !.left = @ - ms]
    BY <1>1 DEF Aged
  <2>2. e.left - ms \in 0 .. RetryMs + EntryMs
    BY <1>0, <1>1 DEF Entry
  <2>3. Aged(e, ms) \in Entry
    BY <2>1, <2>2 DEF Entry
  <2> QED BY <2>1, <2>3 DEF Entry
<1>2. CASE ~ (e.left > ms) /\ e.state = "PENDING" /\ e.retries > 0
  <2>1. Aged(e, ms) = [e EXCEPT !.retries = @ - 1, !.left = RetryMs, !.resend = TRUE]
    BY <1>2 DEF Aged, OneRetryLess
  <2>2. RetryMs \in 0 .. RetryMs + EntryMs /\ e.retries - 1 \in 0 .. MaxRetries
    BY <1>0, <1>2 DEF Entry
  <2>3. Aged(e, ms) \in Entry
    BY <2>1, <2>2 DEF Entry
  <2> QED BY <2>1, <2>3 DEF Entry
<1>3. CASE ~ (e.left > ms) /\ e.state = "PENDING" /\ ~ (e.retries > 0)
  <2>1. Aged(e, ms) = Free
    BY <1>3 DEF Aged
  <2> QED BY <2>1, FreeIsEntry
<1>4. CASE ~ (e.left > ms) /\ e.state # "PENDING"
  <2>1. Aged(e, ms) = [Free EXCEPT !.parked = e.parked, !.src = e.src]
    BY <1>4 DEF Aged
  <2>2. e.parked = None /\ e.src \in Own \cup {None}
    BY <1>4 DEF Entry
  <2>3. Aged(e, ms) \in Entry /\ Aged(e, ms).state = "FREE" /\ Aged(e, ms).parked = None
    BY <2>1, <2>2, FreeIsEntry DEF Entry
  <2> QED BY <2>3
<1> QED BY <1>1, <1>2, <1>3, <1>4

LEMMA ArpTickSound ==
    ASSUME NEW l, NEW ip, PoolSound(l, ip), NEW ms \in Nat
    PROVE  PoolSound(ArpTick(l, ms), ip) /\ Lost(ArpTick(l, ms)) = Lost(l)
<1>1. PICK aged : aged = [s \in Slot |-> Aged(l.arp[s], ms)]
  OBVIOUS
<1>2. PICK gone : gone = {s \in Pending(l) : aged[s].state = "FREE"}
  OBVIOUS
<1>3. PICK r : r = [pool |-> l.pool \ {l.arp[s].parked : s \in gone}, arp |-> aged]
  OBVIOUS
<1>4. ArpTick(l, ms) = r
  BY <1>1, <1>2, <1>3 DEF ArpTick
<1>5. \A s \in Slot : l.arp[s] \in Entry
  BY DEF PoolSound, Links
<1>6. \A s \in Slot :
        /\ aged[s] \in Entry
        /\ aged[s].state = "FREE" => aged[s].parked = None
        /\ aged[s].state # "FREE" =>
              /\ aged[s].state = l.arp[s].state /\ aged[s].ip = l.arp[s].ip
              /\ aged[s].parked = l.arp[s].parked /\ aged[s].src = l.arp[s].src
  <2> SUFFICES ASSUME NEW s \in Slot
               PROVE  /\ aged[s] \in Entry
                      /\ aged[s].state = "FREE" => aged[s].parked = None
                      /\ aged[s].state # "FREE" =>
                            /\ aged[s].state = l.arp[s].state /\ aged[s].ip = l.arp[s].ip
                            /\ aged[s].parked = l.arp[s].parked /\ aged[s].src = l.arp[s].src
    OBVIOUS
  <2>1. aged[s] = Aged(l.arp[s], ms)
    BY <1>1
  <2>2. l.arp[s].parked # None => l.arp[s].state = "PENDING"
    BY DEF PoolSound
  <2> QED BY <1>5, <2>1, <2>2, AgedEntry
<1>7. r \in Links
  <2>1. aged \in [Slot -> Entry]
    BY <1>1, <1>6
  <2> QED BY <1>3, <2>1 DEF PoolSound, Links
<1>8. \A s \in Slot : aged[s].parked # None =>
        /\ aged[s].parked = l.arp[s].parked /\ aged[s].state = "PENDING" /\ aged[s].src = ip
        /\ aged[s].parked \in r.pool
  <2> SUFFICES ASSUME NEW s \in Slot, aged[s].parked # None
               PROVE  /\ aged[s].parked = l.arp[s].parked /\ aged[s].state = "PENDING"
                      /\ aged[s].src = ip /\ aged[s].parked \in r.pool
    OBVIOUS
  <2>1. /\ aged[s].state # "FREE" /\ aged[s].parked = l.arp[s].parked /\ aged[s].state = l.arp[s].state
        /\ aged[s].src = l.arp[s].src
    BY <1>6
  <2>2. l.arp[s].parked \in l.pool /\ l.arp[s].state = "PENDING" /\ l.arp[s].src = ip
    BY <2>1 DEF PoolSound
  <2>3. \A t \in gone : l.arp[t].parked # l.arp[s].parked
    <3> SUFFICES ASSUME NEW t \in gone, l.arp[t].parked = l.arp[s].parked
                 PROVE  FALSE
      OBVIOUS
    <3>1. t \in Slot /\ t # s
      BY <1>2, <2>1 DEF Pending
    <3> QED BY <2>1, <3>1 DEF PoolSound
  <2> QED BY <1>3, <2>1, <2>2, <2>3
<1>9. PoolSound(r, ip)
  <2>1. r.arp = aged
    BY <1>3
  <2>2. ASSUME NEW s \in Slot, NEW t \in Slot, s # t
        PROVE  /\ aged[s].parked = None \/ aged[s].parked # aged[t].parked
               /\ aged[s].state = "FREE" \/ aged[t].state = "FREE" \/ aged[s].ip # aged[t].ip
    BY <1>6, <1>8, <2>2 DEF PoolSound
  <2> QED BY <1>7, <1>8, <2>1, <2>2 DEF PoolSound
<1>10. Lost(r) = Lost(l)
  <2>0. None \notin l.pool
    BY StackAssumption DEF LinkAssumption, PoolSound, Links
  <2>1. ASSUME NEW b \in Lost(l)
        PROVE  b \in Lost(r)
    <3>1. b \in l.pool /\ b # None /\ \A s \in Slot : l.arp[s].parked # b
      BY <2>0, <2>1 DEF Lost, Parked
    <3>2. b \in r.pool
      BY <1>2, <1>3, <3>1 DEF Pending
    <3>3. \A s \in Slot : aged[s].parked # b
      BY <1>8, <3>1
    <3> QED BY <1>3, <3>2, <3>3 DEF Lost, Parked
  <2>2. ASSUME NEW b \in Lost(r)
        PROVE  b \in Lost(l)
    <3>1. b \in l.pool /\ b # None /\ \A s \in gone : l.arp[s].parked # b
      BY <1>3, <2>0, <2>2 DEF Lost
    <3>2. \A s \in Slot : aged[s].parked # b
      BY <1>3, <2>2, <3>1 DEF Lost, Parked
    <3>3. ASSUME NEW s \in Slot, l.arp[s].parked = b
          PROVE  FALSE
      <4>1. l.arp[s].state = "PENDING"
        BY <3>1, <3>3 DEF PoolSound
      <4>2. aged[s].state # "FREE"
        BY <1>2, <3>1, <3>3, <4>1 DEF Pending
      <4> QED BY <1>6, <3>2, <3>3, <4>2
    <3> QED BY <3>1, <3>3 DEF Lost, Parked
  <2> QED BY <2>1, <2>2
<1> QED BY <1>4, <1>9, <1>10

-----------------------------------------------------------------------------
(* The waits.                                                              *)

(***************************************************************************)
(* A wait doubled as often as there were tries is within the limit, and    *)
(* doubling it once more is the wait of the next try.                      *)
(***************************************************************************)
LEMMA WaitsInRange ==
    ASSUME NEW first \in Nat, NEW most \in Nat, NEW n \in 0 .. most
    PROVE  /\ first * Doubled[n] \in 0 .. first * Doubled[most]
           /\ first * Doubled[0] = first
           /\ first * Doubled[n + 1] = (first * Doubled[n]) * 2
<1>1. Doubled[n] \in Nat /\ Doubled[most] \in Nat /\ Doubled[n] <= Doubled[most]
  BY DoubledValues, DoubledGrows
<1>2. Doubled[0] = 1 /\ Doubled[n + 1] = 2 * Doubled[n]
  BY DoubledValues
<1>3. \A x, y \in Nat : x <= y => first * x \in Nat /\ first * y \in Nat /\ first * x <= first * y
  OBVIOUS
<1>4. \A x \in Nat : first * (2 * x) = (first * x) * 2
  OBVIOUS
<1> QED BY <1>1, <1>2, <1>3, <1>4

LEMMA FirstWait ==
    ASSUME NEW first \in Nat, NEW most \in Nat
    PROVE  first \in 0 .. first * Doubled[most] /\ WaitDoubled(0, first, 0, first)
<1>1. first * Doubled[0] \in 0 .. first * Doubled[most] /\ first * Doubled[0] = first
  BY WaitsInRange
<1> QED BY <1>1 DEF WaitDoubled

LEMMA NextWait ==
    ASSUME NEW first \in Nat, NEW most \in Nat, NEW n \in 0 .. most, n < most,
           NEW elapsed \in Nat, NEW wait \in Nat, WaitDoubled(elapsed, wait, n, first)
    PROVE  wait * 2 \in 0 .. first * Doubled[most] /\ WaitDoubled(0, wait * 2, n + 1, first)
<1>1. wait = 0 \/ wait = first * Doubled[n]
  BY DEF WaitDoubled
<1>2. n + 1 \in 0 .. most
  OBVIOUS
<1>3. first * Doubled[n + 1] \in 0 .. first * Doubled[most]
  BY <1>2, WaitsInRange
<1>4. first * Doubled[n + 1] = (first * Doubled[n]) * 2
  BY WaitsInRange
<1>5. wait * 2 = 0 \/ wait * 2 = first * Doubled[n + 1]
  BY <1>1, <1>4
<1>6. Doubled[most] \in Nat
  BY DoubledValues
<1>7. first * Doubled[most] \in Nat
  BY <1>6
<1>8. wait * 2 \in 0 .. first * Doubled[most]
  BY <1>3, <1>5, <1>7
<1> QED BY <1>5, <1>8 DEF WaitDoubled

-----------------------------------------------------------------------------
(* The DHCP client.  A handler takes a world and returns one: the context, *)
(* the link and the address.                                               *)

WorldSound(w) ==
    /\ w \in [d: Context, l: Links, a: Addresses]
    /\ WaitDoubled(w.d.retry_elapsed, w.d.timeout, w.d.count, DhcpRetryMs)
    /\ PoolSound(w.l, w.a.ip)

(***************************************************************************)
(* dhcp_send_message changes nothing but the cache, and loses no buffer.   *)
(***************************************************************************)
LEMMA SendSound ==
    ASSUME NEW w, WorldSound(w)
    PROVE  /\ WorldSound(Send(w)) /\ Send(w).d = w.d /\ Send(w).a = w.a
           /\ Lost(Send(w).l) = Lost(w.l)
           /\ w.d.state # "RENEWING" => Send(w).l.arp = w.l.arp
<1>1. PICK dest : dest = IF w.d.state = "RENEWING" THEN w.d.server ELSE Broadcast
  OBVIOUS
<1>2. dest \in Host \cup {None, Broadcast} /\ (w.d.state # "RENEWING" => dest = Broadcast)
  BY <1>1, StackAssumption DEF WorldSound, Context, DhcpAssumption, Host
<1>3. w \in [d: Context, l: Links, a: Addresses] /\ PoolSound(w.l, w.a.ip) /\ w.a \in Addresses
  BY DEF WorldSound
<1>4. /\ PoolSound(UdpSend(w.l, w.a, dest), w.a.ip)
      /\ Lost(UdpSend(w.l, w.a, dest)) = Lost(w.l)
      /\ dest = Broadcast => UdpSend(w.l, w.a, dest).arp = w.l.arp
  BY <1>2, <1>3, UdpSendSound
<1>5. /\ Send(w) = [w EXCEPT !.l = UdpSend(w.l, w.a, dest)]
      /\ UdpSend(w.l, w.a, dest) \in Links
  BY <1>1, <1>4 DEF Send, PoolSound
<1>6. /\ Send(w).d = w.d /\ Send(w).a = w.a /\ Send(w).l = UdpSend(w.l, w.a, dest)
      /\ Send(w) \in [d: Context, l: Links, a: Addresses]
  BY <1>3, <1>5
<1> QED BY <1>2, <1>4, <1>6 DEF WorldSound

(***************************************************************************)
(* A fresh exchange: the first wait, no tries yet.                         *)
(***************************************************************************)
LEMMA EnterSound ==
    ASSUME NEW w, WorldSound(w), NEW s \in Asking
    PROVE  /\ WorldSound(Enter(w, s)) /\ Enter(w, s).a = w.a
           /\ Enter(w, s).d = [w.d EXCEPT !.retry_elapsed = 0, !.timeout = DhcpRetryMs, !.count = 0,
                                         !.state = s]
           /\ Lost(Enter(w, s).l) = Lost(w.l)
           /\ s # "RENEWING" => Enter(w, s).l.arp = w.l.arp
<1>1. PICK d : d = [w.d EXCEPT !.retry_elapsed = 0, !.timeout = DhcpRetryMs, !.count = 0, !.state = s]
  OBVIOUS
<1>2. PICK v : v = [w EXCEPT !.d = d]
  OBVIOUS
<1>3. Enter(w, s) = Send(v)
  BY <1>1, <1>2 DEF Enter, Retries
<1>4. w \in [d: Context, l: Links, a: Addresses] /\ w.d \in Context
  BY DEF WorldSound
<1>5. DhcpRetryMs \in Nat /\ DhcpRetries \in Nat
  BY StackAssumption DEF DhcpAssumption
<1>6. DhcpRetryMs \in 0 .. LongestWait /\ WaitDoubled(0, DhcpRetryMs, 0, DhcpRetryMs)
  BY <1>5, FirstWait DEF LongestWait
<1>7. /\ d \in Context /\ d.state = s /\ d.retry_elapsed = 0 /\ d.timeout = DhcpRetryMs /\ d.count = 0
  <2>1. Doubled[DhcpRetries] \in Nat
    BY <1>5, DoubledValues
  <2>2. LongestWait \in Nat
    BY <1>5, <2>1 DEF LongestWait
  <2>3. 0 \in 0 .. LongestWait /\ 0 \in 0 .. DhcpRetries
    BY <1>5, <2>2
  <2>4. s \in Asking \cup Holding \cup {"INIT", "FAILED"}
    OBVIOUS
  <2> QED BY <1>1, <1>4, <1>6, <2>3, <2>4 DEF Context
<1>8. v \in [d: Context, l: Links, a: Addresses] /\ v.d = d /\ v.l = w.l /\ v.a = w.a
  BY <1>2, <1>4, <1>7
<1>9. WorldSound(v)
  BY <1>6, <1>7, <1>8 DEF WorldSound
<1>10. /\ WorldSound(Send(v)) /\ Send(v).d = d /\ Send(v).a = w.a /\ Lost(Send(v).l) = Lost(w.l)
       /\ s # "RENEWING" => Send(v).l.arp = w.l.arp
  BY <1>7, <1>8, <1>9, SendSound
<1> QED BY <1>1, <1>3, <1>10

(***************************************************************************)
(* Losing the address clears the cache, whatever it parked.                *)
(***************************************************************************)
LEMMA DropAddressSound ==
    ASSUME NEW w, w \in [d: Context, l: Links, a: Addresses],
           WaitDoubled(w.d.retry_elapsed, w.d.timeout, w.d.count, DhcpRetryMs)
    PROVE  /\ WorldSound(DropAddress(w)) /\ DropAddress(w).d = w.d
           /\ DropAddress(w).a.ip = None /\ DropAddress(w).l.arp = EmptyCache
<1>1. PICK a : a = [NoAddress EXCEPT !.dns = w.a.dns]
  OBVIOUS
<1>2. a \in Addresses /\ a.ip = None
  BY <1>1 DEF NoAddress, Addresses
<1>3. DropAddress(w) = [w EXCEPT !.l = CacheInit(w.l), !.a = a]
  BY <1>1 DEF DropAddress
<1>4. PoolSound(CacheInit(w.l), None) /\ CacheInit(w.l).arp = EmptyCache
  BY CacheInitSound
<1>5. /\ DropAddress(w).d = w.d /\ DropAddress(w).a = a /\ DropAddress(w).l = CacheInit(w.l)
      /\ DropAddress(w) \in [d: Context, l: Links, a: Addresses]
  BY <1>2, <1>3, <1>4, ZenonT(60) DEF PoolSound
<1> QED BY <1>2, <1>4, <1>5 DEF WorldSound

(***************************************************************************)
(* What every handler of the client keeps, from world w to world v: a      *)
(* buffer is lost only when the cache is cleared because a lease begins or *)
(* is given up.                                                            *)
(***************************************************************************)
Handled(w, v) ==
    /\ WorldSound(v)
    /\ \/ v.l.arp = EmptyCache /\ v.d.state # w.d.state /\ v.d.state \in {"BOUND", "SELECTING"}
       \/ Lost(v.l) = Lost(w.l)

(***************************************************************************)
(* What it does to the lease, in the words of LeaseService.                *)
(***************************************************************************)
HeldBy(w) == IF w.d.active THEN w.a.ip ELSE None
LeftTo(w) == IF w.d.active /\ w.d.state \in Holding THEN Ms(w.d.lease) - w.d.elapsed ELSE 0
Asks(w) == w.d.active /\ w.d.state \in Asking \ {"SELECTING"}

Granted(w, v) == Asks(w) /\ ~ Asks(v) /\ HeldBy(v) \in Own /\ LeftTo(v) \in 0 .. Word
Passed(w, v) ==
    LeftTo(v) \in 1 .. LeftTo(w) - 1 /\ Asks(v) \in {Asks(w), TRUE} /\ HeldBy(v) = HeldBy(w)
Lapsed(w, v) == HeldBy(v) = None /\ LeftTo(v) = 0 /\ Asks(v) \in BOOLEAN
Unmoved(w, v) == HeldBy(v) = HeldBy(w) /\ LeftTo(v) = LeftTo(w) /\ Asks(v) = Asks(w)
Serves(w, v) == Granted(w, v) \/ Passed(w, v) \/ Lapsed(w, v) \/ Unmoved(w, v)

(***************************************************************************)
(* A client that runs holds an address exactly in the states of a lease,   *)
(* and the lease is not over.                                              *)
(***************************************************************************)
Fits(lease) == \A ms \in Elapsed : Ms(lease) + ms <= Word
LeaseSound(w) ==
    w.d.active =>
        IF w.d.state \in Holding
        THEN w.a.ip \in Own /\ (w.d.elapsed < Ms(w.d.lease) \/ w.d.elapsed = 0) /\ Fits(w.d.lease)
        ELSE w.d.state \in {"SELECTING", "REQUESTING"} /\ w.a.ip = None

LEMMA MsRange ==
    ASSUME NEW s \in Nat
    PROVE  Ms(s) \in 0 .. Word - 1
<1>1. Second \in Nat /\ Word \in Nat /\ Word > 0
  BY StackAssumption DEF DhcpAssumption
<1>2. s * Second \in Nat
  BY <1>1
<1> QED BY <1>1, <1>2 DEF Ms

(***************************************************************************)
(* An OFFER: a request goes out.                                           *)
(***************************************************************************)
LEMMA OfferSound ==
    ASSUME NEW w, WorldSound(w), w.d.active
    PROVE  /\ Handled(w, Offer(w)) /\ Offer(w).d.active
           /\ LeaseSound(w) => LeaseSound(Offer(w)) /\ Serves(w, Offer(w))
<1>1. CASE w.d.state # "SELECTING"
  BY <1>1 DEF Offer, Handled, Serves, Unmoved
<1>2. CASE w.d.state = "SELECTING"
  <2>1. PICK v : v = Enter(w, "REQUESTING")
    BY SMTT(60)
  <2>2. /\ WorldSound(v) /\ v.a = w.a /\ Lost(v.l) = Lost(w.l)
        /\ v.d = [w.d EXCEPT !.retry_elapsed = 0, !.timeout = DhcpRetryMs, !.count = 0, !.state = "REQUESTING"]
    BY <2>1, EnterSound, ZenonT(60) DEF Asking
  <2>3. v.d.state = "REQUESTING" /\ v.d.active
    BY <2>2 DEF WorldSound, Context
  <2>4. LeaseSound(w) => LeaseSound(v) /\ Lapsed(w, v)
    BY <1>2, <2>2, <2>3 DEF LeaseSound, Lapsed, HeldBy, LeftTo, Asks, Holding
  <2> QED BY <1>2, <2>1, <2>2, <2>3, <2>4, SMTT(60) DEF Offer, Handled, Serves
<1> QED BY <1>1, <1>2

(***************************************************************************)
(* A NAK: the address goes, and the client asks anew.                      *)
(***************************************************************************)
LEMMA StartOverSound ==
    ASSUME NEW w, WorldSound(w), NEW v, v = Enter(DropAddress(w), "SELECTING")
    PROVE  /\ WorldSound(v) /\ v.l.arp = EmptyCache /\ v.a.ip = None
           /\ v.d.state = "SELECTING" /\ v.d.active = w.d.active
           /\ LeaseSound(v) /\ Lapsed(w, v)
<1>1. PICK u : u = DropAddress(w)
  BY SMTT(60)
<1>2. WorldSound(u) /\ u.d = w.d /\ u.a.ip = None /\ u.l.arp = EmptyCache
  BY <1>1, DropAddressSound, SMTT(60) DEF WorldSound
<1>3. /\ WorldSound(v) /\ v.a = u.a /\ v.l.arp = u.l.arp
      /\ v.d = [u.d EXCEPT !.retry_elapsed = 0, !.timeout = DhcpRetryMs, !.count = 0, !.state = "SELECTING"]
  BY <1>1, <1>2, EnterSound, ZenonT(60) DEF Asking
<1>4. v.d.state = "SELECTING" /\ v.d.active = w.d.active
  BY <1>2, <1>3 DEF WorldSound, Context
<1>5. LeaseSound(v) /\ Lapsed(w, v)
  BY <1>2, <1>3, <1>4 DEF LeaseSound, Lapsed, HeldBy, LeftTo, Asks, Holding
<1> QED BY <1>2, <1>3, <1>4, <1>5

LEMMA NakSound ==
    ASSUME NEW w, WorldSound(w), w.d.active
    PROVE  /\ Handled(w, Nak(w)) /\ Nak(w).d.active
           /\ LeaseSound(w) => LeaseSound(Nak(w)) /\ Serves(w, Nak(w))
<1>1. CASE w.d.state \notin Asking \ {"SELECTING"}
  BY <1>1 DEF Nak, Handled, Serves, Unmoved
<1>2. CASE w.d.state \in Asking \ {"SELECTING"}
  <2>1. PICK v : v = Enter(DropAddress(w), "SELECTING")
    OBVIOUS
  <2>2. Nak(w) = v
    BY <1>2, <2>1 DEF Nak
  <2>3. /\ WorldSound(v) /\ v.l.arp = EmptyCache /\ v.d.state = "SELECTING" /\ v.d.active = w.d.active
        /\ LeaseSound(v) /\ Lapsed(w, v)
    BY <2>1, StartOverSound
  <2> QED BY <1>2, <2>2, <2>3 DEF Handled, Serves
<1> QED BY <1>1, <1>2

(***************************************************************************)
(* An ACK: the lease begins, and the cache is cleared for its address.     *)
(***************************************************************************)
LEMMA AckSound ==
    ASSUME NEW w, WorldSound(w), w.d.active, NEW a \in Own, NEW name \in Far, NEW g \in Grants
    PROVE  /\ Handled(w, Ack(w, a, name, g)) /\ Ack(w, a, name, g).d.active
           /\ LeaseSound(w) => LeaseSound(Ack(w, a, name, g)) /\ Serves(w, Ack(w, a, name, g))
<1>1. CASE w.d.state \notin Asking \ {"SELECTING"}
  BY <1>1 DEF Ack, Handled, Serves, Unmoved
<1>2. CASE w.d.state \in Asking \ {"SELECTING"}
  <2>1. PICK lease : lease = IF g.lease # 0 THEN g.lease ELSE DefaultLease
    OBVIOUS
  <2>2. PICK t1 : t1 = IF g.t1 # 0 THEN g.t1 ELSE lease \div 2
    OBVIOUS
  <2>3. PICK t2 : t2 = IF g.t2 # 0 THEN g.t2 ELSE ((lease * 7) % Word) \div 8
    OBVIOUS
  <2>4. PICK d : d = [w.d EXCEPT !.state = "BOUND", !.elapsed = 0, !.lease = lease, !.t1 = t1, !.t2 = t2]
    OBVIOUS
  <2>5. PICK v : v = [l |-> CacheInit(w.l), a |-> [ip |-> a, gateway |-> g.gateway, dns |-> name], d |-> d]
    OBVIOUS
  <2>6. Ack(w, a, name, g) = v
    BY <1>2, <2>1, <2>2, <2>3, <2>4, <2>5 DEF Ack
  <2>7. /\ w \in [d: Context, l: Links, a: Addresses] /\ w.d \in Context /\ w.l \in Links
        /\ g \in Lease /\ DefaultLease \in Nat /\ Word \in Nat /\ Word > 0
    BY StackAssumption DEF WorldSound, DhcpAssumption
  <2>8. lease \in Nat /\ t1 \in Nat /\ t2 \in Nat
    <3>1. lease \in Nat
      BY <2>1, <2>7 DEF Lease
    <3>2. lease \div 2 \in Nat
      BY <3>1
    <3>3. ((lease * 7) % Word) \in Nat
      BY <2>7, <3>1
    <3>4. \A n \in Nat : n \div 8 \in Nat
      OBVIOUS
    <3>5. ((lease * 7) % Word) \div 8 \in Nat
      BY <3>3, <3>4
    <3>6. g.t1 \in Nat /\ g.t2 \in Nat
      BY <2>7 DEF Lease
    <3> QED BY <2>2, <2>3, <3>1, <3>2, <3>5, <3>6
  <2>9. /\ d \in Context /\ d.state = "BOUND" /\ d.active = w.d.active /\ d.elapsed = 0 /\ d.lease = lease
        /\ d.retry_elapsed = w.d.retry_elapsed /\ d.timeout = w.d.timeout /\ d.count = w.d.count
    <3>1. 0 \in 0 .. Word - 1
      BY <2>7
    <3>2. "BOUND" \in Asking \cup Holding \cup {"INIT", "FAILED"}
      BY DEF Holding
    <3> QED BY <2>4, <2>7, <2>8, <3>1, <3>2 DEF Context
  <2>10. /\ PoolSound(CacheInit(w.l), a) /\ CacheInit(w.l).arp = EmptyCache
    BY <2>7, CacheInitSound
  <2>11. /\ v.d = d /\ v.l = CacheInit(w.l) /\ v.a.ip = a
         /\ v \in [d: Context, l: Links, a: Addresses]
    <3>1. [ip |-> a, gateway |-> g.gateway, dns |-> name] \in Addresses
      BY <2>7 DEF Addresses, Lease
    <3>2. CacheInit(w.l) \in Links
      BY <2>10 DEF PoolSound
    <3> QED BY <2>5, <2>9, <3>1, <3>2
  <2>12. WorldSound(v)
    BY <2>9, <2>10, <2>11 DEF WorldSound
  <2>13. Handled(w, v)
    BY <1>2, <2>9, <2>10, <2>11, <2>12 DEF Handled, Asking
  <2>14. Ms(lease) \in 0 .. Word - 1 /\ Fits(lease)
    BY <2>1, <2>8, MsRange, LeasesFit DEF Fits
  <2>15. Asks(w) /\ ~ Asks(v) /\ HeldBy(v) = a /\ LeftTo(v) = Ms(lease) - 0
    BY <1>2, <2>9, <2>11 DEF Asks, HeldBy, LeftTo, Holding, Asking
  <2>16. Granted(w, v)
    BY <2>7, <2>14, <2>15 DEF Granted
  <2>17. LeaseSound(v)
    BY <2>9, <2>11, <2>14 DEF LeaseSound, Holding
  <2> QED BY <2>6, <2>9, <2>11, <2>13, <2>16, <2>17 DEF Serves
<1> QED BY <1>1, <1>2

-----------------------------------------------------------------------------
(* The client's tick.                                                      *)

(***************************************************************************)
(* dhcp_tick_retries: the wait goes on, is doubled, or the state is given  *)
(* up; a lease that is given up is out of the states that hold one, and    *)
(* else its time and its address are what they were.                       *)
(***************************************************************************)
Retried(w, v) ==
    /\ v.d.active => w.d.active
    /\ w.d.state = "SELECTING" => v.d.state \notin Holding
    /\ \/ v.l.arp = EmptyCache /\ v.d.state = "SELECTING" /\ w.d.state = "REBINDING"
       \/ Lost(v.l) = Lost(w.l)
    /\ LeaseSound(w) =>
          /\ LeaseSound(v)
          /\ \/ v.d.state \notin Holding /\ (Lapsed(w, v) \/ Unmoved(w, v))
             \/ Unmoved(w, v) /\ v.d.elapsed = w.d.elapsed /\ v.d.lease = w.d.lease
                   /\ v.d.active /\ w.d.active /\ w.d.state \in Holding /\ v.d.state \in Holding

LEMMA ExhaustedSound ==
    ASSUME NEW w, WorldSound(w), w.d.state \in Asking, w.d.active
    PROVE  /\ WorldSound(Exhausted(w)) /\ Retried(w, Exhausted(w))
<1>1. CASE w.d.state = "SELECTING"
  <2>1. PICK v : v = [w EXCEPT !.d.state = "FAILED", !.d.active = FALSE]
    OBVIOUS
  <2>2. Exhausted(w) = v
    BY <1>1, <2>1 DEF Exhausted
  <2>3. /\ v.d \in Context /\ v.d.state = "FAILED" /\ v.d.active = FALSE /\ v.l = w.l /\ v.a = w.a
        /\ v.d.retry_elapsed = w.d.retry_elapsed /\ v.d.timeout = w.d.timeout /\ v.d.count = w.d.count
        /\ v \in [d: Context, l: Links, a: Addresses]
    BY <2>1, ZenonT(60) DEF WorldSound, Context
  <2>4. WorldSound(v)
    BY <2>3 DEF WorldSound
  <2>5. v.d.state \notin Holding /\ (LeaseSound(w) => Lapsed(w, v) /\ LeaseSound(v))
    BY <2>3 DEF Lapsed, HeldBy, LeftTo, Asks, Holding, LeaseSound
  <2> QED BY <2>2, <2>3, <2>4, <2>5 DEF Retried
<1>2. CASE w.d.state = "REQUESTING"
  <2>1. PICK v : v = Enter(w, "SELECTING")
    BY SMTT(60)
  <2>2. Exhausted(w) = v
    BY <1>2, <2>1, SMTT(60) DEF Exhausted
  <2>3. /\ WorldSound(v) /\ v.a = w.a /\ Lost(v.l) = Lost(w.l)
        /\ v.d = [w.d EXCEPT !.retry_elapsed = 0, !.timeout = DhcpRetryMs, !.count = 0, !.state = "SELECTING"]
    BY <2>1, EnterSound, ZenonT(60) DEF Asking
  <2>4. v.d.state = "SELECTING" /\ v.d.active = w.d.active
    BY <2>3, ZenonT(60) DEF WorldSound, Context
  <2>5. v.d.state \notin Holding /\ (LeaseSound(w) => Lapsed(w, v) /\ LeaseSound(v))
    BY <1>2, <2>3, <2>4 DEF Lapsed, HeldBy, LeftTo, Asks, Holding, LeaseSound
  <2> QED BY <2>2, <2>3, <2>4, <2>5 DEF Retried
<1>3. CASE w.d.state = "RENEWING"
  <2>1. PICK v : v = Enter(w, "REBINDING")
    BY SMTT(60)
  <2>2. Exhausted(w) = v
    BY <1>3, <2>1, SMTT(60) DEF Exhausted
  <2>3. /\ WorldSound(v) /\ v.a = w.a /\ Lost(v.l) = Lost(w.l)
        /\ v.d = [w.d EXCEPT !.retry_elapsed = 0, !.timeout = DhcpRetryMs, !.count = 0, !.state = "REBINDING"]
    BY <2>1, EnterSound, ZenonT(60) DEF Asking
  <2>4. v.d.state = "REBINDING" /\ v.d.active = w.d.active /\ v.d.elapsed = w.d.elapsed /\ v.d.lease = w.d.lease
    BY <2>3 DEF WorldSound, Context
  <2>5. Unmoved(w, v) /\ v.d.state \in Holding /\ w.d.state \in Holding /\ (LeaseSound(w) => LeaseSound(v))
    BY <1>3, <2>3, <2>4 DEF Unmoved, HeldBy, LeftTo, Asks, Holding, Asking, LeaseSound
  <2> QED BY <1>3, <2>2, <2>3, <2>4, <2>5 DEF Retried
<1>4. CASE w.d.state = "REBINDING"
  <2>1. PICK v : v = Enter(DropAddress(w), "SELECTING")
    OBVIOUS
  <2>2. Exhausted(w) = v
    BY <1>4, <2>1 DEF Exhausted
  <2>3. /\ WorldSound(v) /\ v.l.arp = EmptyCache /\ v.d.state = "SELECTING" /\ v.d.active = w.d.active
        /\ LeaseSound(v) /\ Lapsed(w, v)
    BY <2>1, StartOverSound
  <2> QED BY <1>4, <2>2, <2>3 DEF Retried, Holding
<1> QED BY <1>1, <1>2, <1>3, <1>4 DEF Asking

LEMMA TickRetriesSound ==
    ASSUME NEW w, WorldSound(w), w.d.active, NEW ms \in Nat
    PROVE  WorldSound(TickRetries(w, ms)) /\ Retried(w, TickRetries(w, ms))
<1>0. w \in [d: Context, l: Links, a: Addresses] /\ w.d \in Context
  BY DEF WorldSound
<1>1. /\ DhcpRetryMs \in Nat /\ DhcpRetries \in Nat /\ Doubled[DhcpRetries] \in Nat
      /\ LongestWait \in Nat
  <2>1. DhcpRetryMs \in Nat /\ DhcpRetries \in Nat
    BY StackAssumption DEF DhcpAssumption
  <2>2. Doubled[DhcpRetries] \in Nat
    BY <2>1, DoubledValues
  <2> QED BY <2>1, <2>2 DEF LongestWait
<1>2. ASSUME NEW v, WorldSound(v), v.a = w.a, Lost(v.l) = Lost(w.l), v.d.state = w.d.state, v.d.active = w.d.active,
             v.d.elapsed = w.d.elapsed, v.d.lease = w.d.lease
      PROVE  Retried(w, v)
  BY <1>2 DEF Retried, LeaseSound, Unmoved, HeldBy, LeftTo, Asks, Holding
<1>3. CASE w.d.state \notin Asking
  <2>1. TickRetries(w, ms) = w
    BY <1>3 DEF TickRetries
  <2> QED BY <1>2, <2>1
<1>4. CASE w.d.state \in Asking /\ w.d.retry_elapsed + ms < w.d.timeout
  <2>1. PICK v : v = [w EXCEPT !.d.retry_elapsed = @ + ms]
    OBVIOUS
  <2>2. TickRetries(w, ms) = v
    BY <1>4, <2>1 DEF TickRetries
  <2>3. w.d.retry_elapsed + ms \in 0 .. LongestWait
    BY <1>0, <1>1, <1>4 DEF Context
  <2>4. v.d = [w.d EXCEPT !.retry_elapsed = w.d.retry_elapsed + ms] /\ v.l = w.l /\ v.a = w.a
    BY <1>0, <2>1
  <2>5. /\ v.d \in Context /\ v.d.retry_elapsed = w.d.retry_elapsed + ms /\ v.d.timeout = w.d.timeout
        /\ v.d.count = w.d.count /\ v.d.state = w.d.state /\ v.d.active = w.d.active
        /\ v.d.elapsed = w.d.elapsed /\ v.d.lease = w.d.lease
    <3>1. v.d \in Context
      BY <1>0, <2>3, <2>4 DEF Context
    <3> QED BY <1>0, <2>4, <3>1, ZenonT(60) DEF Context
  <2>6. v \in [d: Context, l: Links, a: Addresses]
    BY <1>0, <2>1, <2>4, <2>5
  <2>7. w.d.retry_elapsed + ms <= w.d.timeout
    BY <1>0, <1>4, <2>3 DEF Context
  <2>8. WorldSound(v)
    BY <2>4, <2>5, <2>6, <2>7 DEF WorldSound, WaitDoubled
  <2> QED BY <1>2, <2>2, <2>4, <2>5, <2>8
<1>5. CASE w.d.state \in Asking /\ ~ (w.d.retry_elapsed + ms < w.d.timeout)
  <2>1. PICK due : due = [w EXCEPT !.d.retry_elapsed = 0]
    OBVIOUS
  <2>2. due.d = [w.d EXCEPT !.retry_elapsed = 0] /\ due.l = w.l /\ due.a = w.a
    BY <1>0, <2>1
  <2>3. /\ due.d \in Context /\ due.d.retry_elapsed = 0 /\ due.d.timeout = w.d.timeout
        /\ due.d.count = w.d.count /\ due.d.state = w.d.state /\ due.d.active = w.d.active
        /\ due.d.elapsed = w.d.elapsed /\ due.d.lease = w.d.lease
    <3>1. 0 \in 0 .. LongestWait
      BY <1>1
    <3>2. due.d = [w.d EXCEPT !.retry_elapsed = 0]
      BY <2>2
    <3>3. due.d \in Context
      BY <1>0, <3>1, <3>2 DEF Context
    <3> QED BY <1>0, <3>2, <3>3, ZenonT(60) DEF Context
  <2>4. due \in [d: Context, l: Links, a: Addresses]
    BY <1>0, <2>1, <2>2, <2>3
  <2>5. WorldSound(due)
    BY <1>0, <2>2, <2>3, <2>4 DEF WorldSound, WaitDoubled, Context
  <2>6. CASE w.d.count < DhcpRetries
    <3>1. PICK u : u = [due EXCEPT !.d.count = @ + 1, !.d.timeout = @ * 2]
      OBVIOUS
    <3>2. TickRetries(w, ms) = Send(u)
      BY <1>5, <2>1, <2>6, <3>1 DEF TickRetries
    <3>3. u.d = [due.d EXCEPT !.count = due.d.count + 1, !.timeout = due.d.timeout * 2] /\ u.l = due.l /\ u.a = due.a
      BY <2>4, <3>1
    <3>4. due.d.count \in 0 .. DhcpRetries /\ due.d.count < DhcpRetries /\ due.d.timeout \in Nat
          /\ WaitDoubled(0, due.d.timeout, due.d.count, DhcpRetryMs)
      BY <1>1, <2>3, <2>5, <2>6 DEF Context, WorldSound
    <3>5. /\ due.d.timeout * 2 \in 0 .. LongestWait
          /\ WaitDoubled(0, due.d.timeout * 2, due.d.count + 1, DhcpRetryMs)
      BY <1>1, <3>4, NextWait DEF LongestWait
    <3>6. due.d.count + 1 \in 0 .. DhcpRetries
      BY <1>1, <3>4
    <3>7. /\ u.d \in Context /\ u.d.retry_elapsed = 0 /\ u.d.timeout = due.d.timeout * 2
          /\ u.d.count = due.d.count + 1 /\ u.d.state = w.d.state /\ u.d.active = w.d.active
          /\ u.d.elapsed = w.d.elapsed /\ u.d.lease = w.d.lease
      BY <2>3, <3>3, <3>5, <3>6, ZenonT(60) DEF Context
    <3>8. u \in [d: Context, l: Links, a: Addresses]
      BY <2>4, <3>1, <3>3, <3>7
    <3>9. WorldSound(u)
      BY <2>5, <3>3, <3>5, <3>7, <3>8 DEF WorldSound
    <3>10. WorldSound(Send(u)) /\ Send(u).d = u.d /\ Send(u).a = u.a /\ Lost(Send(u).l) = Lost(u.l)
      BY <3>9, SendSound
    <3>11. PICK v : v = Send(u)
      OBVIOUS
    <3>12. WorldSound(v) /\ v.a = w.a /\ Lost(v.l) = Lost(w.l)
      BY <2>2, <3>3, <3>10, <3>11
    <3>13. v.d.state = w.d.state /\ v.d.active = w.d.active /\ v.d.elapsed = w.d.elapsed /\ v.d.lease = w.d.lease
      BY <3>7, <3>10, <3>11
    <3>14. Retried(w, v)
      BY <1>2, <3>12, <3>13
    <3> QED BY <3>2, <3>11, <3>12, <3>14
  <2>7. CASE ~ (w.d.count < DhcpRetries)
    <3>1. TickRetries(w, ms) = Exhausted(due)
      BY <1>5, <2>1, <2>7 DEF TickRetries
    <3>2. WorldSound(Exhausted(due)) /\ Retried(due, Exhausted(due))
      BY <1>5, <2>3, <2>5, ExhaustedSound
    <3>3. ASSUME NEW v, Retried(due, v)
          PROVE  Retried(w, v)
      BY <2>2, <2>3, <3>3 DEF Retried, LeaseSound, Lapsed, Unmoved, HeldBy, LeftTo, Asks
    <3> QED BY <3>1, <3>2, <3>3
  <2> QED BY <2>6, <2>7
<1> QED BY <1>3, <1>4, <1>5

(***************************************************************************)
(* dhcp_tick_lease: time passes on the lease, its renewal comes due, or it *)
(* is over.  No lease comes so near the wrap of the count that a tick      *)
(* could carry the count past it.                                          *)
(***************************************************************************)
Ticks(w, v) ==
    /\ v.d.active = w.d.active
    /\ \/ v.l.arp = EmptyCache /\ v.d.state = "SELECTING" /\ w.d.state \in Holding
       \/ Lost(v.l) = Lost(w.l)
    /\ LeaseSound(w) /\ w.d.active => LeaseSound(v) /\ Serves(w, v)

LEMMA TickLeaseSound ==
    ASSUME NEW w, WorldSound(w), NEW ms \in Elapsed
    PROVE  WorldSound(TickLease(w, ms)) /\ Ticks(w, TickLease(w, ms))
<1>0. /\ w \in [d: Context, l: Links, a: Addresses] /\ w.d \in Context
      /\ ms \in Nat \ {0} /\ Word \in Nat /\ Word > 0
  BY StackAssumption DEF WorldSound, DhcpAssumption
<1>1. CASE w.d.state \notin Holding
  BY <1>1 DEF TickLease, Ticks, Serves, Unmoved
<1>2. CASE w.d.state \in Holding
  <2>1. PICK on : on = [w EXCEPT !.d.elapsed = (@ + ms) % Word]
    OBVIOUS
  <2>2. PICK gone : gone = (w.d.elapsed + ms) % Word
    OBVIOUS
  <2>3. w.d.elapsed \in Nat /\ w.d.elapsed < Word /\ gone \in 0 .. Word - 1
    BY <1>0, <2>2 DEF Context
  <2>4. on.d = [w.d EXCEPT !.elapsed = gone] /\ on.l = w.l /\ on.a = w.a
    BY <1>0, <2>1, <2>2
  <2>5. /\ on.d \in Context /\ on.d.elapsed = gone /\ on.d.lease = w.d.lease /\ on.d.state = w.d.state
        /\ on.d.active = w.d.active /\ on.d.retry_elapsed = w.d.retry_elapsed
        /\ on.d.timeout = w.d.timeout /\ on.d.count = w.d.count
    BY <1>0, <2>3, <2>4 DEF Context
  <2>6. on \in [d: Context, l: Links, a: Addresses]
    BY <1>0, <2>1, <2>4, <2>5
  <2>7. WorldSound(on)
    BY <2>4, <2>5, <2>6 DEF WorldSound
  <2>8. PICK total : total = Ms(w.d.lease)
    OBVIOUS
  <2>9. total \in 0 .. Word - 1 /\ (Expired(on) <=> gone >= total)
    <3>1. w.d.lease \in Nat
      BY <1>0 DEF Context
    <3> QED BY <2>5, <2>8, <3>1, MsRange DEF Expired
  <2>10. ASSUME LeaseSound(w), w.d.active, ~ Expired(on)
         PROVE  total - gone \in 1 .. (total - w.d.elapsed) - 1 /\ gone < total
    <3>1. total + ms <= Word /\ (w.d.elapsed < total \/ w.d.elapsed = 0) /\ gone < total
      BY <1>2, <2>3, <2>8, <2>9, <2>10 DEF LeaseSound, Fits
    <3>2. w.d.elapsed + ms < Word
      <4>1. CASE w.d.elapsed < total
        BY <1>0, <2>3, <2>9, <3>1, <4>1
      <4>2. CASE ~ (w.d.elapsed < total)
        <5>1. w.d.elapsed = 0
          BY <3>1, <4>2
        <5>2. total = 0
          BY <2>3, <2>9, <4>2, <5>1
        <5> QED BY <2>3, <3>1, <5>2
      <4> QED BY <4>1, <4>2
    <3>3. gone = w.d.elapsed + ms
      BY <1>0, <2>2, <2>3, <3>2
    <3> QED BY <1>0, <2>3, <2>9, <3>1, <3>3
  <2>11. CASE Expired(on)
    <3>1. PICK v : v = Enter(DropAddress(on), "SELECTING")
      OBVIOUS
    <3>2. TickLease(w, ms) = v
      BY <1>2, <2>1, <2>11, <3>1 DEF TickLease
    <3>3. /\ WorldSound(v) /\ v.l.arp = EmptyCache /\ v.d.state = "SELECTING" /\ v.d.active = on.d.active
          /\ LeaseSound(v) /\ Lapsed(on, v)
      BY <2>7, <3>1, StartOverSound
    <3> QED BY <1>2, <2>5, <3>2, <3>3 DEF Ticks, Serves, Lapsed
  <2>12. ASSUME NEW v, WorldSound(v), v.a = on.a, Lost(v.l) = Lost(on.l), v.d.active = on.d.active,
                v.d.elapsed = gone, v.d.lease = on.d.lease, v.d.state \in Holding,
                Asks(v) \in {Asks(on), TRUE}, ~ Expired(on)
         PROVE  Ticks(w, v)
    <3>1. v.d.active = w.d.active /\ Lost(v.l) = Lost(w.l)
      BY <2>4, <2>5, <2>12
    <3>2. ASSUME LeaseSound(w), w.d.active
          PROVE  LeaseSound(v) /\ Serves(w, v)
      <4>1. total - gone \in 1 .. (total - w.d.elapsed) - 1 /\ gone < total
        BY <2>10, <2>12, <3>2
      <4>2. LeaseSound(v)
        BY <1>2, <2>4, <2>5, <2>8, <2>12, <3>2, <4>1 DEF LeaseSound
      <4>3. LeftTo(v) = total - gone /\ LeftTo(w) = total - w.d.elapsed
        BY <1>2, <2>5, <2>8, <2>12, <3>2 DEF LeftTo
      <4>4. HeldBy(v) = HeldBy(w) /\ Asks(on) = Asks(w)
        BY <2>4, <2>5, <2>12 DEF HeldBy, Asks
      <4>5. Passed(w, v)
        BY <2>12, <4>1, <4>3, <4>4 DEF Passed
      <4> QED BY <4>2, <4>5 DEF Serves
    <3> QED BY <3>1, <3>2 DEF Ticks
  <2>13. ASSUME NEW s \in {"RENEWING", "REBINDING"}, ~ Expired(on)
         PROVE  WorldSound(Enter(on, s)) /\ Ticks(w, Enter(on, s))
    <3>1. PICK v : v = Enter(on, s)
      OBVIOUS
    <3>2. /\ WorldSound(v) /\ v.a = on.a /\ Lost(v.l) = Lost(on.l)
          /\ v.d = [on.d EXCEPT !.retry_elapsed = 0, !.timeout = DhcpRetryMs, !.count = 0, !.state = s]
      BY <2>7, <3>1, EnterSound, ZenonT(60) DEF Asking
    <3>3. v.d.state = s /\ v.d.active = on.d.active /\ v.d.elapsed = gone /\ v.d.lease = on.d.lease
      BY <2>5, <3>2 DEF Context
    <3>4. s \in Holding /\ (Asks(v) <=> on.d.active) /\ (Asks(on) => on.d.active)
      BY <3>3 DEF Holding, Asks, Asking
    <3>5. Asks(v) \in {Asks(on), TRUE}
      <4>1. on.d.active \in BOOLEAN
        BY <2>5 DEF Context
      <4> QED BY <3>4, <4>1 DEF Asks
    <3> QED BY <2>12, <2>13, <3>1, <3>2, <3>3, <3>4, <3>5
  <2>14. CASE ~ Expired(on) /\ on.d.state = "BOUND" /\ on.d.elapsed >= Ms(on.d.t1)
    <3>1. TickLease(w, ms) = Enter(on, "RENEWING")
      BY <1>2, <2>1, <2>14 DEF TickLease
    <3> QED BY <2>13, <2>14, <3>1
  <2>15. CASE ~ Expired(on) /\ on.d.state = "RENEWING" /\ on.d.elapsed >= Ms(on.d.t2)
    <3>1. TickLease(w, ms) = Enter(on, "REBINDING")
      BY <1>2, <2>1, <2>15 DEF TickLease
    <3> QED BY <2>13, <2>15, <3>1
  <2>16. CASE /\ ~ Expired(on) /\ ~ (on.d.state = "BOUND" /\ on.d.elapsed >= Ms(on.d.t1))
              /\ ~ (on.d.state = "RENEWING" /\ on.d.elapsed >= Ms(on.d.t2))
    <3>1. TickLease(w, ms) = on
      BY <1>2, <2>1, <2>16 DEF TickLease
    <3>2. Asks(on) \in {Asks(on), TRUE} /\ on.d.state \in Holding
      BY <1>2, <2>5
    <3> QED BY <2>5, <2>7, <2>12, <2>16, <3>1, <3>2
  <2> QED BY <2>11, <2>14, <2>15, <2>16
<1> QED BY <1>1, <1>2

(***************************************************************************)
(* The whole tick of a client.                                             *)
(***************************************************************************)
LEMMA TickClientSound ==
    ASSUME NEW w, WorldSound(w), NEW ms \in Elapsed
    PROVE  /\ Handled(w, TickClient(w, ms))
           /\ TickClient(w, ms).d.active => w.d.active
           /\ LeaseSound(w) => LeaseSound(TickClient(w, ms)) /\ Serves(w, TickClient(w, ms))
<1>1. CASE ~ w.d.active
  BY <1>1 DEF TickClient, Handled, Serves, Unmoved
<1>2. CASE w.d.active
  <2>1. PICK u : u = TickRetries(w, ms)
    OBVIOUS
  <2>2. PICK v : v = TickLease(u, ms)
    OBVIOUS
  <2>3. TickClient(w, ms) = v
    BY <1>2, <2>1, <2>2 DEF TickClient
  <2>4. WorldSound(u) /\ Retried(w, u)
    BY <1>2, <2>1, StackAssumption, TickRetriesSound
  <2>5. WorldSound(v) /\ Ticks(u, v)
    BY <2>2, <2>4, TickLeaseSound
  <2>6. u.d.state \notin Holding => v = u
    BY <2>2 DEF TickLease
  <2>7. Handled(w, v)
    BY <2>4, <2>5, <2>6 DEF Handled, Retried, Ticks, Holding
  <2>8. v.d.active => w.d.active
    BY <2>4, <2>5 DEF Retried, Ticks
  <2>9. ASSUME LeaseSound(w)
        PROVE  LeaseSound(v) /\ Serves(w, v)
    <3>1. CASE u.d.state \notin Holding
      BY <2>4, <2>6, <2>9, <3>1 DEF Retried, Serves
    <3>2. CASE u.d.state \in Holding
      <4>1. Unmoved(w, u) /\ u.d.active /\ LeaseSound(u)
        BY <2>4, <2>9, <3>2 DEF Retried
      <4>2. LeaseSound(v) /\ Serves(u, v)
        BY <2>5, <4>1 DEF Ticks
      <4> QED BY <4>1, <4>2 DEF Serves, Unmoved, Granted, Passed, Lapsed
    <3> QED BY <3>1, <3>2
  <2> QED BY <2>3, <2>7, <2>8, <2>9
<1> QED BY <1>1, <1>2

-----------------------------------------------------------------------------
(* Sockets and queries.                                                    *)

(***************************************************************************)
(* The search for an ephemeral port stays among them, and never takes the  *)
(* client's port for one.                                                  *)
(***************************************************************************)
LEMMA AfterRange ==
    ASSUME NEW from \in Ephemeral, NEW k \in Nat
    PROVE  After(from, k) \in Ephemeral /\ After(from, k) # None /\ After(from, k) # DhcpPort
<1>1. FirstEph \in Nat /\ LastEph \in Nat /\ FirstEph <= LastEph
  BY StackAssumption DEF UdpAssumption
<1>2. DhcpPort \notin FirstEph .. LastEph /\ None \notin Nat
  BY StackAssumption DEF UdpAssumption
<1>3. PICK m \in Nat : m = LastEph - FirstEph + 1 /\ m > 0
  BY <1>1
<1>4. PICK x \in Nat : x = from - FirstEph + k
  BY <1>1 DEF Ephemeral
<1>5. x % m \in 0 .. m - 1
  BY <1>3
<1>6. After(from, k) = FirstEph + (x % m)
  BY <1>3, <1>4 DEF After
<1>7. After(from, k) \in FirstEph .. LastEph
  BY <1>1, <1>3, <1>5, <1>6
<1> QED BY <1>1, <1>2, <1>7 DEF Ephemeral

Ports == [Socket -> {None, DhcpPort} \cup Ephemeral]
Distinct(ports) == \A s, t \in Socket : s # t => ports[s] = None \/ ports[s] # ports[t]

(***************************************************************************)
(* A port that is not in use may be listed.                                *)
(***************************************************************************)
LEMMA ListSound ==
    ASSUME NEW ports \in Ports, Distinct(ports), NEW s \in Socket,
           NEW p \in {None, DhcpPort} \cup Ephemeral, p = None \/ ~ InUse(ports, p)
    PROVE  /\ [ports EXCEPT ![s] = p] \in Ports
           /\ Distinct([ports EXCEPT ![s] = p])
BY DEF Ports, Distinct, InUse

\* What DnsTypeOK, QueriesListening and the rest say, of the state a handler
\* of a query works on.
NamesSound(u) ==
    /\ u \in [p: Ports, n: Ephemeral,
              c: [Query -> [active: BOOLEAN, elapsed: 0 .. LongestQuery,
                            timeout: 0 .. LongestQuery, count: 0 .. DnsRetries]],
              r: [Query -> 0 .. 1], l: Links]
    /\ Distinct(u.p)
    /\ \A q \in Query : u.c[q].active <=> u.p[q] # None
    /\ \A q \in Query : WaitDoubled(u.c[q].elapsed, u.c[q].timeout, u.c[q].count, DnsRetryMs)
    /\ PoolSound(u.l, addr.ip)

\* No buffer is lost, and no socket moves that is not a query's.
Resolves(u, v) ==
    /\ NamesSound(v) /\ Lost(v.l) = Lost(u.l)
    /\ \A s \in Socket \ Query : v.p[s] = u.p[s]

LEMMA QueryTypes ==
    /\ DnsServer \in Host /\ Query \subseteq Socket
    /\ DnsRetryMs \in Nat /\ DnsRetries \in Nat /\ LongestQuery \in Nat
    /\ DnsRetryMs \in 0 .. LongestQuery /\ 0 \in 0 .. LongestQuery /\ 0 \in 0 .. DnsRetries
    /\ WaitDoubled(0, DnsRetryMs, 0, DnsRetryMs) /\ WaitDoubled(0, 0, 0, DnsRetryMs)
<1>1. DnsServer \in Host /\ Query \subseteq Socket /\ DnsRetryMs \in Nat /\ DnsRetries \in Nat
  BY StackAssumption DEF DnsAssumption, Host
<1>2. Doubled[DnsRetries] \in Nat
  BY <1>1, DoubledValues
<1>3. LongestQuery \in Nat
  BY <1>1, <1>2 DEF LongestQuery
<1>4. DnsRetryMs \in 0 .. LongestQuery /\ WaitDoubled(0, DnsRetryMs, 0, DnsRetryMs)
  BY <1>1, FirstWait DEF LongestQuery
<1>5. WaitDoubled(0, 0, 0, DnsRetryMs)
  BY DEF WaitDoubled
<1> QED BY <1>1, <1>3, <1>4, <1>5

(***************************************************************************)
(* dns_send_query: one datagram.                                           *)
(***************************************************************************)
LEMMA SentSound ==
    ASSUME NEW u, NamesSound(u), addr \in Addresses
    PROVE  /\ Resolves(u, Sent(u))
           /\ Sent(u).p = u.p /\ Sent(u).n = u.n /\ Sent(u).c = u.c /\ Sent(u).r = u.r
<1>1. PICK l : l = UdpSend(u.l, addr, DnsServer)
  OBVIOUS
<1>2. DnsServer \in Host \cup {None, Broadcast}
  BY QueryTypes
<1>3. PoolSound(l, addr.ip) /\ Lost(l) = Lost(u.l)
  BY <1>1, <1>2, UdpSendSound DEF NamesSound
<1>4. Sent(u) = [u EXCEPT !.l = l] /\ l \in Links
  BY <1>1, <1>3 DEF Sent, PoolSound
<1>5. PICK T : T = [Query -> [active: BOOLEAN, elapsed: 0 .. LongestQuery,
                              timeout: 0 .. LongestQuery, count: 0 .. DnsRetries]]
  OBVIOUS
<1>6. u \in [p: Ports, n: Ephemeral, c: T, r: [Query -> 0 .. 1], l: Links]
  BY <1>5 DEF NamesSound
<1>7. /\ Sent(u) \in [p: Ports, n: Ephemeral, c: T, r: [Query -> 0 .. 1], l: Links]
      /\ Sent(u).p = u.p /\ Sent(u).n = u.n /\ Sent(u).c = u.c /\ Sent(u).r = u.r /\ Sent(u).l = l
  BY <1>4, <1>6
<1> QED BY <1>3, <1>5, <1>7 DEF Resolves, NamesSound

(***************************************************************************)
(* One query's context, socket and place among the calls of on_result are  *)
(* set; everything else stays.                                             *)
(***************************************************************************)
LEMMA SetQuery ==
    ASSUME NEW u, NamesSound(u), NEW q \in Query, NEW v,
           NEW port_ \in {None, DhcpPort} \cup Ephemeral, port_ = None \/ ~ InUse(u.p, port_),
           NEW c \in [active: BOOLEAN, elapsed: 0 .. LongestQuery,
                      timeout: 0 .. LongestQuery, count: 0 .. DnsRetries],
           c.active <=> port_ # None, WaitDoubled(c.elapsed, c.timeout, c.count, DnsRetryMs),
           NEW n \in Ephemeral, NEW r \in [Query -> 0 .. 1],
           v = [p |-> [u.p EXCEPT ![q] = port_], n |-> n, c |-> [u.c EXCEPT ![q] = c], r |-> r, l |-> u.l]
    PROVE  Resolves(u, v)
<1>0. PICK C : C = [active: BOOLEAN, elapsed: 0 .. LongestQuery,
                    timeout: 0 .. LongestQuery, count: 0 .. DnsRetries]
  OBVIOUS
<1>1. u \in [p: Ports, n: Ephemeral, c: [Query -> C], r: [Query -> 0 .. 1], l: Links] /\ q \in Socket
  BY <1>0, QueryTypes DEF NamesSound
<1>2. PICK ports : ports = [u.p EXCEPT ![q] = port_]
  OBVIOUS
<1>3. PICK contexts : contexts = [u.c EXCEPT ![q] = c]
  OBVIOUS
<1>4. ports \in Ports /\ Distinct(ports)
  BY <1>1, <1>2, ListSound DEF NamesSound
<1>5. contexts \in [Query -> C] /\ contexts[q] = c /\ \A s \in Query \ {q} : contexts[s] = u.c[s]
  BY <1>0, <1>1, <1>3
<1>6. ports[q] = port_ /\ \A s \in Socket \ {q} : ports[s] = u.p[s]
  BY <1>1, <1>2 DEF Ports
<1>7. v.p = ports /\ v.n = n /\ v.c = contexts /\ v.r = r /\ v.l = u.l
      /\ v \in [p: Ports, n: Ephemeral, c: [Query -> C], r: [Query -> 0 .. 1], l: Links]
  BY <1>1, <1>2, <1>3, <1>4, <1>5
<1>8. ASSUME NEW s \in Query
      PROVE  v.c[s].active <=> v.p[s] # None
  <2>1. CASE s = q
    <3>1. v.c[s] = c /\ v.p[s] = port_
      BY <1>5, <1>6, <1>7, <2>1
    <3> QED BY <3>1
  <2>2. CASE s # q
    <3>1. v.c[s] = u.c[s] /\ v.p[s] = u.p[s]
      BY <1>5, <1>6, <1>7, <2>2, QueryTypes
    <3>2. u.c[s].active <=> u.p[s] # None
      BY DEF NamesSound
    <3> QED BY <3>1, <3>2
  <2> QED BY <2>1, <2>2
<1>9. \A s \in Query : WaitDoubled(v.c[s].elapsed, v.c[s].timeout, v.c[s].count, DnsRetryMs)
  BY <1>5, <1>7 DEF NamesSound
<1>10. NamesSound(v)
  BY <1>0, <1>4, <1>7, <1>8, <1>9 DEF NamesSound
<1> QED BY <1>6, <1>7, <1>10 DEF Resolves

(***************************************************************************)
(* xNET_DNS_Query_A of a context without a query, whatever it comes to.    *)
(***************************************************************************)
LEMMA AskedSound ==
    ASSUME NEW u, NamesSound(u), addr \in Addresses, NEW q \in Query, u.p[q] = None,
           NEW x \in Asked(u, q)
    PROVE  Resolves(u, x)
<1>0. PICK C : C = [active: BOOLEAN, elapsed: 0 .. LongestQuery,
                    timeout: 0 .. LongestQuery, count: 0 .. DnsRetries]
  OBVIOUS
<1>1. u \in [p: Ports, n: Ephemeral, c: [Query -> C], r: [Query -> 0 .. 1], l: Links]
  BY <1>0 DEF NamesSound
<1>2. CASE ~ HasServer
  BY <1>2 DEF Asked, Resolves
<1>3. CASE HasServer
  <2>0. PICK k \in Skips(u.p, u.n) :
           LET v == [u EXCEPT !.n = After(u.n, k + 1)]
               w == [Sent(v) EXCEPT !.p[q] = After(u.n, k), !.c[q] = NewQuery]
           IN  x = v \/ x = w \/ x = Sent(v)
    BY <1>3 DEF Asked
  <2>1. PICK v, w :
            /\ v = [u EXCEPT !.n = After(u.n, k + 1)]
            /\ w = [Sent(v) EXCEPT !.p[q] = After(u.n, k), !.c[q] = NewQuery]
            /\ x = v \/ x = w \/ x = Sent(v)
    BY <2>0
  <2>2. k \in Nat /\ ~ InUse(u.p, After(u.n, k))
    BY <2>0, StackAssumption DEF Skips, UdpAssumption
  <2>3. After(u.n, k + 1) \in Ephemeral /\ After(u.n, k) \in Ephemeral /\ After(u.n, k) # None
    BY <1>1, <2>2, AfterRange
  <2>4. /\ v \in [p: Ports, n: Ephemeral, c: [Query -> C], r: [Query -> 0 .. 1], l: Links]
        /\ v.p = u.p /\ v.c = u.c /\ v.r = u.r /\ v.l = u.l
    BY <1>1, <2>1, <2>3
  <2>5. NamesSound(v) /\ Resolves(u, v)
    BY <1>0, <2>4 DEF NamesSound, Resolves
  <2>6. PICK y : y = Sent(v)
    OBVIOUS
  <2>7. NamesSound(y) /\ Lost(y.l) = Lost(u.l) /\ y.p = u.p /\ y.c = u.c /\ Resolves(u, y)
    BY <2>4, <2>5, <2>6, SentSound DEF Resolves
  <2>8. y \in [p: Ports, n: Ephemeral, c: [Query -> C], r: [Query -> 0 .. 1], l: Links]
    BY <1>0, <2>7 DEF NamesSound
  <2>9. w = [p |-> [y.p EXCEPT ![q] = After(u.n, k)], n |-> y.n, c |-> [y.c EXCEPT ![q] = NewQuery],
             r |-> y.r, l |-> y.l]
    BY <2>1, <2>6, <2>8
  <2>10. /\ NewQuery \in C /\ NewQuery.active = TRUE
         /\ WaitDoubled(NewQuery.elapsed, NewQuery.timeout, NewQuery.count, DnsRetryMs)
    <3>1. /\ NoQuery \in C /\ NoQuery.elapsed = 0 /\ NoQuery.count = 0
      BY <1>0, QueryTypes DEF NoQuery
    <3>2. NewQuery = [NoQuery EXCEPT !.active = TRUE, !.timeout = DnsRetryMs]
      BY DEF NewQuery
    <3>3. /\ NewQuery \in C /\ NewQuery.active = TRUE /\ NewQuery.elapsed = 0 /\ NewQuery.count = 0
          /\ NewQuery.timeout = DnsRetryMs
      BY <1>0, <3>1, <3>2, QueryTypes
    <3> QED BY <3>3, QueryTypes
  <2>11. Resolves(y, w)
    BY <1>0, <2>2, <2>3, <2>7, <2>8, <2>9, <2>10, SetQuery
  <2>12. Resolves(u, w)
    BY <2>7, <2>11 DEF Resolves
  <2> QED BY <2>1, <2>5, <2>6, <2>7, <2>12
<1> QED BY <1>2, <1>3

(***************************************************************************)
(* A query ends: its socket is closed before on_result may ask again.      *)
(***************************************************************************)
LEMMA FinishedSound ==
    ASSUME NEW u, NamesSound(u), addr \in Addresses, NEW q \in Query, NEW x \in Finished(u, q)
    PROVE  Resolves(u, x)
<1>0. PICK C : C = [active: BOOLEAN, elapsed: 0 .. LongestQuery,
                    timeout: 0 .. LongestQuery, count: 0 .. DnsRetries]
  OBVIOUS
<1>1. u \in [p: Ports, n: Ephemeral, c: [Query -> C], r: [Query -> 0 .. 1], l: Links]
  BY <1>0 DEF NamesSound
<1>2. PICK done : done = [u EXCEPT !.p[q] = None, !.c[q] = NoQuery, !.r[q] = 1 - @]
  OBVIOUS
<1>3. x = done \/ x \in Asked(done, q)
  BY <1>2 DEF Finished
<1>4. PICK r : r = [u.r EXCEPT ![q] = 1 - u.r[q]]
  OBVIOUS
<1>5. r \in [Query -> 0 .. 1]
  <2>1. u.r[q] \in 0 .. 1 /\ u.r \in [Query -> 0 .. 1]
    BY <1>1
  <2>2. 1 - u.r[q] \in 0 .. 1
    BY <2>1
  <2> QED BY <1>4, <2>1, <2>2
<1>6. done = [p |-> [u.p EXCEPT ![q] = None], n |-> u.n, c |-> [u.c EXCEPT ![q] = NoQuery], r |-> r, l |-> u.l]
  BY <1>1, <1>2, <1>4
<1>7. NoQuery \in C /\ NoQuery.active = FALSE
      /\ WaitDoubled(NoQuery.elapsed, NoQuery.timeout, NoQuery.count, DnsRetryMs)
  BY <1>0, QueryTypes DEF NoQuery
<1>8. Resolves(u, done)
  BY <1>0, <1>1, <1>5, <1>6, <1>7, SetQuery
<1>9. done.p[q] = None
  BY <1>1, <1>6, QueryTypes DEF Ports
<1>10. x \in Asked(done, q) => Resolves(done, x)
  BY <1>8, <1>9, AskedSound DEF Resolves
<1> QED BY <1>3, <1>8, <1>10 DEF Resolves

(***************************************************************************)
(* xNET_DNS_Tick of a query that is under way.                             *)
(***************************************************************************)
LEMMA TickedSound ==
    ASSUME NEW u, NamesSound(u), addr \in Addresses, NEW q \in Query, u.c[q].active,
           NEW ms \in Nat, NEW x \in Ticked(u, q, ms)
    PROVE  Resolves(u, x)
<1>0. PICK C : C = [active: BOOLEAN, elapsed: 0 .. LongestQuery,
                    timeout: 0 .. LongestQuery, count: 0 .. DnsRetries]
  OBVIOUS
<1>1. u \in [p: Ports, n: Ephemeral, c: [Query -> C], r: [Query -> 0 .. 1], l: Links] /\ q \in Socket
  BY <1>0, QueryTypes DEF NamesSound
<1>2. PICK d \in C : d = u.c[q]
  BY <1>1
<1>3. u.p[q] # None /\ d.active /\ WaitDoubled(d.elapsed, d.timeout, d.count, DnsRetryMs)
  BY <1>2 DEF NamesSound
\* The context becomes c, and the rest stays.
<1>4. ASSUME NEW c \in C, c.active, WaitDoubled(c.elapsed, c.timeout, c.count, DnsRetryMs),
             NEW v, v = [u EXCEPT !.c[q] = c]
      PROVE  NamesSound(v) /\ Resolves(u, v)
  <2>1. PICK contexts : contexts = [u.c EXCEPT ![q] = c]
    OBVIOUS
  <2>2. contexts \in [Query -> C] /\ contexts[q] = c /\ \A s \in Query \ {q} : contexts[s] = u.c[s]
    BY <1>1, <2>1
  <2>3. v.p = u.p /\ v.n = u.n /\ v.c = contexts /\ v.r = u.r /\ v.l = u.l
        /\ v \in [p: Ports, n: Ephemeral, c: [Query -> C], r: [Query -> 0 .. 1], l: Links]
    BY <1>1, <1>4, <2>1, <2>2
  <2>4. NamesSound(v)
    BY <1>0, <1>3, <1>4, <2>2, <2>3 DEF NamesSound
  <2> QED BY <2>3, <2>4 DEF Resolves
<1>5. CASE d.elapsed + ms < d.timeout
  <2>1. PICK c : c = [d EXCEPT !.elapsed = d.elapsed + ms]
    OBVIOUS
  <2>2. x = [u EXCEPT !.c[q] = c]
    BY <1>1, <1>2, <1>5, <2>1 DEF Ticked
  <2>3. d.elapsed + ms \in 0 .. LongestQuery /\ d.elapsed + ms <= d.timeout
    BY <1>0, <1>5, QueryTypes
  <2>4. c \in C /\ c.active /\ WaitDoubled(c.elapsed, c.timeout, c.count, DnsRetryMs)
    BY <1>0, <1>3, <2>1, <2>3 DEF WaitDoubled
  <2> QED BY <1>4, <2>2, <2>4
<1>6. CASE ~ (d.elapsed + ms < d.timeout) /\ d.count < DnsRetries
  <2>1. PICK c : c = [d EXCEPT !.count = d.count + 1, !.timeout = d.timeout * 2, !.elapsed = 0]
    OBVIOUS
  <2>2. PICK v : v = [u EXCEPT !.c[q] = c]
    OBVIOUS
  <2>3. x = Sent(v)
    BY <1>1, <1>2, <1>6, <2>1, <2>2 DEF Ticked, Again
  <2>4. /\ d.count \in 0 .. DnsRetries /\ d.timeout \in Nat /\ d.elapsed \in Nat
        /\ DnsRetryMs \in Nat /\ DnsRetries \in Nat /\ d.count < DnsRetries
    BY <1>0, <1>6, QueryTypes
  <2>5. d.timeout * 2 \in 0 .. LongestQuery /\ WaitDoubled(0, d.timeout * 2, d.count + 1, DnsRetryMs)
    BY <1>3, <2>4, NextWait DEF LongestQuery
  <2>6. d.count + 1 \in 0 .. DnsRetries
    BY <2>4
  <2>7. /\ c \in C /\ c.active /\ c.elapsed = 0 /\ c.timeout = d.timeout * 2 /\ c.count = d.count + 1
    BY <1>0, <1>3, <2>1, <2>5, <2>6, QueryTypes
  <2>8. NamesSound(v) /\ Resolves(u, v)
    BY <1>4, <2>2, <2>5, <2>7
  <2>9. Resolves(v, x)
    BY <2>3, <2>8, SentSound
  <2> QED BY <2>8, <2>9 DEF Resolves
<1>7. CASE ~ (d.elapsed + ms < d.timeout) /\ ~ (d.count < DnsRetries)
  <2>1. x \in Finished(u, q)
    BY <1>2, <1>7 DEF Ticked
  <2> QED BY <2>1, FinishedSound
<1> QED BY <1>5, <1>6, <1>7

-----------------------------------------------------------------------------
(* The steps of the link.                                                  *)

(***************************************************************************)
(* A frame or datagram in or out, a retransmission and a new static        *)
(* address keep the link sound and lose no buffer.                         *)
(***************************************************************************)
LinkKept ==
    /\ PoolSound(link', addr'.ip) /\ addr' \in Addresses
    /\ Lost(link') \subseteq Lost(link)

LEMMA ArpInSound ==
    ASSUME PoolSound(link, addr.ip), addr \in Addresses, NEW h \in Host, ArpIn(h)
    PROVE  LinkKept
<1>1. PICK b : b = FirstFree(link)
  OBVIOUS
<1>2. PICK k : k = Take(link, b)
  OBVIOUS
<1>3. PoolSound(k, addr.ip) /\ Lost(k) = Lost(link) \cup {b} /\ b \notin Lost(link)
  BY <1>1, <1>2, TakeSound DEF ArpIn, Arrives
<1>4. PoolSound(Learn(k, h), addr.ip) /\ Lost(Learn(k, h)) = Lost(k)
  BY <1>3, LearnSound
<1>5. link' = Release(Learn(k, h), b) /\ addr' = addr
  BY <1>1, <1>2 DEF ArpIn
<1> QED BY <1>3, <1>4, <1>5, ReleaseSound DEF LinkKept

LEMMA EchoInSound ==
    ASSUME PoolSound(link, addr.ip), addr \in Addresses, NEW h \in Host, EchoIn(h)
    PROVE  LinkKept
<1>1. link' = UdpSend(link, addr, h) /\ addr' = addr
  BY DEF EchoIn, UdpSend, Accepted, Arrives
<1> QED BY <1>1, UdpSendSound DEF LinkKept

LEMMA AppSendSound ==
    ASSUME PoolSound(link, addr.ip), addr \in Addresses, NEW h \in Host, AppSend(h)
    PROVE  LinkKept
<1>1. link' = UdpSend(link, addr, h) /\ addr' = addr
  BY DEF AppSend
<1> QED BY <1>1, UdpSendSound DEF LinkKept

LEMMA RetransmitSound ==
    ASSUME PoolSound(link, addr.ip), addr \in Addresses, Retransmit
    PROVE  LinkKept
<1>1. PICK arp : arp = [s \in Slot |-> IF s \in Pending(link) THEN [link.arp[s] EXCEPT !.resend = FALSE]
                                     ELSE link.arp[s]]
  OBVIOUS
<1>2. link.arp \in [Slot -> Entry] /\ link \in Links
  BY DEF PoolSound, Links
<1>3. ASSUME NEW s \in Slot
      PROVE  /\ arp[s] \in Entry /\ arp[s].state = link.arp[s].state /\ arp[s].ip = link.arp[s].ip
             /\ arp[s].parked = link.arp[s].parked /\ arp[s].src = link.arp[s].src
  <2>1. link.arp[s] \in Entry
    BY <1>2
  <2>2. arp[s] = link.arp[s] \/ arp[s] = [link.arp[s] EXCEPT !.resend = FALSE]
    BY <1>1
  <2> QED BY <2>1, <2>2 DEF Entry
<1>4. link' = [link EXCEPT !.arp = arp] /\ addr' = addr
  BY <1>1 DEF Retransmit
<1>5. arp \in [Slot -> Entry]
  BY <1>1, <1>3
<1>6. link'.pool = link.pool /\ link'.arp = arp /\ link' \in Links
  BY <1>2, <1>4, <1>5 DEF Links
<1>7. PoolSound(link', addr'.ip)
  BY <1>3, <1>4, <1>6 DEF PoolSound
<1>8. Parked(link') = Parked(link)
  BY <1>3, <1>6 DEF Parked
<1> QED BY <1>4, <1>6, <1>7, <1>8 DEF LinkKept, Lost

LEMMA ConfigStaticSound ==
    ASSUME PoolSound(link, addr.ip), addr \in Addresses, NEW a \in Own, ConfigStatic(a)
    PROVE  LinkKept
<1>1. /\ link' = [pool |-> link.pool \ Parked(link), arp |-> EmptyCache]
      /\ addr' = [ip |-> a, gateway |-> Gateway, dns |-> None]
  BY DEF ConfigStatic, Static
<1>2. link' \in Links /\ link'.arp = EmptyCache /\ link'.pool = link.pool \ Parked(link)
  BY <1>1, FreeIsEntry DEF Links, PoolSound
<1>3. PoolSound(link', addr'.ip) /\ Parked(link') = {}
  BY <1>2, EmptyIsSound
<1>4. addr' \in Addresses
  BY <1>1 DEF Addresses
<1> QED BY <1>2, <1>3, <1>4 DEF LinkKept, Lost

LEMMA TrafficSound ==
    ASSUME PoolSound(link, addr.ip), addr \in Addresses, use \in Uses, Traffic \/ SetAddress
    PROVE  LinkKept /\ (addr' = addr \/ ~ dhcp.active)
<1>1. Peers[use] \subseteq Host
  BY StackAssumption
<1>2. ASSUME NEW h \in Peers[use], ArpIn(h) \/ EchoIn(h) \/ AppSend(h)
      PROVE  LinkKept /\ addr' = addr
  BY <1>1, <1>2, ArpInSound, EchoInSound, AppSendSound DEF ArpIn, EchoIn, AppSend
<1>3. CASE Retransmit
  BY <1>3, RetransmitSound DEF Retransmit
<1>4. ASSUME NEW a \in Own, ~ dhcp.active, ConfigStatic(a)
      PROVE  LinkKept
  BY <1>4, ConfigStaticSound
<1> QED BY <1>2, <1>3, <1>4 DEF Traffic, SetAddress

-----------------------------------------------------------------------------
(* The invariant, in the words of the handlers.                            *)

LEMMA AccountedIsSound ==
    ASSUME StateAccounted
    PROVE  WorldSound(World) /\ NamesSound(Names) /\ addr \in Addresses /\ dhcp \in Context
<1>1. /\ link \in Links /\ addr \in Addresses /\ dhcp \in Context /\ port \in Ports
      /\ next_ephemeral \in Ephemeral
      /\ dns \in [Query -> [active: BOOLEAN, elapsed: 0 .. LongestQuery,
                           timeout: 0 .. LongestQuery, count: 0 .. DnsRetries]]
      /\ called \in [Query -> 0 .. 1]
  BY DEF StateAccounted, TypeOK, LinkTypeOK, UdpTypeOK, DhcpTypeOK, DnsTypeOK, Links, Addresses, Ports
<1>2. PoolSound(link, addr.ip)
  BY <1>1 DEF StateAccounted, PacketsAccounted, PoolSound, Parked
<1>3. WorldSound(World)
  BY <1>1, <1>2 DEF WorldSound, World, StateAccounted, ClientWaits
<1>4. NamesSound(Names)
  BY <1>1, <1>2 DEF NamesSound, Names, StateAccounted, PortsDistinct, Distinct, QueriesListening, QueriesWait
<1> QED BY <1>1, <1>3, <1>4

LEMMA SoundIsAccounted ==
    ASSUME use \in Uses, WorldSound(World), NamesSound(Names), ClientListening
    PROVE  StateAccounted
<1>1. World.l = link /\ World.a = addr /\ World.d = dhcp
  BY DEF World
<1>2. /\ link \in Links /\ addr \in Addresses /\ dhcp \in Context /\ PoolSound(link, addr.ip)
      /\ WaitDoubled(dhcp.retry_elapsed, dhcp.timeout, dhcp.count, DhcpRetryMs)
  BY <1>1 DEF WorldSound
<1>3. Names.p = port /\ Names.n = next_ephemeral /\ Names.c = dns /\ Names.r = called
  BY DEF Names
<1>4. /\ port \in Ports /\ next_ephemeral \in Ephemeral /\ Distinct(port)
      /\ dns \in [Query -> [active: BOOLEAN, elapsed: 0 .. LongestQuery,
                           timeout: 0 .. LongestQuery, count: 0 .. DnsRetries]]
      /\ called \in [Query -> 0 .. 1]
  BY <1>3 DEF NamesSound
<1>5. QueriesListening /\ QueriesWait
  BY <1>3 DEF NamesSound, QueriesListening, QueriesWait
<1>6. TypeOK
  BY <1>2, <1>4 DEF TypeOK, LinkTypeOK, UdpTypeOK, DhcpTypeOK, DnsTypeOK, Links, Addresses, Ports
<1>7. PacketsAccounted
  BY <1>2 DEF PacketsAccounted, PoolSound, Parked
<1> QED BY <1>2, <1>4, <1>5, <1>6, <1>7 DEF StateAccounted, ClientWaits, PortsDistinct, Distinct

LEMMA SoundNext ==
    (use \in Uses /\ WorldSound(World) /\ NamesSound(Names) /\ ClientListening)' => StateAccounted'
<1>1. use \in Uses /\ WorldSound(World) /\ NamesSound(Names) /\ ClientListening => StateAccounted
  BY SoundIsAccounted
<1> QED BY <1>1, PTL

LEMMA NamesNext ==
    ASSUME NamesSound(Names), UNCHANGED <<udpVars, dnsVars>>, PoolSound(link', addr'.ip)
    PROVE  NamesSound(Names)'
<1>1. link' \in Links
  BY DEF PoolSound
<1>2. /\ Names' = [Names EXCEPT !.l = link']
      /\ Names'.p = Names.p /\ Names'.n = Names.n /\ Names'.c = Names.c /\ Names'.r = Names.r
      /\ Names'.l = link'
  BY DEF Names, udpVars, dnsVars
<1>3. PICK C : C = [Query -> [active: BOOLEAN, elapsed: 0 .. LongestQuery,
                              timeout: 0 .. LongestQuery, count: 0 .. DnsRetries]]
  OBVIOUS
<1>4. Names \in [p: Ports, n: Ephemeral, c: C, r: [Query -> 0 .. 1], l: Links]
  BY <1>3 DEF NamesSound
<1>5. Names' \in [p: Ports, n: Ephemeral, c: C, r: [Query -> 0 .. 1], l: Links]
  BY <1>1, <1>2, <1>4
<1> QED BY <1>2, <1>3, <1>5 DEF NamesSound

\* The client's socket is opened or closed.
LEMMA SetClientPort ==
    ASSUME NamesSound(Names), PoolSound(link', addr'.ip), UNCHANGED <<next_ephemeral, dnsVars>>,
           NEW p \in {None, DhcpPort}, p = None \/ ~ InUse(port, p),
           NEW s \in Socket \ Query, port' = [port EXCEPT ![s] = p]
    PROVE  NamesSound(Names)' /\ port'[s] = p /\ \A t \in Socket \ {s} : port'[t] = port[t]
<1>1. link' \in Links
  BY DEF PoolSound
<1>2. PICK C : C = [Query -> [active: BOOLEAN, elapsed: 0 .. LongestQuery,
                              timeout: 0 .. LongestQuery, count: 0 .. DnsRetries]]
  OBVIOUS
<1>3. /\ Names \in [p: Ports, n: Ephemeral, c: C, r: [Query -> 0 .. 1], l: Links]
      /\ Names.p = port /\ Names.n = next_ephemeral /\ Names.c = dns /\ Names.r = called
  BY <1>2 DEF NamesSound, Names
<1>4. port \in Ports /\ Distinct(port)
  BY <1>3 DEF NamesSound
<1>5. port' \in Ports /\ Distinct(port')
  BY <1>4, ListSound
<1>6. port'[s] = p /\ \A t \in Socket \ {s} : port'[t] = port[t]
  BY <1>4 DEF Ports
<1>7. /\ Names' = [p |-> port', n |-> next_ephemeral, c |-> dns, r |-> called, l |-> link']
      /\ Names'.p = port' /\ Names'.n = next_ephemeral /\ Names'.c = dns /\ Names'.r = called /\ Names'.l = link'
  BY DEF Names, dnsVars
<1>8. Names' \in [p: Ports, n: Ephemeral, c: C, r: [Query -> 0 .. 1], l: Links]
  BY <1>1, <1>3, <1>5, <1>7
<1>9. \A q \in Query : dns[q].active <=> port'[q] # None
  BY <1>3, <1>6, QueryTypes DEF NamesSound
<1>10. NamesSound(Names)'
  BY <1>2, <1>3, <1>5, <1>7, <1>8, <1>9 DEF NamesSound
<1> QED BY <1>6, <1>10

LEMMA ClosedNames ==
    ASSUME NamesSound(Names), PoolSound(link', addr'.ip), UNCHANGED dnsVars, Close(DhcpSocket),
           ~ dhcp'.active
    PROVE  NamesSound(Names)' /\ ClientListening'
<1>1. DhcpSocket \in Socket \ Query
  BY StackAssumption DEF DhcpAssumption
<1> QED BY <1>1, SetClientPort DEF Close, ClientListening

(***************************************************************************)
(* What every step keeps: the invariant, every buffer unless the client    *)
(* clears the cache for a lease, and the lease.                            *)
(***************************************************************************)
NoLoss == Lost(link') \subseteq Lost(link) \/ ClearsForLease
LeaseKept == LeaseSound(World) => LeaseSound(World') /\ Serves(World, World')
Kept == StateAccounted' /\ NoLoss /\ LeaseKept

LEMMA TrafficStep ==
    ASSUME StateAccounted, use' = use, Traffic \/ SetAddress, UNCHANGED <<udpVars, dhcp, dnsVars>>
    PROVE  Kept
<1>1. WorldSound(World) /\ NamesSound(Names) /\ addr \in Addresses /\ dhcp \in Context
  BY AccountedIsSound
<1>2. PoolSound(link, addr.ip) /\ use \in Uses /\ ClientListening
  BY <1>1 DEF WorldSound, World, StateAccounted, TypeOK
<1>3. LinkKept /\ (addr' = addr \/ ~ dhcp.active)
  BY <1>1, <1>2, TrafficSound
<1>4. World'.d = dhcp /\ World'.l = link' /\ World'.a = addr' /\ World.d = dhcp /\ World.a = addr
      /\ World' = [d |-> dhcp, l |-> link', a |-> addr']
  BY DEF World
<1>5. WorldSound(World')
  BY <1>1, <1>3, <1>4 DEF WorldSound, LinkKept, PoolSound
<1>6. NamesSound(Names)'
  BY <1>1, <1>3, NamesNext DEF LinkKept
<1>7. ClientListening'
  BY <1>2 DEF ClientListening, udpVars
<1>8. StateAccounted'
  BY <1>2, <1>5, <1>6, <1>7, SoundNext
<1>9. LeaseKept
  BY <1>3, <1>4 DEF LeaseKept, LeaseSound, Serves, Unmoved, HeldBy, LeftTo, Asks
<1> QED BY <1>3, <1>8, <1>9 DEF Kept, NoLoss, LinkKept

LEMMA TickStep ==
    ASSUME StateAccounted, use' = use, Tick, UNCHANGED dnsVars
    PROVE  Kept
<1>1. WorldSound(World) /\ NamesSound(Names) /\ addr \in Addresses /\ dhcp \in Context
  BY AccountedIsSound
<1>2. PICK ms \in Elapsed : NetTick(ms)
  BY DEF Tick
<1>3. PICK w : w = [World EXCEPT !.l = ArpTick(World.l, ms)]
  OBVIOUS
<1>4. ms \in Nat /\ use \in Uses /\ ClientListening
  BY StackAssumption DEF StateAccounted, TypeOK
<1>5. /\ World \in [d: Context, l: Links, a: Addresses] /\ World.d = dhcp /\ World.l = link /\ World.a = addr
  BY <1>1 DEF World, WorldSound
<1>6. PoolSound(ArpTick(link, ms), addr.ip) /\ Lost(ArpTick(link, ms)) = Lost(link)
  BY <1>1, <1>4, <1>5, ArpTickSound DEF WorldSound
<1>7. w.d = dhcp /\ w.l = ArpTick(link, ms) /\ w.a = addr /\ w \in [d: Context, l: Links, a: Addresses]
  BY <1>3, <1>5, <1>6 DEF PoolSound
<1>8. WorldSound(w)
  BY <1>1, <1>5, <1>6, <1>7 DEF WorldSound
<1>9. PICK v : v = TickClient(w, ms)
  OBVIOUS
<1>10. /\ Handled(w, v) /\ (v.d.active => w.d.active)
       /\ LeaseSound(w) => LeaseSound(v) /\ Serves(w, v)
  BY <1>8, <1>9, TickClientSound
<1>11. dhcp' = v.d /\ link' = v.l /\ addr' = v.a
  BY <1>2, <1>3, <1>9 DEF NetTick, Becomes
<1>12. World' = v
  <2>1. v \in [d: Context, l: Links, a: Addresses]
    BY <1>10 DEF Handled, WorldSound
  <2> QED BY <1>11, <2>1 DEF World
<1>13. WorldSound(World') /\ PoolSound(link', addr'.ip)
  BY <1>10, <1>11, <1>12 DEF Handled, WorldSound
<1>14. NamesSound(Names)' /\ ClientListening'
  <2>1. CASE ~ (dhcp.active /\ ~ dhcp'.active)
    <3>1. UNCHANGED udpVars
      BY <1>2, <2>1 DEF NetTick
    <3>2. NamesSound(Names)'
      BY <1>1, <1>13, <3>1, NamesNext
    <3>3. dhcp'.active <=> dhcp.active
      BY <1>7, <1>10, <1>11, <2>1
    <3>4. ClientListening'
      BY <1>4, <3>1, <3>3 DEF ClientListening, udpVars
    <3> QED BY <3>2, <3>4
  <2>2. CASE dhcp.active /\ ~ dhcp'.active
    <3>1. Close(DhcpSocket)
      BY <1>2, <2>2 DEF NetTick
    <3> QED BY <1>1, <1>13, <2>2, <3>1, ClosedNames
  <2> QED BY <2>1, <2>2
<1>16. StateAccounted'
  BY <1>4, <1>13, <1>14, SoundNext
<1>17. NoLoss
  BY <1>6, <1>7, <1>10, <1>11 DEF NoLoss, Handled, ClearsForLease
<1>18. LeaseKept
  <2>1. LeaseSound(World) => LeaseSound(w)
    BY <1>5, <1>7 DEF LeaseSound
  <2>2. Serves(w, v) => Serves(World, v)
    BY <1>5, <1>7 DEF Serves, Granted, Passed, Lapsed, Unmoved, HeldBy, LeftTo, Asks
  <2> QED BY <1>10, <1>12, <2>1, <2>2 DEF LeaseKept
<1> QED BY <1>16, <1>17, <1>18 DEF Kept

(***************************************************************************)
(* An application opens or closes its socket.                              *)
(***************************************************************************)
LEMMA AppStep ==
    ASSUME StateAccounted, use' = use, AppOpen \/ AppClose, UNCHANGED <<dhcp, dnsVars>>
    PROVE  Kept
<1>1. WorldSound(World) /\ NamesSound(Names) /\ addr \in Addresses /\ dhcp \in Context
  BY AccountedIsSound
<1>2. UNCHANGED <<link, addr, dhcp>>
  BY DEF AppOpen, AppClose, linkVars
<1>3. World' = World /\ PoolSound(link', addr'.ip)
  BY <1>1, <1>2 DEF World, WorldSound
<1>4. /\ AppSocket \in Socket \ Query /\ AppSocket # DhcpSocket /\ DhcpSocket \in Socket
      /\ use \in Uses /\ ClientListening
  BY StackAssumption DEF StateAccounted, TypeOK, DhcpAssumption
<1>5. /\ port \in Ports /\ next_ephemeral \in Ephemeral /\ Names.p = port /\ Distinct(port)
      /\ Names.n = next_ephemeral
  BY <1>1 DEF NamesSound, Names
<1>6. PICK p \in {None, DhcpPort} \cup Ephemeral :
         /\ p = None \/ ~ InUse(port, p)
         /\ port' = [port EXCEPT ![AppSocket] = p] /\ next_ephemeral' \in Ephemeral
  <2>1. CASE AppClose
    BY <1>5, <2>1 DEF AppClose, Close
  <2>2. CASE AppOpen /\ use = "lease"
    BY <1>5, <2>2 DEF AppOpen, OpenAt
  <2>3. CASE AppOpen /\ use # "lease"
    <3>1. PICK k \in Skips(port, next_ephemeral) :
             /\ port' = [port EXCEPT ![AppSocket] = After(next_ephemeral, k)]
             /\ next_ephemeral' = After(next_ephemeral, k + 1)
      BY <2>3 DEF AppOpen, OpenEphemeral
    <3>2. k \in Nat /\ ~ InUse(port, After(next_ephemeral, k))
      BY <3>1, StackAssumption DEF Skips, UdpAssumption
    <3>3. After(next_ephemeral, k) \in Ephemeral /\ After(next_ephemeral, k + 1) \in Ephemeral
      BY <1>5, <3>2, AfterRange
    <3> QED BY <3>1, <3>2, <3>3
  <2> QED BY <2>1, <2>2, <2>3
<1>7. port' \in Ports /\ Distinct(port')
  BY <1>4, <1>5, <1>6, ListSound
<1>8. \A s \in Socket \ {AppSocket} : port'[s] = port[s]
  BY <1>5, <1>6 DEF Ports
<1>9. NamesSound(Names)'
  <2>1. PICK C : C = [Query -> [active: BOOLEAN, elapsed: 0 .. LongestQuery,
                                timeout: 0 .. LongestQuery, count: 0 .. DnsRetries]]
    OBVIOUS
  <2>2. /\ Names \in [p: Ports, n: Ephemeral, c: C, r: [Query -> 0 .. 1], l: Links]
        /\ Names.p = port /\ Names.c = dns /\ Names.r = called /\ Names.l = link
    BY <1>1, <2>1 DEF NamesSound, Names
  <2>3. /\ Names' = [p |-> port', n |-> next_ephemeral', c |-> dns, r |-> called, l |-> link]
        /\ Names'.p = port' /\ Names'.n = next_ephemeral' /\ Names'.c = dns /\ Names'.l = link
    BY <1>2 DEF Names, dnsVars
  <2>4. Names' \in [p: Ports, n: Ephemeral, c: C, r: [Query -> 0 .. 1], l: Links]
    BY <1>6, <1>7, <2>2, <2>3
  <2>5. \A q \in Query : dns[q].active <=> port'[q] # None
    BY <1>1, <1>4, <1>8, <2>2, QueryTypes DEF NamesSound
  <2>6. \A q \in Query : WaitDoubled(dns[q].elapsed, dns[q].timeout, dns[q].count, DnsRetryMs)
    BY <1>1, <2>2 DEF NamesSound
  <2>7. PoolSound(link, addr'.ip)
    BY <1>2, <1>3
  <2> QED BY <1>7, <2>1, <2>3, <2>4, <2>5, <2>6, <2>7 DEF NamesSound
<1>10. ClientListening'
  BY <1>2, <1>4, <1>8 DEF ClientListening
<1>11. StateAccounted'
  BY <1>1, <1>3, <1>4, <1>9, <1>10, SoundNext
<1> QED BY <1>2, <1>3, <1>11 DEF Kept, NoLoss, LeaseKept, Serves, Unmoved

(***************************************************************************)
(* The calls that start and stop the client.                               *)
(***************************************************************************)
LEMMA DhcpStartStep ==
    ASSUME StateAccounted, use' = use, DhcpStart, UNCHANGED dnsVars
    PROVE  Kept
<1>1. WorldSound(World) /\ NamesSound(Names) /\ addr \in Addresses /\ dhcp \in Context
  BY AccountedIsSound
<1>2. /\ use \in Uses /\ ClientListening /\ ~ dhcp.active /\ DhcpSocket \in Socket \ Query
      /\ None \notin Nat /\ DhcpPort \in Nat
  BY StackAssumption DEF StateAccounted, TypeOK, ClientListening, DhcpStart, DhcpAssumption, UdpAssumption
<1>3. PICK fresh : fresh = [Idle EXCEPT !.active = TRUE, !.timeout = DhcpRetryMs]
  OBVIOUS
<1>4. /\ fresh \in Context /\ fresh.active = TRUE /\ fresh.state = "INIT"
      /\ WaitDoubled(fresh.retry_elapsed, fresh.timeout, fresh.count, DhcpRetryMs)
  <2>1. DhcpRetryMs \in Nat /\ DhcpRetries \in Nat /\ Word \in Nat /\ Word > 0
    BY StackAssumption DEF DhcpAssumption
  <2>6. LongestWait \in Nat
    <3>1. Doubled[DhcpRetries] \in Nat
      BY <2>1, DoubledValues
    <3> QED BY <2>1, <3>1 DEF LongestWait
  <2>2. DhcpRetryMs \in 0 .. LongestWait /\ WaitDoubled(0, DhcpRetryMs, 0, DhcpRetryMs)
    BY <2>1, FirstWait DEF LongestWait
  <2>3. 0 \in 0 .. LongestWait /\ 0 \in 0 .. DhcpRetries /\ 0 \in 0 .. Word - 1
    BY <2>1, <2>6
  <2>4. fresh = [state |-> "INIT", active |-> TRUE, server |-> None,
                 lease |-> 0, t1 |-> 0, t2 |-> 0, elapsed |-> 0,
                 retry_elapsed |-> 0, timeout |-> DhcpRetryMs, count |-> 0]
    BY <1>3 DEF Idle
  <2> QED BY <2>2, <2>3, <2>4 DEF Context
<1>5. World \in [d: Context, l: Links, a: Addresses] /\ World.d = dhcp /\ World.l = link /\ World.a = addr
  BY <1>1 DEF World, WorldSound
<1>6. CASE OpenAt(DhcpSocket, DhcpPort) /\ Becomes(Enter(DropAddress([World EXCEPT !.d = fresh]), "SELECTING"))
  <2>1. PICK w : w = [World EXCEPT !.d = fresh]
    OBVIOUS
  <2>2. w \in [d: Context, l: Links, a: Addresses] /\ w.d = fresh /\ w.l = link /\ w.a = addr
    BY <1>4, <1>5, <2>1
  <2>3. WorldSound(w)
    BY <1>1, <1>4, <1>5, <2>2 DEF WorldSound
  <2>4. PICK v : v = Enter(DropAddress(w), "SELECTING")
    OBVIOUS
  <2>5. /\ WorldSound(v) /\ v.l.arp = EmptyCache /\ v.d.state = "SELECTING" /\ v.d.active = TRUE
        /\ LeaseSound(v) /\ Lapsed(w, v)
    BY <1>4, <2>2, <2>3, <2>4, StartOverSound
  <2>6. dhcp' = v.d /\ link' = v.l /\ addr' = v.a
    BY <1>6, <2>1, <2>4 DEF Becomes
  <2>7. World' = v
    <3>1. v \in [d: Context, l: Links, a: Addresses]
      BY <2>5 DEF WorldSound
    <3> QED BY <2>6, <3>1 DEF World
  <2>8. PoolSound(link', addr'.ip)
    BY <2>5, <2>6 DEF WorldSound
  <2>9. /\ NamesSound(Names)' /\ port'[DhcpSocket] = DhcpPort
    BY <1>1, <1>2, <1>6, <2>8, SetClientPort DEF OpenAt
  <2>10. ClientListening'
    BY <1>2, <2>5, <2>6, <2>9 DEF ClientListening
  <2>11. StateAccounted'
    BY <1>2, <2>5, <2>7, <2>9, <2>10, SoundNext
  <2>12. NoLoss
    BY <1>2, <1>4, <2>5, <2>6 DEF NoLoss, ClearsForLease
  <2>13. LeaseKept
    BY <2>5, <2>7 DEF LeaseKept, Serves, Lapsed
  <2> QED BY <2>11, <2>12, <2>13 DEF Kept
<1>7. CASE Becomes([World EXCEPT !.d = [fresh EXCEPT !.active = FALSE]]) /\ UNCHANGED udpVars
  <2>1. PICK d : d = [fresh EXCEPT !.active = FALSE]
    OBVIOUS
  <2>2. /\ d \in Context /\ d.active = FALSE
        /\ WaitDoubled(d.retry_elapsed, d.timeout, d.count, DhcpRetryMs)
    BY <1>4, <2>1 DEF Context
  <2>3. PICK v : v = [World EXCEPT !.d = d]
    OBVIOUS
  <2>4. v \in [d: Context, l: Links, a: Addresses] /\ v.d = d /\ v.l = link /\ v.a = addr
    BY <1>5, <2>2, <2>3
  <2>5. WorldSound(v)
    BY <1>1, <1>5, <2>2, <2>4 DEF WorldSound
  <2>6. dhcp' = v.d /\ link' = v.l /\ addr' = v.a
    BY <1>7, <2>1, <2>3 DEF Becomes
  <2>7. World' = v
    BY <2>4, <2>6 DEF World
  <2>8. NamesSound(Names)'
    BY <1>1, <1>7, <2>5, <2>6, NamesNext DEF WorldSound
  <2>9. ClientListening'
    BY <1>2, <1>7, <2>2, <2>4, <2>6 DEF ClientListening, udpVars
  <2>10. StateAccounted'
    BY <1>2, <2>5, <2>7, <2>8, <2>9, SoundNext
  <2>11. LeaseKept
    BY <1>2, <1>5, <2>2, <2>4, <2>7 DEF LeaseKept, LeaseSound, Serves, Unmoved, HeldBy, LeftTo, Asks
  <2> QED BY <2>4, <2>6, <2>10, <2>11 DEF Kept, NoLoss
<1> QED BY <1>3, <1>6, <1>7 DEF DhcpStart

LEMMA DhcpStopStep ==
    ASSUME StateAccounted, use' = use, DhcpStop, UNCHANGED dnsVars
    PROVE  Kept
<1>1. WorldSound(World) /\ NamesSound(Names) /\ addr \in Addresses /\ dhcp \in Context
  BY AccountedIsSound
<1>2. use \in Uses
  BY DEF StateAccounted, TypeOK
<1>3. /\ dhcp' = [dhcp EXCEPT !.active = FALSE, !.state = "FAILED"] /\ link' = link /\ addr' = addr
      /\ Close(DhcpSocket)
  BY DEF DhcpStop, linkVars
<1>4. /\ dhcp' \in Context /\ dhcp'.active = FALSE /\ dhcp'.retry_elapsed = dhcp.retry_elapsed
      /\ dhcp'.timeout = dhcp.timeout /\ dhcp'.count = dhcp.count
  BY <1>1, <1>3 DEF Context
<1>5. /\ World.d = dhcp /\ World.l = link /\ World.a = addr
      /\ World'.d = dhcp' /\ World'.l = link /\ World'.a = addr
      /\ World' = [d |-> dhcp', l |-> link, a |-> addr]
  BY <1>3 DEF World
<1>6. WorldSound(World') /\ PoolSound(link', addr'.ip)
  BY <1>1, <1>3, <1>4, <1>5 DEF WorldSound, PoolSound
<1>7. NamesSound(Names)' /\ ClientListening'
  BY <1>1, <1>3, <1>4, <1>6, ClosedNames
<1>8. StateAccounted'
  BY <1>2, <1>6, <1>7, SoundNext
<1>9. LeaseKept
  BY <1>4, <1>5 DEF LeaseKept, LeaseSound, Serves, Lapsed, HeldBy, LeftTo, Asks
<1> QED BY <1>3, <1>8, <1>9 DEF Kept, NoLoss

(***************************************************************************)
(* A reply of a server: its buffer is held while the handler runs, and     *)
(* released when the handler has not forgotten the cache.                  *)
(***************************************************************************)
Hearing(server) == Heard([World EXCEPT !.l = Take(@, FirstFree(link))], server)

LEMMA HearingSound ==
    ASSUME StateAccounted, dhcp.active, ~ Full(link), NEW server \in Server
    PROVE  /\ WorldSound(Hearing(server)) /\ Hearing(server).d.active
           /\ Hearing(server).l = Take(link, FirstFree(link)) /\ Hearing(server).a = addr
           /\ \E d \in Context : /\ Hearing(server).d = d /\ d.state = dhcp.state
                                 /\ d.lease = dhcp.lease /\ d.elapsed = dhcp.elapsed
<1>1. WorldSound(World) /\ addr \in Addresses /\ dhcp \in Context
  BY AccountedIsSound
<1>2. PICK b : b = FirstFree(link)
  OBVIOUS
<1>3. /\ World \in [d: Context, l: Links, a: Addresses] /\ World.d = dhcp /\ World.l = link /\ World.a = addr
      /\ PoolSound(link, addr.ip)
  BY <1>1 DEF World, WorldSound
<1>4. PoolSound(Take(link, b), addr.ip) /\ Take(link, b) \in Links
  BY <1>2, <1>3, TakeSound DEF PoolSound
<1>5. PICK d : d = [dhcp EXCEPT !.server = server]
  OBVIOUS
<1>6. /\ d \in Context /\ d.state = dhcp.state /\ d.active = dhcp.active /\ d.lease = dhcp.lease
      /\ d.elapsed = dhcp.elapsed /\ d.retry_elapsed = dhcp.retry_elapsed
      /\ d.timeout = dhcp.timeout /\ d.count = dhcp.count
  BY <1>1, <1>5 DEF Context
<1>7. PICK v : v = Hearing(server)
  OBVIOUS
<1>8. v = [d |-> d, l |-> Take(link, b), a |-> addr]
  <2>1. PICK w : w = [World EXCEPT !.l = Take(World.l, b)]
    OBVIOUS
  <2>2. w = [d |-> dhcp, l |-> Take(link, b), a |-> addr]
    BY <1>3, <2>1 DEF World
  <2>3. v = [w EXCEPT !.d.server = server]
    BY <1>2, <1>7, <2>1 DEF Hearing, Heard
  <2> QED BY <1>5, <2>2, <2>3
<1>9. v.d = d /\ v.l = Take(link, b) /\ v.a = addr
  BY <1>8
<1>10. WorldSound(v)
  <2>1. v \in [d: Context, l: Links, a: Addresses]
    BY <1>1, <1>4, <1>6, <1>8
  <2>2. WaitDoubled(d.retry_elapsed, d.timeout, d.count, DhcpRetryMs)
    BY <1>1, <1>3, <1>6 DEF WorldSound
  <2> QED BY <1>4, <1>9, <2>1, <2>2 DEF WorldSound
<1> QED BY <1>2, <1>6, <1>7, <1>9, <1>10

LEMMA RepliedSound ==
    ASSUME StateAccounted, use' = use, UNCHANGED <<udpVars, dnsVars>>, dhcp.active, ~ Full(link),
           NEW server \in Server, NEW v, Handled(Hearing(server), v), v.d.active,
           LeaseSound(Hearing(server)) => LeaseSound(v) /\ Serves(Hearing(server), v),
           Becomes([v EXCEPT !.l = Release(@, FirstFree(link))])
    PROVE  Kept
<1>1. WorldSound(World) /\ NamesSound(Names) /\ addr \in Addresses /\ dhcp \in Context
  BY AccountedIsSound
<1>2. PICK b : b = FirstFree(link)
  OBVIOUS
<1>3. PICK w : w = Hearing(server)
  OBVIOUS
<1>4. /\ w.d.active /\ w.l = Take(link, b) /\ w.a = addr /\ w.d.state = dhcp.state
      /\ w.d.lease = dhcp.lease /\ w.d.elapsed = dhcp.elapsed
  BY <1>2, <1>3, HearingSound
<1>5. /\ World.d = dhcp /\ World.l = link /\ World.a = addr /\ PoolSound(link, addr.ip)
      /\ use \in Uses /\ ClientListening
  BY <1>1 DEF World, WorldSound, StateAccounted, TypeOK
<1>6. b \in Buf /\ b \notin Lost(link) /\ Lost(Take(link, b)) = Lost(link) \cup {b}
  BY <1>2, <1>5, TakeSound
<1>7. v \in [d: Context, l: Links, a: Addresses] /\ PoolSound(v.l, v.a.ip)
  BY DEF Handled, WorldSound
<1>8. /\ dhcp' = v.d /\ addr' = v.a /\ link' = Release(v.l, b)
  BY <1>2, <1>7 DEF Becomes
<1>9. PoolSound(Release(v.l, b), v.a.ip) /\ NoLoss
  <2>1. CASE v.l.arp = EmptyCache /\ v.d.state # w.d.state /\ v.d.state \in {"BOUND", "SELECTING"}
    <3>1. Release(v.l, b) \in Links /\ Release(v.l, b).arp = EmptyCache
      BY <1>7, <2>1 DEF Release, Links
    <3>2. dhcp'.state # dhcp.state /\ dhcp'.state \in {"BOUND", "SELECTING"}
      BY <1>4, <1>8, <2>1
    <3> QED BY <1>8, <3>1, <3>2, EmptyIsSound DEF NoLoss, ClearsForLease
  <2>2. CASE Lost(v.l) = Lost(w.l)
    <3>1. Lost(v.l) = Lost(link) \cup {b}
      BY <1>4, <1>6, <2>2
    <3>2. PoolSound(Release(v.l, b), v.a.ip) /\ Lost(Release(v.l, b)) = Lost(v.l) \ {b}
      BY <1>7, <3>1, ReleaseSound
    <3> QED BY <1>8, <3>1, <3>2 DEF NoLoss
  <2> QED BY <1>3, <2>1, <2>2 DEF Handled
<1>10. World' = [d |-> v.d, l |-> Release(v.l, b), a |-> v.a]
  BY <1>8 DEF World
<1>11. World'.d = v.d /\ World'.l = Release(v.l, b) /\ World'.a = v.a
  BY <1>10
<1>12. WorldSound(World')
  <2>1. Release(v.l, b) \in Links
    BY <1>9 DEF PoolSound
  <2>2. WaitDoubled(v.d.retry_elapsed, v.d.timeout, v.d.count, DhcpRetryMs)
    BY DEF Handled, WorldSound
  <2> QED BY <1>7, <1>9, <1>10, <1>11, <2>1, <2>2 DEF WorldSound
<1>13. NamesSound(Names)' /\ ClientListening'
  <2>1. NamesSound(Names)'
    BY <1>1, <1>8, <1>9, NamesNext
  <2>2. ClientListening'
    BY <1>5, <1>8 DEF ClientListening, udpVars
  <2> QED BY <2>1, <2>2
<1>14. StateAccounted'
  BY <1>5, <1>12, <1>13, SoundNext
<1>15. LeaseKept
  <2>1. LeaseSound(World) => LeaseSound(w)
    BY <1>4, <1>5 DEF LeaseSound
  <2>2. Serves(w, v) => Serves(World, World')
    BY <1>4, <1>5, <1>11 DEF Serves, Granted, Passed, Lapsed, Unmoved, HeldBy, LeftTo, Asks
  <2>3. LeaseSound(v) => LeaseSound(World')
    BY <1>11 DEF LeaseSound
  <2> QED BY <1>3, <2>1, <2>2, <2>3 DEF LeaseKept
<1> QED BY <1>9, <1>14, <1>15 DEF Kept

LEMMA ReplyStep ==
    ASSUME StateAccounted, use' = use, UNCHANGED dnsVars, NEW s \in Server,
           \/ DhcpOffer(s)
           \/ DhcpNak(s)
           \/ \E a \in Own, g \in Grants : DhcpAck(s, a, DnsServer, g)
    PROVE  Kept
<1>1. PICK w : w = Hearing(s)
  OBVIOUS
<1>2. dhcp.active /\ ~ Full(link) /\ UNCHANGED udpVars
  BY DEF DhcpOffer, DhcpNak, DhcpAck, DhcpReply, Delivered, Accepted, Arrives
<1>3. WorldSound(w) /\ w.d.active
  BY <1>1, <1>2, HearingSound
<1>4. CASE DhcpOffer(s)
  <2>1. Becomes([Offer(w) EXCEPT !.l = Release(@, FirstFree(link))])
    BY <1>1, <1>4 DEF DhcpOffer, DhcpReply, Hearing
  <2> QED BY <1>1, <1>2, <1>3, <2>1, OfferSound, RepliedSound
<1>5. CASE DhcpNak(s)
  <2>1. Becomes([Nak(w) EXCEPT !.l = Release(@, FirstFree(link))])
    BY <1>1, <1>5 DEF DhcpNak, DhcpReply, Hearing
  <2> QED BY <1>1, <1>2, <1>3, <2>1, NakSound, RepliedSound
<1>6. ASSUME NEW a \in Own, NEW g \in Grants, DhcpAck(s, a, DnsServer, g)
      PROVE  Kept
  <2>1. Becomes([Ack(w, a, DnsServer, g) EXCEPT !.l = Release(@, FirstFree(link))])
    BY <1>1, <1>6 DEF DhcpAck, DhcpReply, Hearing
  <2>2. DnsServer \in Far
    BY StackAssumption DEF DnsAssumption
  <2> QED BY <1>1, <1>2, <1>3, <2>1, <2>2, AckSound, RepliedSound
<1> QED BY <1>4, <1>5, <1>6

(***************************************************************************)
(* What a query does leaves the client and its socket alone.               *)
(***************************************************************************)
LEMMA LookedUpSound ==
    ASSUME StateAccounted, use' = use, dhcp' = dhcp, NEW v, NamesSound(v), Lost(v.l) = Lost(link),
           \A s \in Socket \ Query : v.p[s] = port[s], BecomesNames(v)
    PROVE  Kept
<1>1. WorldSound(World) /\ addr \in Addresses /\ dhcp \in Context
  BY AccountedIsSound
<1>2. /\ World.d = dhcp /\ World.l = link /\ World.a = addr /\ use \in Uses /\ ClientListening
  BY DEF World, StateAccounted, TypeOK
<1>3. PICK C : C = [Query -> [active: BOOLEAN, elapsed: 0 .. LongestQuery,
                              timeout: 0 .. LongestQuery, count: 0 .. DnsRetries]]
  OBVIOUS
<1>4. /\ v \in [p: Ports, n: Ephemeral, c: C, r: [Query -> 0 .. 1], l: Links]
      /\ PoolSound(v.l, addr.ip)
  BY <1>3 DEF NamesSound
<1>5. /\ port' = v.p /\ next_ephemeral' = v.n /\ dns' = v.c /\ called' = v.r /\ link' = v.l
      /\ addr' = addr
  BY DEF BecomesNames
<1>6. Names' = v
  BY <1>4, <1>5 DEF Names
<1>7. NamesSound(Names)'
  BY <1>5, <1>6 DEF NamesSound
<1>8. /\ World' = [d |-> dhcp, l |-> v.l, a |-> addr]
      /\ World'.d = dhcp /\ World'.l = v.l /\ World'.a = addr
  BY <1>5 DEF World
<1>9. WorldSound(World')
  BY <1>1, <1>2, <1>4, <1>8 DEF WorldSound
<1>10. ClientListening'
  <2>1. DhcpSocket \in Socket \ Query
    BY StackAssumption DEF DhcpAssumption
  <2> QED BY <1>2, <1>5, <2>1 DEF ClientListening
<1>11. StateAccounted'
  BY <1>2, <1>7, <1>9, <1>10, SoundNext
<1>12. LeaseKept
  BY <1>2, <1>8 DEF LeaseKept, LeaseSound, Serves, Unmoved, HeldBy, LeftTo, Asks
<1> QED BY <1>5, <1>11, <1>12 DEF Kept, NoLoss

LEMMA LookupStep ==
    ASSUME StateAccounted, use' = use, dhcp' = dhcp, Lookups
    PROVE  Kept
<1>1. NamesSound(Names) /\ addr \in Addresses
  BY AccountedIsSound
<1>2. PICK C : C = [Query -> [active: BOOLEAN, elapsed: 0 .. LongestQuery,
                              timeout: 0 .. LongestQuery, count: 0 .. DnsRetries]]
  OBVIOUS
<1>3. /\ Names \in [p: Ports, n: Ephemeral, c: C, r: [Query -> 0 .. 1], l: Links]
      /\ Names.p = port /\ Names.c = dns /\ Names.l = link /\ PoolSound(link, addr.ip)
  BY <1>1, <1>2 DEF NamesSound, Names
<1>4. PICK q \in Query : DnsQuery(q) \/ DnsAnswer(q) \/ \E ms \in Elapsed : DnsTick(q, ms)
  BY DEF Lookups
<1>5. ASSUME NEW v, Resolves(Names, v), BecomesNames(v)
      PROVE  Kept
  BY <1>3, <1>5, LookedUpSound DEF Resolves
<1>6. CASE DnsQuery(q)
  <2>1. PICK u \in Asked(Names, q) : BecomesNames(u)
    BY <1>6 DEF DnsQuery
  <2>2. Names.p[q] = None
    BY <1>1, <1>3, <1>6 DEF DnsQuery, NamesSound
  <2>3. Resolves(Names, u)
    BY <1>1, <2>2, AskedSound
  <2> QED BY <1>5, <2>1, <2>3
<1>7. CASE \E ms \in Elapsed : DnsTick(q, ms)
  <2>1. PICK ms \in Elapsed : DnsTick(q, ms)
    BY <1>7
  <2>2. PICK u \in Ticked(Names, q, ms) : BecomesNames(u)
    BY <2>1 DEF DnsTick
  <2>3. ms \in Nat /\ Names.c[q].active
    BY <1>3, <2>1, StackAssumption DEF DnsTick
  <2>4. Resolves(Names, u)
    BY <1>1, <2>2, <2>3, TickedSound
  <2> QED BY <1>5, <2>2, <2>4
<1>8. CASE DnsAnswer(q)
  <2>1. PICK b : b = FirstFree(link)
    OBVIOUS
  <2>2. PICK w : w = [Names EXCEPT !.l = Take(Names.l, b)]
    OBVIOUS
  <2>3. PICK u \in Finished(w, q) : BecomesNames([u EXCEPT !.l = Release(u.l, b)])
    BY <1>8, <2>1, <2>2 DEF DnsAnswer
  <2>4. /\ PoolSound(Take(link, b), addr.ip) /\ Lost(Take(link, b)) = Lost(link) \cup {b}
        /\ b \notin Lost(link) /\ Take(link, b) \in Links
    <3>1. PoolSound(link, addr.ip) /\ ~Full(link)
      BY <1>3, <1>8 DEF DnsAnswer, Delivered, Accepted, Arrives
    <3>2. PoolSound(Take(link, b), addr.ip) /\ Lost(Take(link, b)) = Lost(link) \cup {b} /\ b \notin Lost(link)
      BY <2>1, <3>1, TakeSound
    <3> QED BY <3>2 DEF PoolSound
  <2>5. /\ w \in [p: Ports, n: Ephemeral, c: C, r: [Query -> 0 .. 1], l: Links]
        /\ w.p = Names.p /\ w.n = Names.n /\ w.c = Names.c /\ w.r = Names.r /\ w.l = Take(link, b)
    BY <1>3, <2>2, <2>4
  <2>6. NamesSound(w)
    BY <1>1, <1>2, <2>4, <2>5 DEF NamesSound
  <2>7. Resolves(w, u)
    BY <1>1, <2>3, <2>6, FinishedSound
  <2>8. /\ NamesSound(u) /\ Lost(u.l) = Lost(link) \cup {b}
        /\ \A s \in Socket \ Query : u.p[s] = port[s]
    BY <1>3, <2>4, <2>5, <2>7 DEF Resolves
  <2>9. PoolSound(Release(u.l, b), addr.ip) /\ Lost(Release(u.l, b)) = Lost(link)
    <3>1. PoolSound(u.l, addr.ip) /\ b \in Lost(u.l)
      BY <2>8 DEF NamesSound
    <3>2. PoolSound(Release(u.l, b), addr.ip) /\ Lost(Release(u.l, b)) = Lost(u.l) \ {b}
      BY <3>1, ReleaseSound
    <3> QED BY <2>4, <2>8, <3>2
  <2>10. PICK v : v = [u EXCEPT !.l = Release(u.l, b)]
    OBVIOUS
  <2>11. u \in [p: Ports, n: Ephemeral, c: C, r: [Query -> 0 .. 1], l: Links]
    BY <1>2, <2>8 DEF NamesSound
  <2>12. Release(u.l, b) \in Links
    BY <2>9 DEF PoolSound
  <2>13. /\ v \in [p: Ports, n: Ephemeral, c: C, r: [Query -> 0 .. 1], l: Links]
         /\ v.p = u.p /\ v.n = u.n /\ v.c = u.c /\ v.r = u.r /\ v.l = Release(u.l, b)
    BY <2>10, <2>11, <2>12
  <2>14. NamesSound(v)
    BY <1>2, <2>8, <2>9, <2>13 DEF NamesSound
  <2> QED BY <2>3, <2>8, <2>9, <2>10, <2>13, <2>14, LookedUpSound
<1> QED BY <1>4, <1>6, <1>7, <1>8

-----------------------------------------------------------------------------
(* The theorems.                                                           *)

LEMMA StutterStep ==
    ASSUME StateAccounted, UNCHANGED vars
    PROVE  Kept
<1>1. UNCHANGED <<use, link, addr, port, next_ephemeral, dhcp, dns, called>>
  BY DEF vars, linkVars, udpVars, dnsVars
<1>2. World' = World
  BY <1>1 DEF World
<1>3. StateAccounted'
  <2>1. UNCHANGED vars /\ StateAccounted => StateAccounted'
    BY <1>1 DEF StateAccounted, TypeOK, LinkTypeOK, UdpTypeOK, DhcpTypeOK, DnsTypeOK,
                PacketsAccounted, Parked, PortsDistinct, QueriesListening, ClientListening,
                ClientWaits, QueriesWait
  <2> QED BY <2>1
<1> QED BY <1>1, <1>2, <1>3 DEF Kept, NoLoss, LeaseKept, Serves, Unmoved

LEMMA EveryStep ==
    ASSUME StateAccounted, [Next]_vars
    PROVE  Kept
<1>1. CASE Next
  <2>1. use' = use
    BY <1>1 DEF Next
  <2>2. CASE (Traffic \/ SetAddress) /\ UNCHANGED <<udpVars, dhcp, dnsVars>>
    BY <2>1, <2>2, TrafficStep
  <2>3. CASE Tick /\ UNCHANGED dnsVars
    BY <2>1, <2>3, TickStep
  <2>4. CASE (AppOpen \/ AppClose) /\ UNCHANGED <<dhcp, dnsVars>>
    BY <2>1, <2>4, AppStep
  <2>5. CASE Client /\ UNCHANGED dnsVars
    BY <2>1, <2>5, DhcpStartStep, DhcpStopStep, ReplyStep DEF Client
  <2>6. CASE Lookups /\ UNCHANGED dhcp
    BY <2>1, <2>6, LookupStep
  <2> QED BY <1>1, <2>2, <2>3, <2>4, <2>5, <2>6 DEF Next
<1>2. CASE UNCHANGED vars
  BY <1>2, StutterStep
<1> QED BY <1>1, <1>2

LEMMA InitSound ==
    ASSUME Init
    PROVE  StateAccounted /\ LeaseSound(World)
<1>1. PICK a \in Addresses, lost \in SUBSET Buf : link = [pool |-> lost, arp |-> EmptyCache] /\ addr = a
  <2>1. CASE use = "traffic" /\ \E lost \in {{}, {Min(Buf)}} : LinkInit(NoAddress, lost)
    <3>1. Min(Buf) \in Buf
      BY StackAssumption, MinIsLeast DEF LinkAssumption
    <3>2. NoAddress \in Addresses
      BY DEF NoAddress, Addresses
    <3> QED BY <2>1, <3>1, <3>2 DEF LinkInit
  <2>2. CASE use = "lease" /\ LinkInit(NoAddress, {})
    BY <2>2 DEF LinkInit, NoAddress, Addresses
  <2>3. CASE \E a \in Own : LinkInit([Static(a) EXCEPT !.dns = DnsServer], {})
    <3>1. PICK a \in Own : LinkInit([Static(a) EXCEPT !.dns = DnsServer], {})
      BY <2>3
    <3>2. [Static(a) EXCEPT !.dns = DnsServer] \in Addresses
      BY StackAssumption DEF Static, Addresses, DnsAssumption
    <3> QED BY <3>1, <3>2 DEF LinkInit
  <2> QED BY <2>1, <2>2, <2>3 DEF Init
<1>2. /\ link \in Links /\ PoolSound(link, addr.ip) /\ addr \in Addresses /\ use \in Uses
  <2>1. link \in Links /\ link.arp = EmptyCache
    BY <1>1, FreeIsEntry DEF Links
  <2> QED BY <1>1, <2>1, EmptyIsSound DEF Init
<1>3. /\ dhcp = Idle /\ dhcp \in Context /\ WaitDoubled(dhcp.retry_elapsed, dhcp.timeout, dhcp.count, DhcpRetryMs)
      /\ ~ dhcp.active
  <2>1. DhcpRetryMs \in Nat /\ DhcpRetries \in Nat /\ Word \in Nat /\ Word > 0
    BY StackAssumption DEF DhcpAssumption
  <2>2. LongestWait \in Nat
    <3>1. Doubled[DhcpRetries] \in Nat
      BY <2>1, DoubledValues
    <3> QED BY <2>1, <3>1 DEF LongestWait
  <2>3. 0 \in 0 .. LongestWait /\ 0 \in 0 .. DhcpRetries /\ 0 \in 0 .. Word - 1
    BY <2>1, <2>2
  <2>4. dhcp = Idle
    BY DEF Init, DhcpInit
  <2> QED BY <2>3, <2>4 DEF Context, Idle, WaitDoubled
<1>4. WorldSound(World) /\ LeaseSound(World)
  BY <1>2, <1>3 DEF World, WorldSound, LeaseSound
<1>5. port = [s \in Socket |-> None] /\ next_ephemeral = FirstEph
  BY DEF Init, UdpInit
<1>6. port \in Ports /\ next_ephemeral \in Ephemeral /\ Distinct(port)
  BY <1>5, StackAssumption DEF Ports, Distinct, Ephemeral, UdpAssumption
<1>7. dns = [q \in Query |-> NoQuery] /\ called = [q \in Query |-> 0]
  BY DEF Init, DnsInit
<1>8. PICK C : C = [Query -> [active: BOOLEAN, elapsed: 0 .. LongestQuery,
                              timeout: 0 .. LongestQuery, count: 0 .. DnsRetries]]
  OBVIOUS
<1>9. NamesSound(Names)
  <2>1. dns \in C
    BY <1>7, <1>8, QueryTypes DEF NoQuery
  <2>2. Names \in [p: Ports, n: Ephemeral, c: C, r: [Query -> 0 .. 1], l: Links]
    BY <1>2, <1>6, <1>7, <2>1 DEF Names
  <2>3. \A q \in Query : dns[q].active <=> port[q] # None
    BY <1>5, <1>7, QueryTypes DEF NoQuery
  <2>4. \A q \in Query : WaitDoubled(dns[q].elapsed, dns[q].timeout, dns[q].count, DnsRetryMs)
    BY <1>7, QueryTypes DEF NoQuery
  <2>5. Names.p = port /\ Names.c = dns /\ Names.l = link
    BY DEF Names
  <2> QED BY <1>2, <1>6, <1>8, <2>2, <2>3, <2>4, <2>5 DEF NamesSound
<1>10. ClientListening
  BY <1>3, <1>5, StackAssumption DEF ClientListening, DhcpAssumption
<1> QED BY <1>2, <1>4, <1>9, <1>10, SoundIsAccounted

(***************************************************************************)
(* Between two handlers a packet waits in one pending entry of the cache,  *)
(* carries the present address and owns its buffer; sockets, queries and   *)
(* the client agree; and the waits double within their limits: for every   *)
(* size of pool, cache and subnet (xnet_arp.c, xnet_udp.c, xnet_dhcp.c,    *)
(* xnet_dns.c).                                                            *)
(***************************************************************************)
THEOREM Accounted == Spec => []StateAccounted
<1>1. Init => StateAccounted
  BY InitSound
<1>2. StateAccounted /\ [Next]_vars => StateAccounted'
  BY EveryStep DEF Kept
<1> QED BY <1>1, <1>2, PTL DEF Spec

(***************************************************************************)
(* However many buffers are lost already, and for every size of pool and   *)
(* cache, a step loses one more only when the DHCP client starts, or       *)
(* begins or gives up a lease, and clears the cache (xNET_ARP_Cache_Init). *)
(***************************************************************************)
THEOREM BuffersLostOnlyWithLease == Spec => LostOnlyWithLease
<1>1. StateAccounted /\ [Next]_vars => [Lost(link') \subseteq Lost(link) \/ ClearsForLease]_vars
  BY EveryStep DEF Kept, NoLoss
<1> QED BY <1>1, Accounted, PTL DEF Spec, LostOnlyWithLease

\* While the client runs, it holds an address exactly in the states of a lease.
LEMMA LeaseHolds == Spec => []LeaseSound(World)
<1>1. Init => LeaseSound(World)
  BY InitSound
<1>2. StateAccounted /\ LeaseSound(World) /\ [Next]_vars => LeaseSound(World)'
  <2> SUFFICES ASSUME StateAccounted, LeaseSound(World), [Next]_vars
               PROVE  LeaseSound(World)'
    OBVIOUS
  <2>1. LeaseSound(World')
    BY EveryStep DEF Kept, LeaseKept
  <2> QED BY <2>1 DEF LeaseSound
<1> QED BY <1>1, <1>2, Accounted, PTL DEF Spec

(***************************************************************************)
(* The client implements the lease service: the address of the interface   *)
(* is a lease with time left on it, and begins anew only when a server     *)
(* grants what the client asked for (dhcp_tick_lease,                      *)
(* dhcp_handle_active_state).                                              *)
(***************************************************************************)
THEOREM LeaseKeptByClient == Spec => ImplementsLeaseService
<1>1. Init => Service!Init
  BY DEF Init, DhcpInit, Idle, Leased, Service!Init
<1>2. StateAccounted /\ LeaseSound(World) /\ [Next]_vars =>
         [Service!Next]_<<IF dhcp.active THEN addr.ip ELSE None,
                          IF Leased THEN Ms(dhcp.lease) - dhcp.elapsed ELSE 0,
                          dhcp.active /\ dhcp.state \in Asking \ {"SELECTING"}>>
  <2> SUFFICES ASSUME StateAccounted, LeaseSound(World), [Next]_vars
               PROVE  [Service!Next]_<<IF dhcp.active THEN addr.ip ELSE None,
                          IF Leased THEN Ms(dhcp.lease) - dhcp.elapsed ELSE 0,
                          dhcp.active /\ dhcp.state \in Asking \ {"SELECTING"}>>
    OBVIOUS
  <2>1. Serves(World, World')
    BY EveryStep DEF Kept, LeaseKept
  <2>2. /\ World.d = dhcp /\ World.a = addr /\ World'.d = dhcp' /\ World'.a = addr'
    BY DEF World
  <2> QED BY <2>1, <2>2 DEF Serves, Granted, Passed, Lapsed, Unmoved, HeldBy, LeftTo, Asks, Leased,
             Service!Next, Service!Grant, Service!Pass, Service!Lapse
<1> QED BY <1>1, <1>2, Accounted, LeaseHolds, PTL DEF Spec, ImplementsLeaseService, Service!Spec
=============================================================================
