--------------------------- MODULE XrtosTaskProofs ---------------------------
(***************************************************************************)
(* Proofs about the life of tasks.  The inductive invariant says how the   *)
(* registry, the ready lists, the stack the processor is on and the place  *)
(* of every task in its call agree; types, the ownership of saved frames   *)
(* and priorities follow from it.                                          *)
(***************************************************************************)
EXTENDS XrtosTask, FiniteSetTheorems, SequenceTheorems, WellFoundedInduction, TLAPS

-----------------------------------------------------------------------------
(* Lists in which nothing occurs twice.                                    *)

(***************************************************************************)
(* A set of numbers that has members has a least one: the search for the   *)
(* most urgent priority, or for a place in a list, finds something.        *)
(***************************************************************************)
LEMMA LeastNumber ==
    ASSUME NEW I \in SUBSET Nat, I # {}
    PROVE  \E x \in I : \A y \in I : x <= y
<1>1. PICK x \in I : \A y \in I : ~ (<<y, x>> \in OpToRel(<, Nat))
  BY NatLessThanWellFounded, WFMin
<1>2. ASSUME NEW y \in I PROVE x <= y
  <2>1. <<y, x>> \in Nat \X Nat /\ ~ (<<y, x>> \in OpToRel(<, Nat))
    BY <1>1
  <2>2. ~ (y < x)
    BY <2>1 DEF OpToRel
  <2> QED BY <2>2
<1> QED BY <1>2

(***************************************************************************)
(* The same for an element appended at the tail.                           *)
(***************************************************************************)
LEMMA AppendElements ==
    ASSUME NEW S, NEW s \in Seq(S), NEW x \in S
    PROVE  /\ Append(s, x) \in Seq(S)
           /\ ToSet(Append(s, x)) = ToSet(s) \cup {x}
           /\ IsInjective(s) /\ x \notin ToSet(s) => IsInjective(Append(s, x))
<1>0. PICK r : r = Append(s, x)
  OBVIOUS
<1>1. /\ r \in Seq(S) /\ Len(r) = Len(s) + 1
      /\ \A i \in 1 .. Len(s) + 1 : r[i] = IF i <= Len(s) THEN s[i] ELSE x
  BY <1>0
<1>2. ToSet(r) = ToSet(s) \cup {x}
  <2>1. x \in ToSet(r) /\ ToSet(s) \subseteq ToSet(r)
    BY <1>1 DEF ToSet
  <2>2. ToSet(r) \subseteq ToSet(s) \cup {x}
    BY <1>1 DEF ToSet
  <2> QED BY <2>1, <2>2
<1>3. ASSUME IsInjective(s), x \notin ToSet(s) PROVE IsInjective(r)
  BY <1>1, <1>3 DEF IsInjective, ToSet
<1> QED BY <1>0, <1>1, <1>2, <1>3

(***************************************************************************)
(* The head of a list is one of its elements; an empty list has none.      *)
(***************************************************************************)
LEMMA HeadElement ==
    ASSUME NEW S, NEW s \in Seq(S)
    PROVE  /\ ToSet(s) \subseteq S
           /\ s # <<>> => Head(s) \in ToSet(s)
           /\ s = <<>> <=> ToSet(s) = {}
<1>1. ToSet(s) \subseteq S
  BY DEF ToSet
<1>2. ASSUME s # <<>> PROVE Head(s) \in ToSet(s)
  BY <1>2 DEF ToSet
<1>3. s = <<>> => ToSet(s) = {}
  BY DEF ToSet
<1> QED BY <1>1, <1>2, <1>3

(***************************************************************************)
(* The rest of a list in which nothing occurs twice lacks its head.        *)
(***************************************************************************)
LEMMA TailElements ==
    ASSUME NEW S, NEW s \in Seq(S), s # <<>>, IsInjective(s)
    PROVE  /\ Tail(s) \in Seq(S) /\ IsInjective(Tail(s))
           /\ ToSet(Tail(s)) = ToSet(s) \ {Head(s)}
<1>1. PICK r : r = Tail(s)
  OBVIOUS
<1>2. PICK n \in Nat : n = Len(s) /\ n # 0
  OBVIOUS
<1>3. r \in Seq(S) /\ Len(r) = n - 1 /\ \A i \in 1 .. n - 1 : r[i] = s[i + 1]
  BY <1>1, <1>2
<1>4. DOMAIN r = 1 .. n - 1 /\ DOMAIN s = 1 .. n
  BY <1>2, <1>3
<1>5. \A i, j \in 1 .. n : s[i] = s[j] => i = j
  BY <1>4 DEF IsInjective
<1>6. IsInjective(r)
  BY <1>2, <1>3, <1>4, <1>5 DEF IsInjective
<1>7. Head(s) = s[1]
  OBVIOUS
<1>8. ToSet(r) \subseteq ToSet(s) \ {Head(s)}
  BY <1>2, <1>3, <1>4, <1>5, <1>7, SMTT(60) DEF ToSet
<1>9. ASSUME NEW x \in ToSet(s), x # Head(s) PROVE x \in ToSet(r)
  <2>1. PICK i \in 1 .. n : s[i] = x
    BY <1>4 DEF ToSet
  <2>2. i - 1 \in 1 .. n - 1 /\ r[i - 1] = x
    BY <1>2, <1>3, <1>7, <1>9, <2>1
  <2> QED BY <1>4, <2>2 DEF ToSet
<1> QED BY <1>1, <1>3, <1>6, <1>8, <1>9

(***************************************************************************)
(* The part of a list between two places.                                  *)
(***************************************************************************)
LEMMA PartOfList ==
    ASSUME NEW S, NEW s \in Seq(S), NEW m \in 1 .. Len(s) + 1, NEW n \in 0 .. Len(s),
           m <= n + 1
    PROVE  /\ SubSeq(s, m, n) \in Seq(S)
           /\ Len(SubSeq(s, m, n)) = n + 1 - m
           /\ \A i \in 1 .. n + 1 - m : SubSeq(s, m, n)[i] = s[m + i - 1]
<1>1. \A i \in m .. n : s[i] \in S
  OBVIOUS
<1>2. m \in Int /\ n \in Int
  OBVIOUS
<1> QED BY <1>1, <1>2, SubSeqProperties

(***************************************************************************)
(* Taking the place k out of a list.                                       *)
(***************************************************************************)
LEMMA RemoveAtPlaces ==
    ASSUME NEW S, NEW s \in Seq(S), NEW k \in 1 .. Len(s)
    PROVE  /\ RemoveAt(s, k) \in Seq(S)
           /\ Len(RemoveAt(s, k)) = Len(s) - 1
           /\ \A i \in 1 .. Len(s) - 1 :
                 RemoveAt(s, k)[i] = IF i < k THEN s[i] ELSE s[i + 1]
<1>1. PICK a : a = SubSeq(s, 1, k - 1)
  OBVIOUS
<1>2. PICK b : b = SubSeq(s, k + 1, Len(s))
  OBVIOUS
<1>3. /\ a \in Seq(S) /\ Len(a) = k - 1
      /\ \A i \in 1 .. k - 1 : a[i] = s[i]
  <2>1. 1 \in 1 .. Len(s) + 1 /\ k - 1 \in 0 .. Len(s) /\ 1 <= k - 1 + 1
    OBVIOUS
  <2> QED BY <1>1, <2>1, PartOfList
<1>4. /\ b \in Seq(S) /\ Len(b) = Len(s) - k
      /\ \A i \in 1 .. Len(s) - k : b[i] = s[k + i]
  <2>1. k + 1 \in 1 .. Len(s) + 1 /\ Len(s) \in 0 .. Len(s) /\ k + 1 <= Len(s) + 1
    OBVIOUS
  <2> QED BY <1>2, <2>1, PartOfList
<1>5. RemoveAt(s, k) = a \o b
  BY <1>1, <1>2 DEF RemoveAt
<1>6. /\ a \o b \in Seq(S) /\ Len(a \o b) = Len(a) + Len(b)
      /\ \A i \in 1 .. Len(a) + Len(b) :
            (a \o b)[i] = IF i <= Len(a) THEN a[i] ELSE b[i - Len(a)]
  BY <1>3, <1>4, ConcatProperties
<1> QED BY <1>3, <1>4, <1>5, <1>6

(***************************************************************************)
(* Removing an element that is not there changes nothing.                  *)
(***************************************************************************)
LEMMA RemoveAbsent ==
    ASSUME NEW S, NEW s \in Seq(S), NEW x, x \notin ToSet(s)
    PROVE  RemoveFirst(s, x) = s
BY DEF RemoveFirst, ToSet

(***************************************************************************)
(* Removing an element that is there takes one place out of the list.      *)
(***************************************************************************)
LEMMA RemovePresent ==
    ASSUME NEW S, NEW s \in Seq(S), NEW x, x \in ToSet(s)
    PROVE  \E k \in 1 .. Len(s) : s[k] = x /\ RemoveFirst(s, x) = RemoveAt(s, k)
<1>1. PICK I : I = {i \in 1 .. Len(s) : s[i] = x}
  OBVIOUS
<1>2. I \in SUBSET Nat /\ I # {}
  BY <1>1 DEF ToSet
<1>3. Min(I) \in I
  BY <1>2, LeastNumber DEF Min
<1>4. RemoveFirst(s, x) = RemoveAt(s, Min(I))
  BY <1>1, <1>2 DEF RemoveFirst, SelectInSeq
<1> QED BY <1>1, <1>3, <1>4

(***************************************************************************)
(* A list without duplicates loses exactly the element removed.            *)
(***************************************************************************)
LEMMA RemoveFirstElements ==
    ASSUME NEW S, NEW s \in Seq(S), NEW x, IsInjective(s)
    PROVE  /\ RemoveFirst(s, x) \in Seq(S)
           /\ IsInjective(RemoveFirst(s, x))
           /\ ToSet(RemoveFirst(s, x)) = ToSet(s) \ {x}
<1>1. CASE x \notin ToSet(s)
  BY <1>1, RemoveAbsent
<1>2. CASE x \in ToSet(s)
  <2>0. PICK r : r = RemoveFirst(s, x)
    OBVIOUS
  <2>1. PICK k \in 1 .. Len(s) :
              /\ s[k] = x
              /\ r \in Seq(S)
              /\ Len(r) = Len(s) - 1
              /\ \A i \in 1 .. Len(s) - 1 : r[i] = IF i < k THEN s[i] ELSE s[i + 1]
    <3>1. PICK k \in 1 .. Len(s) : s[k] = x /\ r = RemoveAt(s, k)
      BY <1>2, <2>0, RemovePresent
    <3>2. /\ RemoveAt(s, k) \in Seq(S)
          /\ Len(RemoveAt(s, k)) = Len(s) - 1
          /\ \A i \in 1 .. Len(s) - 1 :
                RemoveAt(s, k)[i] = IF i < k THEN s[i] ELSE s[i + 1]
      BY RemoveAtPlaces
    <3> QED BY <3>1, <3>2
  <2>2. \A i, j \in 1 .. Len(s) : s[i] = s[j] => i = j
    BY DEF IsInjective
  <2>3. IsInjective(r)
    BY <2>1, <2>2 DEF IsInjective
  <2>4. ToSet(r) \subseteq ToSet(s) \ {x}
    BY <2>1, <2>2 DEF ToSet
  <2>5. ASSUME NEW j \in 1 .. Len(s), s[j] # x PROVE s[j] \in ToSet(r)
    <3>1. CASE j < k
      BY <2>1, <3>1 DEF ToSet
    <3>2. CASE j > k
      <4>1. j - 1 \in 1 .. Len(s) - 1 /\ r[j - 1] = s[j]
        BY <2>1, <3>2
      <4> QED BY <2>1, <4>1 DEF ToSet
    <3> QED BY <2>1, <2>5, <3>1, <3>2
  <2>6. ToSet(s) \ {x} \subseteq ToSet(r)
    BY <2>5 DEF ToSet
  <2> QED BY <2>0, <2>1, <2>3, <2>4, <2>6
<1> QED BY <1>1, <1>2

-----------------------------------------------------------------------------
(* The inductive invariant.                                                *)

Alive == {"READY", "RUNNING", "BLOCKED"}

RegistryStates == Alive \cup {"NONE", "TERMINATED"}

RegistryLists == [Levels -> Seq(Context)]

\* A slot holds a created task of that id, and every task that lives is in its slot.
SlotsAgree(tab, st) ==
    /\ \A s \in Slots : tab[s] # None => Id[tab[s]] = s /\ st[tab[s]] # "NONE"
    /\ \A c \in Context : st[c] \in Alive => tab[Id[c]] = c

\* The lists hold exactly the READY tasks, each once and at its priority.
ListsAgree(r, st) ==
    \A p \in Levels :
        /\ IsInjective(r[p])
        /\ \A c \in Context : c \in ToSet(r[p]) <=> st[c] = "READY" /\ Prio[c] = p

\* The stack e may be saved in the context c: a task that ended under the same id
\* and stays on the processor.
Astray(c, e) == port = "ch32h417" /\ table[Id[c]] = c /\ Left(e) /\ Id[e] = Id[c]

\* Every saved frame is on its owner's stack, or astray.
FramesAgree(f) ==
    /\ f \in [Context \cup {None} -> Context]
    /\ \A c \in Context : f[c] = c \/ Astray(c, f[c])

\* The processor is on a stack of the current id, and only the current task is RUNNING.
OnOwnStack ==
    /\ current = Id[stack] /\ frame[stack] = stack
    /\ \A c \in Context : state[c] = "RUNNING" => c = table[current] /\ current_priority = Prio[c]

Gone == {"unregistered", "indexed", "over"}

\* What the place in its call says of the task whose stack it is, and of those that live.
PlacesAgree ==
    /\ pc[stack] \in {"run", "yield"} => table[current] = stack /\ state[stack] \in Alive
    /\ pc[stack] = "run" => state[stack] # "BLOCKED"
    /\ pc[stack] = "marked" => table[current] = stack /\ state[stack] = "TERMINATED"
    /\ pc[stack] \in Gone => table[current] # stack /\ state[stack] = "TERMINATED"
    /\ table[current] \notin {stack, None} => state[table[current]] \in {"READY", "RUNNING"}
    /\ state[stack] = "BLOCKED" => pending
    /\ \A c \in Context : state[c] \in Alive => pc[c] \in {"run", "yield"}

\* On the Arm port a task that has ended is in its slot, or its slot is empty, except
\* in the handler that creates another there; the handler left its frame at address 0.
ArmLeaves ==
    port = "arm_r5" =>
        /\ pc[stack] # "over"
        /\ table[current] \in {stack, None} \/ isr
        /\ isr /\ table[current] = None => frame[None] = stack

\* The idle task never blocks.
IdleWaits == state[IdleTask] \in {"READY", "RUNNING"}

\* Nothing queued is more urgent than the last selection, unless a switch is due.
NoneMoreUrgent ==
    ~pending => \A c \in Context : state[c] = "READY" => current_priority <= Prio[c]

RegistryInv ==
    /\ TypeOK
    /\ SlotsAgree(table, state)
    /\ ListsAgree(ready, state)
    /\ FramesAgree(frame)
    /\ OnOwnStack
    /\ PlacesAgree
    /\ ArmLeaves
    /\ IdleWaits
    /\ NoneMoreUrgent

(***************************************************************************)
(* What is assumed of the contexts.                                        *)
(***************************************************************************)
LEMMA Contexts ==
    ASSUME TaskAssumption
    PROVE
    /\ Id \in [Context -> Nat] /\ Prio \in [Context -> Nat]
    /\ Boot \subseteq Context /\ First \in Boot /\ IdleTask \in Boot
    /\ IsFiniteSet(Boot)
    /\ None \notin Context
    /\ \A c, d \in Boot : Id[c] = Id[d] => c = d
    /\ Ports \subseteq {"arm_r5", "ch32h417"}
    /\ \A c \in Boot : Prio[First] <= Prio[c]
    /\ Slots \in SUBSET Nat /\ Levels \in SUBSET Nat
    /\ \A c \in Context : Id[c] \in Slots /\ Prio[c] \in Levels
<1>2. Id \in [Context -> Nat] /\ Prio \in [Context -> Nat]
  BY DEF TaskAssumption
<1>3. Slots \in SUBSET Nat /\ Levels \in SUBSET Nat
  BY <1>2 DEF Slots, Levels
<1>4. \A c \in Context : Id[c] \in Slots /\ Prio[c] \in Levels
  BY DEF Slots, Levels
<1>5. IsFiniteSet(Boot)
  BY DEF TaskAssumption
<1> QED BY <1>2, <1>3, <1>4, <1>5 DEF TaskAssumption

(***************************************************************************)
(* Queueing a task that was not queued.                                    *)
(***************************************************************************)
LEMMA RegistryQueued ==
    ASSUME TaskAssumption, NEW r \in RegistryLists, NEW st \in [Context -> RegistryStates], ListsAgree(r, st),
           NEW c \in Context, st[c] # "READY"
    PROVE  LET q == [r EXCEPT ![Prio[c]] = Append(@, c)]
           IN  q \in RegistryLists /\ ListsAgree(q, [st EXCEPT ![c] = "READY"])
<1>1. PICK p : p = Prio[c]
  OBVIOUS
<1>2. p \in Levels /\ Prio[c] \in Levels
  BY <1>1, Contexts
<1>3. r[p] \in Seq(Context) /\ IsInjective(r[p]) /\ c \notin ToSet(r[p])
  BY <1>2 DEF RegistryLists, ListsAgree
<1>4. PICK s : s = Append(r[p], c)
  OBVIOUS
<1>5. /\ s \in Seq(Context) /\ IsInjective(s)
      /\ ToSet(s) = ToSet(r[p]) \cup {c}
  BY <1>3, <1>4, AppendElements
<1>6. PICK q : q = [r EXCEPT ![Prio[c]] = Append(@, c)]
  OBVIOUS
<1>7. q \in RegistryLists /\ q = [r EXCEPT ![p] = s]
  BY <1>1, <1>2, <1>4, <1>5, <1>6 DEF RegistryLists
<1>8. \A l \in Levels : q[l] = IF l = p THEN s ELSE r[l]
  BY <1>7 DEF RegistryLists
<1>9. PICK t : t = [st EXCEPT ![c] = "READY"]
  OBVIOUS
<1>10. \A d \in Context : t[d] = IF d = c THEN "READY" ELSE st[d]
  BY <1>9
<1>11. ListsAgree(q, t)
  BY <1>1, <1>2, <1>3, <1>5, <1>8, <1>10 DEF ListsAgree
<1> QED BY <1>6, <1>7, <1>9, <1>11

(***************************************************************************)
(* The selected task is READY, at least as urgent as all that are, and     *)
(* without it the list agrees with the states in which it runs.            *)
(***************************************************************************)
LEMMA RegistrySelects ==
    ASSUME TaskAssumption, NEW r \in RegistryLists, NEW st \in [Context -> RegistryStates], ListsAgree(r, st),
           NEW i \in Context, st[i] = "READY",
           NEW n, n = Head(r[CHOOSE p \in Levels : IsBest(r, p)])
    PROVE  LET q == [r EXCEPT ![Prio[n]] = Tail(@)]
           IN  /\ n \in Context /\ st[n] = "READY"
               /\ \A c \in Context : st[c] = "READY" => Prio[n] <= Prio[c]
               /\ q \in RegistryLists /\ ListsAgree(q, [st EXCEPT ![n] = "RUNNING"])
<1>1. PICK I : I = {p \in Levels : r[p] # <<>>}
  OBVIOUS
<1>2. \A c \in Context : st[c] = "READY" => Prio[c] \in I
  <2> SUFFICES ASSUME NEW c \in Context, st[c] = "READY" PROVE Prio[c] \in I
    OBVIOUS
  <2>1. Prio[c] \in Levels
    BY Contexts
  <2>2. c \in ToSet(r[Prio[c]]) /\ r[Prio[c]] \in Seq(Context)
    BY <2>1 DEF ListsAgree, RegistryLists
  <2> QED BY <1>1, <2>1, <2>2, HeadElement
<1>3. I \in SUBSET Nat /\ I # {}
  BY <1>1, <1>2, Contexts
<1>4. \E p \in Levels : IsBest(r, p)
  BY <1>1, <1>3, LeastNumber DEF IsBest
<1>5. PICK b \in Levels : IsBest(r, b) /\ n = Head(r[b])
  BY <1>4
<1>6. r[b] \in Seq(Context) /\ r[b] # <<>> /\ IsInjective(r[b]) /\ \A p \in I : b <= p
  BY <1>1, <1>5 DEF IsBest, RegistryLists, ListsAgree
<1>7. n \in ToSet(r[b]) /\ n \in Context
  BY <1>5, <1>6, HeadElement
<1>8. st[n] = "READY" /\ Prio[n] = b
  BY <1>7 DEF ListsAgree
<1>9. PICK s : s = Tail(r[b])
  OBVIOUS
<1>10. /\ s \in Seq(Context) /\ IsInjective(s)
       /\ ToSet(s) = ToSet(r[b]) \ {n}
  BY <1>5, <1>6, <1>9, TailElements
<1>11. PICK q : q = [r EXCEPT ![Prio[n]] = Tail(@)]
  OBVIOUS
<1>12. q \in RegistryLists /\ q = [r EXCEPT ![b] = s]
  BY <1>8, <1>9, <1>10, <1>11 DEF RegistryLists
<1>13. \A l \in Levels : q[l] = IF l = b THEN s ELSE r[l]
  BY <1>12 DEF RegistryLists
<1>14. PICK t : t = [st EXCEPT ![n] = "RUNNING"]
  OBVIOUS
<1>15. \A d \in Context : t[d] = IF d = n THEN "RUNNING" ELSE st[d]
  BY <1>14
<1>16. ListsAgree(q, t)
  <2> SUFFICES ASSUME NEW p \in Levels
               PROVE  /\ IsInjective(q[p])
                      /\ \A c \in Context : c \in ToSet(q[p]) <=> t[c] = "READY" /\ Prio[c] = p
    BY DEF ListsAgree
  <2>1. /\ IsInjective(r[p])
        /\ \A c \in Context : c \in ToSet(r[p]) <=> st[c] = "READY" /\ Prio[c] = p
    BY DEF ListsAgree
  <2>2. CASE p = b
    <3>1. q[p] = s /\ IsInjective(q[p])
      BY <1>10, <1>13, <2>2
    <3>2. \A c \in Context : c \in ToSet(q[p]) <=> c \in ToSet(r[p]) /\ c # n
      BY <1>10, <2>2, <3>1
    <3> QED BY <1>7, <1>15, <2>1, <3>1, <3>2
  <2>3. CASE p # b
    BY <1>7, <1>8, <1>13, <1>15, <2>1, <2>3
  <2> QED BY <2>2, <2>3
<1>17. \A c \in Context : st[c] = "READY" => Prio[n] <= Prio[c]
  BY <1>2, <1>6, <1>8
<1> QED BY <1>7, <1>8, <1>11, <1>12, <1>14, <1>16, <1>17

(***************************************************************************)
(* Taking a task out of its list, when it leaves READY or was not queued.  *)
(***************************************************************************)
LEMMA RegistryUnqueued ==
    ASSUME TaskAssumption, NEW r \in RegistryLists, NEW st \in [Context -> RegistryStates], ListsAgree(r, st),
           NEW c \in Context, NEW v \in RegistryStates, v # "READY"
    PROVE  LET q == [r EXCEPT ![Prio[c]] = RemoveFirst(@, c)]
           IN  q \in RegistryLists /\ ListsAgree(q, [st EXCEPT ![c] = v])
<1>1. PICK p : p = Prio[c]
  OBVIOUS
<1>2. p \in Levels
  BY <1>1, Contexts
<1>3. PICK s : s = RemoveFirst(r[p], c)
  OBVIOUS
<1>4. s \in Seq(Context) /\ IsInjective(s) /\ ToSet(s) = ToSet(r[p]) \ {c}
  <2>1. r[p] \in Seq(Context) /\ IsInjective(r[p])
    BY <1>2 DEF RegistryLists, ListsAgree
  <2> QED BY <1>3, <2>1, RemoveFirstElements
<1>5. PICK q : q = [r EXCEPT ![Prio[c]] = RemoveFirst(@, c)]
  OBVIOUS
<1>6. q \in RegistryLists /\ q = [r EXCEPT ![p] = s]
  BY <1>1, <1>2, <1>3, <1>4, <1>5 DEF RegistryLists
<1>7. \A l \in Levels : q[l] = IF l = p THEN s ELSE r[l]
  BY <1>6 DEF RegistryLists
<1>8. PICK t : t = [st EXCEPT ![c] = v]
  OBVIOUS
<1>9. \A d \in Context : t[d] = IF d = c THEN v ELSE st[d]
  BY <1>8
<1>10. ListsAgree(q, t)
  BY <1>1, <1>2, <1>4, <1>7, <1>9 DEF ListsAgree
<1> QED BY <1>5, <1>6, <1>8, <1>10

(***************************************************************************)
(* The frame of a task whose frame is astray is on its owner's stack: the  *)
(* owner gave its slot up.                                                 *)
(***************************************************************************)
LEMMA FrameOfFrame ==
    ASSUME TaskAssumption, NEW f, FramesAgree(f), NEW c \in Context
    PROVE  f[c] \in Context /\ f[f[c]] = f[c]
BY DEF FramesAgree, Astray

(***************************************************************************)
(* Saving leaves every frame with its owner, or with the task that ended   *)
(* in its slot.                                                            *)
(***************************************************************************)
LEMMA SavedFrames ==
    ASSUME TaskAssumption, RegistryInv, port = "arm_r5" => ~isr
    PROVE  /\ FramesAgree(Save) /\ Save[stack] = stack
           /\ table[current] = None => Save[None] = stack
<1>1. /\ stack \in Context /\ None \notin Context /\ frame \in [Context \cup {None} -> Context]
      /\ table[current] \in Context \cup {None} /\ current = Id[stack] /\ frame[stack] = stack
      /\ port \in {"arm_r5", "ch32h417"}
  BY Contexts DEF RegistryInv, TypeOK, OnOwnStack
<1>2. /\ Save \in [Context \cup {None} -> Context]
      /\ \A c \in Context \cup {None} : Save[c] = IF c = table[current] THEN stack ELSE frame[c]
  BY <1>1 DEF Save
<1>3. ASSUME NEW c \in Context PROVE Save[c] = c \/ Astray(c, Save[c])
  <2>1. CASE c # table[current]
    BY <1>2, <2>1 DEF RegistryInv, FramesAgree
  <2>2. CASE c = table[current] /\ c = stack
    BY <1>2, <2>2
  <2>3. CASE c = table[current] /\ c # stack
    <3>1. port = "ch32h417"
      BY <1>1, <2>3 DEF RegistryInv, ArmLeaves
    <3>2. Left(stack)
      BY <1>1, <2>3 DEF RegistryInv, TypeOK, PlacesAgree, Points, Gone, Left
    <3>3. Id[c] = current /\ table[Id[c]] = c
      BY <1>1, <2>3 DEF RegistryInv, TypeOK, SlotsAgree
    <3> QED BY <1>1, <1>2, <2>3, <3>1, <3>2, <3>3 DEF Astray
  <2> QED BY <2>1, <2>2, <2>3
<1> QED BY <1>1, <1>2, <1>3 DEF FramesAgree

(***************************************************************************)
(* What a switch does: the selected task is RUNNING, the processor is on   *)
(* the stack saved in it, it is at least as urgent as all that are READY,  *)
(* and the one that ran is READY.                                          *)
(***************************************************************************)
LEMMA SwitchSteps ==
    ASSUME TaskAssumption, RegistryInv, NEW f, FramesAgree(f), Switch(f)
    PROVE  \E n \in Context :
               /\ current' = Id[n] /\ current_priority' = Prio[n] /\ stack' = f[n]
               /\ frame' = f /\ pending' = FALSE
               /\ state[n] \in {"READY", "RUNNING"}
               /\ state' = [c \in Context |-> IF c = n THEN "RUNNING"
                                              ELSE IF state[c] = "RUNNING" THEN "READY"
                                              ELSE state[c]]
               /\ ready' \in RegistryLists /\ ListsAgree(ready', state')
               /\ \A c \in Context : state'[c] = "READY" => Prio[n] <= Prio[c]
<1>1. /\ stack \in Context /\ None \notin Context
      /\ state \in [Context -> RegistryStates] /\ ready \in RegistryLists
      /\ ListsAgree(ready, state) /\ IdleTask \in Context
  BY Contexts DEF RegistryInv, TypeOK, RegistryStates, Alive, RegistryLists
<1>2. PICK prev : prev = table[current]
  OBVIOUS
<1>3. \A c \in Context : state[c] = "RUNNING" => c = prev
  BY <1>1, <1>2 DEF RegistryInv, OnOwnStack
<1>4. prev \in Context \cup {None}
  BY <1>2 DEF RegistryInv, TypeOK
<1>5. PICK q : q = IF RunsOn(prev) THEN [ready EXCEPT ![Prio[prev]] = Append(@, prev)] ELSE ready
  OBVIOUS
<1>6. PICK st : st = IF RunsOn(prev) THEN [state EXCEPT ![prev] = "READY"] ELSE state
  OBVIOUS
<1>7. PICK n : n = Head(q[CHOOSE p \in Levels : IsBest(q, p)])
  BY ZenonT(60)
<1>8. /\ ready' = [q EXCEPT ![Prio[n]] = Tail(@)]
      /\ state' = [c \in Context |-> IF c = n THEN "RUNNING"
                                     ELSE IF c = prev /\ RunsOn(c) THEN "READY" ELSE state[c]]
      /\ current' = Id[n] /\ current_priority' = Prio[n]
      /\ pending' = FALSE /\ frame' = f /\ stack' = f[n]
  BY <1>2, <1>5, <1>7, ZenonT(60) DEF Switch, SlotOf
<1>9. q \in RegistryLists /\ st \in [Context -> RegistryStates] /\ ListsAgree(q, st)
  <2>1. CASE RunsOn(prev)
    <3>1. prev \in Context /\ state[prev] # "READY"
      BY <1>1, <1>4, <2>1 DEF RunsOn
    <3>2. q = [ready EXCEPT ![Prio[prev]] = Append(@, prev)] /\ st = [state EXCEPT ![prev] = "READY"]
      BY <1>5, <1>6, <2>1
    <3>3. st \in [Context -> RegistryStates]
      BY <1>1, <3>1, <3>2 DEF RegistryStates, Alive
    <3> QED BY <1>1, <3>1, <3>2, <3>3, RegistryQueued
  <2>2. CASE ~RunsOn(prev)
    BY <1>1, <1>5, <1>6, <2>2
  <2> QED BY <2>1, <2>2
<1>10. \A c \in Context : st[c] = IF state[c] = "RUNNING" THEN "READY" ELSE state[c]
  <2>1. CASE RunsOn(prev)
    BY <1>1, <1>3, <1>6, <2>1 DEF RunsOn
  <2>2. CASE ~RunsOn(prev)
    BY <1>1, <1>3, <1>6, <2>2 DEF RunsOn
  <2> QED BY <2>1, <2>2
<1>11. st[IdleTask] = "READY"
  BY <1>1, <1>10 DEF RegistryInv, IdleWaits
<1>12. /\ n \in Context /\ st[n] = "READY"
       /\ \A c \in Context : st[c] = "READY" => Prio[n] <= Prio[c]
       /\ ready' \in RegistryLists /\ ListsAgree(ready', [st EXCEPT ![n] = "RUNNING"])
  BY <1>1, <1>7, <1>8, <1>9, <1>11, RegistrySelects, ZenonT(60)
<1>14. state' = [c \in Context |-> IF c = n THEN "RUNNING"
                                   ELSE IF state[c] = "RUNNING" THEN "READY" ELSE state[c]]
  <2>1. \A c \in Context : (c = prev /\ RunsOn(c)) <=> state[c] = "RUNNING"
    BY <1>1, <1>3 DEF RunsOn
  <2> QED BY <1>8, <2>1
<1>15. state' = [st EXCEPT ![n] = "RUNNING"]
  BY <1>9, <1>10, <1>12, <1>14
<1>16. state[n] \in {"READY", "RUNNING"}
  BY <1>10, <1>12
<1>17. \A c \in Context : state'[c] = "READY" => Prio[n] <= Prio[c]
  BY <1>10, <1>12, <1>14
<1> QED BY <1>8, <1>12, <1>14, <1>15, <1>16, <1>17, ZenonT(60)

(***************************************************************************)
(* The lowest slot of a priority holds a context of that table.            *)
(***************************************************************************)
LEMMA FirstAtType ==
    ASSUME TaskAssumption, NEW tab \in [Slots -> Context \cup {None}], NEW p
    PROVE  FirstAt(tab, p) \in Context \cup {None}
<1>1. PICK at : at = {s \in Slots : tab[s] # None /\ Prio[tab[s]] = p}
  OBVIOUS
<1>2. CASE at = {}
  BY <1>1, <1>2 DEF FirstAt
<1>3. CASE at # {}
  <2>1. at \in SUBSET Nat /\ at # {}
    BY <1>1, <1>3, Contexts
  <2>2. \E s \in at : \A u \in at : s <= u
    BY <2>1, LeastNumber
  <2>3. PICK s \in at : FirstAt(tab, p) = tab[s]
    BY <1>1, <1>3, <2>2 DEF FirstAt
  <2> QED BY <1>1, <2>3
<1> QED BY <1>2, <1>3

-----------------------------------------------------------------------------
(* The initial state and the steps.                                        *)

(***************************************************************************)
(* The kernel starts in order, whatever the order of the first creations.  *)
(***************************************************************************)
LEMMA RegistryInit ==
    ASSUME TaskAssumption, Init
    PROVE  RegistryInv
<1>1. /\ Boot \subseteq Context /\ First \in Boot /\ IdleTask \in Boot /\ IsFiniteSet(Boot)
      /\ None \notin Context /\ \A c, d \in Boot : Id[c] = Id[d] => c = d
      /\ \A c \in Boot : Prio[First] <= Prio[c]
      /\ \A c \in Context : Id[c] \in Slots /\ Prio[c] \in Levels
  BY Contexts
<1>2. /\ \A s \in Slots : table[s] # None => table[s] \in Boot /\ Id[table[s]] = s
      /\ \A c \in Boot : table[Id[c]] = c
      /\ table \in [Slots -> Context \cup {None}]
  <2>1. ASSUME NEW s \in Slots, NEW b \in Boot, Id[b] = s
        PROVE  table[s] = b
    <3>1. table[s] = CHOOSE c \in Boot : Id[c] = s
      BY <2>1 DEF Init
    <3> QED BY <1>1, <2>1, <3>1
  <2>2. \A s \in Slots : (~ \E c \in Boot : Id[c] = s) => table[s] = None
    BY DEF Init
  <2>3. \A s \in Slots : table[s] \in Context \cup {None}
    BY <1>1, <2>1, <2>2
  <2>4. table \in [Slots -> Context \cup {None}]
    BY <2>3 DEF Init
  <2> QED BY <1>1, <2>1, <2>2, <2>4
<1>3. /\ \A c \in Context : state[c] = IF c = First THEN "RUNNING"
                                     ELSE IF c \in Boot THEN "READY" ELSE "NONE"
      /\ state \in [Context -> RegistryStates]
  BY DEF Init, RegistryStates, Alive
<1>4. ASSUME NEW p \in Levels
      PROVE  /\ ready[p] \in Seq(Context) /\ IsInjective(ready[p])
             /\ ToSet(ready[p]) = {c \in Boot \ {First} : Prio[c] = p}
  <2>1. PICK W : W = {c \in Boot \ {First} : Prio[c] = p}
    OBVIOUS
  <2>2. IsFiniteSet(W) /\ W \subseteq Context
    BY <1>1, <2>1, FS_Subset
  <2>3. Cardinality(W) \in Nat
    BY <2>2, FS_CardinalityType
  <2>4. ready[p] \in SetToSeqs(W) /\ ToSet(ready[p]) = W
    BY <2>1 DEF Init, Queues
  <2>5. /\ ready[p] \in [1 .. Cardinality(W) -> W]
        /\ \A i, j \in 1 .. Cardinality(W) : i # j => ready[p][i] # ready[p][j]
    BY <2>4 DEF SetToSeqs
  <2>6. ready[p] \in Seq(Context)
    BY <2>2, <2>3, <2>5
  <2>7. IsInjective(ready[p])
    BY <2>5 DEF IsInjective
  <2> QED BY <2>1, <2>4, <2>6, <2>7
<1>5. ready \in RegistryLists
  <2>1. ready \in [Levels -> UNION {Queues(p) : p \in Levels}]
    BY DEF Init
  <2> QED BY <1>4, <2>1 DEF RegistryLists
<1>6. ListsAgree(ready, state)
  BY <1>1, <1>3, <1>4 DEF ListsAgree
<1>7. TypeOK
  <2>1. by_priority = [p \in Levels |-> FirstAt(table, p)]
    BY DEF Init
  <2>2. by_priority \in [Levels -> Context \cup {None}]
    BY <1>2, <2>1, FirstAtType
  <2>3. /\ port \in Ports /\ current \in Slots /\ current_priority \in Levels
        /\ stack \in Context /\ pending \in BOOLEAN /\ isr \in BOOLEAN
    BY <1>1 DEF Init
  <2>4. frame \in [Context \cup {None} -> Context] /\ pc \in [Context -> Points]
    BY <1>1 DEF Init, Points
  <2> QED BY <1>2, <1>3, <1>5, <2>2, <2>3, <2>4 DEF TypeOK, RegistryStates, Alive, RegistryLists
<1>8. SlotsAgree(table, state)
  BY <1>1, <1>2, <1>3 DEF SlotsAgree, Alive
<1>9. FramesAgree(frame)
  BY <1>1 DEF Init, FramesAgree
<1>10. OnOwnStack
  BY <1>1, <1>2, <1>3 DEF Init, OnOwnStack
<1>11. PlacesAgree
  BY <1>1, <1>2, <1>3 DEF Init, PlacesAgree, Alive, Gone
<1>12. ArmLeaves
  BY <1>1, <1>2 DEF Init, ArmLeaves
<1>13. IdleWaits
  BY <1>1, <1>3 DEF IdleWaits
<1>14. NoneMoreUrgent
  BY <1>1, <1>3 DEF Init, NoneMoreUrgent
<1> QED BY <1>6, <1>7, <1>8, <1>9, <1>10, <1>11, <1>12, <1>13, <1>14 DEF RegistryInv

(***************************************************************************)
(* A step that leaves everything alone keeps the registry in order.        *)
(***************************************************************************)
LEMMA SameRegistry ==
    ASSUME RegistryInv, UNCHANGED vars
    PROVE  RegistryInv'
<1> USE DEF vars, scheduler
<1>1. TypeOK'
  BY DEF RegistryInv, TypeOK
<1>2. SlotsAgree(table, state)' /\ ListsAgree(ready, state)' /\ FramesAgree(frame)'
  BY DEF RegistryInv, SlotsAgree, ListsAgree, FramesAgree, Astray, Left
<1>3. OnOwnStack' /\ PlacesAgree' /\ ArmLeaves' /\ IdleWaits' /\ NoneMoreUrgent'
  BY DEF RegistryInv, OnOwnStack, PlacesAgree, ArmLeaves, IdleWaits, NoneMoreUrgent
<1> QED BY <1>1, <1>2, <1>3 DEF RegistryInv

(***************************************************************************)
(* After a switch the registry is in order: the processor is on the stack  *)
(* of the selected task, or on that of one that ended under its id.        *)
(***************************************************************************)
LEMMA SwitchInOrder ==
    ASSUME TaskAssumption, RegistryInv, NEW f, FramesAgree(f), Switch(f),
           UNCHANGED <<port, table, by_priority>>, isr' = FALSE,
           pc' \in [Context -> Points],
           \A c \in Context : state[c] \in Alive => pc'[c] \in {"run", "yield"},
           \A c \in Context : pc[c] \in Gone => pc'[c] \in Gone
    PROVE  RegistryInv'
<1>1. PICK n \in Context :
               /\ current' = Id[n] /\ current_priority' = Prio[n] /\ stack' = f[n]
               /\ frame' = f /\ pending' = FALSE
               /\ state[n] \in {"READY", "RUNNING"}
               /\ state' = [c \in Context |-> IF c = n THEN "RUNNING"
                                              ELSE IF state[c] = "RUNNING" THEN "READY"
                                              ELSE state[c]]
               /\ ready' \in RegistryLists /\ ListsAgree(ready', state')
               /\ \A c \in Context : state'[c] = "READY" => Prio[n] <= Prio[c]
  BY SwitchSteps
<1>2. /\ state \in [Context -> RegistryStates] /\ None \notin Context
      /\ f \in [Context \cup {None} -> Context] /\ stack' \in Context /\ f[stack'] = stack'
      /\ Id[n] \in Slots /\ Prio[n] \in Levels
      /\ table[Id[n]] = n
  BY <1>1, Contexts, FrameOfFrame
     DEF RegistryInv, TypeOK, RegistryStates, Alive, FramesAgree, SlotsAgree
<1>3. /\ \A c \in Context : state'[c] = IF c = n THEN "RUNNING"
                                      ELSE IF state[c] = "RUNNING" THEN "READY" ELSE state[c]
      /\ \A c \in Context : state'[c] \in Alive <=> state[c] \in Alive
      /\ \A c \in Context : state'[c] = "NONE" <=> state[c] = "NONE"
      /\ \A c \in Context : state[c] = "TERMINATED" => state'[c] = "TERMINATED"
      /\ \A c \in Context : state'[c] = "RUNNING" => c = n
  BY <1>1, <1>2 DEF Alive
<1>4. f[n] = n \/ Astray(n, f[n])
  BY DEF FramesAgree
<1>5. TypeOK'
  <2>1. state' \in [Context -> RegistryStates]
    BY <1>1, <1>2 DEF RegistryStates, Alive
  <2> QED BY <1>1, <1>2, <2>1 DEF RegistryInv, TypeOK, RegistryStates, Alive, RegistryLists
<1>6. SlotsAgree(table, state)'
  <2>1. \A s \in Slots : table[s] # None => table[s] \in Context
    BY DEF RegistryInv, TypeOK
  <2> QED BY <1>3, <2>1 DEF RegistryInv, SlotsAgree
<1>7. ListsAgree(ready, state)'
  BY <1>1 DEF ListsAgree
<1>8. FramesAgree(frame)'
  <2>1. ASSUME NEW c \in Context, Astray(c, f[c]) PROVE Astray(c, f[c])'
    <3>1. f[c] \in Context
      BY <1>2
    <3>2. pc'[f[c]] \in Gone /\ state'[f[c]] = "TERMINATED"
      BY <1>3, <2>1, <3>1 DEF Astray, Left, Gone
    <3> QED BY <1>1, <2>1, <3>2 DEF Astray, Left, Gone
  <2> QED BY <1>1, <2>1 DEF FramesAgree
<1>9. OnOwnStack'
  BY <1>1, <1>2, <1>3, <1>4 DEF OnOwnStack, Astray
<1>10. PlacesAgree' /\ ArmLeaves'
  <2>1. /\ table'[current'] = n /\ state'[n] = "RUNNING"
        /\ \A c \in Context : state'[c] \in Alive => pc'[c] \in {"run", "yield"}
    BY <1>1, <1>2, <1>3
  <2>2. CASE f[n] = n
    <3>1. stack' = n /\ pc'[n] \in {"run", "yield"}
      BY <1>1, <2>1, <2>2 DEF Alive
    <3> QED BY <2>1, <3>1 DEF PlacesAgree, ArmLeaves, Alive, Gone
  <2>3. CASE f[n] # n
    <3>1. /\ port = "ch32h417" /\ pc[stack'] \in Gone /\ state[stack'] = "TERMINATED"
          /\ stack' # n
      BY <1>1, <1>4, <2>3 DEF Astray, Left, Gone
    <3>2. port' # "arm_r5" /\ pc'[stack'] \in Gone /\ state'[stack'] = "TERMINATED"
      BY <1>2, <1>3, <3>1
    <3> QED BY <1>2, <2>1, <3>1, <3>2 DEF PlacesAgree, ArmLeaves, Alive, Gone
  <2> QED BY <2>2, <2>3
<1>11. IdleWaits'
  <2>1. IdleTask \in Context
    BY Contexts
  <2> QED BY <1>3, <2>1 DEF RegistryInv, IdleWaits
<1>12. NoneMoreUrgent'
  BY <1>1 DEF NoneMoreUrgent
<1> QED BY <1>5, <1>6, <1>7, <1>8, <1>9, <1>10, <1>11, <1>12 DEF RegistryInv

(***************************************************************************)
(* Without a switch the processor stays on its stack, and at most saved    *)
(* the stack pointer; a task that raised the interrupt goes on, or loops.  *)
(***************************************************************************)
LEMMA StaysInOrder ==
    ASSUME TaskAssumption, RegistryInv, FramesAgree(frame'), frame'[stack] = stack,
           UNCHANGED <<port, table, by_priority, scheduler, stack>>,
           isr' \in BOOLEAN,
           port = "arm_r5" =>
               /\ pc' = pc /\ (isr /\ ~isr' => table[current] \in {stack, None})
               /\ isr' /\ table[current] = None => frame'[None] = stack,
           \/ pc' = pc
           \/ pc[stack] = "yield" /\ state[stack] # "BLOCKED" /\ pc' = [pc EXCEPT ![stack] = "run"]
           \/ pc[stack] = "indexed" /\ pc' = [pc EXCEPT ![stack] = "over"]
    PROVE  RegistryInv'
<1>1. /\ UNCHANGED <<port, table, by_priority, state, ready, current, current_priority, pending, stack>>
      /\ stack \in Context /\ pc \in [Context -> Points]
  BY DEF RegistryInv, TypeOK, scheduler
<1>2. /\ \A c \in Context : pc[c] \in Gone => pc'[c] \in Gone
      /\ \A c \in Context : pc[c] \in {"run", "yield"} => pc'[c] \in {"run", "yield"}
      /\ pc' \in [Context -> Points]
  BY <1>1 DEF Gone, Points
<1>3. TypeOK'
  BY <1>1, <1>2 DEF RegistryInv, TypeOK, FramesAgree
<1>4. SlotsAgree(table, state)' /\ ListsAgree(ready, state)'
  BY <1>1 DEF RegistryInv, SlotsAgree, ListsAgree
<1>5. FramesAgree(frame)'
  <2>1. ASSUME NEW c \in Context, Astray(c, frame'[c]) PROVE Astray(c, frame[c])'
    <3>1. frame'[c] \in Context
      BY DEF FramesAgree
    <3> QED BY <1>1, <1>2, <2>1, <3>1 DEF Astray, Left, Gone
  <2> QED BY <2>1 DEF FramesAgree
<1>6. OnOwnStack' /\ IdleWaits' /\ NoneMoreUrgent'
  BY <1>1 DEF RegistryInv, OnOwnStack, IdleWaits, NoneMoreUrgent
<1>7. PlacesAgree'
  <2>1. /\ pc'[stack] \in {"run", "yield"} <=> pc[stack] \in {"run", "yield"}
        /\ pc'[stack] = "run" => state[stack] # "BLOCKED"
        /\ pc'[stack] = "marked" => pc[stack] = "marked"
        /\ pc'[stack] \in Gone => pc[stack] \in Gone
    BY <1>1 DEF RegistryInv, PlacesAgree, Gone
  <2> QED BY <1>1, <1>2, <2>1 DEF RegistryInv, PlacesAgree
<1>8. ArmLeaves'
  BY <1>1 DEF RegistryInv, ArmLeaves
<1> QED BY <1>3, <1>4, <1>5, <1>6, <1>7, <1>8 DEF RegistryInv

(***************************************************************************)
(* The software interrupt of the CH32H417: it saves, switches if a switch  *)
(* is due, and does nothing when the slot is empty.                        *)
(***************************************************************************)
LEMMA SoftwareInterruptStep ==
    ASSUME TaskAssumption, RegistryInv, port = "ch32h417", SoftwareInterrupt,
           UNCHANGED <<port, table, by_priority>>, isr' = FALSE,
           \/ pc' = pc
           \/ pc[stack] = "yield" /\ pc' = [pc EXCEPT ![stack] = "run"]
           \/ pc[stack] = "indexed" /\ pc' = [pc EXCEPT ![stack] = "over"]
    PROVE  RegistryInv'
<1>1. /\ stack \in Context /\ pc \in [Context -> Points] /\ state \in [Context -> RegistryStates]
      /\ frame[stack] = stack /\ FramesAgree(frame) /\ isr' \in BOOLEAN
      /\ port # "arm_r5"
  BY DEF RegistryInv, TypeOK, OnOwnStack, RegistryStates, Alive
<1>2. /\ pc' \in [Context -> Points]
      /\ \A c \in Context : state[c] \in Alive => pc'[c] \in {"run", "yield"}
      /\ \A c \in Context : pc[c] \in Gone => pc'[c] \in Gone
  <2>1. /\ \A c \in Context : state[c] \in Alive => pc[c] \in {"run", "yield"}
        /\ pc[stack] = "indexed" => state[stack] \notin Alive
    BY DEF RegistryInv, PlacesAgree, Gone, Alive
  <2> QED BY <1>1, <2>1 DEF Points, Gone
<1>3. FramesAgree(Save) /\ Save[stack] = stack
  BY <1>1, SavedFrames
<1>4. CASE table[current] # None /\ pending /\ Switch(Save)
  BY <1>2, <1>3, <1>4, SwitchInOrder
<1>5. CASE frame' = Save /\ ~pending /\ UNCHANGED <<scheduler, stack>>
  <2>1. state[stack] # "BLOCKED"
    BY <1>5 DEF RegistryInv, PlacesAgree
  <2> QED BY <1>1, <1>3, <1>5, <2>1, StaysInOrder
<1>6. CASE table[current] = None /\ UNCHANGED <<scheduler, stack, frame>>
  <2>1. pc[stack] # "yield"
    BY <1>1, <1>6, Contexts DEF RegistryInv, PlacesAgree
  <2> QED BY <1>1, <1>6, <2>1, StaysInOrder
<1> QED BY <1>4, <1>5, <1>6 DEF SoftwareInterrupt

(***************************************************************************)
(* The yield: the task that raised it goes on later, or never.             *)
(***************************************************************************)
LEMMA YieldStep ==
    ASSUME TaskAssumption, RegistryInv, Yield, UNCHANGED port
    PROVE  RegistryInv'
<1>1. /\ pc' = [pc EXCEPT ![stack] = IF pc[stack] = "yield" THEN "run" ELSE "over"]
      /\ pc[stack] \in {"yield", "indexed"} /\ ~isr /\ isr' = FALSE
      /\ IF port = "arm_r5" THEN Switch(Save) ELSE SoftwareInterrupt
      /\ UNCHANGED <<port, table, by_priority>>
  BY DEF Yield, GoTo, RegistryInv, TypeOK
<1>2. stack \in Context /\ pc \in [Context -> Points] /\ port \in {"arm_r5", "ch32h417"}
  BY Contexts DEF RegistryInv, TypeOK
<1>3. CASE port = "arm_r5"
  <2>1. FramesAgree(Save) /\ Switch(Save)
    BY <1>1, <1>3, SavedFrames
  <2>2. /\ \A c \in Context : state[c] \in Alive => pc[c] \in {"run", "yield"}
        /\ pc[stack] = "indexed" => state[stack] \notin Alive
    BY DEF RegistryInv, PlacesAgree, Gone, Alive
  <2>3. /\ pc' \in [Context -> Points]
        /\ \A c \in Context : state[c] \in Alive => pc'[c] \in {"run", "yield"}
        /\ \A c \in Context : pc[c] \in Gone => pc'[c] \in Gone
    BY <1>1, <1>2, <2>2 DEF Points, Gone
  <2> QED BY <1>1, <2>1, <2>3, SwitchInOrder
<1>4. CASE port = "ch32h417"
  BY <1>1, <1>4, SoftwareInterruptStep
<1> QED BY <1>2, <1>3, <1>4

(***************************************************************************)
(* Entering a handler saves what is there already, or at address 0.        *)
(***************************************************************************)
LEMMA IsrEnterStep ==
    ASSUME TaskAssumption, RegistryInv, IsrEnter, UNCHANGED port
    PROVE  RegistryInv'
<1>1. /\ UNCHANGED <<port, table, by_priority, scheduler, stack, pc>>
      /\ isr' = TRUE /\ ~isr /\ frame' = IF port = "arm_r5" THEN Save ELSE frame
      /\ FramesAgree(frame) /\ frame[stack] = stack
  BY DEF IsrEnter, RegistryInv, OnOwnStack
<1>2. FramesAgree(Save) /\ Save[stack] = stack /\ (table[current] = None => Save[None] = stack)
  BY <1>1, SavedFrames
<1> QED BY <1>1, <1>2, StaysInOrder

(***************************************************************************)
(* On the Arm port, a handler that leaves without a switch comes back to   *)
(* the stack it interrupted; or, if the task on it had given its slot up   *)
(* and the handler created another there, to that one.                     *)
(***************************************************************************)
LEMMA ArmReturnStep ==
    ASSUME TaskAssumption, RegistryInv, port = "arm_r5", isr, isr' = FALSE, ~pending,
           stack' = frame[table[current]],
           UNCHANGED <<port, table, by_priority, scheduler, frame, pc>>
    PROVE  RegistryInv'
<1>1. /\ UNCHANGED <<port, table, by_priority, state, ready, current, current_priority, pending, frame, pc>>
      /\ stack \in Context /\ frame[stack] = stack /\ None \notin Context
      /\ table[current] \in Context \cup {None} /\ current \in Slots /\ FramesAgree(frame)
  BY Contexts DEF RegistryInv, TypeOK, OnOwnStack, scheduler
<1>2. CASE table[current] \in {stack, None}
  <2>1. stack' = stack
    BY <1>1, <1>2 DEF RegistryInv, ArmLeaves
  <2> QED BY <1>1, <1>2, <2>1, StaysInOrder
<1>3. CASE table[current] \notin {stack, None}
  <2>1. PICK c \in Context : c = table[current]
    BY <1>1, <1>3
  <2>2. stack' = c /\ frame[c] = c
    BY <1>1, <2>1 DEF FramesAgree, Astray
  <2>3. /\ state[c] \in {"READY", "RUNNING"} /\ pc[c] \in {"run", "yield"} /\ Id[c] = current
    BY <1>1, <1>3, <2>1 DEF RegistryInv, PlacesAgree, SlotsAgree, Alive
  <2>4. TypeOK'
    BY <1>1, <2>2 DEF RegistryInv, TypeOK
  <2>5. SlotsAgree(table, state)' /\ ListsAgree(ready, state)' /\ FramesAgree(frame)'
    BY <1>1 DEF RegistryInv, SlotsAgree, ListsAgree, FramesAgree, Astray, Left
  <2>6. OnOwnStack' /\ IdleWaits' /\ NoneMoreUrgent'
    BY <1>1, <2>2, <2>3 DEF RegistryInv, OnOwnStack, IdleWaits, NoneMoreUrgent
  <2>7. PlacesAgree' /\ ArmLeaves'
    BY <1>1, <2>1, <2>2, <2>3 DEF RegistryInv, PlacesAgree, ArmLeaves, Alive, Gone
  <2> QED BY <2>4, <2>5, <2>6, <2>7 DEF RegistryInv
<1> QED BY <1>2, <1>3

(***************************************************************************)
(* Leaving a handler, with a switch or without.                            *)
(***************************************************************************)
LEMMA IsrExitStep ==
    ASSUME TaskAssumption, RegistryInv, IsrExit, UNCHANGED port
    PROVE  RegistryInv'
<1>1. isr /\ isr' = FALSE /\ UNCHANGED <<port, table, by_priority, pc>>
  BY DEF IsrExit
<1>2. port \in {"arm_r5", "ch32h417"} /\ FramesAgree(frame) /\ frame[stack] = stack
      /\ pc \in [Context -> Points]
      /\ \A c \in Context : state[c] \in Alive => pc[c] \in {"run", "yield"}
  BY Contexts DEF RegistryInv, TypeOK, OnOwnStack, PlacesAgree
<1>3. CASE port = "arm_r5" /\ pending
  <2>1. Switch(frame)
    BY <1>3 DEF IsrExit
  <2> QED BY <1>1, <1>2, <2>1, SwitchInOrder
<1>4. CASE port = "arm_r5" /\ ~pending
  BY <1>1, <1>4, ArmReturnStep DEF IsrExit
<1>5. CASE port = "ch32h417" /\ pending
  BY <1>1, <1>5, SoftwareInterruptStep DEF IsrExit
<1>6. CASE port = "ch32h417" /\ ~pending
  <2>1. UNCHANGED <<scheduler, stack, frame>>
    BY <1>6 DEF IsrExit
  <2> QED BY <1>1, <1>2, <1>6, <2>1, StaysInOrder
<1> QED BY <1>2, <1>3, <1>4, <1>5, <1>6

(***************************************************************************)
(* Creating a task.  If its slot is the current one, the task that is on   *)
(* the processor has given that slot up, and a handler creates.            *)
(***************************************************************************)
LEMMA CreateInOrder ==
    ASSUME TaskAssumption, RegistryInv, NEW c \in Context, Create(c), UNCHANGED port,
           isr \/ pc[stack] = "run",
           pc' \in [Context -> Points],
           pc'[c] = "run",
           \A d \in Context \ {c} : pc'[d] = pc[d] \/ (pc[d] = "run" /\ pc'[d] = "yield")
    PROVE  RegistryInv'
<1>1. /\ c # stack /\ state[c] \in {"NONE", "TERMINATED"} /\ table[Id[c]] = None
      /\ table' = [table EXCEPT ![Id[c]] = c]
      /\ by_priority' = [by_priority EXCEPT ![Prio[c]] = IF @ = None THEN c ELSE @]
      /\ state' = [state EXCEPT ![c] = "READY"]
      /\ frame' = [frame EXCEPT ![c] = c]
      /\ ready' = [ready EXCEPT ![Prio[c]] = Append(@, c)]
      /\ pending' = (pending \/ Prio[c] < current_priority)
      /\ UNCHANGED <<port, current, current_priority, stack, isr>>
  BY DEF Create, SlotFree, Outranks
<1>2. /\ stack \in Context /\ frame \in [Context \cup {None} -> Context] /\ None \notin Context
      /\ state \in [Context -> RegistryStates] /\ ready \in RegistryLists
      /\ table \in [Slots -> Context \cup {None}] /\ current \in Slots
      /\ by_priority \in [Levels -> Context \cup {None}] /\ pending \in BOOLEAN
      /\ \A d \in Context : Id[d] \in Slots /\ Prio[d] \in Levels /\ Prio[d] \in Nat
      /\ current_priority \in Nat
      /\ ListsAgree(ready, state)
  BY Contexts DEF RegistryInv, TypeOK, RegistryStates, Alive, RegistryLists
<1>3. ready' \in RegistryLists /\ ListsAgree(ready', state')
  BY <1>1, <1>2, RegistryQueued
<1>4. \A d \in Context : state'[d] = IF d = c THEN "READY" ELSE state[d]
  BY <1>1, <1>2
<1>5. \A s \in Slots : table'[s] = IF s = Id[c] THEN c ELSE table[s]
  BY <1>1, <1>2
<1>6. \A d \in Context \cup {None} : frame'[d] = IF d = c THEN c ELSE frame[d]
  BY <1>1, <1>2
<1>7. TypeOK'
  <2>1. table' \in [Slots -> Context \cup {None}] /\ frame' \in [Context \cup {None} -> Context]
    BY <1>1, <1>2
  <2>2. by_priority' \in [Levels -> Context \cup {None}]
    BY <1>1, <1>2
  <2>3. state' \in [Context -> RegistryStates]
    BY <1>1, <1>2 DEF RegistryStates, Alive
  <2>4. pending' \in BOOLEAN /\ isr' \in BOOLEAN /\ current_priority' \in Levels /\ port' \in Ports
    BY <1>1, <1>2 DEF RegistryInv, TypeOK
  <2> QED BY <1>1, <1>2, <1>3, <2>1, <2>2, <2>3, <2>4
          DEF TypeOK, RegistryStates, Alive, RegistryLists
<1>8. SlotsAgree(table, state)'
  <2>1. ASSUME NEW s \in Slots, table'[s] # None
        PROVE  Id[table'[s]] = s /\ state'[table'[s]] # "NONE"
    <3>1. CASE s = Id[c]
      BY <1>4, <1>5, <3>1
    <3>2. CASE s # Id[c]
      <4>1. table'[s] = table[s] /\ table[s] \in Context
        BY <1>2, <1>5, <2>1, <3>2
      <4> QED BY <1>4, <2>1, <4>1 DEF RegistryInv, SlotsAgree
    <3> QED BY <3>1, <3>2
  <2>2. ASSUME NEW d \in Context, state'[d] \in Alive
        PROVE  table'[Id[d]] = d
    <3>1. CASE d = c
      BY <1>2, <1>5, <3>1
    <3>2. CASE d # c
      <4>1. table[Id[d]] = d
        BY <1>4, <2>2, <3>2 DEF RegistryInv, SlotsAgree
      <4> QED BY <1>1, <1>2, <1>5, <4>1
    <3> QED BY <3>1, <3>2
  <2> QED BY <2>1, <2>2 DEF SlotsAgree
<1>9. ListsAgree(ready, state)'
  BY <1>3 DEF ListsAgree
<1>10. FramesAgree(frame)'
  <2>1. ASSUME NEW d \in Context, d # c, Astray(d, frame[d]) PROVE Astray(d, frame[d])'
    <3>1. PICK e \in Context : e = frame[d]
      BY <1>2
    <3>2. table[Id[d]] = d /\ Left(e) /\ Id[e] = Id[d] /\ port = "ch32h417"
      BY <2>1, <3>1 DEF Astray
    <3>3. Id[d] # Id[c] /\ e # c
      BY <1>1, <1>2, <3>2
    <3>4. state'[e] = state[e] /\ pc'[e] = pc[e]
      BY <1>4, <3>2, <3>3 DEF Left
    <3>5. table'[Id[d]] = d /\ frame'[d] = e
      BY <1>2, <1>5, <1>6, <2>1, <3>1, <3>2, <3>3
    <3> QED BY <1>1, <3>2, <3>4, <3>5 DEF Astray, Left
  <2>2. \A d \in Context : frame[d] = d \/ Astray(d, frame[d])
    BY DEF RegistryInv, FramesAgree
  <2>3. ASSUME NEW d \in Context PROVE (frame[d] = d \/ Astray(d, frame[d]))'
    <3>1. CASE d = c
      BY <1>6, <3>1
    <3>2. CASE d # c
      BY <1>6, <2>1, <2>2, <3>2
    <3> QED BY <3>1, <3>2
  <2> QED BY <1>7, <2>3 DEF FramesAgree, TypeOK
<1>11. \/ table'[current] = table[current]
       \/ table[current] = None /\ table'[current] = c /\ pc[stack] \in Gone /\ isr
  <2>1. pc[stack] \in Points
    BY <1>2 DEF RegistryInv, TypeOK
  <2>2. table[current] = None => pc[stack] \in Gone
    BY <1>2, <2>1 DEF RegistryInv, PlacesAgree, Points, Gone
  <2> QED BY <1>1, <1>2, <1>5, <2>2 DEF Gone
<1>12. OnOwnStack'
  <2>1. current' = Id[stack'] /\ frame'[stack'] = stack'
    BY <1>1, <1>2, <1>6 DEF RegistryInv, OnOwnStack
  <2>2. ASSUME NEW d \in Context, state'[d] = "RUNNING"
        PROVE  d = table'[current'] /\ current_priority' = Prio[d]
    BY <1>1, <1>2, <1>4, <1>11, <2>2 DEF RegistryInv, OnOwnStack
  <2> QED BY <2>1, <2>2 DEF OnOwnStack
<1>13. PlacesAgree'
  <2>1. state'[stack] = state[stack] /\ state'[c] = "READY"
    BY <1>1, <1>2, <1>4
  <2>2. pc'[stack] = pc[stack] \/ (pc[stack] = "run" /\ pc'[stack] = "yield")
    BY <1>1, <1>2
  <2>3. ASSUME NEW d \in Context, state'[d] \in Alive
        PROVE  pc'[d] \in {"run", "yield"}
    <3>1. CASE d = c
      BY <3>1
    <3>2. CASE d # c
      BY <1>4, <2>3, <3>2 DEF RegistryInv, PlacesAgree
    <3> QED BY <3>1, <3>2
  <2>4. CASE table'[current] = table[current]
    <3>1. table[current] \notin {stack, None} => table[current] # c /\ table[current] \in Context
      BY <1>1, <1>2 DEF RegistryInv, PlacesAgree
    <3>2. table[current] \notin {stack, None} => state'[table[current]] \in {"READY", "RUNNING"}
      BY <1>4, <3>1 DEF RegistryInv, PlacesAgree
    <3> QED BY <1>1, <2>1, <2>2, <2>3, <2>4, <3>2 DEF RegistryInv, PlacesAgree, Gone
  <2>5. CASE table[current] = None /\ table'[current] = c /\ pc[stack] \in Gone /\ isr
    BY <1>1, <2>1, <2>2, <2>3, <2>5 DEF RegistryInv, PlacesAgree, Gone
  <2> QED BY <1>11, <2>4, <2>5
<1>14. ArmLeaves'
  <2>1. pc[stack] # "over" => pc'[stack] # "over"
    BY <1>1, <1>2
  <2>2. frame'[None] = frame[None]
    BY <1>2, <1>6
  <2> QED BY <1>1, <1>2, <1>11, <2>1, <2>2 DEF RegistryInv, ArmLeaves
<1>15. IdleWaits'
  BY <1>1, <1>4, Contexts DEF RegistryInv, IdleWaits
<1>16. NoneMoreUrgent'
  <2> SUFFICES ASSUME ~pending', NEW d \in Context, state'[d] = "READY"
               PROVE  current_priority <= Prio[d]
    BY <1>1 DEF NoneMoreUrgent
  <2>1. ~pending /\ ~(Prio[c] < current_priority) /\ Prio[c] \in Nat /\ current_priority \in Nat
    BY <1>1, <1>2
  <2>2. CASE d = c
    BY <2>1, <2>2
  <2>3. CASE d # c
    BY <1>4, <2>1, <2>3 DEF RegistryInv, NoneMoreUrgent
  <2> QED BY <2>2, <2>3
<1> QED BY <1>7, <1>8, <1>9, <1>10, <1>12, <1>13, <1>14, <1>15, <1>16 DEF RegistryInv

(***************************************************************************)
(* A task creates another, and yields to it when it is more urgent.        *)
(***************************************************************************)
LEMMA TaskCreatesStep ==
    ASSUME TaskAssumption, RegistryInv, NEW c \in Context, TaskCreates(c), UNCHANGED port
    PROVE  RegistryInv'
<1>1. /\ pc[stack] = "run" /\ Create(c) /\ c # stack
      /\ pc' = [pc EXCEPT ![c] = "run", ![stack] = IF Outranks(c) THEN "yield" ELSE "run"]
  BY DEF TaskCreates, Create
<1>2. stack \in Context /\ pc \in [Context -> Points]
  BY DEF RegistryInv, TypeOK
<1>3. /\ pc' \in [Context -> Points]
      /\ pc'[c] = "run"
      /\ \A d \in Context \ {c} : pc'[d] = pc[d] \/ (pc[d] = "run" /\ pc'[d] = "yield")
  BY <1>1, <1>2 DEF Points
<1> QED BY <1>1, <1>3, CreateInOrder

(***************************************************************************)
(* A handler creates a task in any free slot, that of a task that is       *)
(* leaving the processor included.                                         *)
(***************************************************************************)
LEMMA IsrCreateStep ==
    ASSUME TaskAssumption, RegistryInv, NEW c \in Context, IsrCreate(c), UNCHANGED port
    PROVE  RegistryInv'
<1>1. isr /\ Create(c) /\ pc' = [pc EXCEPT ![c] = "run"]
  BY DEF IsrCreate
<1>2. pc \in [Context -> Points]
  BY DEF RegistryInv, TypeOK
<1>3. /\ pc' \in [Context -> Points]
      /\ pc'[c] = "run"
      /\ \A d \in Context \ {c} : pc'[d] = pc[d] \/ (pc[d] = "run" /\ pc'[d] = "yield")
  BY <1>1, <1>2 DEF Points
<1> QED BY <1>1, <1>3, CreateInOrder

(***************************************************************************)
(* The running task blocks or is marked as ended: it leaves its list, if a *)
(* handler had queued it, and is still on the processor in its slot.       *)
(***************************************************************************)
LEMMA LeavesListInOrder ==
    ASSUME TaskAssumption, RegistryInv, pc[stack] = "run", Running # IdleTask,
           NEW v, NEW p,
           \/ v = "BLOCKED" /\ p = "yield" /\ pending' = TRUE
           \/ v = "TERMINATED" /\ p = "marked" /\ pending' = pending,
           state' = [state EXCEPT ![Running] = v],
           ready' = Unqueued(Running),
           pc' = [pc EXCEPT ![stack] = p],
           UNCHANGED <<port, table, by_priority, current, current_priority, stack, frame, isr>>
    PROVE  RegistryInv'
<1>1. /\ stack \in Context /\ state \in [Context -> RegistryStates] /\ ready \in RegistryLists
      /\ pc \in [Context -> Points] /\ pending \in BOOLEAN /\ ListsAgree(ready, state)
      /\ table[current] = stack /\ Running = stack /\ state[stack] \in Alive
      /\ v \in RegistryStates /\ v \notin {"READY", "RUNNING", "NONE"}
  BY DEF RegistryInv, TypeOK, RegistryStates, RegistryLists, Alive, PlacesAgree, Running
<1>2. /\ \A d \in Context : state'[d] = IF d = stack THEN v ELSE state[d]
      /\ \A d \in Context : pc'[d] = IF d = stack THEN p ELSE pc[d]
      /\ state' \in [Context -> RegistryStates] /\ pc' \in [Context -> Points]
  BY <1>1 DEF Points
<1>3. ready' \in RegistryLists /\ ListsAgree(ready', state')
  BY <1>1, RegistryUnqueued DEF Unqueued
<1>4. TypeOK'
  BY <1>1, <1>2, <1>3 DEF RegistryInv, TypeOK, RegistryStates, Alive, RegistryLists
<1>5. SlotsAgree(table, state)'
  <2>1. \A s \in Slots : table[s] # None => table[s] \in Context
    BY DEF RegistryInv, TypeOK
  <2> QED BY <1>1, <1>2, <2>1 DEF RegistryInv, SlotsAgree, Alive
<1>6. ListsAgree(ready, state)'
  BY <1>3 DEF ListsAgree
<1>7. FramesAgree(frame)'
  <2>1. ASSUME NEW d \in Context, Astray(d, frame[d]) PROVE Astray(d, frame[d])'
    <3>1. frame[d] \in Context /\ frame[d] # stack
      BY <1>1, <2>1 DEF RegistryInv, FramesAgree, Astray, Left
    <3> QED BY <1>2, <2>1, <3>1 DEF Astray, Left
  <2> QED BY <2>1 DEF RegistryInv, FramesAgree
<1>8. OnOwnStack'
  BY <1>1, <1>2 DEF RegistryInv, OnOwnStack
<1>9. PlacesAgree'
  BY <1>1, <1>2 DEF RegistryInv, PlacesAgree, Alive, Gone
<1>10. ArmLeaves'
  BY <1>1, <1>2 DEF RegistryInv, ArmLeaves
<1>11. IdleWaits'
  BY <1>1, <1>2, Contexts DEF RegistryInv, IdleWaits
<1>12. NoneMoreUrgent'
  BY <1>1, <1>2 DEF RegistryInv, NoneMoreUrgent
<1> QED BY <1>4, <1>5, <1>6, <1>7, <1>8, <1>9, <1>10, <1>11, <1>12 DEF RegistryInv

(***************************************************************************)
(* A wake-up queues a task that was not queued, and asks for a switch when *)
(* it is more urgent.                                                      *)
(***************************************************************************)
LEMMA IsrWakeStep ==
    ASSUME TaskAssumption, RegistryInv, NEW c \in Context, IsrWake(c), UNCHANGED port
    PROVE  RegistryInv'
<1>1. /\ state[c] = "BLOCKED"
      /\ state' = [state EXCEPT ![c] = "READY"]
      /\ ready' = [ready EXCEPT ![Prio[c]] = Append(@, c)]
      /\ pending' = (pending \/ Prio[c] < current_priority)
      /\ UNCHANGED <<port, table, by_priority, current, current_priority, stack, frame, pc, isr>>
  BY DEF IsrWake, Outranks
<1>2. /\ stack \in Context /\ state \in [Context -> RegistryStates] /\ ready \in RegistryLists
      /\ pending \in BOOLEAN /\ ListsAgree(ready, state)
      /\ current_priority \in Nat /\ \A d \in Context : Prio[d] \in Nat
  BY Contexts DEF RegistryInv, TypeOK, RegistryStates, Alive, RegistryLists
<1>3. ready' \in RegistryLists /\ ListsAgree(ready', state')
  BY <1>1, <1>2, RegistryQueued
<1>4. \A d \in Context : state'[d] = IF d = c THEN "READY" ELSE state[d]
  BY <1>1, <1>2
<1>5. TypeOK'
  <2>1. state' \in [Context -> RegistryStates] /\ pending' \in BOOLEAN
    BY <1>1, <1>2 DEF RegistryStates, Alive
  <2> QED BY <1>1, <1>3, <2>1 DEF RegistryInv, TypeOK, RegistryStates, Alive, RegistryLists
<1>6. SlotsAgree(table, state)'
  <2>1. \A s \in Slots : table[s] # None => table[s] \in Context
    BY DEF RegistryInv, TypeOK
  <2> QED BY <1>1, <1>4, <2>1 DEF RegistryInv, SlotsAgree, Alive
<1>7. ListsAgree(ready, state)'
  BY <1>3 DEF ListsAgree
<1>8. FramesAgree(frame)'
  <2>1. ASSUME NEW d \in Context, Astray(d, frame[d]) PROVE Astray(d, frame[d])'
    <3>1. frame[d] \in Context /\ frame[d] # c
      BY <1>1, <2>1 DEF RegistryInv, FramesAgree, Astray, Left
    <3> QED BY <1>1, <1>4, <2>1, <3>1 DEF Astray, Left
  <2> QED BY <1>1, <2>1 DEF RegistryInv, FramesAgree
<1>9. OnOwnStack' /\ IdleWaits' /\ ArmLeaves'
  BY <1>1, <1>4, Contexts DEF RegistryInv, OnOwnStack, IdleWaits, ArmLeaves
<1>10. PlacesAgree'
  <2>1. table[current] \in Context \cup {None}
    BY DEF RegistryInv, TypeOK
  <2> QED BY <1>1, <1>2, <1>4, <2>1 DEF RegistryInv, PlacesAgree, Alive, Gone
<1>11. NoneMoreUrgent'
  <2> SUFFICES ASSUME ~pending', NEW d \in Context, state'[d] = "READY"
               PROVE  current_priority <= Prio[d]
    BY <1>1 DEF NoneMoreUrgent
  <2>1. ~pending /\ ~(Prio[c] < current_priority) /\ Prio[c] \in Nat /\ current_priority \in Nat
    BY <1>1, <1>2
  <2>2. CASE d = c
    BY <2>1, <2>2
  <2>3. CASE d # c
    BY <1>4, <2>1, <2>3 DEF RegistryInv, NoneMoreUrgent
  <2> QED BY <2>2, <2>3
<1> QED BY <1>5, <1>6, <1>7, <1>8, <1>9, <1>10, <1>11 DEF RegistryInv

(***************************************************************************)
(* The ending task clears its slot, and no task that lives was in it.      *)
(***************************************************************************)
LEMMA ExitUnregisterStep ==
    ASSUME TaskAssumption, RegistryInv, ExitUnregister, UNCHANGED port
    PROVE  RegistryInv'
<1>1. /\ pc[stack] = "marked" /\ ~isr
      /\ table' = [table EXCEPT ![current] = None]
      /\ pc' = [pc EXCEPT ![stack] = "unregistered"]
      /\ UNCHANGED <<port, by_priority, state, ready, current, current_priority, pending, stack, frame, isr>>
  BY DEF ExitUnregister, GoTo, scheduler
<1>2. /\ stack \in Context /\ table \in [Slots -> Context \cup {None}] /\ current \in Slots
      /\ pc \in [Context -> Points] /\ None \notin Context
      /\ table[current] = stack /\ state[stack] = "TERMINATED"
      /\ \A d \in Context : Id[d] \in Slots
  BY <1>1, Contexts DEF RegistryInv, TypeOK, PlacesAgree
<1>3. /\ \A s \in Slots : table'[s] = IF s = current THEN None ELSE table[s]
      /\ \A d \in Context : pc'[d] = IF d = stack THEN "unregistered" ELSE pc[d]
      /\ table' \in [Slots -> Context \cup {None}] /\ pc' \in [Context -> Points]
  BY <1>1, <1>2 DEF Points
<1>4. TypeOK'
  BY <1>1, <1>2, <1>3 DEF RegistryInv, TypeOK
<1>5. SlotsAgree(table, state)'
  BY <1>1, <1>2, <1>3 DEF RegistryInv, SlotsAgree, Alive
<1>6. ListsAgree(ready, state)'
  BY <1>1 DEF RegistryInv, ListsAgree
<1>7. FramesAgree(frame)'
  <2>1. ASSUME NEW d \in Context, frame[d] # d, Astray(d, frame[d]) PROVE Astray(d, frame[d])'
    <3>1. frame[d] \in Context /\ frame[d] # stack /\ d # stack
      BY <1>1, <2>1 DEF RegistryInv, FramesAgree, OnOwnStack, Astray, Left
    <3>2. Id[d] # current
      BY <1>2, <2>1, <3>1 DEF Astray
    <3> QED BY <1>1, <1>2, <1>3, <2>1, <3>1, <3>2 DEF Astray, Left
  <2> QED BY <1>1, <2>1 DEF RegistryInv, FramesAgree
<1>8. OnOwnStack' /\ IdleWaits' /\ NoneMoreUrgent' /\ ArmLeaves'
  BY <1>1, <1>2, <1>3 DEF RegistryInv, OnOwnStack, IdleWaits, NoneMoreUrgent, ArmLeaves
<1>9. PlacesAgree'
  BY <1>1, <1>2, <1>3 DEF RegistryInv, PlacesAgree, Gone, Alive
<1> QED BY <1>4, <1>5, <1>6, <1>7, <1>8, <1>9 DEF RegistryInv

(***************************************************************************)
(* The index by priority names a registered task, and a switch is due.     *)
(***************************************************************************)
LEMMA ExitIndexStep ==
    ASSUME TaskAssumption, RegistryInv, ExitIndex, UNCHANGED port
    PROVE  RegistryInv'
<1>1. /\ pc[stack] = "unregistered" /\ ~isr
      /\ by_priority' = [by_priority EXCEPT ![Prio[stack]] = FirstAt(table, Prio[stack])]
      /\ pending' = TRUE
      /\ pc' = [pc EXCEPT ![stack] = "indexed"]
      /\ UNCHANGED <<port, table, state, ready, current, current_priority, stack, frame, isr>>
  BY DEF ExitIndex, GoTo
<1>2. /\ stack \in Context /\ table \in [Slots -> Context \cup {None}]
      /\ by_priority \in [Levels -> Context \cup {None}]
      /\ pc \in [Context -> Points]
      /\ state[stack] = "TERMINATED"
  BY <1>1 DEF RegistryInv, TypeOK, PlacesAgree, Gone
<1>3. by_priority' \in [Levels -> Context \cup {None}]
  <2>1. FirstAt(table, Prio[stack]) \in Context \cup {None}
    BY <1>2, FirstAtType
  <2> QED BY <1>1, <1>2, <2>1
<1>4. /\ \A d \in Context : pc'[d] = IF d = stack THEN "indexed" ELSE pc[d]
      /\ pc' \in [Context -> Points]
  BY <1>1, <1>2 DEF Points
<1>5. TypeOK'
  BY <1>1, <1>2, <1>3, <1>4 DEF RegistryInv, TypeOK
<1>6. SlotsAgree(table, state)' /\ ListsAgree(ready, state)'
  BY <1>1 DEF RegistryInv, SlotsAgree, ListsAgree
<1>7. FramesAgree(frame)'
  <2>1. ASSUME NEW d \in Context, Astray(d, frame[d]) PROVE Astray(d, frame[d])'
    <3>1. frame[d] \in Context
      BY DEF RegistryInv, FramesAgree
    <3> QED BY <1>1, <1>4, <2>1, <3>1 DEF Astray, Left
  <2> QED BY <1>1, <2>1 DEF RegistryInv, FramesAgree
<1>8. OnOwnStack' /\ IdleWaits' /\ NoneMoreUrgent' /\ ArmLeaves'
  BY <1>1, <1>2, <1>4 DEF RegistryInv, OnOwnStack, IdleWaits, NoneMoreUrgent, ArmLeaves
<1>9. PlacesAgree'
  BY <1>1, <1>2, <1>4 DEF RegistryInv, PlacesAgree, Gone, Alive
<1> QED BY <1>3, <1>5, <1>6, <1>7, <1>8, <1>9 DEF RegistryInv

(***************************************************************************)
(* Every step keeps the registry in order.                                 *)
(***************************************************************************)
LEMMA RegistryStep ==
    ASSUME TaskAssumption, RegistryInv, Next
    PROVE  RegistryInv'
<1>0. UNCHANGED port
  BY DEF Next
<1>1. CASE Yield
  BY <1>0, <1>1, YieldStep
<1>2. CASE IsrEnter
  BY <1>0, <1>2, IsrEnterStep
<1>3. CASE IsrExit
  BY <1>0, <1>3, IsrExitStep
<1>4. CASE Block
  BY <1>0, <1>4, LeavesListInOrder DEF Block, GoTo
<1>5. CASE ExitMark
  BY <1>0, <1>5, LeavesListInOrder DEF ExitMark, GoTo
<1>6. CASE ExitUnregister
  BY <1>0, <1>6, ExitUnregisterStep
<1>7. CASE ExitIndex
  BY <1>0, <1>7, ExitIndexStep
<1>8. ASSUME NEW c \in Context, TaskCreates(c) PROVE RegistryInv'
  BY <1>0, <1>8, TaskCreatesStep
<1>9. ASSUME NEW c \in Context, IsrCreate(c) PROVE RegistryInv'
  BY <1>0, <1>9, IsrCreateStep
<1>10. ASSUME NEW c \in Context, IsrWake(c) PROVE RegistryInv'
  BY <1>0, <1>10, IsrWakeStep
<1> QED BY <1>1, <1>2, <1>3, <1>4, <1>5, <1>6, <1>7, <1>8, <1>9, <1>10 DEF Next

(***************************************************************************)
(* What the invariant says of frames and priorities.                       *)
(***************************************************************************)
LEMMA RegistryInOrder ==
    ASSUME RegistryInv
    PROVE  TypeOK /\ FramesOwn /\ RunningIsMostUrgent
<1>1. FramesOwn
  BY DEF RegistryInv, FramesAgree, Astray, FramesOwn
<1>2. RunningIsMostUrgent
  BY DEF RegistryInv, TypeOK, OnOwnStack, NoneMoreUrgent, RunningIsMostUrgent
<1> QED BY <1>1, <1>2 DEF RegistryInv

(***************************************************************************)
(* The registry stays in order on both ports, whatever contexts, ids and   *)
(* priorities, and whatever tasks and handlers create, in the slot of a    *)
(* task that is ending too (xrtos_core.c, the Arm and CH32H417 ports).     *)
(***************************************************************************)
THEOREM RegistryAlwaysInOrder == TaskAssumption => (Spec => []RegistryInv)
<1> SUFFICES ASSUME TaskAssumption PROVE Spec => []RegistryInv
  OBVIOUS
<1>1. Init => RegistryInv
  BY RegistryInit
<1>2. RegistryInv /\ [Next]_vars => RegistryInv'
  BY RegistryStep, SameRegistry
<1> QED BY <1>1, <1>2, PTL DEF Spec
=============================================================================
