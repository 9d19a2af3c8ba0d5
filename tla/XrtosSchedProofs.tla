-------------------------- MODULE XrtosSchedProofs --------------------------
(***************************************************************************)
(* Lemmas about the scheduling core, for the proofs of every module built  *)
(* on XrtosSched: what each list operation does to the agreement of ready  *)
(* lists, task states and effective priorities, and what each step of the  *)
(* core keeps.                                                             *)
(***************************************************************************)
EXTENDS XrtosSched, SequenceTheorems, FunctionTheorems, FiniteSetTheorems,
        WellFoundedInduction, TLAPS

-----------------------------------------------------------------------------
(* Lists: what append, insert at a position, remove the first occurrence   *)
(* and take the head do to the set of elements and to the absence of       *)
(* duplicates.  The doubly linked lists of xRTOS (ready lists, waiter      *)
(* lists) are sequences in the models.                                     *)

(***************************************************************************)
(* A set of numbers that has members has a least one: the search for the   *)
(* most urgent priority, or for a place in a list, finds something.        *)
(***************************************************************************)
LEMMA LeastNumber ==
    ASSUME NEW I \in SUBSET Nat, I # {}
    PROVE  \E x \in I : \A y \in I : x <= y
<1>1. PICK x \in I : \A y \in I : ~ (<<y, x>> \in OpToRel(<, Nat))
  BY NatLessThanWellFounded, WFMin
<1>2. ASSUME NEW y \in I PROVE x <= y
  <2>1. <<y, x>> \in Nat \X Nat /\ ~ (<<y, x>> \in OpToRel(<, Nat))
    BY <1>1
  <2>2. ~ (y < x)
    BY <2>1 DEF OpToRel
  <2> QED BY <2>2
<1> QED BY <1>2

(***************************************************************************)
(* The part of a list between two places.                                  *)
(***************************************************************************)
LEMMA PartOfList ==
    ASSUME NEW S, NEW s \in Seq(S), NEW m \in 1 .. Len(s) + 1, NEW n \in 0 .. Len(s),
           m <= n + 1
    PROVE  /\ SubSeq(s, m, n) \in Seq(S)
           /\ Len(SubSeq(s, m, n)) = n + 1 - m
           /\ \A i \in 1 .. n + 1 - m : SubSeq(s, m, n)[i] = s[m + i - 1]
<1>1. \A i \in m .. n : s[i] \in S
  OBVIOUS
<1>2. m \in Int /\ n \in Int
  OBVIOUS
<1> QED BY <1>1, <1>2, SubSeqProperties

(***************************************************************************)
(* Taking the place k out of a list.                                       *)
(***************************************************************************)
LEMMA RemoveAtPlaces ==
    ASSUME NEW S, NEW s \in Seq(S), NEW k \in 1 .. Len(s)
    PROVE  /\ RemoveAt(s, k) \in Seq(S)
           /\ Len(RemoveAt(s, k)) = Len(s) - 1
           /\ \A i \in 1 .. Len(s) - 1 :
                 RemoveAt(s, k)[i] = IF i < k THEN s[i] ELSE s[i + 1]
<1>1. PICK a : a = SubSeq(s, 1, k - 1)
  OBVIOUS
<1>2. PICK b : b = SubSeq(s, k + 1, Len(s))
  OBVIOUS
<1>3. /\ a \in Seq(S) /\ Len(a) = k - 1
      /\ \A i \in 1 .. k - 1 : a[i] = s[i]
  <2>1. 1 \in 1 .. Len(s) + 1 /\ k - 1 \in 0 .. Len(s) /\ 1 <= k - 1 + 1
    OBVIOUS
  <2> QED BY <1>1, <2>1, PartOfList
<1>4. /\ b \in Seq(S) /\ Len(b) = Len(s) - k
      /\ \A i \in 1 .. Len(s) - k : b[i] = s[k + i]
  <2>1. k + 1 \in 1 .. Len(s) + 1 /\ Len(s) \in 0 .. Len(s) /\ k + 1 <= Len(s) + 1
    OBVIOUS
  <2> QED BY <1>2, <2>1, PartOfList
<1>5. RemoveAt(s, k) = a \o b
  BY <1>1, <1>2 DEF RemoveAt
<1>6. /\ a \o b \in Seq(S) /\ Len(a \o b) = Len(a) + Len(b)
      /\ \A i \in 1 .. Len(a) + Len(b) :
            (a \o b)[i] = IF i <= Len(a) THEN a[i] ELSE b[i - Len(a)]
  BY <1>3, <1>4, ConcatProperties
<1> QED BY <1>3, <1>4, <1>5, <1>6

(***************************************************************************)
(* Removing an element that is not there changes nothing.                  *)
(***************************************************************************)
LEMMA RemoveAbsent ==
    ASSUME NEW S, NEW s \in Seq(S), NEW x, x \notin ToSet(s)
    PROVE  RemoveFirst(s, x) = s
BY DEF RemoveFirst, ToSet

(***************************************************************************)
(* Removing an element that is there takes one place out of the list.      *)
(***************************************************************************)
LEMMA RemovePresent ==
    ASSUME NEW S, NEW s \in Seq(S), NEW x, x \in ToSet(s)
    PROVE  \E k \in 1 .. Len(s) : s[k] = x /\ RemoveFirst(s, x) = RemoveAt(s, k)
<1>1. PICK I : I = {i \in 1 .. Len(s) : s[i] = x}
  OBVIOUS
<1>2. I \in SUBSET Nat /\ I # {}
  BY <1>1 DEF ToSet
<1>3. Min(I) \in I
  BY <1>2, LeastNumber DEF Min
<1>4. RemoveFirst(s, x) = RemoveAt(s, Min(I))
  BY <1>1, <1>2 DEF RemoveFirst, SelectInSeq
<1> QED BY <1>1, <1>3, <1>4

(***************************************************************************)
(* A list without duplicates loses exactly the element removed.            *)
(***************************************************************************)
LEMMA RemoveFirstElements ==
    ASSUME NEW S, NEW s \in Seq(S), NEW x, IsInjective(s)
    PROVE  /\ RemoveFirst(s, x) \in Seq(S)
           /\ IsInjective(RemoveFirst(s, x))
           /\ ToSet(RemoveFirst(s, x)) = ToSet(s) \ {x}
<1>1. CASE x \notin ToSet(s)
  BY <1>1, RemoveAbsent
<1>2. CASE x \in ToSet(s)
  <2>0. PICK r : r = RemoveFirst(s, x)
    OBVIOUS
  <2>1. PICK k \in 1 .. Len(s) :
              /\ s[k] = x
              /\ r \in Seq(S)
              /\ Len(r) = Len(s) - 1
              /\ \A i \in 1 .. Len(s) - 1 : r[i] = IF i < k THEN s[i] ELSE s[i + 1]
    <3>1. PICK k \in 1 .. Len(s) : s[k] = x /\ r = RemoveAt(s, k)
      BY <1>2, <2>0, RemovePresent
    <3>2. /\ RemoveAt(s, k) \in Seq(S)
          /\ Len(RemoveAt(s, k)) = Len(s) - 1
          /\ \A i \in 1 .. Len(s) - 1 :
                RemoveAt(s, k)[i] = IF i < k THEN s[i] ELSE s[i + 1]
      BY RemoveAtPlaces
    <3> QED BY <3>1, <3>2
  <2>2. \A i, j \in 1 .. Len(s) : s[i] = s[j] => i = j
    BY DEF IsInjective
  <2>3. IsInjective(r)
    BY <2>1, <2>2 DEF IsInjective
  <2>4. ToSet(r) \subseteq ToSet(s) \ {x}
    BY <2>1, <2>2 DEF ToSet
  <2>5. ASSUME NEW j \in 1 .. Len(s), s[j] # x PROVE s[j] \in ToSet(r)
    <3>1. CASE j < k
      BY <2>1, <3>1 DEF ToSet
    <3>2. CASE j > k
      <4>1. j - 1 \in 1 .. Len(s) - 1 /\ r[j - 1] = s[j]
        BY <2>1, <3>2
      <4> QED BY <2>1, <4>1 DEF ToSet
    <3> QED BY <2>1, <2>5, <3>1, <3>2
  <2>6. ToSet(s) \ {x} \subseteq ToSet(r)
    BY <2>5 DEF ToSet
  <2> QED BY <2>0, <2>1, <2>3, <2>4, <2>6
<1> QED BY <1>1, <1>2

(***************************************************************************)
(* Inserting at a position of the list adds exactly one place to it.       *)
(***************************************************************************)
LEMMA InsertAtPlaces ==
    ASSUME NEW S, NEW s \in Seq(S), NEW x \in S, NEW k \in 1 .. Len(s) + 1
    PROVE  /\ InsertAt(s, k, x) \in Seq(S)
           /\ Len(InsertAt(s, k, x)) = Len(s) + 1
           /\ \A i \in 1 .. Len(s) + 1 :
                 InsertAt(s, k, x)[i] = IF i < k THEN s[i]
                                        ELSE IF i = k THEN x ELSE s[i - 1]
<1>1. PICK a : a = SubSeq(s, 1, k - 1)
  OBVIOUS
<1>2. PICK b : b = SubSeq(s, k, Len(s))
  OBVIOUS
<1>3. /\ a \in Seq(S) /\ Len(a) = k - 1
      /\ \A i \in 1 .. k - 1 : a[i] = s[i]
  <2>1. 1 \in 1 .. Len(s) + 1 /\ k - 1 \in 0 .. Len(s) /\ 1 <= k - 1 + 1
    OBVIOUS
  <2> QED BY <1>1, <2>1, PartOfList
<1>4. /\ b \in Seq(S) /\ Len(b) = Len(s) + 1 - k
      /\ \A i \in 1 .. Len(s) + 1 - k : b[i] = s[k + i - 1]
  <2>1. Len(s) \in 0 .. Len(s) /\ k <= Len(s) + 1
    OBVIOUS
  <2> QED BY <1>2, <2>1, PartOfList
<1>5. InsertAt(s, k, x) = (a \o <<x>>) \o b
  BY <1>1, <1>2 DEF InsertAt
<1>6. PICK c : c = a \o <<x>>
  OBVIOUS
<1>7. /\ c \in Seq(S) /\ Len(c) = k
      /\ \A i \in 1 .. k : c[i] = IF i < k THEN s[i] ELSE x
  <2>1. <<x>> \in Seq(S) /\ Len(<<x>>) = 1 /\ <<x>>[1] = x
    OBVIOUS
  <2>2. /\ c \in Seq(S) /\ Len(c) = Len(a) + 1
        /\ \A i \in 1 .. Len(a) + 1 : c[i] = IF i <= Len(a) THEN a[i] ELSE <<x>>[i - Len(a)]
    BY <1>3, <1>6, <2>1, ConcatProperties
  <2> QED BY <1>3, <2>1, <2>2
<1>8. /\ c \o b \in Seq(S) /\ Len(c \o b) = Len(c) + Len(b)
      /\ \A i \in 1 .. Len(c) + Len(b) :
            (c \o b)[i] = IF i <= Len(c) THEN c[i] ELSE b[i - Len(c)]
  BY <1>4, <1>7, ConcatProperties
<1>9. PICK r : r = c \o b
  OBVIOUS
<1>10. r \in Seq(S) /\ Len(r) = Len(s) + 1
  BY <1>4, <1>7, <1>8, <1>9
<1>11. ASSUME NEW i \in 1 .. Len(s) + 1
       PROVE  r[i] = IF i < k THEN s[i] ELSE IF i = k THEN x ELSE s[i - 1]
  <2>1. CASE i <= k
    BY <1>4, <1>7, <1>8, <1>9, <2>1
  <2>2. CASE i > k
    <3>1. i \in 1 .. Len(c) + Len(b) /\ i - k \in 1 .. Len(s) + 1 - k
      BY <1>4, <1>7, <2>2
    <3>2. r[i] = b[i - k] /\ b[i - k] = s[k + (i - k) - 1]
      BY <1>4, <1>7, <1>8, <1>9, <2>2, <3>1
    <3> QED BY <2>2, <3>2
  <2> QED BY <2>1, <2>2
<1> QED BY <1>5, <1>6, <1>9, <1>10, <1>11

(***************************************************************************)
(* A new element makes no duplicate, wherever it is inserted.              *)
(***************************************************************************)
LEMMA InsertAtElements ==
    ASSUME NEW S, NEW s \in Seq(S), NEW x \in S, NEW k \in 1 .. Len(s) + 1,
           IsInjective(s), x \notin ToSet(s)
    PROVE  /\ InsertAt(s, k, x) \in Seq(S)
           /\ IsInjective(InsertAt(s, k, x))
           /\ ToSet(InsertAt(s, k, x)) = ToSet(s) \cup {x}
<1>0. PICK r : r = InsertAt(s, k, x)
  OBVIOUS
<1>1. /\ r \in Seq(S) /\ Len(r) = Len(s) + 1
      /\ \A i \in 1 .. Len(s) + 1 :
            r[i] = IF i < k THEN s[i] ELSE IF i = k THEN x ELSE s[i - 1]
  BY <1>0, InsertAtPlaces, SMTT(60)
<1>2. \A i, j \in 1 .. Len(s) : s[i] = s[j] => i = j
  BY DEF IsInjective
<1>3. \A i \in 1 .. Len(s) : s[i] # x
  BY DEF ToSet
<1>4. IsInjective(r)
  <2>1. ASSUME NEW i \in 1 .. Len(r)
        PROVE  \/ i = k /\ r[i] = x
               \/ i < k /\ i \in 1 .. Len(s) /\ r[i] = s[i]
               \/ i > k /\ i - 1 \in 1 .. Len(s) /\ r[i] = s[i - 1]
    BY <1>1
  <2>2. ASSUME NEW i \in 1 .. Len(r), NEW j \in 1 .. Len(r), r[i] = r[j], i < j
        PROVE  FALSE
    <3>1. i = k \/ i < k \/ i > k
      OBVIOUS
    <3>2. CASE i = k
      BY <1>3, <2>1, <2>2, <3>2, SMTT(60)
    <3>3. CASE i < k
      <4>1. i \in 1 .. Len(s) /\ r[i] = s[i]
        BY <2>1, <3>3
      <4>2. s[i] # x
        BY <1>3, <4>1
      <4>3. \/ r[j] = x
            \/ j < k /\ j \in 1 .. Len(s) /\ r[j] = s[j]
            \/ j > k /\ j - 1 \in 1 .. Len(s) /\ r[j] = s[j - 1]
        BY <2>1
      <4> QED BY <1>2, <2>2, <3>3, <4>1, <4>2, <4>3
    <3>4. CASE i > k
      <4>1. i - 1 \in 1 .. Len(s) /\ r[i] = s[i - 1]
        BY <2>1, <3>4
      <4>2. j - 1 \in 1 .. Len(s) /\ r[j] = s[j - 1]
        BY <2>1, <2>2, <3>4
      <4>3. i - 1 = j - 1
        BY <1>2, <2>2, <4>1, <4>2
      <4> QED BY <2>2, <4>3
    <3> QED BY <3>1, <3>2, <3>3, <3>4
  <2>3. \A i, j \in 1 .. Len(r) : r[i] = r[j] => i = j
    BY <1>1, <2>2
  <2> QED BY <1>1, <2>3 DEF IsInjective
<1>5. ToSet(r) \subseteq ToSet(s) \cup {x}
  BY <1>1 DEF ToSet
<1>6. x \in ToSet(r)
  BY <1>1 DEF ToSet
<1>7. ASSUME NEW j \in 1 .. Len(s) PROVE s[j] \in ToSet(r)
  <2>1. CASE j < k
    BY <1>1, <2>1 DEF ToSet
  <2>2. CASE j >= k
    <3>1. j + 1 \in 1 .. Len(s) + 1 /\ r[j + 1] = s[j]
      BY <1>1, <2>2
    <3> QED BY <1>1, <3>1 DEF ToSet
  <2> QED BY <2>1, <2>2
<1>8. ToSet(s) \subseteq ToSet(r)
  BY <1>7 DEF ToSet
<1> QED BY <1>0, <1>1, <1>4, <1>5, <1>6, <1>8

(***************************************************************************)
(* The same for an element appended at the tail.                           *)
(***************************************************************************)
LEMMA AppendElements ==
    ASSUME NEW S, NEW s \in Seq(S), NEW x \in S
    PROVE  /\ Append(s, x) \in Seq(S)
           /\ ToSet(Append(s, x)) = ToSet(s) \cup {x}
           /\ IsInjective(s) /\ x \notin ToSet(s) => IsInjective(Append(s, x))
<1>0. PICK r : r = Append(s, x)
  OBVIOUS
<1>1. /\ r \in Seq(S) /\ Len(r) = Len(s) + 1
      /\ \A i \in 1 .. Len(s) + 1 : r[i] = IF i <= Len(s) THEN s[i] ELSE x
  BY <1>0
<1>2. ToSet(r) = ToSet(s) \cup {x}
  <2>1. x \in ToSet(r) /\ ToSet(s) \subseteq ToSet(r)
    BY <1>1 DEF ToSet
  <2>2. ToSet(r) \subseteq ToSet(s) \cup {x}
    BY <1>1 DEF ToSet
  <2> QED BY <2>1, <2>2
<1>3. ASSUME IsInjective(s), x \notin ToSet(s) PROVE IsInjective(r)
  BY <1>1, <1>3 DEF IsInjective, ToSet
<1> QED BY <1>0, <1>1, <1>2, <1>3

(***************************************************************************)
(* The head of a list is one of its elements; an empty list has none.      *)
(***************************************************************************)
LEMMA HeadElement ==
    ASSUME NEW S, NEW s \in Seq(S)
    PROVE  /\ ToSet(s) \subseteq S
           /\ s # <<>> => Head(s) \in ToSet(s)
           /\ s = <<>> <=> ToSet(s) = {}
<1>1. ToSet(s) \subseteq S
  BY DEF ToSet
<1>2. ASSUME s # <<>> PROVE Head(s) \in ToSet(s)
  BY <1>2 DEF ToSet
<1>3. s = <<>> => ToSet(s) = {}
  BY DEF ToSet
<1> QED BY <1>1, <1>2, <1>3

-----------------------------------------------------------------------------
(* Ready lists.                                                            *)

ReadyLists == [Prio -> Seq(Task)]

SchedInv == ReadyListsAgree /\ OneRunning /\ DeadlinesOnlyForWaiters

\* ReadyListsAgree of given lists, states and effective priorities.
Agree(r, st, e) ==
    /\ \A p \in Prio :
          /\ IsInjective(r[p])
          /\ \A t \in ToSet(r[p]) : e[t] = p /\ st[t] = "READY"
    /\ \A t \in Task : st[t] = "READY" => t \in ToSet(r[e[t]])

(***************************************************************************)
(* ready_map holds exactly the tasks in state READY.                       *)
(***************************************************************************)
LEMMA ReadyMapIsReady ==
    ASSUME NEW r \in ReadyLists, NEW st, NEW e \in [Task -> Prio], Agree(r, st, e),
           NEW t \in Task
    PROVE  t \in ReadyMap(r) <=> st[t] = "READY"
BY DEF ReadyMap, Agree

(***************************************************************************)
(* Making a task READY and appending it to the list of its priority (the   *)
(* wake-up, the preempted task).                                           *)
(***************************************************************************)
LEMMA AddAgrees ==
    ASSUME NEW r \in ReadyLists, NEW st \in [Task -> TaskState],
           NEW e \in [Task -> Prio], Agree(r, st, e),
           NEW t \in Task, st[t] # "READY"
    PROVE  /\ ReadyAdd(r, t, e[t]) \in ReadyLists
           /\ Agree(ReadyAdd(r, t, e[t]), [st EXCEPT ![t] = "READY"], e)
<1>1. t \notin ReadyMap(r)
  BY ReadyMapIsReady
<1>2. ReadyAdd(r, t, e[t]) = [r EXCEPT ![e[t]] = Append(@, t)]
  BY <1>1 DEF ReadyAdd
<1>3. \A p \in Prio : r[p] \in Seq(Task) /\ t \notin ToSet(r[p])
  BY <1>1 DEF ReadyMap, ReadyLists
<1>4. /\ Append(r[e[t]], t) \in Seq(Task)
      /\ ToSet(Append(r[e[t]], t)) = ToSet(r[e[t]]) \cup {t}
      /\ IsInjective(Append(r[e[t]], t))
  <2>1. e[t] \in Prio /\ r[e[t]] \in Seq(Task) /\ IsInjective(r[e[t]]) /\ t \notin ToSet(r[e[t]])
    BY <1>3 DEF Agree
  <2> QED BY <2>1, AppendElements
<1>5. PICK q : q = Append(r[e[t]], t)
  OBVIOUS
<1>6. ReadyAdd(r, t, e[t]) = [r EXCEPT ![e[t]] = q]
  BY <1>2, <1>5
<1> QED BY <1>3, <1>4, <1>5, <1>6 DEF Agree, ReadyLists, TaskState

(***************************************************************************)
(* Taking a task out of the list of its priority and out of state READY    *)
(* (the task selected to run).                                             *)
(***************************************************************************)
LEMMA RemoveAgrees ==
    ASSUME NEW r \in ReadyLists, NEW st \in [Task -> TaskState],
           NEW e \in [Task -> Prio], Agree(r, st, e),
           NEW t \in Task, NEW s \in TaskState, s # "READY"
    PROVE  /\ ReadyRemove(r, t, e[t]) \in ReadyLists
           /\ Agree(ReadyRemove(r, t, e[t]), [st EXCEPT ![t] = s], e)
<1>1. PICK q : q = RemoveFirst(r[e[t]], t)
  OBVIOUS
<1>2. ReadyRemove(r, t, e[t]) = [r EXCEPT ![e[t]] = q]
  BY <1>1 DEF ReadyRemove
<1>3. q \in Seq(Task) /\ IsInjective(q) /\ ToSet(q) = ToSet(r[e[t]]) \ {t}
  <2>1. r[e[t]] \in Seq(Task) /\ IsInjective(r[e[t]])
    BY DEF Agree, ReadyLists
  <2> QED BY <1>1, <2>1, RemoveFirstElements
<1>4. \A p \in Prio : p # e[t] => t \notin ToSet(r[p])
  BY DEF Agree
<1> QED BY <1>2, <1>3, <1>4 DEF Agree, ReadyLists

(***************************************************************************)
(* A task that is not READY may change to another such state, or change    *)
(* its priority, without touching the lists.                               *)
(***************************************************************************)
LEMMA UnqueuedAgrees ==
    ASSUME NEW r \in ReadyLists, NEW st \in [Task -> TaskState],
           NEW e \in [Task -> Prio], Agree(r, st, e),
           NEW t \in Task, st[t] # "READY",
           NEW s \in TaskState, s # "READY", NEW p \in Prio
    PROVE  Agree(r, [st EXCEPT ![t] = s], [e EXCEPT ![t] = p])
<1>1. \A q \in Prio : t \notin ToSet(r[q])
  BY DEF Agree
<1>2. \A q \in Prio : r[q] \in Seq(Task) /\ ToSet(r[q]) \subseteq Task
  BY HeadElement DEF ReadyLists
<1> QED BY <1>1, <1>2 DEF Agree

(***************************************************************************)
(* Moving a queued task to the list of its new priority.                   *)
(***************************************************************************)
LEMMA RequeueAgrees ==
    ASSUME NEW r \in ReadyLists, NEW st \in [Task -> TaskState],
           NEW e \in [Task -> Prio], Agree(r, st, e),
           NEW t \in Task, NEW p \in Prio
    PROVE  /\ Requeue(r, t, e[t], p) \in ReadyLists
           /\ Agree(Requeue(r, t, e[t], p), st, [e EXCEPT ![t] = p])
<1>1. CASE st[t] # "READY"
  <2>1. Requeue(r, t, e[t], p) = r
    BY <1>1, ReadyMapIsReady DEF Requeue
  <2>2. st = [st EXCEPT ![t] = st[t]] /\ st[t] \in TaskState
    OBVIOUS
  <2>3. Agree(r, [st EXCEPT ![t] = st[t]], [e EXCEPT ![t] = p])
    BY <1>1, <2>2, UnqueuedAgrees
  <2> QED BY <2>1, <2>2, <2>3
<1>2. CASE st[t] = "READY"
  <2>1. PICK s1 : s1 = [st EXCEPT ![t] = "BLOCKED"]
    OBVIOUS
  <2>2. PICK r1 : r1 = ReadyRemove(r, t, e[t])
    OBVIOUS
  <2>3. PICK e1 : e1 = [e EXCEPT ![t] = p]
    OBVIOUS
  <2>4. /\ s1 \in [Task -> TaskState] /\ s1[t] = "BLOCKED"
        /\ [s1 EXCEPT ![t] = "READY"] = st /\ [s1 EXCEPT ![t] = "BLOCKED"] = s1
    BY <1>2, <2>1 DEF TaskState
  <2>5. e1 \in [Task -> Prio] /\ e1[t] = p
    BY <2>3
  <2>6. r1 \in ReadyLists /\ Agree(r1, s1, e)
    BY <2>1, <2>2, RemoveAgrees DEF TaskState
  <2>7. Agree(r1, s1, e1)
    <3>1. Agree(r1, [s1 EXCEPT ![t] = "BLOCKED"], [e EXCEPT ![t] = p])
      BY <2>4, <2>6, UnqueuedAgrees DEF TaskState
    <3> QED BY <2>3, <2>4, <3>1
  <2>8. ReadyAdd(r1, t, p) \in ReadyLists /\ Agree(ReadyAdd(r1, t, p), st, e1)
    BY <2>4, <2>5, <2>6, <2>7, AddAgrees
  <2>9. Requeue(r, t, e[t], p) = ReadyAdd(r1, t, p)
    BY <1>2, <2>2, ReadyMapIsReady DEF Requeue
  <2> QED BY <2>3, <2>8, <2>9
<1> QED BY <1>1, <1>2

(***************************************************************************)
(* The task selected to run is the head of a list, and no queued task is   *)
(* more urgent.                                                            *)
(***************************************************************************)
LEMMA SelectNextIsBest ==
    ASSUME BootAssumption, NEW r \in ReadyLists, NEW st \in [Task -> TaskState],
           NEW e \in [Task -> Prio], Agree(r, st, e),
           \E p \in Prio : r[p] # <<>>
    PROVE  /\ SelectNext(r) \in Task
           /\ st[SelectNext(r)] = "READY"
           /\ \A t \in Task : st[t] = "READY" => e[SelectNext(r)] <= e[t]
<1>1. PICK I : I = {p \in Prio : r[p] # <<>>}
  OBVIOUS
<1>2. I \in SUBSET Nat /\ I # {}
  <2>1. Prio \subseteq Nat
    BY DEF Prio, BootAssumption
  <2> QED BY <1>1, <2>1
<1>3. \E p \in Prio : IsBest(r, p)
  BY <1>1, <1>2, LeastNumber DEF IsBest
<1>4. PICK best \in Prio : IsBest(r, best) /\ SelectNext(r) = Head(r[best])
  BY <1>3 DEF SelectNext
<1>5. r[best] \in Seq(Task) /\ r[best] # <<>>
  BY <1>4 DEF IsBest, ReadyLists
<1>6. SelectNext(r) \in ToSet(r[best]) /\ SelectNext(r) \in Task
  BY <1>4, <1>5, HeadElement
<1>7. st[SelectNext(r)] = "READY" /\ e[SelectNext(r)] = best
  BY <1>6 DEF Agree
<1>8. ASSUME NEW t \in Task, st[t] = "READY" PROVE best <= e[t]
  <2>1. t \in ToSet(r[e[t]]) /\ e[t] \in Prio
    BY <1>8 DEF Agree
  <2>2. r[e[t]] # <<>>
    BY <2>1, HeadElement DEF ReadyLists
  <2> QED BY <1>4, <2>1, <2>2 DEF IsBest
<1> QED BY <1>6, <1>7, <1>8

(***************************************************************************)
(* A context switch keeps the lists in agreement, leaves exactly the new   *)
(* current task RUNNING, and none that waits for the processor is more     *)
(* urgent.                                                                 *)
(***************************************************************************)
LEMMA ContextSwitchAgrees ==
    ASSUME BootAssumption, SchedTypeOK, ReadyListsAgree, OneRunning,
           ContextSwitch, UNCHANGED eff
    PROVE  /\ ready' \in ReadyLists /\ state' \in [Task -> TaskState]
           /\ Agree(ready', state', eff')
           /\ current' \in Task /\ state'[current'] = "RUNNING"
           /\ \A t \in Task : state'[t] = "RUNNING" => t = current'
           /\ \A t \in Task : state'[t] = "BLOCKED" <=> state[t] = "BLOCKED"
           /\ \A t \in Task : state'[t] = "READY" => eff[current'] <= eff[t]
<1> DEFINE preempted == state[current] = "RUNNING"
<1>0. PICK q : q = IF preempted THEN ReadyAdd(ready, current, eff[current]) ELSE ready
  OBVIOUS
<1>1. PICK s : s = IF preempted THEN [state EXCEPT ![current] = "READY"] ELSE state
  OBVIOUS
<1>2. PICK n : n = SelectNext(q)
  OBVIOUS
<1>3. /\ \E p \in Prio : q[p] # <<>>
      /\ ready' = ReadyRemove(q, n, eff[n])
      /\ state' = [t \in Task |->
                     IF t = n THEN "RUNNING"
                     ELSE IF t = current /\ preempted THEN "READY" ELSE state[t]]
      /\ current' = n
  BY <1>0, <1>2 DEF ContextSwitch
<1>4. /\ ready \in ReadyLists /\ state \in [Task -> TaskState]
      /\ eff \in [Task -> Prio] /\ current \in Task /\ Agree(ready, state, eff)
  BY DEF SchedTypeOK, ReadyLists, ReadyListsAgree, Agree
<1>5. q \in ReadyLists /\ s \in [Task -> TaskState] /\ Agree(q, s, eff)
  <2>1. CASE preempted
    BY <1>0, <1>1, <1>4, <2>1, AddAgrees DEF TaskState
  <2>2. CASE ~preempted
    BY <1>0, <1>1, <1>4, <2>2
  <2> QED BY <2>1, <2>2
<1>6. n \in Task /\ s[n] = "READY" /\ \A t \in Task : s[t] = "READY" => eff[n] <= eff[t]
  BY <1>2, <1>3, <1>4, <1>5, SelectNextIsBest
<1>7. ready' \in ReadyLists /\ Agree(ready', [s EXCEPT ![n] = "RUNNING"], eff)
  BY <1>3, <1>4, <1>5, <1>6, RemoveAgrees DEF TaskState
<1>8. state' = [s EXCEPT ![n] = "RUNNING"]
  BY <1>1, <1>3, <1>4
<1>9. \A t \in Task : state[t] = "RUNNING" => t = current
  BY DEF OneRunning
<1>10. current' \in Task /\ state'[current'] = "RUNNING" /\ state' \in [Task -> TaskState]
  BY <1>3, <1>5, <1>6, <1>8 DEF TaskState
<1>11. \A t \in Task : state'[t] = "RUNNING" => t = current'
  BY <1>3, <1>9
<1>12. \A t \in Task : state'[t] = "BLOCKED" <=> state[t] = "BLOCKED"
  BY <1>1, <1>3, <1>4, <1>6, SMTT(60)
<1>13. \A t \in Task : state'[t] = "READY" => eff[current'] <= eff[t]
  BY <1>3, <1>5, <1>6, <1>8
<1> QED BY <1>7, <1>8, <1>10, <1>11, <1>12, <1>13

-----------------------------------------------------------------------------
(* The steps of the scheduling core keep its invariants.                   *)

(***************************************************************************)
(* Blocking the running task keeps the scheduling core in order.           *)
(***************************************************************************)
LEMMA BlockCurrentStep ==
    ASSUME SchedTypeOK, SchedInv, NEW t \in Task, NEW finite \in BOOLEAN,
           current = t, state[t] = "RUNNING", ~isr, BlockCurrent(t, finite),
           UNCHANGED <<base, eff, isr, expiring>>
    PROVE  SchedTypeOK' /\ SchedInv'
<1>1. /\ ready \in ReadyLists /\ state \in [Task -> TaskState] /\ eff \in [Task -> Prio]
      /\ Agree(ready, state, eff)
  BY DEF SchedTypeOK, SchedInv, ReadyListsAgree, Agree, ReadyLists
<1>2. ready' = ReadyRemove(ready, t, eff[t]) /\ state' = [state EXCEPT ![t] = "BLOCKED"]
  BY DEF BlockCurrent
<1>3. ready' \in ReadyLists /\ Agree(ready', state', eff)
  BY <1>1, <1>2, RemoveAgrees DEF TaskState
<1>4. SchedTypeOK'
  BY <1>2, <1>3 DEF SchedTypeOK, ReadyLists, BlockCurrent, TaskState, Status
<1>5. ReadyListsAgree'
  BY <1>3 DEF ReadyListsAgree, Agree
<1>6. OneRunning' /\ DeadlinesOnlyForWaiters'
  BY DEF SchedTypeOK, SchedInv, OneRunning, DeadlinesOnlyForWaiters, BlockCurrent
<1> QED BY <1>4, <1>5, <1>6 DEF SchedInv

(***************************************************************************)
(* Setting the reschedule flag keeps the scheduling core in order.         *)
(***************************************************************************)
LEMMA TaskYieldStep ==
    ASSUME SchedTypeOK, SchedInv, NEW t \in Task, current = t, state[t] = "RUNNING", TaskYield(t)
    PROVE  SchedTypeOK' /\ SchedInv'
<1>1. SchedTypeOK'
  BY DEF SchedTypeOK, TaskYield
<1>2. SchedInv'
  BY DEF SchedTypeOK, SchedInv, ReadyListsAgree, OneRunning, DeadlinesOnlyForWaiters, TaskYield
<1> QED BY <1>1, <1>2

(***************************************************************************)
(* A yield, with or without a switch, keeps it in order and blocks nobody. *)
(***************************************************************************)
LEMMA YieldStep ==
    ASSUME BootAssumption, SchedTypeOK, SchedInv, NEW t \in Task, Yield(t)
    PROVE  /\ SchedTypeOK' /\ SchedInv'
           /\ \A u \in Task : state'[u] = "BLOCKED" <=> state[u] = "BLOCKED"
<1>1. /\ current = t /\ ~isr /\ pc' = [pc EXCEPT ![t] = "run"]
      /\ UNCHANGED <<base, eff, timed, block_status, isr, expiring>>
  BY DEF Yield
<1>2. CASE ContextSwitch
  <2>1. /\ ready' \in ReadyLists /\ state' \in [Task -> TaskState]
        /\ Agree(ready', state', eff')
        /\ current' \in Task /\ state'[current'] = "RUNNING"
        /\ \A u \in Task : state'[u] = "RUNNING" => u = current'
        /\ \A u \in Task : state'[u] = "BLOCKED" <=> state[u] = "BLOCKED"
    BY <1>1, <1>2, ContextSwitchAgrees DEF SchedInv
  <2>2. pending' = FALSE
    BY <1>2 DEF ContextSwitch
  <2>3. SchedTypeOK'
    BY <1>1, <2>1, <2>2 DEF SchedTypeOK, ReadyLists
  <2>4. SchedInv'
    BY <1>1, <2>1, <2>2
       DEF SchedInv, ReadyListsAgree, Agree, OneRunning, DeadlinesOnlyForWaiters, SchedTypeOK
  <2> QED BY <2>1, <2>3, <2>4
<1>3. CASE ~pending /\ NoSwitch /\ UNCHANGED pending
  <2>1. SchedTypeOK'
    BY <1>1, <1>3 DEF SchedTypeOK, NoSwitch
  <2>2. SchedInv'
    BY <1>1, <1>3 DEF SchedInv, ReadyListsAgree, OneRunning, DeadlinesOnlyForWaiters,
                      SchedTypeOK, NoSwitch
  <2> QED BY <1>3, <2>1, <2>2 DEF NoSwitch
<1> QED BY <1>2, <1>3 DEF Yield

(***************************************************************************)
(* Entering the tick handler keeps it in order.                            *)
(***************************************************************************)
LEMMA TickEnterStep ==
    ASSUME SchedTypeOK, SchedInv, TickEnter
    PROVE  SchedTypeOK' /\ SchedInv'
<1>1. SchedTypeOK'
  BY DEF SchedTypeOK, TickEnter
<1>2. SchedInv'
  BY DEF SchedTypeOK, SchedInv, ReadyListsAgree, OneRunning, DeadlinesOnlyForWaiters, TickEnter
<1> QED BY <1>1, <1>2

(***************************************************************************)
(* Waking a task whose wait timed out keeps it in order.                   *)
(***************************************************************************)
LEMMA WakeExpiredStep ==
    ASSUME SchedTypeOK, SchedInv, NEW t \in Task, Expired(t), WakeExpired(t)
    PROVE  /\ SchedTypeOK' /\ SchedInv'
           /\ state[t] = "BLOCKED" /\ state' = [state EXCEPT ![t] = "READY"]
           /\ block_status' = [block_status EXCEPT ![t] = "TIMEOUT"]
<1>1. /\ state' = [state EXCEPT ![t] = "READY"] /\ ready' = ReadyAdd(ready, t, eff[t])
      /\ timed' = timed \ {t} /\ block_status' = [block_status EXCEPT ![t] = "TIMEOUT"]
      /\ pending' = (pending \/ Outranks(t)) /\ expiring' = expiring \ {t}
      /\ UNCHANGED <<base, eff, current, pc, isr>>
  BY DEF WakeExpired, Unblock
<1>2. isr /\ t \in expiring /\ t \in timed /\ state[t] = "BLOCKED"
  BY DEF Expired, SchedInv, DeadlinesOnlyForWaiters
<1>3. /\ ready \in ReadyLists /\ state \in [Task -> TaskState] /\ eff \in [Task -> Prio]
      /\ Agree(ready, state, eff)
  BY DEF SchedTypeOK, SchedInv, ReadyListsAgree, Agree, ReadyLists
<1>4. ready' \in ReadyLists /\ Agree(ready', state', eff)
  BY <1>1, <1>2, <1>3, AddAgrees
<1>5. SchedTypeOK'
  <2>1. pending' \in BOOLEAN
    BY <1>1
  <2>2. state' \in [Task -> TaskState] /\ block_status' \in [Task -> Status]
    BY <1>1, <1>3 DEF SchedTypeOK, TaskState, Status
  <2> QED BY <1>1, <1>4, <2>1, <2>2 DEF SchedTypeOK, ReadyLists
<1>6. ReadyListsAgree'
  BY <1>1, <1>4 DEF ReadyListsAgree, Agree
<1>7. OneRunning'
  <2>1. \A u \in Task : state'[u] = "RUNNING" => u = current'
    BY <1>1, <1>3 DEF SchedInv, OneRunning
  <2>2. state'[current'] # "RUNNING" => pending'
    BY <1>1, <1>2, <1>3 DEF SchedInv, OneRunning, SchedTypeOK
  <2>3. pc'[current'] = "run" => state'[current'] = "RUNNING"
    BY <1>1, <1>2, <1>3 DEF SchedInv, OneRunning, SchedTypeOK
  <2> QED BY <2>1, <2>2, <2>3 DEF OneRunning
<1>8. DeadlinesOnlyForWaiters'
  BY <1>1, <1>2, <1>3 DEF SchedInv, DeadlinesOnlyForWaiters, SchedTypeOK
<1> QED BY <1>1, <1>2, <1>5, <1>6, <1>7, <1>8 DEF SchedInv

(***************************************************************************)
(* Leaving the handler, with or without a switch, keeps it in order and    *)
(* blocks nobody.                                                          *)
(***************************************************************************)
LEMMA IsrExitStep ==
    ASSUME BootAssumption, SchedTypeOK, SchedInv, IsrExit
    PROVE  /\ SchedTypeOK' /\ SchedInv'
           /\ \A u \in Task : state'[u] = "BLOCKED" <=> state[u] = "BLOCKED"
<1>1. /\ isr' = FALSE /\ expiring = {}
      /\ UNCHANGED <<base, eff, timed, block_status, pc, expiring>>
  BY DEF IsrExit
<1>2. CASE ContextSwitch
  <2>1. /\ ready' \in ReadyLists /\ state' \in [Task -> TaskState]
        /\ Agree(ready', state', eff')
        /\ current' \in Task /\ state'[current'] = "RUNNING"
        /\ \A u \in Task : state'[u] = "RUNNING" => u = current'
        /\ \A u \in Task : state'[u] = "BLOCKED" <=> state[u] = "BLOCKED"
    BY <1>1, <1>2, ContextSwitchAgrees DEF SchedInv
  <2>2. pending' = FALSE
    BY <1>2 DEF ContextSwitch
  <2>3. SchedTypeOK'
    BY <1>1, <2>1, <2>2 DEF SchedTypeOK, ReadyLists
  <2>4. SchedInv'
    BY <1>1, <2>1, <2>2
       DEF SchedInv, ReadyListsAgree, Agree, OneRunning, DeadlinesOnlyForWaiters, SchedTypeOK
  <2> QED BY <2>1, <2>3, <2>4
<1>3. CASE ~(pending \/ RoundRobinDue)
  <2>1. NoSwitch /\ UNCHANGED pending
    BY <1>3 DEF IsrExit
  <2>2. SchedTypeOK'
    BY <1>1, <2>1 DEF SchedTypeOK, NoSwitch
  <2>3. SchedInv'
    BY <1>1, <2>1 DEF SchedInv, ReadyListsAgree, OneRunning, DeadlinesOnlyForWaiters,
                      SchedTypeOK, NoSwitch
  <2> QED BY <2>1, <2>2, <2>3 DEF NoSwitch
<1> QED BY <1>2, <1>3 DEF IsrExit

-----------------------------------------------------------------------------
(* Objects that never change a priority.                                   *)

(***************************************************************************)
(* With no reschedule requested no queued task is more urgent than the     *)
(* current one, also inside a handler and before a yield.                  *)
(***************************************************************************)
Urgent == ~pending => \A t \in Task : state[t] = "READY" => eff[current] <= eff[t]

InOrder == SchedTypeOK /\ SchedInv /\ Urgent

(***************************************************************************)
(* Either a task outranks the current one or it does not.                  *)
(***************************************************************************)
LEMMA PrioritiesCompare ==
    ASSUME BootAssumption, SchedTypeOK, NEW t \in Task
    PROVE  eff[t] \in Int /\ eff[current] \in Int /\ (~Outranks(t) <=> eff[current] <= eff[t])
<1>1. eff[t] \in 0 .. MaxPrio /\ eff[current] \in 0 .. MaxPrio
  BY DEF SchedTypeOK, Prio
<1> QED BY <1>1 DEF Outranks, BootAssumption

(***************************************************************************)
(* The task that runs its own code is RUNNING.                             *)
(***************************************************************************)
LEMMA CallerIsRunning ==
    ASSUME InOrder, pc[current] = "run"
    PROVE  state[current] = "RUNNING" /\ current \in Task
<1>1. SchedTypeOK /\ OneRunning
  BY DEF InOrder, SchedInv
<1> QED BY <1>1 DEF SchedTypeOK, OneRunning

(***************************************************************************)
(* The kernel starts in order.                                             *)
(***************************************************************************)
LEMMA InitInOrder ==
    ASSUME BootAssumption, SchedInit
    PROVE  InOrder
<1>1. SchedTypeOK
  BY DEF BootAssumption, SchedInit, SchedTypeOK, TaskState, Status
<1>2. ReadyListsAgree
  <2>1. ASSUME NEW p \in Prio, NEW t \in ToSet(BootReady[p])
        PROVE  BootBase[t] = p /\ t # BootFirst /\ t \in Task
    BY HeadElement DEF BootAssumption
  <2> QED BY <2>1 DEF BootAssumption, SchedInit, ReadyListsAgree
<1>3. OneRunning /\ DeadlinesOnlyForWaiters
  BY DEF BootAssumption, SchedInit, OneRunning, DeadlinesOnlyForWaiters
<1>4. Urgent
  BY DEF BootAssumption, SchedInit, Urgent
<1> QED BY <1>1, <1>2, <1>3, <1>4 DEF InOrder, SchedInv

(***************************************************************************)
(* It stays in order while the scheduler does nothing.                     *)
(***************************************************************************)
LEMMA SameInOrder ==
    ASSUME InOrder, UNCHANGED schedVars
    PROVE  InOrder'
<1>1. SchedTypeOK' /\ Urgent'
  BY DEF InOrder, schedVars, SchedTypeOK, Urgent
<1>2. SchedInv'
  BY DEF InOrder, schedVars, SchedInv, ReadyListsAgree, OneRunning, DeadlinesOnlyForWaiters
<1> QED BY <1>1, <1>2 DEF InOrder

(***************************************************************************)
(* A call that wakes nobody: the flag may be set, and then the task that   *)
(* runs yields.                                                            *)
(***************************************************************************)
LEMMA CallInOrder ==
    ASSUME InOrder, UNCHANGED <<state, base, eff, ready, current, timed, block_status, isr, expiring>>,
           pending' \in BOOLEAN, pending => pending',
           pc' \in [Task -> {"run", "yield"}], pc'[current] = "run" => state[current] = "RUNNING"
    PROVE  InOrder'
<1>1. SchedTypeOK'
  BY DEF InOrder, SchedTypeOK
<1>2. SchedInv'
  BY DEF InOrder, SchedInv, ReadyListsAgree, OneRunning, DeadlinesOnlyForWaiters
<1>3. Urgent'
  BY DEF InOrder, Urgent
<1> QED BY <1>1, <1>2, <1>3 DEF InOrder

(***************************************************************************)
(* A call that blocks the running task.                                    *)
(***************************************************************************)
LEMMA BlockInOrder ==
    ASSUME InOrder, NEW t \in Task, NEW finite \in BOOLEAN,
           current = t, state[t] = "RUNNING", ~isr, BlockCurrent(t, finite),
           UNCHANGED <<base, eff, isr, expiring>>
    PROVE  /\ InOrder'
           /\ state' = [state EXCEPT ![t] = "BLOCKED"]
           /\ block_status' = [block_status EXCEPT ![t] = "OK"]
<1>1. SchedTypeOK' /\ SchedInv'
  BY BlockCurrentStep DEF InOrder
<1>2. Urgent'
  BY DEF Urgent, BlockCurrent
<1> QED BY <1>1, <1>2 DEF InOrder, BlockCurrent

(***************************************************************************)
(* A yield, and the end of a handler: nobody blocks and nobody wakes.      *)
(***************************************************************************)
LEMMA YieldInOrder ==
    ASSUME BootAssumption, InOrder, NEW t \in Task, Yield(t)
    PROVE  /\ InOrder' /\ current = t /\ ~isr
           /\ UNCHANGED block_status
           /\ \A u \in Task : state'[u] = "BLOCKED" <=> state[u] = "BLOCKED"
<1>1. /\ SchedTypeOK' /\ SchedInv'
      /\ \A u \in Task : state'[u] = "BLOCKED" <=> state[u] = "BLOCKED"
  BY YieldStep DEF InOrder
<1>2. UNCHANGED <<eff, block_status>> /\ current = t /\ ~isr
  BY DEF Yield
<1>3. Urgent'
  <2>1. CASE ContextSwitch
    BY <1>2, <2>1, ContextSwitchAgrees DEF InOrder, SchedInv, Urgent
  <2>2. CASE ~pending /\ NoSwitch /\ UNCHANGED pending
    BY <1>2, <2>2 DEF InOrder, Urgent, NoSwitch
  <2> QED BY <2>1, <2>2 DEF Yield
<1> QED BY <1>1, <1>2, <1>3 DEF InOrder

(***************************************************************************)
(* The end of a handler.                                                   *)
(***************************************************************************)
LEMMA IsrExitInOrder ==
    ASSUME BootAssumption, InOrder, IsrExit
    PROVE  /\ InOrder'
           /\ UNCHANGED block_status
           /\ \A u \in Task : state'[u] = "BLOCKED" <=> state[u] = "BLOCKED"
<1>1. /\ SchedTypeOK' /\ SchedInv'
      /\ \A u \in Task : state'[u] = "BLOCKED" <=> state[u] = "BLOCKED"
  BY IsrExitStep DEF InOrder
<1>2. UNCHANGED <<eff, block_status>>
  BY DEF IsrExit
<1>3. Urgent'
  <2>1. CASE ContextSwitch
    BY <1>2, <2>1, ContextSwitchAgrees DEF InOrder, SchedInv, Urgent
  <2>2. CASE NoSwitch /\ UNCHANGED pending
    BY <1>2, <2>2 DEF InOrder, Urgent, NoSwitch
  <2> QED BY <2>1, <2>2 DEF IsrExit
<1> QED BY <1>1, <1>2, <1>3 DEF InOrder

(***************************************************************************)
(* The entry of the tick handler.                                          *)
(***************************************************************************)
LEMMA TickEnterInOrder ==
    ASSUME InOrder, TickEnter
    PROVE  InOrder' /\ UNCHANGED <<state, block_status>>
<1>1. SchedTypeOK' /\ SchedInv'
  BY TickEnterStep DEF InOrder
<1>2. Urgent' /\ UNCHANGED <<state, block_status>>
  BY DEF InOrder, Urgent, TickEnter
<1> QED BY <1>1, <1>2 DEF InOrder

(***************************************************************************)
(* A task becomes READY: it asks for a reschedule if it is more urgent.    *)
(***************************************************************************)
LEMMA WokenUrgent ==
    ASSUME BootAssumption, SchedTypeOK, Urgent, NEW t \in Task,
           state' = [state EXCEPT ![t] = "READY"], pending' = (pending \/ Outranks(t)),
           UNCHANGED <<eff, current>>
    PROVE  Urgent'
<1>1. ASSUME ~pending', NEW u \in Task, state'[u] = "READY"
      PROVE  eff[current] <= eff[u]
  <2>1. ~pending /\ ~Outranks(t)
    BY <1>1
  <2>2. CASE u = t
    BY <2>1, <2>2, PrioritiesCompare
  <2>3. CASE u # t
    BY <1>1, <2>1, <2>3 DEF Urgent, SchedTypeOK
  <2> QED BY <2>2, <2>3
<1> QED BY <1>1 DEF Urgent

(***************************************************************************)
(* The end of a wait by its deadline.                                      *)
(***************************************************************************)
LEMMA ExpireInOrder ==
    ASSUME BootAssumption, InOrder, NEW t \in Task, Expired(t), WakeExpired(t)
    PROVE  /\ InOrder'
           /\ state[t] = "BLOCKED" /\ state' = [state EXCEPT ![t] = "READY"]
           /\ block_status' = [block_status EXCEPT ![t] = "TIMEOUT"]
<1>1. /\ SchedTypeOK' /\ SchedInv'
      /\ state[t] = "BLOCKED" /\ state' = [state EXCEPT ![t] = "READY"]
      /\ block_status' = [block_status EXCEPT ![t] = "TIMEOUT"]
  BY WakeExpiredStep DEF InOrder
<1>2. pending' = (pending \/ Outranks(t)) /\ UNCHANGED <<eff, current>>
  BY DEF WakeExpired
<1>3. Urgent'
  BY <1>1, <1>2, WokenUrgent DEF InOrder
<1> QED BY <1>1, <1>3 DEF InOrder

(***************************************************************************)
(* The end of a wait by a call or a handler that gives the task what it    *)
(* waits for.                                                              *)
(***************************************************************************)
LEMMA WakeInOrder ==
    ASSUME BootAssumption, InOrder, expiring = {}, NEW w \in Task, state[w] = "BLOCKED",
           Unblock(w, "OK"), pending' = (pending \/ Outranks(w)),
           pc' \in [Task -> {"run", "yield"}], pc'[current] = "run" => state[current] = "RUNNING",
           UNCHANGED <<base, eff, current, isr, expiring>>
    PROVE  /\ InOrder'
           /\ state' = [state EXCEPT ![w] = "READY"]
           /\ block_status' = [block_status EXCEPT ![w] = "OK"]
<1>1. /\ state' = [state EXCEPT ![w] = "READY"] /\ ready' = ReadyAdd(ready, w, eff[w])
      /\ timed' = timed \ {w} /\ block_status' = [block_status EXCEPT ![w] = "OK"]
  BY DEF Unblock
<1>2. /\ ready \in ReadyLists /\ state \in [Task -> TaskState] /\ eff \in [Task -> Prio]
      /\ Agree(ready, state, eff)
  BY DEF InOrder, SchedTypeOK, SchedInv, ReadyListsAgree, Agree, ReadyLists
<1>3. ready' \in ReadyLists /\ Agree(ready', state', eff)
  BY <1>1, <1>2, AddAgrees
<1>4. SchedTypeOK'
  <2>1. pending' \in BOOLEAN
    OBVIOUS
  <2>2. state' \in [Task -> TaskState] /\ block_status' \in [Task -> Status]
    BY <1>1, <1>2 DEF InOrder, SchedTypeOK, TaskState, Status
  <2>3. ready' \in [Prio -> Seq(Task)]
    BY <1>3 DEF ReadyLists
  <2> QED BY <1>1, <2>1, <2>2, <2>3 DEF InOrder, SchedTypeOK
<1>5. ReadyListsAgree'
  BY <1>3 DEF ReadyListsAgree, Agree
<1>6. OneRunning'
  <2>1. \A u \in Task : state'[u] = "RUNNING" => u = current'
    BY <1>1, <1>2 DEF InOrder, SchedInv, OneRunning
  <2>2. current \in Task /\ (state[current] = "RUNNING" => state'[current] = "RUNNING")
    BY <1>1, <1>2 DEF InOrder, SchedTypeOK
  <2>3. state'[current'] # "RUNNING" => pending'
    BY <2>2 DEF InOrder, SchedInv, OneRunning
  <2>4. pc'[current'] = "run" => state'[current'] = "RUNNING"
    BY <2>2
  <2> QED BY <2>1, <2>3, <2>4 DEF OneRunning
<1>7. DeadlinesOnlyForWaiters'
  BY <1>1, <1>2 DEF InOrder, SchedInv, SchedTypeOK, DeadlinesOnlyForWaiters
<1>8. Urgent'
  BY <1>1, WokenUrgent DEF InOrder
<1> QED BY <1>1, <1>4, <1>5, <1>6, <1>7, <1>8 DEF InOrder, SchedInv

(***************************************************************************)
(* A finite set of numbers can be listed in increasing order: the place of *)
(* an element is how many of the set it is not smaller than.               *)
(***************************************************************************)
LEMMA IncreasingListExists ==
    ASSUME NEW S \in SUBSET Nat, IsFiniteSet(S)
    PROVE  \E q \in [1 .. Cardinality(S) -> S] : \A i, j \in DOMAIN q : i < j => q[i] < q[j]
<1>1. PICK n : n = Cardinality(S)
  OBVIOUS
<1>2. n \in Nat /\ IsFiniteSet(1 .. n) /\ Cardinality(1 .. n) = n
  BY <1>1, FS_CardinalityType, FS_Interval
<1>3. PICK below : below = [x \in S |-> {y \in S : y < x}]
  OBVIOUS
<1>4. \A x \in S : \A y : y \in below[x] <=> y \in S /\ y < x
  BY <1>3
<1>5. PICK count : count = [x \in S |-> Cardinality(below[x])]
  OBVIOUS
<1>6. ASSUME NEW x \in S PROVE IsFiniteSet(below[x]) /\ count[x] \in Nat /\ count[x] + 1 \in 1 .. n
  <2>1. below[x] \subseteq S \ {x}
    BY <1>4
  <2>2. IsFiniteSet(S \ {x}) /\ Cardinality(S \ {x}) = n - 1
    BY <1>1, FS_RemoveElement
  <2>3. IsFiniteSet(below[x]) /\ Cardinality(below[x]) <= n - 1
    BY <2>1, <2>2, FS_Subset
  <2>4. count[x] = Cardinality(below[x]) /\ count[x] \in Nat
    BY <1>5, <2>3, FS_CardinalityType
  <2> QED BY <1>2, <2>3, <2>4
<1>7. ASSUME NEW x \in S, NEW z \in S, x < z PROVE count[x] < count[z]
  <2>1. x \notin below[x] /\ \A y \in below[x] : y \in below[z]
    <3>1. ASSUME NEW y \in below[x] PROVE y \in below[z]
      <4>1. y \in S /\ y < x
        BY <1>4
      <4>2. y \in Nat /\ x \in Nat /\ z \in Nat
        BY <4>1
      <4>3. y < z
        BY <1>7, <4>1, <4>2
      <4> QED BY <1>4, <4>1, <4>3
    <3> QED BY <1>4, <3>1
  <2>2. below[x] \cup {x} \subseteq below[z]
    BY <1>4, <1>7, <2>1
  <2>3. Cardinality(below[x] \cup {x}) = Cardinality(below[x]) + 1
    BY <1>6, <2>1, FS_AddElement
  <2>4. Cardinality(below[x] \cup {x}) <= Cardinality(below[z])
    BY <1>6, <2>2, FS_Subset
  <2>5. count[x] + 1 <= count[z]
    BY <1>5, <2>3, <2>4
  <2>6. count[x] \in Nat /\ count[z] \in Nat
    BY <1>6
  <2> QED BY <2>5, <2>6
<1>8. \A x, z \in S : x # z => x < z \/ z < x
  OBVIOUS
<1>9. PICK place : place = [x \in S |-> count[x] + 1]
  OBVIOUS
<1>10. place \in [S -> 1 .. n]
  BY <1>6, <1>9
<1>11. ASSUME NEW x \in S, NEW z \in S, place[x] = place[z] PROVE x = z
  <2>1. count[x] = count[z] /\ count[x] \in Nat
    BY <1>6, <1>9, <1>11
  <2>2. ~ (x < z) /\ ~ (z < x)
    BY <1>7, <2>1
  <2> QED BY <1>8, <2>2
<1>12. place \in Injection(S, 1 .. n)
  BY <1>10, <1>11, Fun_IsInj
<1>13. place \in Surjection(S, 1 .. n)
  BY <1>1, <1>2, <1>12, FS_Injection
<1>14. \A i \in 1 .. n : \E x \in S : place[x] = i
  BY <1>13 DEF Surjection
<1>15. PICK q : q = [i \in 1 .. n |-> CHOOSE x \in S : place[x] = i]
  OBVIOUS
<1>16. ASSUME NEW i \in 1 .. n PROVE q[i] \in S /\ place[q[i]] = i
  BY <1>14, <1>15
<1>17. ASSUME NEW i \in 1 .. n, NEW j \in 1 .. n, i < j PROVE q[i] < q[j]
  <2>1. q[i] \in S /\ q[j] \in S /\ place[q[i]] = i /\ place[q[j]] = j
    BY <1>16
  <2>2. count[q[i]] + 1 = i /\ count[q[j]] + 1 = j
    BY <1>9, <2>1
  <2>3. ~ (q[j] < q[i])
    <3>1. ASSUME q[j] < q[i] PROVE FALSE
      <4>1. count[q[j]] < count[q[i]]
        BY <1>7, <2>1, <3>1
      <4>2. count[q[j]] \in Nat /\ count[q[i]] \in Nat /\ i \in Nat /\ j \in Nat
        <5>1. \A x \in S : count[x] \in Nat
          BY <1>6
        <5>2. i \in Nat /\ j \in Nat
          BY <1>2
        <5> QED BY <2>1, <5>1, <5>2
      <4> QED BY <1>17, <2>2, <4>1, <4>2
    <3> QED BY <3>1
  <2>4. q[i] # q[j]
    BY <1>2, <1>17, <2>1
  <2> QED BY <1>8, <2>1, <2>3, <2>4
<1>18. q \in [1 .. n -> S] /\ DOMAIN q = 1 .. n
  BY <1>15, <1>16
<1> QED BY <1>1, <1>17, <1>18

(***************************************************************************)
(* The scan of a task map meets every task once.                           *)
(***************************************************************************)
LEMMA ByIdElements ==
    ASSUME NEW S \in SUBSET Nat, IsFiniteSet(S)
    PROVE  ById(S) \in Seq(S) /\ IsInjective(ById(S)) /\ ToSet(ById(S)) = S
<1>1. PICK q : q = ById(S)
  OBVIOUS
<1>2. PICK n : n = Cardinality(S)
  OBVIOUS
<1>3. n \in Nat /\ IsFiniteSet(1 .. n) /\ Cardinality(1 .. n) = n
  BY <1>2, FS_CardinalityType, FS_Interval
<1>4. q \in [1 .. n -> S] /\ \A i, j \in 1 .. n : i < j => q[i] < q[j]
  BY <1>1, <1>2, IncreasingListExists DEF ById
<1>5. ASSUME NEW i \in 1 .. n, NEW j \in 1 .. n, q[i] = q[j] PROVE i = j
  <2>1. q[i] \in Nat /\ ~ (q[i] < q[j]) /\ ~ (q[j] < q[i])
    <3>1. PICK x : x = q[i]
      OBVIOUS
    <3>2. x \in S /\ x = q[j]
      BY <1>4, <1>5, <3>1
    <3>3. x \in Nat /\ ~ (x < x)
      BY <3>2
    <3> QED BY <3>1, <3>2, <3>3
  <2>2. ~ (i < j) /\ ~ (j < i)
    BY <1>4, <2>1
  <2> QED BY <1>3, <2>2
<1>6. q \in Injection(1 .. n, S)
  BY <1>4, <1>5, Fun_IsInj
<1>7. q \in Surjection(1 .. n, S)
  BY <1>2, <1>3, <1>6, FS_Injection
<1>8. \A x \in S : \E i \in 1 .. n : q[i] = x
  BY <1>7 DEF Surjection
<1>9. q \in Seq(S) /\ DOMAIN q = 1 .. n
  BY <1>3, <1>4
<1> QED BY <1>1, <1>4, <1>5, <1>8, <1>9, ZenonT(60) DEF IsInjective, ToSet

(***************************************************************************)
(* Two lists without common elements, one after the other.                 *)
(***************************************************************************)
LEMMA JoinedElements ==
    ASSUME NEW S, NEW s \in Seq(S), NEW r \in Seq(S), IsInjective(s), IsInjective(r),
           ToSet(s) \cap ToSet(r) = {}
    PROVE  s \o r \in Seq(S) /\ IsInjective(s \o r) /\ ToSet(s \o r) = ToSet(s) \cup ToSet(r)
<1>1. PICK c : c = s \o r
  OBVIOUS
<1>2. /\ c \in Seq(S) /\ Len(c) = Len(s) + Len(r)
      /\ \A i \in 1 .. Len(s) + Len(r) : c[i] = IF i <= Len(s) THEN s[i] ELSE r[i - Len(s)]
  BY <1>1
<1>3. \A i \in 1 .. Len(s) : s[i] \in ToSet(s)
  BY DEF ToSet
<1>4. \A i \in 1 .. Len(r) : r[i] \in ToSet(r)
  BY DEF ToSet
<1>5. ASSUME NEW i \in 1 .. Len(c), NEW j \in 1 .. Len(c), c[i] = c[j] PROVE i = j
  <2>1. CASE i <= Len(s) /\ j <= Len(s)
    BY <1>2, <1>5, <2>1 DEF IsInjective
  <2>2. CASE i > Len(s) /\ j > Len(s)
    <3>1. /\ i - Len(s) \in 1 .. Len(r) /\ j - Len(s) \in 1 .. Len(r)
          /\ r[i - Len(s)] = r[j - Len(s)]
      BY <1>2, <1>5, <2>2
    <3>2. i - Len(s) = j - Len(s)
      BY <3>1 DEF IsInjective
    <3> QED BY <3>2
  <2>3. CASE i <= Len(s) /\ j > Len(s)
    BY <1>2, <1>3, <1>4, <1>5, <2>3
  <2>4. CASE i > Len(s) /\ j <= Len(s)
    BY <1>2, <1>3, <1>4, <1>5, <2>4
  <2> QED BY <1>2, <2>1, <2>2, <2>3, <2>4
<1>6. IsInjective(c)
  BY <1>2, <1>5 DEF IsInjective
<1>7. ToSet(c) \subseteq ToSet(s) \cup ToSet(r)
  <2>1. ASSUME NEW i \in 1 .. Len(c) PROVE c[i] \in ToSet(s) \cup ToSet(r)
    BY <1>2, <1>3, <1>4
  <2> QED BY <1>2, <2>1 DEF ToSet
<1>8. ToSet(s) \subseteq ToSet(c)
  BY <1>2 DEF ToSet
<1>9. ToSet(r) \subseteq ToSet(c)
  <2>1. ASSUME NEW i \in 1 .. Len(r) PROVE \E k \in 1 .. Len(c) : c[k] = r[i]
    <3>1. PICK k : k = Len(s) + i
      OBVIOUS
    <3>2. Len(s) \in Nat /\ Len(r) \in Nat
      OBVIOUS
    <3>3. k \in 1 .. Len(s) + Len(r) /\ ~ (k <= Len(s)) /\ k - Len(s) = i
      BY <3>1, <3>2
    <3>4. c[k] = r[i]
      BY <1>2, <3>3
    <3> QED BY <1>2, <3>3, <3>4
  <2>2. DOMAIN r = 1 .. Len(r) /\ DOMAIN c = 1 .. Len(c)
    BY <1>2
  <2> QED BY <2>1, <2>2 DEF ToSet
<1> QED BY <1>1, <1>2, <1>6, <1>7, <1>8, <1>9

\* What UnblockAll does to the ready lists and to the states.
AddAll(r, W, e) == [p \in Prio |-> r[p] \o ById({t \in W : e[t] = p})]

AllReady(st, W) == [t \in Task |-> IF t \in W THEN "READY" ELSE st[t]]

(***************************************************************************)
(* Making several tasks READY, each at the tail of the list of its         *)
(* priority.                                                               *)
(***************************************************************************)
LEMMA AddAllAgrees ==
    ASSUME BootAssumption, NEW r \in ReadyLists, NEW st \in [Task -> TaskState],
           NEW e \in [Task -> Prio], Agree(r, st, e),
           NEW W \in SUBSET Task, \A t \in W : st[t] # "READY"
    PROVE  AddAll(r, W, e) \in ReadyLists /\ Agree(AddAll(r, W, e), AllReady(st, W), e)
<1>1. PICK r2 : r2 = AddAll(r, W, e)
  OBVIOUS
<1>2. PICK s2 : s2 = AllReady(st, W)
  OBVIOUS
<1>3. ASSUME NEW p \in Prio
      PROVE  /\ r2[p] \in Seq(Task) /\ IsInjective(r2[p])
             /\ ToSet(r2[p]) = ToSet(r[p]) \cup {t \in W : e[t] = p}
  <2>1. PICK V : V = {t \in W : e[t] = p}
    OBVIOUS
  <2>2. V \in SUBSET Nat /\ IsFiniteSet(V) /\ V \subseteq Task
    BY <2>1, FS_Subset DEF BootAssumption
  <2>3. PICK v : v = ById(V)
    OBVIOUS
  <2>4. v \in Seq(V) /\ IsInjective(v) /\ ToSet(v) = V
    BY <2>2, <2>3, ByIdElements
  <2>5. v \in Seq(Task)
    <3>1. PICK m : m = Len(v)
      OBVIOUS
    <3>2. m \in Nat /\ v \in [1 .. m -> V]
      BY <2>4, <3>1
    <3>3. v \in [1 .. m -> Task]
      BY <2>2, <3>2
    <3> QED BY <3>2, <3>3, SeqDef
  <2>6. r[p] \in Seq(Task) /\ IsInjective(r[p]) /\ ToSet(r[p]) \cap V = {}
    <3>1. r[p] \in Seq(Task) /\ IsInjective(r[p]) /\ \A t \in ToSet(r[p]) : st[t] = "READY"
      BY DEF Agree, ReadyLists
    <3>2. \A t \in V : st[t] # "READY"
      BY <2>1
    <3> QED BY <3>1, <3>2
  <2>7. /\ r[p] \o v \in Seq(Task) /\ IsInjective(r[p] \o v)
        /\ ToSet(r[p] \o v) = ToSet(r[p]) \cup V
    BY <2>4, <2>5, <2>6, JoinedElements
  <2>8. r2[p] = r[p] \o v
    BY <1>1, <2>1, <2>3 DEF AddAll
  <2> QED BY <2>1, <2>7, <2>8
<1>4. r2 \in ReadyLists
  BY <1>1, <1>3 DEF ReadyLists, AddAll
<1>5. \A t \in Task : s2[t] = IF t \in W THEN "READY" ELSE st[t]
  BY <1>2 DEF AllReady
<1>6. ASSUME NEW p \in Prio, NEW t
      PROVE  t \in ToSet(r2[p]) <=> t \in ToSet(r[p]) \/ (t \in W /\ e[t] = p)
  <2>1. ToSet(r2[p]) = ToSet(r[p]) \cup {u \in W : e[u] = p}
    BY <1>3
  <2> QED BY <2>1
<1>7. ASSUME NEW p \in Prio, NEW t \in ToSet(r2[p]) PROVE e[t] = p /\ s2[t] = "READY"
  <2>1. CASE t \in W /\ e[t] = p
    BY <1>5, <2>1
  <2>2. CASE t \in ToSet(r[p])
    <3>1. e[t] = p /\ st[t] = "READY"
      BY <2>2 DEF Agree
    <3>2. r[p] \in Seq(Task)
      BY DEF ReadyLists
    <3>3. t \in Task
      BY <2>2, <3>2, HeadElement
    <3> QED BY <1>5, <3>1, <3>3
  <2> QED BY <1>6, <2>1, <2>2
<1>8. ASSUME NEW t \in Task, s2[t] = "READY" PROVE t \in ToSet(r2[e[t]])
  <2>1. e[t] \in Prio /\ (t \in W \/ st[t] = "READY")
    BY <1>5, <1>8
  <2>2. st[t] = "READY" => t \in ToSet(r[e[t]])
    BY DEF Agree
  <2> QED BY <1>6, <2>1, <2>2
<1> QED BY <1>1, <1>2, <1>3, <1>4, <1>7, <1>8 DEF Agree

(***************************************************************************)
(* The end of several waits at once.                                       *)
(***************************************************************************)
LEMMA WakeAllInOrder ==
    ASSUME BootAssumption, InOrder, expiring = {}, NEW W \in SUBSET Task,
           \A t \in W : state[t] = "BLOCKED",
           UnblockAll(W, "OK"), pending' = (pending \/ \E t \in W : Outranks(t)),
           pc' \in [Task -> {"run", "yield"}], pc'[current] = "run" => state[current] = "RUNNING",
           UNCHANGED <<base, eff, current, isr, expiring>>
    PROVE  InOrder'
<1>1. /\ state' = [t \in Task |-> IF t \in W THEN "READY" ELSE state[t]]
      /\ ready' = [p \in Prio |-> ready[p] \o ById({t \in W : eff[t] = p})]
      /\ timed' = timed \ W
      /\ block_status' = [t \in Task |-> IF t \in W THEN "OK" ELSE block_status[t]]
  BY DEF UnblockAll
<1>2. /\ ready \in ReadyLists /\ state \in [Task -> TaskState] /\ eff \in [Task -> Prio]
      /\ Agree(ready, state, eff)
  BY DEF InOrder, SchedTypeOK, SchedInv, ReadyListsAgree, Agree, ReadyLists
<1>3. ready' \in ReadyLists /\ Agree(ready', state', eff)
  <2>1. \A t \in W : state[t] # "READY"
    OBVIOUS
  <2>2. ready' = AddAll(ready, W, eff) /\ state' = AllReady(state, W)
    BY <1>1 DEF AddAll, AllReady
  <2> QED BY <1>2, <2>1, <2>2, AddAllAgrees
<1>4. SchedTypeOK'
  <2>1. pending' \in BOOLEAN
    OBVIOUS
  <2>2. state' \in [Task -> TaskState] /\ block_status' \in [Task -> Status]
    BY <1>1, <1>2, ZenonT(60) DEF InOrder, SchedTypeOK, TaskState, Status
  <2>3. ready' \in [Prio -> Seq(Task)]
    BY <1>3 DEF ReadyLists
  <2> QED BY <1>1, <2>1, <2>2, <2>3 DEF InOrder, SchedTypeOK
<1>5. ReadyListsAgree'
  BY <1>3 DEF ReadyListsAgree, Agree
<1>6. OneRunning'
  <2>1. \A u \in Task : state'[u] = "RUNNING" => u = current'
    BY <1>1, <1>2 DEF InOrder, SchedInv, OneRunning
  <2>2. current \in Task /\ (state[current] = "RUNNING" => state'[current] = "RUNNING")
    BY <1>1, <1>2 DEF InOrder, SchedTypeOK
  <2>3. state'[current'] # "RUNNING" => pending'
    BY <2>2 DEF InOrder, SchedInv, OneRunning
  <2>4. pc'[current'] = "run" => state'[current'] = "RUNNING"
    BY <2>2
  <2> QED BY <2>1, <2>3, <2>4 DEF OneRunning
<1>7. DeadlinesOnlyForWaiters'
  BY <1>1, <1>2 DEF InOrder, SchedInv, SchedTypeOK, DeadlinesOnlyForWaiters
<1>8. Urgent'
  <2>1. ASSUME ~pending', NEW u \in Task, state'[u] = "READY"
        PROVE  eff[current] <= eff[u]
    <3>1. ~pending /\ \A t \in W : ~Outranks(t)
      BY <2>1
    <3>2. CASE u \in W
      BY <3>1, <3>2, PrioritiesCompare DEF InOrder
    <3>3. CASE u \notin W
      BY <1>1, <2>1, <3>1, <3>3 DEF InOrder, Urgent
    <3> QED BY <3>2, <3>3
  <2> QED BY <2>1 DEF Urgent
<1> QED BY <1>4, <1>5, <1>6, <1>7, <1>8 DEF InOrder, SchedInv

(***************************************************************************)
(* The task a search of a wait map finds is in the map.                    *)
(***************************************************************************)
LEMMA MostUrgentIsIn ==
    ASSUME BootAssumption, SchedTypeOK, NEW S \in SUBSET Task, S # {}
    PROVE  MostUrgent(S) \in S
<1>1. \A t \in S : eff[t] \in Nat /\ t \in Nat
  <2>1. Prio \subseteq Nat /\ Task \subseteq Nat
    BY DEF Prio, BootAssumption
  <2>2. eff \in [Task -> Prio]
    BY DEF SchedTypeOK
  <2> QED BY <2>1, <2>2
<1>2. PICK I : I = {n \in Nat : \E t \in S : eff[t] = n}
  OBVIOUS
<1>3. I \in SUBSET Nat /\ I # {}
  <2>1. PICK t : t \in S
    OBVIOUS
  <2> QED BY <1>1, <1>2, <2>1
<1>4. PICK p \in I : \A q \in I : p <= q
  BY <1>3, LeastNumber
<1>5. PICK J : J = {n \in Nat : n \in S /\ eff[n] = p}
  OBVIOUS
<1>6. J \in SUBSET Nat /\ J # {}
  BY <1>1, <1>2, <1>4, <1>5
<1>7. PICK t \in J : \A u \in J : t <= u
  BY <1>6, LeastNumber
<1>8. t \in S /\ \A u \in S : eff[t] < eff[u] \/ (eff[t] = eff[u] /\ t <= u)
  <2>1. ASSUME NEW u \in S PROVE eff[t] < eff[u] \/ (eff[t] = eff[u] /\ t <= u)
    <3>1. p <= eff[u] /\ p \in Nat /\ eff[u] \in Nat /\ eff[t] = p
      BY <1>1, <1>2, <1>4, <1>5, <1>7
    <3>2. CASE eff[u] = p
      BY <1>5, <1>7, <3>1, <3>2
    <3>3. CASE eff[u] # p
      BY <3>1, <3>3
    <3> QED BY <3>2, <3>3
  <2> QED BY <1>5, <1>7, <2>1
<1> QED BY <1>8 DEF MostUrgent
=============================================================================
