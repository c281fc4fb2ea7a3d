------------------------- MODULE IndexAllocatorProofs -------------------------
(* Proofs about IndexAllocator, for any number of slots, memories and limits. *)
EXTENDS IndexAllocator, FiniteSetTheorems, TLAPS

(* The lists *)

\* q is the order in which the list visits S.
Order(q, list, link, S) ==
  LET n == Cardinality(S)
  IN /\ q \in [1 .. n -> S]
     /\ list.head = IF n = 0 THEN None ELSE q[1]
     /\ list.tail = IF n = 0 THEN None ELSE q[n]
     /\ \A i \in 1 .. n :
          /\ link[q[i]].prev = IF i = 1 THEN None ELSE q[i - 1]
          /\ link[q[i]].next = IF i = n THEN None ELSE q[i + 1]
     /\ \A s \in S : \E i \in 1 .. n : q[i] = s
     /\ \A i, j \in 1 .. n : q[i] = q[j] => i = j

Threaded(list, link, S) == \E q : Order(q, list, link, S)

LEMMA ThreadedVisits ==
  ASSUME NEW list, NEW link, NEW S, Threaded(list, link, S)
  PROVE  Visits(list, link, S)
  BY DEF Threaded, Order, Visits

LEMMA SlotsFinite ==
  ASSUME NEW S \in SUBSET Slots
  PROVE  IsFiniteSet(S) /\ Cardinality(S) \in Nat /\ Cardinality(S) <= Capacity
<1>1. IsFiniteSet(Slots) /\ Cardinality(Slots) = Capacity
  BY FS_Interval, IndexAllocatorAssumption DEF Slots
<1>2. QED  BY <1>1, FS_Subset, FS_CardinalityType

LEMMA EmptyThreaded ==
  ASSUME NEW link PROVE Threaded(NoList, link, {})
<1> DEFINE q == [i \in 1 .. 0 |-> 0]
<1>1. Order(q, NoList, link, {})
  BY FS_EmptySet DEF Order, NoList
<1>2. QED  BY <1>1 DEF Threaded

\* The head of a list is missing only if nothing is on it; the ends are on it.
LEMMA ThreadedEnds ==
  ASSUME NEW S \in SUBSET Slots, NEW list, NEW link, Threaded(list, link, S)
  PROVE  /\ (list.head = None) <=> (S = {})
         /\ (list.tail = None) <=> (S = {})
         /\ list.head \in S \cup {None} /\ list.tail \in S \cup {None}
         /\ \A s \in S : link[s].prev \in S \cup {None} /\ link[s].next \in S \cup {None}
<1>1. PICK q : Order(q, list, link, S)
  BY DEF Threaded
<1> DEFINE n == Cardinality(S)
<1>2. n \in Nat /\ (n = 0 <=> S = {})
  <2>1. IsFiniteSet(S) /\ n \in Nat
    BY SlotsFinite
  <2>2. QED  BY <2>1, FS_EmptySet
<1>3. None \notin Slots
  BY IndexAllocatorAssumption DEF Slots
<1>4. \A i \in 1 .. n : q[i] \in S
  BY <1>1 DEF Order
<1> HIDE DEF n
<1>5. /\ list.head = IF n = 0 THEN None ELSE q[1]
      /\ list.tail = IF n = 0 THEN None ELSE q[n]
  BY <1>1 DEF Order, n
<1>6. ASSUME NEW s \in S PROVE link[s].prev \in S \cup {None} /\ link[s].next \in S \cup {None}
  <2>1. PICK i \in 1 .. n : q[i] = s
    BY <1>1 DEF Order, n
  <2>2. /\ link[s].prev = IF i = 1 THEN None ELSE q[i - 1]
        /\ link[s].next = IF i = n THEN None ELSE q[i + 1]
    BY <1>1, <2>1 DEF Order, n
  <2>3. QED  BY <1>2, <1>4, <2>2
<1>7. QED  BY <1>2, <1>3, <1>4, <1>5, <1>6

\* List::append of a slot that is not on the list.
LEMMA AppendThreaded ==
  ASSUME NEW S \in SUBSET Slots, NEW list, NEW link \in [Slots -> Links], NEW s \in Slots \ S,
         Threaded(list, link, S)
  PROVE  Threaded(AppendList(list, s), AppendLinks(list, link, s), S \cup {s})
<1>1. PICK q : Order(q, list, link, S)
  BY DEF Threaded
<1> DEFINE n == Cardinality(S)
           r == [i \in 1 .. n + 1 |-> IF i = n + 1 THEN s ELSE q[i]]
           ls == AppendList(list, s)
           lk == AppendLinks(list, link, s)
<1>2. n \in Nat /\ Cardinality(S \cup {s}) = n + 1
  BY SlotsFinite, FS_AddElement
<1>3. None \notin Slots
  BY IndexAllocatorAssumption DEF Slots
<1>4. /\ q \in [1 .. n -> S]
      /\ list.head = IF n = 0 THEN None ELSE q[1]
      /\ list.tail = IF n = 0 THEN None ELSE q[n]
      /\ \A i \in 1 .. n :
           /\ link[q[i]].prev = IF i = 1 THEN None ELSE q[i - 1]
           /\ link[q[i]].next = IF i = n THEN None ELSE q[i + 1]
      /\ \A t \in S : \E i \in 1 .. n : q[i] = t
      /\ \A i, j \in 1 .. n : q[i] = q[j] => i = j
  BY <1>1 DEF Order
<1> HIDE DEF n
<1>5. r \in [1 .. n + 1 -> S \cup {s}]
  BY <1>2, <1>4
<1>6. ls.head = r[1] /\ ls.tail = r[n + 1]
  BY <1>2, <1>3, <1>4 DEF AppendList
<1>7. ASSUME NEW i \in 1 .. n + 1
      PROVE  /\ lk[r[i]].prev = IF i = 1 THEN None ELSE r[i - 1]
             /\ lk[r[i]].next = IF i = n + 1 THEN None ELSE r[i + 1]
  <2>1. CASE i = n + 1
    <3>1. lk[r[i]] = [prev |-> list.tail, next |-> None]
      BY <2>1, <1>2 DEF AppendLinks
    <3>2. QED  BY <3>1, <2>1, <1>2, <1>4
  <2>2. CASE i = n
    <3>1. r[i] = q[n] /\ q[n] = list.tail /\ q[n] \in Slots /\ q[n] # s
      BY <2>2, <1>2, <1>4
    <3>2. lk[r[i]] = [link[q[n]] EXCEPT !.next = s]
      BY <3>1 DEF AppendLinks
    <3>3. link[q[n]] \in Links
      BY <3>1
    <3>4. lk[r[i]].prev = link[q[n]].prev /\ lk[r[i]].next = s
      BY <3>2, <3>3 DEF Links
    <3>5. QED  BY <2>2, <3>4, <1>2, <1>4
  <2>3. CASE i < n
    <3>1. r[i] = q[i] /\ q[i] # list.tail /\ q[i] \in Slots /\ q[i] # s
      BY <2>3, <1>2, <1>4
    <3>2. lk[r[i]] = link[q[i]]
      BY <3>1 DEF AppendLinks
    <3>3. QED  BY <2>3, <3>2, <1>2, <1>4
  <2>4. QED  BY <2>1, <2>2, <2>3, <1>2
<1>8. \A t \in S \cup {s} : \E i \in 1 .. n + 1 : r[i] = t
  <2>1. r[n + 1] = s /\ n + 1 \in 1 .. n + 1
    BY <1>2
  <2>2. ASSUME NEW t \in S PROVE \E i \in 1 .. n + 1 : r[i] = t
    <3>1. PICK i \in 1 .. n : q[i] = t
      BY <1>4
    <3>2. QED  BY <3>1, <1>2
  <2>3. QED  BY <2>1, <2>2
<1>9. \A i, j \in 1 .. n + 1 : r[i] = r[j] => i = j
  BY <1>2, <1>4
<1>10. Order(r, ls, lk, S \cup {s})
  <2> DEFINE m == Cardinality(S \cup {s})
  <2>1. m = n + 1 /\ m # 0
    BY <1>2
  <2> HIDE DEF m, r, ls, lk
  <2>2. /\ r \in [1 .. m -> S \cup {s}]
        /\ ls.head = IF m = 0 THEN None ELSE r[1]
        /\ ls.tail = IF m = 0 THEN None ELSE r[m]
        /\ \A i \in 1 .. m :
             /\ lk[r[i]].prev = IF i = 1 THEN None ELSE r[i - 1]
             /\ lk[r[i]].next = IF i = m THEN None ELSE r[i + 1]
        /\ \A t \in S \cup {s} : \E i \in 1 .. m : r[i] = t
        /\ \A i, j \in 1 .. m : r[i] = r[j] => i = j
    BY <2>1, <1>5, <1>6, <1>7, <1>8, <1>9
  <2>3. QED  BY <2>2 DEF Order, m
<1>11. QED  BY <1>10 DEF Threaded

\* List::remove of a slot that is on the list, from its head, middle or tail.
LEMMA RemoveThreaded ==
  ASSUME NEW S \in SUBSET Slots, NEW list, NEW link \in [Slots -> Links], NEW s \in S,
         Threaded(list, link, S)
  PROVE  Threaded(RemoveList(list, link, s), RemoveLinks(link, s), S \ {s})
<1>1. PICK q : Order(q, list, link, S)
  BY DEF Threaded
<1> DEFINE n == Cardinality(S)
<1>2. n \in Nat /\ Cardinality(S \ {s}) = n - 1
  BY SlotsFinite, FS_RemoveElement
<1>3. None \notin Slots
  BY IndexAllocatorAssumption DEF Slots
<1>4. /\ q \in [1 .. n -> S]
      /\ list.head = IF n = 0 THEN None ELSE q[1]
      /\ list.tail = IF n = 0 THEN None ELSE q[n]
      /\ \A i \in 1 .. n :
           /\ link[q[i]].prev = IF i = 1 THEN None ELSE q[i - 1]
           /\ link[q[i]].next = IF i = n THEN None ELSE q[i + 1]
      /\ \A t \in S : \E i \in 1 .. n : q[i] = t
      /\ \A i, j \in 1 .. n : q[i] = q[j] => i = j
  BY <1>1 DEF Order
<1>4a. \A i, j \in 1 .. n : q[i] = q[j] => i = j
  BY <1>4
<1> HIDE DEF n
<1>5. PICK k \in 1 .. n : q[k] = s
  BY <1>4
<1> DEFINE r == [i \in 1 .. n - 1 |-> IF i < k THEN q[i] ELSE q[i + 1]]
           ls == RemoveList(list, link, s)
           lk == RemoveLinks(link, s)
           before == link[s].prev
           after == link[s].next
<1>6. /\ before = IF k = 1 THEN None ELSE q[k - 1]
      /\ after = IF k = n THEN None ELSE q[k + 1]
  BY <1>4, <1>5
<1>7. /\ before = None <=> k = 1
      /\ after = None <=> k = n
  BY <1>2, <1>3, <1>4, <1>5, <1>6
<1>8. \A t \in Slots \ {s} :
        /\ lk[t].prev = IF t = after THEN before ELSE link[t].prev
        /\ lk[t].next = IF t = before THEN after ELSE link[t].next
  BY DEF RemoveLinks
<1>9. ls.head = (IF k = 1 THEN after ELSE list.head) /\ ls.tail = (IF k = n THEN before ELSE list.tail)
  BY <1>7 DEF RemoveList
<1>10. \A i \in 1 .. n - 1 : r[i] = (IF i < k THEN q[i] ELSE q[i + 1]) /\ r[i] \in S \ {s}
  BY <1>2, <1>4, <1>5
<1>11. r \in [1 .. n - 1 -> S \ {s}]
  BY <1>10
<1> HIDE DEF ls, lk, before, after, r
<1>12. /\ ls.head = IF n - 1 = 0 THEN None ELSE r[1]
       /\ ls.tail = IF n - 1 = 0 THEN None ELSE r[n - 1]
  <2>1. CASE n - 1 = 0
    BY <2>1, <1>5, <1>6, <1>9
  <2>2. CASE n - 1 # 0
    <3>1. 1 \in 1 .. n - 1 /\ n - 1 \in 1 .. n - 1
      BY <2>2, <1>2, <1>5
    <3>2. /\ r[1] = IF k = 1 THEN q[2] ELSE q[1]
          /\ r[n - 1] = IF k = n THEN q[n - 1] ELSE q[n]
      BY <3>1, <1>2, <1>5, <1>10
    <3>3. QED  BY <2>2, <3>2, <1>2, <1>4, <1>5, <1>6, <1>9
  <2>3. QED  BY <2>1, <2>2
<1>13. ASSUME NEW i \in 1 .. n - 1
       PROVE  /\ lk[r[i]].prev = IF i = 1 THEN None ELSE r[i - 1]
              /\ lk[r[i]].next = IF i = n - 1 THEN None ELSE r[i + 1]
  <2>1. r[i] \in Slots \ {s}
    BY <1>10
  <2>2. /\ lk[r[i]].prev = IF r[i] = after THEN before ELSE link[r[i]].prev
        /\ lk[r[i]].next = IF r[i] = before THEN after ELSE link[r[i]].next
    BY <1>8, <2>1
  <2>3. CASE i < k
    <3>1. r[i] = q[i] /\ i \in 1 .. n
      BY <2>3, <1>2, <1>10
    <3>2. r[i] # after
      BY <2>1, <2>3, <3>1, <1>2, <1>3, <1>4a, <1>6
    <3>3. i = k - 1 => r[i] = before
      BY <3>1, <1>2, <1>6
    <3>4. i # k - 1 => r[i] # before
      BY <2>1, <2>3, <3>1, <1>2, <1>3, <1>4a, <1>6
    <3>5. /\ link[r[i]].prev = IF i = 1 THEN None ELSE q[i - 1]
          /\ link[r[i]].next = q[i + 1]
      BY <2>3, <3>1, <1>2, <1>4
    <3>6. i # 1 => r[i - 1] = q[i - 1]
      BY <2>3, <1>2, <1>10
    <3>7. CASE i = k - 1
      <4>1. i # n - 1 => r[i + 1] = q[k + 1]
        BY <3>7, <1>2, <1>10
      <4>2. QED  BY <2>2, <3>2, <3>3, <3>5, <3>6, <3>7, <4>1, <1>2, <1>6
    <3>8. CASE i # k - 1
      <4>1. i # n - 1 /\ r[i + 1] = q[i + 1]
        BY <2>3, <3>8, <1>2, <1>10
      <4>2. QED  BY <2>2, <3>2, <3>4, <3>5, <3>6, <3>8, <4>1
    <3>9. QED  BY <3>7, <3>8
  <2>4. CASE i >= k
    <3>1. r[i] = q[i + 1] /\ i + 1 \in 1 .. n
      BY <2>4, <1>2, <1>10
    <3>2. r[i] # before
      BY <2>1, <2>4, <3>1, <1>2, <1>3, <1>4a, <1>6
    <3>3. i = k => r[i] = after
      BY <3>1, <1>2, <1>6
    <3>4. i # k => r[i] # after
      BY <2>1, <2>4, <3>1, <1>2, <1>3, <1>4a, <1>6
    <3>5. /\ link[r[i]].prev = q[i]
          /\ link[r[i]].next = IF i = n - 1 THEN None ELSE q[i + 2]
      <4>1. /\ link[q[i + 1]].prev = IF i + 1 = 1 THEN None ELSE q[(i + 1) - 1]
            /\ link[q[i + 1]].next = IF i + 1 = n THEN None ELSE q[(i + 1) + 1]
        BY <3>1, <1>4
      <4>2. (i + 1) - 1 = i /\ (i + 1) + 1 = i + 2 /\ i + 1 # 1 /\ (i + 1 = n <=> i = n - 1)
        BY <1>2
      <4>3. QED  BY <3>1, <4>1, <4>2
    <3>6. i # n - 1 => r[i + 1] = q[i + 2]
      BY <2>4, <1>2, <1>10
    <3>7. CASE i = k
      <4>1. i # 1 => r[i - 1] = q[k - 1]
        BY <3>7, <1>2, <1>10
      <4>2. QED  BY <2>2, <3>2, <3>3, <3>5, <3>6, <3>7, <4>1, <1>2, <1>6
    <3>8. CASE i # k
      <4>1. i # 1 /\ r[i - 1] = q[i]
        BY <2>4, <3>8, <1>2, <1>10
      <4>2. QED  BY <2>2, <3>2, <3>4, <3>5, <3>6, <3>8, <4>1
    <3>9. QED  BY <3>7, <3>8
  <2>5. QED  BY <2>3, <2>4, <1>2
<1>14. ASSUME NEW t \in S \ {s} PROVE \E i \in 1 .. n - 1 : r[i] = t
  <2>1. PICK j \in 1 .. n : q[j] = t
    BY <1>4
  <2>2. j # k
    BY <2>1, <1>5
  <2>3. CASE j < k
    BY <2>1, <2>3, <1>2, <1>10
  <2>4. CASE j > k
    <3>1. j - 1 \in 1 .. n - 1 /\ r[j - 1] = q[j]
      BY <2>4, <1>2, <1>10
    <3>2. QED  BY <3>1, <2>1
  <2>5. QED  BY <2>2, <2>3, <2>4, <1>2
<1>15. ASSUME NEW i \in 1 .. n - 1, NEW j \in 1 .. n - 1, r[i] = r[j] PROVE i = j
  <2> DEFINE a == IF i < k THEN i ELSE i + 1
             b == IF j < k THEN j ELSE j + 1
  <2>1. a \in 1 .. n /\ b \in 1 .. n /\ (a = b => i = j)
    BY <1>2
  <2>2. r[i] = q[a] /\ r[j] = q[b]
    BY <1>10
  <2> HIDE DEF a, b
  <2>3. q[a] = q[b]
    BY <2>2, <1>15
  <2>4. a = b
    BY <2>1, <2>3, <1>4
  <2>5. QED  BY <2>1, <2>4
<1>16. Order(r, ls, lk, S \ {s})
  <2> DEFINE m == Cardinality(S \ {s})
  <2>1. m = n - 1
    BY <1>2
  <2> HIDE DEF m
  <2>2. /\ r \in [1 .. m -> S \ {s}]
        /\ ls.head = IF m = 0 THEN None ELSE r[1]
        /\ ls.tail = IF m = 0 THEN None ELSE r[m]
        /\ \A i \in 1 .. m :
             /\ lk[r[i]].prev = IF i = 1 THEN None ELSE r[i - 1]
             /\ lk[r[i]].next = IF i = m THEN None ELSE r[i + 1]
        /\ \A t \in S \ {s} : \E i \in 1 .. m : r[i] = t
        /\ \A i, j \in 1 .. m : r[i] = r[j] => i = j
    BY <2>1, <1>11, <1>12, <1>13, <1>14, <1>15
  <2>3. QED  BY <2>2 DEF Order, m
<1>17. QED  BY <1>16 DEF Threaded, ls, lk

\* A list is left alone by changes to the links of slots that are not on it.
LEMMA OtherThreaded ==
  ASSUME NEW S \in SUBSET Slots, NEW list, NEW link, NEW lk, Threaded(list, link, S),
         \A s \in S : lk[s] = link[s]
  PROVE  Threaded(list, lk, S)
<1>1. PICK q : Order(q, list, link, S)
  BY DEF Threaded
<1>2. \A i \in 1 .. Cardinality(S) : lk[q[i]] = link[q[i]]
  BY <1>1 DEF Order
<1>3. Order(q, list, lk, S)
  BY <1>1, <1>2 DEF Order
<1>4. QED  BY <1>3 DEF Threaded

LEMMA LinksTyped ==
  ASSUME NEW list \in Lists, NEW link \in [Slots -> Links], NEW s \in Slots
  PROVE  /\ AppendList(list, s) \in Lists /\ AppendLinks(list, link, s) \in [Slots -> Links]
         /\ RemoveList(list, link, s) \in Lists /\ RemoveLinks(link, s) \in [Slots -> Links]
<1>1. link[s].prev \in Options /\ link[s].next \in Options
  BY DEF Links
<1>2. list.head \in Options /\ list.tail \in Options /\ s \in Options /\ None \in Options
  BY DEF Lists, Options
<1>3. AppendList(list, s) \in Lists /\ RemoveList(list, link, s) \in Lists
  BY <1>1, <1>2 DEF Lists, AppendList, RemoveList
<1>4. AppendLinks(list, link, s) \in [Slots -> Links]
  BY <1>2 DEF AppendLinks, Links, NoLink
<1>5. RemoveLinks(link, s) \in [Slots -> Links]
  BY <1>1, <1>2 DEF RemoveLinks, Links, NoLink
<1>6. QED  BY <1>3, <1>4, <1>5

-----------------------------------------------------------------------------
(* The inductive invariant *)

\* The list of a memory, empty when it has no entry.
Entry(m) == IF module_affine[m] = None THEN NoList ELSE module_affine[m]

WarmInv == Threaded(warm, unused_list_link, WarmSlots)

AffineInv ==
  \A m \in Memories :
    /\ Threaded(Entry(m), affine_list_link, AffineTo(m))
    /\ module_affine[m] # None => AffineTo(m) # {}

PeakInv == Cardinality(UsedSlots) <= peak

IInv == TypeOK /\ CountersExact /\ WarmInv /\ AffineInv /\ PeakInv /\ FootprintBounded

LEMMA IInvExact == IInv => ListsExact
<1> SUFFICES ASSUME IInv PROVE ListsExact
  OBVIOUS
<1>1. Visits(warm, unused_list_link, WarmSlots)
  BY ThreadedVisits DEF IInv, WarmInv
<1>2. ASSUME NEW m \in Memories
      PROVE  IF AffineTo(m) = {} THEN module_affine[m] = None
             ELSE /\ module_affine[m] # None
                  /\ Visits(module_affine[m], affine_list_link, AffineTo(m))
  <2>1. Threaded(Entry(m), affine_list_link, AffineTo(m))
    BY DEF IInv, AffineInv
  <2>2. AffineTo(m) \in SUBSET Slots
    BY DEF AffineTo, WarmSlots
  <2>3. CASE AffineTo(m) = {}
    BY <2>3 DEF IInv, AffineInv
  <2>4. CASE AffineTo(m) # {}
    <3>1. Entry(m).head # None
      BY <2>1, <2>2, <2>4, ThreadedEnds
    <3>2. module_affine[m] # None /\ Entry(m) = module_affine[m]
      BY <3>1 DEF Entry, NoList
    <3>3. QED  BY <2>1, <2>4, <3>2, ThreadedVisits
  <2>5. QED  BY <2>3, <2>4
<1>3. QED  BY <1>1, <1>2 DEF IInv, ListsExact

\* The slots in use and the warm ones are those below last_cold.
LEMMA Below ==
  ASSUME TypeOK, CountersExact
  PROVE  last_cold = Cardinality(UsedSlots) + Cardinality(WarmSlots)
<1>1. UsedSlots \cup WarmSlots = 0 .. last_cold - 1 /\ UsedSlots \cap WarmSlots = {}
  BY IndexAllocatorAssumption DEF TypeOK, CountersExact, UsedSlots, WarmSlots, Slots
<1>2. IsFiniteSet(UsedSlots) /\ IsFiniteSet(WarmSlots)
  BY SlotsFinite DEF UsedSlots, WarmSlots
<1>3. Cardinality(0 .. last_cold - 1) = last_cold
  <2>1. last_cold \in Nat
    BY DEF TypeOK
  <2>2. Cardinality(0 .. last_cold - 1)
          = IF 0 > last_cold - 1 THEN 0 ELSE (last_cold - 1) - 0 + 1
    <3>1. 0 \in Int /\ last_cold - 1 \in Int
      BY <2>1
    <3>2. QED  BY <3>1, FS_Interval
  <2>3. QED  BY <2>1, <2>2
<1>4. Cardinality(UsedSlots \cup WarmSlots)
        = Cardinality(UsedSlots) + Cardinality(WarmSlots) - Cardinality(UsedSlots \cap WarmSlots)
  BY <1>2, FS_Union
<1>5. Cardinality(UsedSlots \cap WarmSlots) = 0
  BY <1>1, FS_EmptySet
<1>6. Cardinality(UsedSlots) \in Nat /\ Cardinality(WarmSlots) \in Nat
  BY <1>2, FS_CardinalityType
<1>7. Cardinality(UsedSlots \cup WarmSlots) = last_cold
  BY <1>1, <1>3
<1>8. QED  BY <1>4, <1>5, <1>6, <1>7

\* A list that is not empty has an entry.
LEMMA EntryThere ==
  ASSUME TypeOK, AffineInv, NEW m \in Memories, AffineTo(m) # {}
  PROVE  /\ module_affine[m] \in Lists /\ Entry(m) = module_affine[m]
         /\ Threaded(module_affine[m], affine_list_link, AffineTo(m))
<1>1. Threaded(Entry(m), affine_list_link, AffineTo(m)) /\ AffineTo(m) \in SUBSET Slots
  BY DEF AffineInv, AffineTo, WarmSlots
<1>2. Entry(m).head # None
  BY <1>1, ThreadedEnds
<1>3. module_affine[m] # None /\ Entry(m) = module_affine[m]
  BY <1>2 DEF Entry, NoList
<1>4. module_affine[m] \in Lists
  BY <1>3 DEF TypeOK
<1>5. QED  BY <1>1, <1>3, <1>4

-----------------------------------------------------------------------------
(* Allocation of a warm slot *)

\* Remove takes the slot off the list of its memory and leaves the other lists.
LEMMA RemoveAffine ==
  ASSUME TypeOK, AffineInv, NEW s \in WarmSlots, Remove(s),
         \A m \in Memories : AffineTo(m)' = AffineTo(m) \ {s}
  PROVE  /\ affine_list_link' \in [Slots -> Links]
         /\ module_affine' \in [Memories -> Lists \cup {None}]
         /\ AffineInv'
<1> DEFINE a == affinity[s]
<1>0. s \in Slots /\ a \in Memories \cup {None} /\ affine_list_link \in [Slots -> Links]
      /\ module_affine \in [Memories -> Lists \cup {None}]
  BY DEF TypeOK, WarmSlots
<1>1. \A m \in Memories : AffineTo(m) \in SUBSET Slots /\ (s \in AffineTo(m) <=> m = a)
  BY DEF AffineTo, WarmSlots
<1>2. CASE a = None
  <2>1. \A m \in Memories : AffineTo(m)' = AffineTo(m)
    BY <1>1, <1>2, IndexAllocatorAssumption
  <2>2. UNCHANGED <<module_affine, affine_list_link>>
    BY <1>2 DEF Remove
  <2>3. QED  BY <1>0, <2>1, <2>2 DEF AffineInv, Entry
<1>3. CASE a \in Memories
  <2> DEFINE L == RemoveList(module_affine[a], affine_list_link, s)
             K == RemoveLinks(affine_list_link, s)
  <2>1. s \in AffineTo(a)
    BY <1>1, <1>3
  <2>2. /\ module_affine[a] \in Lists
        /\ Threaded(module_affine[a], affine_list_link, AffineTo(a))
    BY <1>3, <2>1, EntryThere
  <2>3. L \in Lists /\ K \in [Slots -> Links]
    BY <1>0, <2>2, LinksTyped
  <2>4. Threaded(L, K, AffineTo(a) \ {s})
    BY <1>0, <1>1, <1>3, <2>1, <2>2, RemoveThreaded
  <2>5. /\ affine_list_link' = K
        /\ module_affine' = [module_affine EXCEPT ![a] = IF L.head = None THEN None ELSE L]
    BY <1>3, IndexAllocatorAssumption DEF Remove
  <2>6. /\ affine_list_link[s].prev \in AffineTo(a) \cup {None}
        /\ affine_list_link[s].next \in AffineTo(a) \cup {None}
    BY <1>1, <1>3, <2>1, <2>2, ThreadedEnds
  <2>7. ASSUME NEW t \in Slots, t \notin AffineTo(a) PROVE K[t] = affine_list_link[t]
    <3>1. t # s /\ t # affine_list_link[s].prev /\ t # affine_list_link[s].next
      BY <2>1, <2>6, <2>7, IndexAllocatorAssumption DEF Slots
    <3>2. K[t] = [prev |-> affine_list_link[t].prev, next |-> affine_list_link[t].next]
      BY <3>1 DEF RemoveLinks
    <3>3. affine_list_link[t] \in Links
      BY <1>0
    <3>4. QED  BY <3>2, <3>3 DEF Links
  <2> HIDE DEF L, K
  <2>8. (L.head = None) <=> (AffineTo(a) \ {s} = {})
    <3>1. AffineTo(a) \ {s} \in SUBSET Slots
      BY <1>1, <1>3
    <3> DEFINE T == AffineTo(a) \ {s}
    <3> HIDE DEF T
    <3>2. T \in SUBSET Slots /\ Threaded(L, K, T)
      BY <2>4, <3>1 DEF T
    <3>3. (L.head = None) <=> (T = {})
      BY <3>2, ThreadedEnds
    <3>4. QED  BY <3>3 DEF T
  <2>9. ASSUME NEW m \in Memories
        PROVE  /\ Threaded(Entry(m)', affine_list_link', AffineTo(m)')
               /\ module_affine'[m] # None => AffineTo(m)' # {}
    <3>1. AffineTo(m)' = AffineTo(m) \ {s}
      OBVIOUS
    <3>2. CASE m = a
      <4>1. module_affine'[m] = IF L.head = None THEN None ELSE L
        BY <1>0, <2>5, <3>2
      <4>2. CASE L.head = None
        <5>1. Entry(m)' = NoList /\ AffineTo(m)' = {}
          BY <2>8, <3>1, <3>2, <4>1, <4>2 DEF Entry
        <5>2. QED  BY <4>1, <4>2, <5>1, EmptyThreaded
      <4>3. CASE L.head # None
        <5>1. Entry(m)' = L
          BY <2>3, <4>1, <4>3, IndexAllocatorAssumption DEF Entry
        <5>2. QED  BY <2>4, <2>5, <2>8, <3>1, <3>2, <4>3, <5>1
      <4>4. QED  BY <4>2, <4>3
    <3>3. CASE m # a
      <4>1. Entry(m)' = Entry(m) /\ module_affine'[m] = module_affine[m]
        BY <1>0, <2>5, <3>3 DEF Entry
      <4>2. AffineTo(m)' = AffineTo(m)
        BY <1>1, <3>1, <3>3
      <4>3. \A t \in AffineTo(m) : K[t] = affine_list_link[t]
        BY <1>1, <2>7, <3>3 DEF AffineTo
      <4>4. Threaded(Entry(m), affine_list_link, AffineTo(m))
        BY DEF AffineInv
      <4>5. Threaded(Entry(m), K, AffineTo(m))
        BY <1>1, <4>3, <4>4, OtherThreaded
      <4>6. module_affine[m] # None => AffineTo(m) # {}
        BY DEF AffineInv
      <4>7. QED  BY <2>5, <4>1, <4>2, <4>5, <4>6
    <3>4. QED  BY <3>2, <3>3
  <2>10. AffineInv'
    BY <2>9 DEF AffineInv
  <2>11. QED  BY <1>0, <2>3, <2>5, <2>10
<1>4. QED  BY <1>0, <1>2, <1>3

\* The bound survives steps that touch no slot for the first time.
LEMMA FootprintKept ==
  ASSUME TypeOK, FootprintBounded, UNCHANGED <<last_cold, max_unused_warm_slots>>,
         peak \in Nat, peak' \in Nat, peak <= peak'
  PROVE  FootprintBounded'
<1>1. max_unused_warm_slots \in Nat /\ last_cold \in Nat
  BY IndexAllocatorAssumption DEF TypeOK
<1>2. \A a, p, q \in Nat, x \in Int : a <= p + x /\ p <= q => a <= q + x
  OBVIOUS
<1>3. CASE max_unused_warm_slots = 0
  <2>1. last_cold <= peak
    BY <1>3 DEF FootprintBounded
  <2>2. last_cold <= peak'
    BY <1>1, <2>1
  <2>3. QED  BY <1>3, <2>2 DEF FootprintBounded
<1>4. CASE max_unused_warm_slots # 0
  <2>1. last_cold <= peak + (max_unused_warm_slots - 1) /\ max_unused_warm_slots - 1 \in Int
    BY <1>1, <1>4 DEF FootprintBounded
  <2>2. last_cold <= peak' + (max_unused_warm_slots - 1)
    BY <1>1, <1>2, <2>1
  <2>3. QED  BY <1>4, <2>2 DEF FootprintBounded
<1>5. QED  BY <1>3, <1>4

LEMMA WarmSlotTaken ==
  ASSUME IInv, NEW s \in WarmSlots, NEW m \in Memories \cup {None},
         Remove(s), Occupy(s, m), UNCHANGED <<last_cold, max_unused_warm_slots>>
  PROVE  IInv'
<1> USE DEF IInv
<1>0. s \in Slots /\ slot_state[s] = "UnusedWarm"
  BY DEF WarmSlots
<1>1. /\ slot_state' = [slot_state EXCEPT ![s] = "Used"]
      /\ affinity' = [affinity EXCEPT ![s] = m]
      /\ peak' = IF Cardinality(UsedSlots) + 1 > peak THEN Cardinality(UsedSlots) + 1 ELSE peak
      /\ unused_warm_slots' = unused_warm_slots - 1
      /\ warm' = RemoveList(warm, unused_list_link, s)
      /\ unused_list_link' = RemoveLinks(unused_list_link, s)
      /\ unused_bytes_resident' = unused_bytes_resident - bytes_resident[s]
      /\ bytes_resident' = [bytes_resident EXCEPT ![s] = 0]
  BY DEF Remove, Occupy
<1>2. WarmSlots' = WarmSlots \ {s} /\ UsedSlots' = UsedSlots \cup {s} /\ s \notin UsedSlots
  BY <1>0, <1>1 DEF TypeOK, WarmSlots, UsedSlots
<1>3. \A b \in Memories : AffineTo(b)' = AffineTo(b) \ {s}
  BY <1>0, <1>1, <1>2 DEF TypeOK, AffineTo, WarmSlots
<1>4. /\ affine_list_link' \in [Slots -> Links]
      /\ module_affine' \in [Memories -> Lists \cup {None}]
      /\ AffineInv'
  BY <1>3, RemoveAffine
<1>5. /\ Cardinality(WarmSlots) \in Nat /\ Cardinality(UsedSlots) \in Nat
      /\ Cardinality(WarmSlots') = Cardinality(WarmSlots) - 1
      /\ Cardinality(UsedSlots') = Cardinality(UsedSlots) + 1
      /\ Cardinality(WarmSlots') \in Nat /\ Cardinality(UsedSlots') <= Capacity
  <2>1. /\ IsFiniteSet(WarmSlots) /\ IsFiniteSet(UsedSlots)
        /\ Cardinality(WarmSlots) \in Nat /\ Cardinality(UsedSlots) \in Nat
    BY SlotsFinite DEF WarmSlots, UsedSlots
  <2>2. Cardinality(WarmSlots \ {s}) = Cardinality(WarmSlots) - 1
    BY <2>1, FS_RemoveElement
  <2>3. Cardinality(UsedSlots \cup {s}) = Cardinality(UsedSlots) + 1
    BY <2>1, <1>2, FS_AddElement
  <2>4. WarmSlots \ {s} \in SUBSET Slots /\ UsedSlots \cup {s} \in SUBSET Slots
    BY <1>0 DEF WarmSlots, UsedSlots
  <2>5. Cardinality(WarmSlots \ {s}) \in Nat /\ Cardinality(UsedSlots \cup {s}) <= Capacity
    BY <2>4, SlotsFinite
  <2>6. QED  BY <2>1, <2>2, <2>3, <2>5, <1>2
<1>6. WarmInv'
  <2>1. unused_list_link \in [Slots -> Links] /\ WarmSlots \in SUBSET Slots
    BY DEF TypeOK, WarmSlots
  <2>2. Threaded(RemoveList(warm, unused_list_link, s), RemoveLinks(unused_list_link, s),
                 WarmSlots \ {s})
    BY <2>1, RemoveThreaded DEF WarmInv
  <2>3. QED  BY <1>1, <1>2, <2>2 DEF WarmInv
<1>7. CountersExact'
  BY <1>0, <1>1, <1>5 DEF CountersExact, TypeOK, Slots
<1>8. TypeOK'
  <2>1. warm' \in Lists /\ unused_list_link' \in [Slots -> Links]
    BY <1>0, <1>1, LinksTyped DEF TypeOK
  <2>2. /\ slot_state' \in [Slots -> {"Used", "UnusedCold", "UnusedWarm"}]
        /\ affinity' \in [Slots -> Memories \cup {None}]
        /\ bytes_resident' \in [Slots -> Nat] /\ unused_bytes_resident' \in Int
    BY <1>0, <1>1 DEF TypeOK
  <2>3. peak' \in 0 .. Capacity /\ unused_warm_slots' \in Nat
    BY <1>1, <1>5, IndexAllocatorAssumption DEF TypeOK, CountersExact
  <2>4. QED  BY <1>4, <2>1, <2>2, <2>3 DEF TypeOK
<1>9. PeakInv'
  BY <1>1, <1>5 DEF PeakInv, TypeOK
<1>10. FootprintBounded'
  <2>1. peak <= peak' /\ peak \in Nat /\ peak' \in Nat
    BY <1>1, <1>5, <1>8 DEF TypeOK
  <2>2. QED  BY <2>1, FootprintKept
<1>11. QED  BY <1>4, <1>6, <1>7, <1>8, <1>9, <1>10

LEMMA AllocAffineStep ==
  ASSUME IInv, NEW m \in Memories, NEW clear \in BOOLEAN, AllocAffine(m, clear),
         UNCHANGED max_unused_warm_slots
  PROVE  IInv'
<1>1. PICK s \in Slots : /\ s = PickAffine(m) /\ Remove(s)
                         /\ Occupy(s, IF clear THEN None ELSE m) /\ UNCHANGED last_cold
  BY DEF AllocAffine
<1>2. module_affine[m] # None /\ s = module_affine[m].tail
  BY <1>1, IndexAllocatorAssumption DEF PickAffine, Slots
<1>3. Threaded(module_affine[m], affine_list_link, AffineTo(m)) /\ AffineTo(m) \in SUBSET Slots
  BY <1>2 DEF IInv, AffineInv, Entry, AffineTo, WarmSlots
<1>4. s \in AffineTo(m) \cup {None}
  BY <1>2, <1>3, ThreadedEnds
<1>5. s \in WarmSlots
  BY <1>4, IndexAllocatorAssumption DEF AffineTo, Slots
<1>6. QED  BY <1>1, <1>5, WarmSlotTaken

LEMMA AllocWarmStep ==
  ASSUME IInv, NEW m \in Memories \cup {None}, AllocWarm(m), UNCHANGED max_unused_warm_slots
  PROVE  IInv'
<1>1. PICK s \in Slots : s = warm.head /\ Remove(s) /\ Occupy(s, m) /\ UNCHANGED last_cold
  BY DEF AllocWarm
<1>2. Threaded(warm, unused_list_link, WarmSlots) /\ WarmSlots \in SUBSET Slots
  BY DEF IInv, WarmInv, WarmSlots
<1>3. s \in WarmSlots \cup {None}
  BY <1>1, <1>2, ThreadedEnds
<1>4. s \in WarmSlots
  BY <1>3, IndexAllocatorAssumption DEF Slots
<1>5. QED  BY <1>1, <1>4, WarmSlotTaken

-----------------------------------------------------------------------------
(* Allocation of a cold slot, where the documented bound is at stake *)

LEMMA AllocColdStep ==
  ASSUME IInv, NEW m \in Memories \cup {None}, AllocCold(m), UNCHANGED max_unused_warm_slots
  PROVE  IInv'
<1> USE DEF IInv
<1> DEFINE s == last_cold
<1>1. /\ s < Capacity /\ last_cold' = s + 1
      /\ unused_warm_slots >= max_unused_warm_slots => warm.head = None
      /\ slot_state' = [slot_state EXCEPT ![s] = "Used"]
      /\ affinity' = [affinity EXCEPT ![s] = m]
      /\ peak' = IF Cardinality(UsedSlots) + 1 > peak THEN Cardinality(UsedSlots) + 1 ELSE peak
      /\ UNCHANGED <<payload, lists>>
  BY DEF AllocCold, Occupy
<1>2. s \in Slots /\ slot_state[s] = "UnusedCold" /\ s \in Nat
  BY <1>1, IndexAllocatorAssumption DEF TypeOK, CountersExact, Slots
<1>3. WarmSlots' = WarmSlots /\ UsedSlots' = UsedSlots \cup {s} /\ s \notin UsedSlots
  BY <1>1, <1>2 DEF TypeOK, WarmSlots, UsedSlots
<1>4. \A b \in Memories : AffineTo(b)' = AffineTo(b)
  BY <1>1, <1>2, <1>3 DEF TypeOK, AffineTo, WarmSlots
<1>5. WarmInv' /\ AffineInv'
  BY <1>1, <1>3, <1>4 DEF WarmInv, AffineInv, Entry, payload, lists
<1>6. /\ Cardinality(WarmSlots) \in Nat /\ Cardinality(UsedSlots) \in Nat
      /\ Cardinality(UsedSlots') = Cardinality(UsedSlots) + 1
      /\ Cardinality(UsedSlots') <= Capacity
  <2>1. /\ IsFiniteSet(UsedSlots)
        /\ Cardinality(WarmSlots) \in Nat /\ Cardinality(UsedSlots) \in Nat
    BY SlotsFinite DEF WarmSlots, UsedSlots
  <2>2. Cardinality(UsedSlots \cup {s}) = Cardinality(UsedSlots) + 1
    BY <2>1, <1>3, FS_AddElement
  <2>3. UsedSlots \cup {s} \in SUBSET Slots
    BY <1>2 DEF UsedSlots
  <2>4. Cardinality(UsedSlots \cup {s}) <= Capacity
    BY <2>3, SlotsFinite
  <2>5. QED  BY <2>1, <2>2, <2>4, <1>3
<1>7. CountersExact'
  BY <1>1, <1>2, <1>3 DEF CountersExact, TypeOK, Slots, lists
<1>8. TypeOK'
  <2>1. /\ slot_state' \in [Slots -> {"Used", "UnusedCold", "UnusedWarm"}]
        /\ affinity' \in [Slots -> Memories \cup {None}]
    BY <1>1, <1>2 DEF TypeOK
  <2>2. last_cold' \in 0 .. Capacity
    BY <1>1, <1>2, IndexAllocatorAssumption
  <2>3. peak' \in 0 .. Capacity
    <3>1. peak \in 0 .. Capacity
      BY DEF TypeOK
    <3>2. Cardinality(UsedSlots) + 1 \in 0 .. Capacity
      BY <1>6, IndexAllocatorAssumption
    <3>3. QED  BY <1>1, <3>1, <3>2
  <2>4. QED  BY <1>1, <2>1, <2>2, <2>3 DEF TypeOK, payload, lists
<1>9. PeakInv'
  BY <1>1, <1>6 DEF PeakInv, TypeOK
<1>10. FootprintBounded'
  <2>1. s = Cardinality(UsedSlots) + Cardinality(WarmSlots)
    BY Below
  <2>2. unused_warm_slots = Cardinality(WarmSlots) /\ max_unused_warm_slots \in Nat
    BY IndexAllocatorAssumption DEF CountersExact, TypeOK
  <2>3. Cardinality(UsedSlots) + 1 <= peak' /\ peak' \in Int
    BY <1>6, <1>8, <1>9 DEF PeakInv, TypeOK
  <2>4. warm.head = None => Cardinality(WarmSlots) = 0
    <3>1. warm.head = None <=> WarmSlots = {}
      <4>1. Threaded(warm, unused_list_link, WarmSlots) /\ WarmSlots \in SUBSET Slots
        BY DEF WarmInv, WarmSlots
      <4>2. QED  BY <4>1, ThreadedEnds
    <3>2. QED  BY <3>1, FS_EmptySet
  <2>5. CASE Cardinality(WarmSlots) = 0
    <3>1. s + 1 <= peak'
      BY <2>1, <2>3, <2>5, <1>6
    <3>2. QED  BY <1>1, <1>2, <2>2, <2>3, <3>1 DEF FootprintBounded
  <2>6. CASE Cardinality(WarmSlots) # 0
    <3>1. Cardinality(WarmSlots) < max_unused_warm_slots
      BY <1>1, <1>6, <2>2, <2>4, <2>6
    <3>2. s + 1 <= peak' + (max_unused_warm_slots - 1) /\ max_unused_warm_slots # 0
      BY <1>6, <2>1, <2>2, <2>3, <3>1
    <3>3. QED  BY <1>1, <3>2 DEF FootprintBounded
  <2>7. QED  BY <2>5, <2>6
<1>11. QED  BY <1>5, <1>7, <1>8, <1>9, <1>10

-----------------------------------------------------------------------------
(* free *)

LEMMA FreeAffine ==
  ASSUME TypeOK, AffineInv, NEW s \in Slots, NEW bytes \in Resident, Free(s, bytes),
         \A m \in Memories :
           AffineTo(m)' = IF m = affinity[s] THEN AffineTo(m) \cup {s} ELSE AffineTo(m)
  PROVE  /\ affine_list_link' \in [Slots -> Links]
         /\ module_affine' \in [Memories -> Lists \cup {None}]
         /\ AffineInv'
<1> DEFINE a == affinity[s]
<1>0. a \in Memories \cup {None} /\ affine_list_link \in [Slots -> Links]
      /\ module_affine \in [Memories -> Lists \cup {None}]
  BY DEF TypeOK
<1>1. \A m \in Memories : AffineTo(m) \in SUBSET Slots /\ s \notin AffineTo(m)
  BY DEF AffineTo, WarmSlots, Free
<1>2. CASE a = None
  <2>1. \A m \in Memories : AffineTo(m)' = AffineTo(m)
    BY <1>2, IndexAllocatorAssumption
  <2>2. UNCHANGED <<module_affine, affine_list_link>>
    BY <1>2 DEF Free
  <2>3. QED  BY <1>0, <2>1, <2>2 DEF AffineInv, Entry
<1>3. CASE a \in Memories
  <2> DEFINE L == AppendList(Entry(a), s)
             K == AppendLinks(Entry(a), affine_list_link, s)
  <2>1. Entry(a) \in Lists /\ Threaded(Entry(a), affine_list_link, AffineTo(a))
    BY <1>0, <1>3 DEF AffineInv, Entry, NoList, Lists, Options
  <2>2. L \in Lists /\ K \in [Slots -> Links]
    BY <1>0, <2>1, LinksTyped
  <2>3. Threaded(L, K, AffineTo(a) \cup {s})
    BY <1>0, <1>1, <1>3, <2>1, AppendThreaded
  <2>4. affine_list_link' = K /\ module_affine' = [module_affine EXCEPT ![a] = L]
    BY <1>3, IndexAllocatorAssumption DEF Free, Entry
  <2>5. Entry(a).tail \in AffineTo(a) \cup {None}
    BY <1>1, <1>3, <2>1, ThreadedEnds
  <2>6. ASSUME NEW t \in Slots \ {s}, t \notin AffineTo(a) PROVE K[t] = affine_list_link[t]
    <3>1. t # Entry(a).tail
      BY <2>5, <2>6, IndexAllocatorAssumption DEF Slots
    <3>2. QED  BY <3>1 DEF AppendLinks
  <2> HIDE DEF L, K
  <2>7. ASSUME NEW m \in Memories
        PROVE  /\ Threaded(Entry(m)', affine_list_link', AffineTo(m)')
               /\ module_affine'[m] # None => AffineTo(m)' # {}
    <3>1. CASE m = a
      <4>1. module_affine'[m] = L /\ AffineTo(m)' = AffineTo(a) \cup {s}
        BY <1>0, <2>4, <3>1
      <4>2. Entry(m)' = L
        BY <2>2, <4>1, IndexAllocatorAssumption DEF Entry
      <4>3. QED  BY <2>3, <2>4, <4>1, <4>2
    <3>2. CASE m # a
      <4>1. Entry(m)' = Entry(m) /\ module_affine'[m] = module_affine[m]
        BY <1>0, <2>4, <3>2 DEF Entry
      <4>2. AffineTo(m)' = AffineTo(m)
        BY <3>2
      <4>3. \A t \in AffineTo(m) : K[t] = affine_list_link[t]
        BY <1>1, <2>6, <3>2 DEF AffineTo
      <4>4. Threaded(Entry(m), affine_list_link, AffineTo(m))
        BY DEF AffineInv
      <4>5. Threaded(Entry(m), K, AffineTo(m))
        BY <1>1, <4>3, <4>4, OtherThreaded
      <4>6. module_affine[m] # None => AffineTo(m) # {}
        BY DEF AffineInv
      <4>7. QED  BY <2>4, <4>1, <4>2, <4>5, <4>6
    <3>3. QED  BY <3>1, <3>2
  <2>8. AffineInv'
    BY <2>7 DEF AffineInv
  <2>9. QED  BY <1>0, <2>2, <2>4, <2>8
<1>4. QED  BY <1>0, <1>2, <1>3

LEMMA FreeStep ==
  ASSUME IInv, NEW s \in Slots, NEW bytes \in Resident, Free(s, bytes),
         UNCHANGED max_unused_warm_slots
  PROVE  IInv'
<1> USE DEF IInv
<1>1. /\ slot_state[s] = "Used"
      /\ slot_state' = [slot_state EXCEPT ![s] = "UnusedWarm"]
      /\ unused_warm_slots' = unused_warm_slots + 1
      /\ warm' = AppendList(warm, s)
      /\ unused_list_link' = AppendLinks(warm, unused_list_link, s)
      /\ unused_bytes_resident' = unused_bytes_resident + bytes
      /\ bytes_resident' = [bytes_resident EXCEPT ![s] = bytes]
      /\ affinity' = affinity /\ last_cold' = last_cold /\ peak' = peak
  BY DEF Free
<1>2. /\ WarmSlots' = WarmSlots \cup {s} /\ s \notin WarmSlots
      /\ UsedSlots' = UsedSlots \ {s} /\ s \in UsedSlots
  BY <1>1 DEF TypeOK, WarmSlots, UsedSlots
<1>3. \A m \in Memories :
        AffineTo(m)' = IF m = affinity[s] THEN AffineTo(m) \cup {s} ELSE AffineTo(m)
  BY <1>1, <1>2 DEF TypeOK, AffineTo, WarmSlots
<1>4. /\ affine_list_link' \in [Slots -> Links]
      /\ module_affine' \in [Memories -> Lists \cup {None}]
      /\ AffineInv'
  BY <1>3, FreeAffine
<1>5. /\ Cardinality(WarmSlots) \in Nat /\ Cardinality(UsedSlots) \in Nat
      /\ Cardinality(WarmSlots') = Cardinality(WarmSlots) + 1
      /\ Cardinality(UsedSlots') = Cardinality(UsedSlots) - 1
  <2>1. /\ IsFiniteSet(WarmSlots) /\ IsFiniteSet(UsedSlots)
        /\ Cardinality(WarmSlots) \in Nat /\ Cardinality(UsedSlots) \in Nat
    BY SlotsFinite DEF WarmSlots, UsedSlots
  <2>2. Cardinality(WarmSlots \cup {s}) = Cardinality(WarmSlots) + 1
    BY <2>1, <1>2, FS_AddElement
  <2>3. Cardinality(UsedSlots \ {s}) = Cardinality(UsedSlots) - 1
    BY <2>1, <1>2, FS_RemoveElement
  <2>4. QED  BY <2>1, <2>2, <2>3, <1>2
<1>6. WarmInv'
  <2>1. unused_list_link \in [Slots -> Links] /\ WarmSlots \in SUBSET Slots
    BY DEF TypeOK, WarmSlots
  <2>2. Threaded(AppendList(warm, s), AppendLinks(warm, unused_list_link, s), WarmSlots \cup {s})
    BY <2>1, <1>2, AppendThreaded DEF WarmInv
  <2>3. QED  BY <1>1, <1>2, <2>2 DEF WarmInv
<1>7. CountersExact'
  BY <1>1, <1>5 DEF CountersExact, TypeOK, Slots
<1>8. TypeOK'
  <2>1. warm' \in Lists /\ unused_list_link' \in [Slots -> Links]
    BY <1>1, LinksTyped DEF TypeOK
  <2>2. /\ slot_state' \in [Slots -> {"Used", "UnusedCold", "UnusedWarm"}]
        /\ bytes_resident' \in [Slots -> Nat] /\ unused_bytes_resident' \in Int
        /\ unused_warm_slots' \in Nat
    BY <1>1, IndexAllocatorAssumption DEF TypeOK
  <2>3. QED  BY <1>1, <1>4, <2>1, <2>2 DEF TypeOK
<1>9. PeakInv'
  BY <1>1, <1>5 DEF PeakInv, TypeOK
<1>10. FootprintBounded'
  BY <1>1, FootprintKept DEF TypeOK
<1>11. QED  BY <1>4, <1>6, <1>7, <1>8, <1>9, <1>10

-----------------------------------------------------------------------------

LEMMA InitIInv == Init => IInv
<1> SUFFICES ASSUME Init PROVE IInv
  OBVIOUS
<1>1. WarmSlots = {} /\ UsedSlots = {} /\ \A m \in Memories : AffineTo(m) = {}
  BY DEF Init, WarmSlots, UsedSlots, AffineTo
<1>2. TypeOK
  <2>1. NoLink \in Links /\ NoList \in Lists
    BY DEF NoLink, NoList, Links, Lists, Options
  <2>2. QED  BY <2>1, IndexAllocatorAssumption DEF Init, TypeOK
<1>3. CountersExact
  BY <1>1, FS_EmptySet DEF Init, CountersExact, Slots
<1>4. WarmInv
  BY <1>1, EmptyThreaded DEF Init, WarmInv
<1>5. AffineInv
  <2>1. \A m \in Memories : module_affine[m] = None
    BY DEF Init
  <2>2. QED  BY <1>1, <2>1, EmptyThreaded DEF AffineInv, Entry
<1>6. PeakInv
  BY <1>1, FS_EmptySet DEF Init, PeakInv
<1>7. FootprintBounded
  BY IndexAllocatorAssumption DEF Init, FootprintBounded
<1>8. QED  BY <1>2, <1>3, <1>4, <1>5, <1>6, <1>7 DEF IInv

LEMMA NextIInv == IInv /\ [Next]_vars => IInv'
<1> SUFFICES ASSUME IInv, [Next]_vars PROVE IInv'
  OBVIOUS
<1>1. CASE Next
  <2>1. ASSUME NEW m \in Memories, NEW clear \in BOOLEAN, AllocAffine(m, clear) PROVE IInv'
    BY <1>1, <2>1, AllocAffineStep DEF Next
  <2>2. ASSUME NEW m \in Memories \cup {None}, AllocWarm(m) PROVE IInv'
    BY <1>1, <2>2, AllocWarmStep DEF Next
  <2>3. ASSUME NEW m \in Memories \cup {None}, AllocCold(m) PROVE IInv'
    BY <1>1, <2>3, AllocColdStep DEF Next
  <2>4. ASSUME NEW s \in Slots, NEW bytes \in Resident, Free(s, bytes) PROVE IInv'
    BY <1>1, <2>4, FreeStep DEF Next
  <2>5. QED  BY <1>1, <2>1, <2>2, <2>3, <2>4 DEF Next
<1>2. CASE UNCHANGED vars
  <2> USE DEF vars, payload, lists
  <2>1. WarmSlots' = WarmSlots /\ UsedSlots' = UsedSlots
    BY <1>2 DEF WarmSlots, UsedSlots
  <2>2. \A m \in Memories : AffineTo(m)' = AffineTo(m) /\ Entry(m)' = Entry(m)
    BY <1>2, <2>1 DEF AffineTo, Entry
  <2>3. TypeOK'  BY <1>2 DEF TypeOK, IInv
  <2>4. CountersExact'  BY <1>2, <2>1 DEF CountersExact, IInv
  <2>5. WarmInv'  BY <1>2, <2>1 DEF WarmInv, IInv
  <2>6. AffineInv'  BY <1>2, <2>2 DEF AffineInv, IInv
  <2>7. PeakInv' /\ FootprintBounded'  BY <1>2, <2>1 DEF PeakInv, FootprintBounded, IInv
  <2>8. QED  BY <2>3, <2>4, <2>5, <2>6, <2>7 DEF IInv
<1>3. QED  BY <1>1, <1>2

LEMMA InductiveInvariant == Spec => []IInv
  BY InitIInv, NextIInv, PTL DEF Spec

\* Whatever is allocated, purged and freed in whichever order, the warm list and the
\* lists of the memories visit exactly their slots, from either end and in the middle,
\* and the counters agree with them.
THEOREM ListsStayExact == Spec => []ListsExact
  BY IInvExact, InductiveInvariant, PTL

\* The bound on the footprint in the documentation of max_unused_warm_slots holds for
\* any number of slots and any limit.
THEOREM FootprintHolds == Spec => []FootprintBounded
<1>1. IInv => FootprintBounded
  BY DEF IInv
<1>2. QED  BY <1>1, InductiveInvariant, PTL

=============================================================================
