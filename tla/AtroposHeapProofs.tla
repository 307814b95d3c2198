------------------------- MODULE AtroposHeapProofs -------------------------
(***************************************************************************)
(* The scheduler with the array heaps of h/pqueues.h implements Atropos,   *)
(* for any number of domains, any contracts and any clock.                 *)
(***************************************************************************)
EXTENDS AtroposHeap, PQueueProofs

Queues == {"run", "wait", "blocked"}
Slot   == Dom \cup {NoDom}
Size   == Cardinality(Dom)

-----------------------------------------------------------------------------
(* The three queues share the index fields.                                *)

\* Three heaps ordered by val, no two with a domain in common.
Fields == Queues \cup {"ix"}
IsRecord(p) == p = [x \in Fields |-> p[x]]
Heaps(p, val) ==
    /\ IsRecord(p)
    /\ \A k \in Queues : IsHeap(Heap(p, k), val, Dom, Slot, Size)
    /\ \A j, k \in Queues : j # k => Members(p[j]) \cap Members(p[k]) = {}

LEMMA PutIs ==
    ASSUME NEW p, IsRecord(p), NEW k \in Queues, NEW h
    PROVE  /\ Put(p, k, h)[k] = [n |-> h.n, q |-> h.q]
           /\ Put(p, k, h).ix = h.ix
           /\ \A j \in Queues : j # k => Put(p, k, h)[j] = p[j]
           /\ IsRecord(Put(p, k, h))
<1> DEFINE v == [n |-> h.n, q |-> h.q]
           w == h.ix
           a == [p EXCEPT ![k] = v]
           r == Put(p, k, h)
<1>1. r = [a EXCEPT !["ix"] = w]
  BY DEF Put
<1> HIDE DEF v, w, r
<1>2. DOMAIN p = Fields /\ k # "ix" /\ k \in Fields /\ "ix" \in Fields
  BY DEF Queues, Fields, IsRecord
<1>3. a = [x \in Fields |-> IF x = k THEN v ELSE p[x]]
  BY <1>2 DEF IsRecord
<1> HIDE DEF a
<1>4. r = [x \in Fields |-> IF x = "ix" THEN w ELSE a[x]]
  BY <1>1, <1>2, <1>3
<1>5. r[k] = v /\ r.ix = w /\ \A j \in Queues : j # k => r[j] = p[j]
  BY <1>2, <1>3, <1>4 DEF Queues, Fields
<1>6. r = [x \in Fields |-> r[x]]
  BY <1>4
<1> QED BY <1>5, <1>6 DEF r, v, w, IsRecord

\* The elements are those of the slots in use.
LEMMA HeapFacts ==
    ASSUME NEW p, NEW val, Heaps(p, val), NEW k \in Queues
    PROVE  /\ p[k].n \in 0 .. Size /\ Members(Heap(p, k)) = Members(p[k])
           /\ Members(p[k]) \subseteq Dom
           /\ Heap(p, k).n = p[k].n /\ Heap(p, k).q = p[k].q
           /\ Heap(p, k).ix = p.ix
           /\ \A i \in 1 .. p[k].n : /\ p[k].q[i] \in Dom /\ p.ix[p[k].q[i]] = i
                                     /\ p[k].q[i] \in Members(p[k])
           /\ \A d \in Members(p[k]) : p.ix[d] \in 1 .. p[k].n /\ p[k].q[p.ix[d]] = d
<1>1. IsHeap(Heap(p, k), val, Dom, Slot, Size)
  BY DEF Heaps
<1>2. Heap(p, k).n = p[k].n /\ Heap(p, k).q = p[k].q /\ Heap(p, k).ix = p.ix
  BY DEF Heap
<1> QED BY <1>1, <1>2 DEF IsHeap, QueueType, Indexed, Members

\* When a heap is put in its place the others are as they were, provided that
\* what it does not hold keeps its index.
LEMMA PutKeeps ==
    ASSUME NEW p, NEW val, Heaps(p, val), NEW k \in Queues,
           NEW h, IsHeap(h, val, Dom, Slot, Size),
           \A j \in Queues \ {k} :
              /\ Members(h) \cap Members(p[j]) = {}
              /\ \A x \in Members(p[j]) : h.ix[x] = p.ix[x]
    PROVE  Heaps(Put(p, k, h), val)
<1> DEFINE r == Put(p, k, h)
<1>1. /\ r[k] = [n |-> h.n, q |-> h.q] /\ r.ix = h.ix
      /\ IsRecord(r)
      /\ \A j \in Queues : j # k => r[j] = p[j]
  BY PutIs DEF Heaps
<1> HIDE DEF r
<1>2. Heap(r, k) = h
  <2>1. h = [n |-> h.n, q |-> h.q, ix |-> h.ix]
    BY DEF IsHeap, QueueType
  <2>2. Heap(r, k) = [n |-> h.n, q |-> h.q, ix |-> h.ix]
    BY <1>1 DEF Heap
  <2> QED BY <2>1, <2>2
<1>3. Members(r[k]) = Members(h)
  BY <1>1 DEF Members
<1>4. ASSUME NEW j \in Queues, j # k
      PROVE  IsHeap(Heap(r, j), val, Dom, Slot, Size)
  <2> DEFINE g  == Heap(p, j)
             g2 == Heap(r, j)
  <2>1. /\ g2.n = g.n /\ g2.q = g.q /\ g2.ix = h.ix /\ g.n = p[j].n
        /\ g.q = p[j].q /\ g.ix = p.ix
        /\ g2 = [n |-> g2.n, q |-> g2.q, ix |-> g2.ix]
    BY <1>1, <1>4 DEF Heap
  <2>2. IsHeap(g, val, Dom, Slot, Size) /\ h.ix \in [Dom -> Nat]
    BY DEF Heaps, IsHeap, QueueType
  <2>3. \A i \in 1 .. g.n : h.ix[g.q[i]] = g.ix[g.q[i]]
    BY <1>4, <2>1 DEF Members
  <2> HIDE DEF g, g2
  <2>4. QueueType(g2, Dom, Slot, Size)
    BY <2>1, <2>2 DEF IsHeap, QueueType
  <2>5. IsHeap(g2, val, Dom, Slot, Size)
    BY <2>1, <2>2, <2>3, <2>4 DEF IsHeap, Indexed, Ordered
  <2> QED BY <2>5 DEF g2
<1>5. \A i, j \in Queues : i # j => Members(r[i]) \cap Members(r[j]) = {}
  BY <1>1, <1>3 DEF Heaps
<1> QED BY <1>1, <1>2, <1>4, <1>5 DEF Heaps, r

-----------------------------------------------------------------------------
(* Taking a domain off a queue.                                            *)

\* What is in slot i of queue k of p is not in p2.
Left(p, p2, k, i, val) ==
    /\ Heaps(p2, val)
    /\ Members(p2[k]) = Members(p[k]) \ {p[k].q[i]}
    /\ i # 1 => p2[k].q[1] = p[k].q[1]
    /\ \A j \in Queues : j # k => p2[j] = p[j]

LEMMA Taken ==
    ASSUME NEW p, NEW val \in [Dom -> Int], Heaps(p, val), NEW k \in Queues,
           NEW i \in 1 .. p[k].n, NEW h,
           Without(Heap(p, k), i, h, val, Dom, Slot, Size)
    PROVE  Left(p, Put(p, k, h), k, i, val)
<1> DEFINE r == Put(p, k, h)
<1>1. /\ Heap(p, k).q = p[k].q /\ Heap(p, k).ix = p.ix
      /\ Members(Heap(p, k)) = Members(p[k])
      /\ \A j \in Queues : Members(p[j]) \subseteq Dom
  BY HeapFacts
<1>2. /\ IsHeap(h, val, Dom, Slot, Size)
      /\ Members(h) = Members(p[k]) \ {p[k].q[i]}
      /\ \A x \in Dom \ Members(p[k]) : h.ix[x] = p.ix[x]
      /\ i # 1 => h.q[1] = p[k].q[1]
  BY <1>1 DEF Without
<1>3. \A j \in Queues \ {k} : Members(p[j]) \cap Members(p[k]) = {}
  BY DEF Heaps
<1>4. Heaps(r, val)
  BY <1>1, <1>2, <1>3, PutKeeps
<1>5. /\ r[k] = [n |-> h.n, q |-> h.q]
      /\ \A j \in Queues : j # k => r[j] = p[j]
  BY PutIs DEF Heaps
<1> HIDE DEF r
<1>6. Members(r[k]) = Members(h)
  BY <1>5 DEF Members
<1> QED BY <1>2, <1>4, <1>5, <1>6 DEF Left, r

\* How many domains a queue can hold that does not hold d.
LEMMA RoomFor ==
    ASSUME NEW p, NEW val, Heaps(p, val), NEW k \in Queues,
           NEW d \in Dom, d \notin Members(p[k])
    PROVE  p[k].n < Size
<1>1. /\ p[k].n \in 0 .. Size /\ Size \in Nat
      /\ \A i \in 1 .. p[k].n : /\ p[k].q[i] \in Dom /\ p.ix[p[k].q[i]] = i
                                /\ p[k].q[i] \in Members(p[k])
  BY HeapFacts, SizeAssumption, FS_CardinalityType DEF Size
<1>2. SUFFICES ASSUME p[k].n = Size PROVE FALSE
  BY <1>1
<1> DEFINE S == 1 .. p[k].n
           T == Dom \ {d}
           f == [i \in S |-> p[k].q[i]]
<1>3. IsFiniteSet(T) /\ Cardinality(T) = Size - 1
  BY FS_RemoveElement, SizeAssumption DEF Size
<1>4. IsFiniteSet(S) /\ Cardinality(S) = Size
  <2>1. 1 \in Int /\ Size \in Int /\ Size > 0
    BY <1>1, <1>3, FS_CardinalityType
  <2>2. IsFiniteSet(1 .. Size)
        /\ Cardinality(1 .. Size) = IF 1 > Size THEN 0 ELSE Size - 1 + 1
    BY <2>1, FS_Interval
  <2> QED BY <1>2, <2>1, <2>2
<1>5. f \in [S -> T]
  BY <1>1
<1>6. Cardinality(T) < Cardinality(S)
  BY <1>1, <1>3, <1>4
<1> HIDE DEF S, T, f
<1>7. PICK x, y \in S : x # y /\ f[x] = f[y]
  BY <1>3, <1>4, <1>5, <1>6, FS_PigeonHole
<1>8. p[k].q[x] = p[k].q[y]
  BY <1>7 DEF f
<1> QED BY <1>1, <1>7, <1>8 DEF S

\* d is not on the queues p, and nobody else has left them.
Off(p, d) ==
    /\ Heaps(p, Deadlines(sd))
    /\ \A k \in Queues : Members(p[k]) = Members(pq[k]) \ {d}

LEMMA DeadlinesType ==
    ASSUME sd \in [Dom -> A!SDom]
    PROVE  /\ Deadlines(sd) \in [Dom -> Int]
           /\ \A d \in Dom : Deadlines(sd)[d] = sd[d].deadline
                            /\ sd[d].deadline \in Int
  BY DEF Deadlines, A!SDom

LEMMA LeftIsOff ==
    ASSUME Heaps(pq, Deadlines(sd)), NEW k \in Queues, NEW i \in 1 .. pq[k].n,
           NEW p, Left(pq, p, k, i, Deadlines(sd))
    PROVE  Off(p, pq[k].q[i])
<1>1. pq[k].q[i] \in Members(pq[k])
  BY HeapFacts
<1>2. \A j \in Queues : j # k => Members(pq[j]) \cap Members(pq[k]) = {}
  BY DEF Heaps
<1> QED BY <1>1, <1>2 DEF Left, Off

LEMMA HeadTaken ==
    ASSUME Heaps(pq, Deadlines(sd)), sd \in [Dom -> A!SDom],
           NEW k \in Queues, pq[k].n > 0
    PROVE  /\ Off(RemoveHead(pq, k), pq[k].q[1])
           /\ 1 \in 1 .. pq[k].n /\ pq[k].q[1] \in Dom
<1> DEFINE h == PQRemove(Heap(pq, k), Deadlines(sd))
<1>1. /\ pq[k].n \in 0 .. Size /\ Heap(pq, k).n = pq[k].n
      /\ IsHeap(Heap(pq, k), Deadlines(sd), Dom, Slot, Size)
      /\ Deadlines(sd) \in [Dom -> Int] /\ Size \in Nat
      /\ \A i \in 1 .. pq[k].n : pq[k].q[i] \in Dom
  BY HeapFacts, DeadlinesType, SizeAssumption, FS_CardinalityType DEF Heaps, Size
<1>2. Without(Heap(pq, k), 1, h, Deadlines(sd), Dom, Slot, Size)
  BY <1>1, PQRemoveIs
<1>3. 1 \in 1 .. pq[k].n
  BY <1>1
<1> HIDE DEF h
<1>4. Left(pq, Put(pq, k, h), k, 1, Deadlines(sd))
  BY <1>1, <1>2, <1>3, Taken
<1> QED BY <1>1, <1>3, <1>4, LeftIsOff DEF RemoveHead, h

LEMMA SlotTaken ==
    ASSUME Heaps(pq, Deadlines(sd)), sd \in [Dom -> A!SDom],
           NEW k \in Queues, NEW i \in 1 .. pq[k].n
    PROVE  /\ Off(DeleteAt(pq, k, i), pq[k].q[i])
           /\ i # 1 => DeleteAt(pq, k, i)[k].q[1] = pq[k].q[1]
           /\ \A j \in Queues : j # k => DeleteAt(pq, k, i)[j] = pq[j]
<1> DEFINE h == PQDel(Heap(pq, k), i, Deadlines(sd))
<1>1. /\ Heap(pq, k).n = pq[k].n
      /\ IsHeap(Heap(pq, k), Deadlines(sd), Dom, Slot, Size)
      /\ Deadlines(sd) \in [Dom -> Int] /\ Size \in Nat
  BY HeapFacts, DeadlinesType, SizeAssumption, FS_CardinalityType DEF Heaps, Size
<1>2. i \in 1 .. Heap(pq, k).n
  BY <1>1
<1>3. Without(Heap(pq, k), i, h, Deadlines(sd), Dom, Slot, Size)
  BY <1>1, <1>2, PQDelIs
<1> HIDE DEF h
<1>4. Left(pq, Put(pq, k, h), k, i, Deadlines(sd))
  BY <1>1, <1>3, Taken
<1>5. Put(pq, k, h) = DeleteAt(pq, k, i)
  BY DEF DeleteAt, h
<1>6. Left(pq, DeleteAt(pq, k, i), k, i, Deadlines(sd))
  BY <1>4, <1>5
<1> QED BY <1>6, LeftIsOff DEF Left

-----------------------------------------------------------------------------
(* Putting a domain on a queue.                                            *)

\* What becomes of the queues when d, taken off them, goes to the one for s.
Moved(d, s, p) ==
    /\ Heaps(pq', Deadlines(sd'))
    /\ \A k \in Queues : Members(pq'[k]) = IF k = QueueOf(s)
                                          THEN Members(pq[k]) \cup {d}
                                          ELSE Members(pq[k]) \ {d}
    /\ LET k == QueueOf(s)
       IN  p[k].n > 0 /\ sd[p[k].q[1]].deadline <= s.deadline
              => pq'[k].q[1] = p[k].q[1]
    /\ \A j \in Queues : j # QueueOf(s) => pq'[j] = p[j]

LEMMA MoveIs ==
    ASSUME sd \in [Dom -> A!SDom], NEW d \in Dom, NEW p, Off(p, d),
           NEW s, s.deadline \in Int, NEW st, Move(d, s, st, p)
    PROVE  Moved(d, s, p)
<1> DEFINE k == QueueOf(s)
           v == [Deadlines(sd) EXCEPT ![d] = s.deadline]
           h == PQInsert(Heap(p, k), d, v)
<1>1. k \in Queues
  BY DEF QueueOf, Queues
<1>2. Deadlines(sd') = v /\ v \in [Dom -> Int]
      /\ \A e \in Dom : e # d => v[e] = sd[e].deadline
  BY DeadlinesType DEF Move, Deadlines
<1>3. pq' = Put(p, k, h)
  BY DEF Move, InsertIn
<1>v. v[d] = s.deadline
  BY DeadlinesType
<1> HIDE DEF k, v
<1>4. /\ \A j \in Queues : Members(p[j]) = Members(pq[j]) \ {d}
      /\ Heaps(p, Deadlines(sd))
  BY DEF Off
<1>5. \A j \in Queues : /\ Members(Heap(p, j)) = Members(p[j])
                        /\ Members(p[j]) \subseteq Dom
                        /\ Heap(p, j).n = p[j].n /\ Heap(p, j).q = p[j].q
                        /\ Heap(p, j).ix = p.ix
                        /\ \A i \in 1 .. p[j].n : p[j].q[i] \in Members(p[j])
  BY <1>4, HeapFacts
<1>6. Heaps(p, v)
  <2>1. ASSUME NEW j \in Queues
        PROVE  IsHeap(Heap(p, j), v, Dom, Slot, Size)
    <3>1. \A e \in Members(Heap(p, j)) : v[e] = Deadlines(sd)[e]
      BY <1>2, <1>4, <1>5, DeadlinesType
    <3>2. IsHeap(Heap(p, j), Deadlines(sd), Dom, Slot, Size)
      BY <1>4 DEF Heaps
    <3> QED BY <3>1, <3>2, IsHeapFor
  <2> QED BY <1>4, <2>1 DEF Heaps
<1>7. p[k].n < Size /\ Size \in Nat
  BY <1>1, <1>4, RoomFor, SizeAssumption, FS_CardinalityType DEF Size
<1>8. With(Heap(p, k), d, h, v, Dom, Slot, Size)
  <2>1. IsHeap(Heap(p, k), v, Dom, Slot, Size)
    BY <1>1, <1>6 DEF Heaps
  <2>2. Dom \in SUBSET Slot
    BY DEF Slot
  <2>3. d \notin Members(Heap(p, k)) /\ Heap(p, k).n < Size
    BY <1>1, <1>4, <1>5, <1>7
  <2> QED BY <1>2, <1>7, <2>1, <2>2, <2>3, PQInsertIs
<1> HIDE DEF h
<1>9. /\ IsHeap(h, v, Dom, Slot, Size) /\ Members(h) = Members(p[k]) \cup {d}
      /\ \A x \in Dom \ Members(h) : h.ix[x] = p.ix[x]
      /\ p[k].n > 0 /\ v[p[k].q[1]] <= v[d] => h.q[1] = p[k].q[1]
  BY <1>1, <1>5, <1>8 DEF With
<1>10. \A j \in Queues \ {k} : /\ Members(h) \cap Members(p[j]) = {}
                               /\ \A x \in Members(p[j]) : h.ix[x] = p.ix[x]
  <2>1. \A j \in Queues \ {k} : Members(p[j]) \cap Members(p[k]) = {}
    BY <1>1, <1>4 DEF Heaps
  <2> QED BY <1>4, <1>5, <1>9, <2>1
<1>11. Heaps(pq', v)
  BY <1>1, <1>3, <1>6, <1>9, <1>10, PutKeeps
<1>12. /\ pq'[k] = [n |-> h.n, q |-> h.q]
       /\ \A j \in Queues : j # k => pq'[j] = p[j]
  <2>1. /\ Put(p, k, h)[k] = [n |-> h.n, q |-> h.q]
        /\ \A j \in Queues : j # k => Put(p, k, h)[j] = p[j]
    <3>1. IsRecord(p)
      BY <1>4 DEF Heaps
    <3> QED BY <1>1, <3>1, PutIs
  <2> QED BY <1>3, <2>1
<1>13. Members(pq'[k]) = Members(h)
  BY <1>12 DEF Members
<1>14. p[k].n > 0 /\ sd[p[k].q[1]].deadline <= s.deadline => pq'[k].q[1] = p[k].q[1]
  <2>1. SUFFICES ASSUME p[k].n > 0, sd[p[k].q[1]].deadline <= s.deadline
                 PROVE  pq'[k].q[1] = p[k].q[1]
    OBVIOUS
  <2>2. p[k].q[1] \in Members(p[k])
    <3>1. p[k].n \in 0 .. Size
      BY <1>1, <1>6, HeapFacts
    <3>2. 1 \in 1 .. p[k].n
      BY <2>1, <3>1
    <3> QED BY <1>1, <1>5, <3>2
  <2>3. v[p[k].q[1]] = sd[p[k].q[1]].deadline /\ v[d] = s.deadline
    BY <1>1, <1>2, <1>v, <1>4, <1>5, <2>2
  <2> QED BY <1>9, <1>12, <2>1, <2>3
<1>15. \A j \in Queues : Members(pq'[j]) = IF j = k THEN Members(pq[j]) \cup {d}
                                          ELSE Members(pq[j]) \ {d}
  BY <1>1, <1>4, <1>9, <1>12, <1>13
<1> QED BY <1>2, <1>11, <1>12, <1>14, <1>15 DEF Moved, k

-----------------------------------------------------------------------------
(* What the updates of an sdom preserve.                                   *)

LEMMA NewSDomType == \A q \in A!Contract : A!NewSDom(q) \in A!SDom
  BY DEF A!NewSDom, A!Contract, A!SDom, A!States

LEMMA UnsetType == A!Unset \in A!Contract
  BY DEF A!Unset, A!Contract

LEMMA SDomUpdate ==
    ASSUME NEW s \in A!SDom, NEW r \in Int, NEW dl \in Int, NEW st \in A!States
    PROVE  [s EXCEPT !.remain = r, !.deadline = dl, !.state = st] \in A!SDom
  BY DEF A!SDom

LEMMA NewPeriodType == ASSUME NEW s \in A!SDom PROVE A!NewPeriod(s) \in A!SDom
<1> DEFINE r  == IF s.remain > 0 THEN s.slice ELSE s.remain + s.slice
           dl == s.deadline + s.period
           st == IF r > 0 THEN "run" ELSE "wait"
<1>1. r \in Int /\ dl \in Int /\ st \in A!States
  BY DEF A!SDom, A!States
<1>2. A!NewPeriod(s) = [s EXCEPT !.remain = r, !.deadline = dl, !.state = st]
  BY DEF A!NewPeriod
<1> HIDE DEF r, dl, st
<1>3. [s EXCEPT !.remain = r, !.deadline = dl, !.state = st] \in A!SDom
  BY ONLY <1>1, SDomUpdate, s \in A!SDom
<1> QED BY <1>2, <1>3

LEMMA BlockSDomType == ASSUME NEW s \in A!SDom PROVE A!BlockSDom(s) \in A!SDom
<1>1. s.timeout \in Int /\ s.deadline \in Int /\ "block" \in A!States
  BY DEF A!SDom, A!States
<1> QED BY <1>1 DEF A!BlockSDom, A!SDom

LEMMA UnblockSDomType == ASSUME NEW s \in A!SDom PROVE A!UnblockSDom(s) \in A!SDom
<1>1. CASE A!LongBlock(s)
  <2> DEFINE st == IF s.slice > 0 THEN "run" ELSE "wait"
  <2>1. s.latency \in Int /\ s.slice \in Int /\ st \in A!States
    BY DEF A!SDom, A!States
  <2>2. A!UnblockSDom(s) = [s EXCEPT !.remain = s.slice, !.deadline = s.latency,
                                   !.state = st]
    BY <1>1 DEF A!UnblockSDom
  <2> HIDE DEF st
  <2>3. [s EXCEPT !.remain = s.slice, !.deadline = s.latency, !.state = st]
         \in A!SDom
    BY ONLY <2>1, SDomUpdate, s \in A!SDom
  <2> QED BY <2>2, <2>3
<1>2. CASE ~A!LongBlock(s)
  <2> DEFINE st == IF s.remain > 0 THEN "unblocked" ELSE "wait"
  <2>1. s.timeout \in Int /\ st \in A!States
    BY DEF A!SDom, A!States
  <2>2. A!UnblockSDom(s) = [s EXCEPT !.deadline = s.timeout, !.state = st]
    BY <1>2 DEF A!UnblockSDom
  <2> HIDE DEF st
  <2> QED BY <2>1, <2>2 DEF A!SDom
<1> QED BY <1>1, <1>2

LEMMA ChargeType ==
    ASSUME ran \in Nat, NEW s \in A!SDom PROVE A!Charge(s) \in A!SDom
<1>1. s.remain - ran \in Int
  BY DEF A!SDom
<1>2. [s EXCEPT !.remain = s.remain - ran] \in A!SDom
  BY <1>1 DEF A!SDom
<1> QED BY <1>2 DEF A!Charge

LEMMA ElapseType == \A t \in Int : A!Elapse(t) \in Int
  BY TimeAssumption DEF A!Elapse

\* The passage of time does not reorder deadlines.
LEMMA ElapseMonotone ==
    \A t, u \in Int : t <= u => A!Elapse(t) <= A!Elapse(u)
<1> SUFFICES ASSUME NEW t \in Int, NEW u \in Int, t <= u
             PROVE  A!Elapse(t) <= A!Elapse(u)
  OBVIOUS
<1>1. TickLen \in Int /\ Late \in Int /\ Forever \in Nat /\ TickLen > 0
      /\ Late >= 0
  BY TimeAssumption
<1> QED BY <1>1 DEF A!Elapse

-----------------------------------------------------------------------------
(* The inductive invariant.                                                *)

Typed ==
    /\ pc \in A!Phases /\ cur \in Dom \cup {NoDom} /\ ran \in Nat
    /\ next_optm \in Nat /\ domq \in Seq(Dom)
    /\ schst \in [Dom -> A!SchSts] /\ sd \in [Dom -> A!SDom]
    /\ outevs \in [Dom -> Seq(Dom)]
    /\ setqos \in [by : Dom \cup {NoDom}, dom : Dom, qos : A!Contract,
                   left : 0..3]

\* Some domain is current exactly when code of one may be running.
Phased == /\ cur # NoDom => pc \in A!Outside \cup {"deschedule"}
          /\ pc = "deschedule" => cur # NoDom

Asleep(d) == schst[d] \in {"BLCKD", "WAKING"}

\* d is on the queue its sdom's state names, if the scheduler knows it.
Placed(d) ==
    /\ \A k \in Queues : d \in Members(pq[k]) <=> A!Known(d) /\ QueueOf(sd[d]) = k
    /\ A!Known(d) => (sd[d].state = "block" <=> Asleep(d))

\* d is not asleep, and dequeue would find it: in the first slot of run, or in
\* the one that next_optm points to.
Found(d) ==
    /\ A!Known(d) /\ sd[d].state # "block"
    /\ sd[d].state = "run" => pq.run.n > 0 /\ pq.run.q[1] = d
    /\ sd[d].state = "wait" => /\ next_optm \in 1 .. pq.wait.n
                              /\ pq.wait.q[next_optm] = d

\* As in AtroposProofs: a domain that is taken out of the wait queue while the
\* system domain runs moves others in it, so that must not run from there.
CursorSafe == Removable = {} \/ \A q \in QoS[Nemesis] : ~q.x
CursorInv ==
    Removable # {} =>
        /\ ~sd[Nemesis].xtratime
        /\ setqos.dom = Nemesis => ~setqos.qos.x
        /\ A!Running(Nemesis) => sd[Nemesis].state # "wait"

HInv == /\ Typed /\ Phased /\ Heaps(pq, Deadlines(sd))
        /\ \A d \in Dom : Placed(d) /\ (A!Running(d) => Found(d))
        /\ CursorInv

LEMMA NextPhased == Phased /\ [Next]_vars => Phased'
<1> SUFFICES ASSUME Phased, [Next]_vars PROVE Phased'
  OBVIOUS
<1>1. CASE A!Tick
  BY <1>1 DEF A!Tick, A!Reenter, Phased
<1>2. ASSUME NEW d \in Dom, NEW put \in BOOLEAN,
             A!Interrupt(d, put) \/ A!SyscallSend(d, put) \/ A!Deliver(put)
      PROVE  Phased'
  BY <1>2 DEF A!Interrupt, A!Reenter, A!SyscallSend, A!Deliver, A!Executing, Phased
<1>3. ASSUME NEW d \in Dom, NEW q \in QoS[d],
             A!PushEvent(d) \/ A!SetQoS(d, q) \/ AddContracted(d, q)
      PROVE  Phased'
  BY <1>3 DEF A!PushEvent, A!SetQoS, AddContracted, A!Executing, Phased
<1>4. CASE \/ A!TakeEvents \/ A!Yield \/ A!SetQoSStore \/ A!DrainDone
           \/ UNCHANGED vars \/ \E t \in Timeouts : A!Block(t)
           \/ \E d \in Dom : A!PushEvent(d)
           \/ \E put \in BOOLEAN : A!Deliver(put)
  BY <1>4 DEF A!TakeEvents, A!Yield, A!SetQoSStore, A!DrainDone, A!Block, A!PushEvent,
     A!Deliver, A!Executing, A!Outside, vars, common, Phased
<1>5. ASSUME NEW d \in Dom, NEW final \in {"STOPPED", "DYING"},
             StopDomain(d, final)
      PROVE  Phased'
  BY <1>5 DEF StopDomain, Phased
<1>6. CASE Pass
  <2>1. CASE Pick
    BY <2>1 DEF Pick, Phased, A!Outside
  <2>2. CASE Deschedule
    BY <2>2 DEF Deschedule, Phased
  <2>3. CASE Allocate \/ AllocDone \/ Drain \/ Expire \/ ExpireDone
    BY <2>3 DEF Allocate, AllocDone, Drain, Expire, ExpireDone, Phased, A!Outside
  <2> QED BY <1>6, <2>1, <2>2, <2>3 DEF Pass
<1> QED BY <1>1, <1>2, <1>3, <1>4, <1>5, <1>6 DEF Next, Elsewhere, Manager

\* A step that moves no domain from queue to queue, nor from asleep to awake,
\* and keeps the order of deadlines.
Calm ==
    /\ Typed' /\ UNCHANGED heaps
    /\ \A d \in Dom : /\ A!Running(d)' => A!Running(d)
                      /\ sd'[d].state = sd[d].state
                      /\ A!Known(d)' <=> A!Known(d)
                      /\ Asleep(d)' <=> Asleep(d)
    /\ \A d, e \in Dom : sd[d].deadline <= sd[e].deadline =>
                             sd'[d].deadline <= sd'[e].deadline

LEMMA CalmKeeps ==
    ASSUME HInv, Calm
    PROVE  /\ Heaps(pq, Deadlines(sd))'
           /\ \A d \in Dom : Placed(d)' /\ (A!Running(d)' => Found(d)')
<1>1. /\ sd \in [Dom -> A!SDom] /\ sd' \in [Dom -> A!SDom]
      /\ pq' = pq /\ next_optm' = next_optm
  BY DEF HInv, Typed, Calm, heaps
<1>2. ASSUME NEW k \in Queues
      PROVE  IsHeap(Heap(pq, k), Deadlines(sd'), Dom, Slot, Size)
  <2> DEFINE h == Heap(pq, k)
             v == Deadlines(sd)
             v2 == Deadlines(sd')
  <2>1. IsHeap(h, v, Dom, Slot, Size)
    BY DEF HInv, Heaps
  <2>2. \A d, e \in Dom : v[d] <= v[e] => v2[d] <= v2[e]
    BY <1>1 DEF Deadlines, Calm
  <2> HIDE DEF h, v, v2
  <2>3. h.n \in Nat /\ \A i \in 1 .. h.n : h.q[i] \in Dom
    BY <2>1 DEF IsHeap, QueueType, Indexed
  <2>4. \A i \in 2 .. h.n : h.q[i \div 2] \in Dom /\ h.q[i] \in Dom
    <3>1. SUFFICES ASSUME NEW i \in 2 .. h.n
                   PROVE  i \in 1 .. h.n /\ i \div 2 \in 1 .. h.n
      BY <2>3
    <3>2. i \div 2 \in Nat /\ i \div 2 > 0 /\ i \div 2 < i
      BY <2>3, Parent
    <3> QED BY <2>3, <3>2
  <2>5. Ordered(h, v2)
    BY <2>1, <2>2, <2>4 DEF IsHeap, Ordered
  <2> QED BY <2>1, <2>5 DEF IsHeap, h, v2
<1>3. Heaps(pq, Deadlines(sd))'
  BY <1>1, <1>2 DEF HInv, Heaps
<1>4. ASSUME NEW d \in Dom PROVE Placed(d)' /\ (A!Running(d)' => Found(d)')
  <2>1. Placed(d) /\ (A!Running(d) => Found(d))
    BY DEF HInv
  <2>2. /\ A!Running(d)' => A!Running(d)
        /\ sd'[d].state = sd[d].state /\ (A!Known(d)' <=> A!Known(d))
        /\ Asleep(d)' <=> Asleep(d)
    BY DEF Calm
  <2>3. QueueOf(sd'[d]) = QueueOf(sd[d])
    BY <2>2 DEF QueueOf
  <2> QED BY <1>1, <2>1, <2>2, <2>3 DEF Placed, Found
<1> QED BY <1>3, <1>4

-----------------------------------------------------------------------------
(* Steps that leave the queues alone.                                      *)

\* A kick wakes only domains that sleep.
LEMMA SendKeeps ==
    ASSUME Typed, NEW e \in Dom, NEW put \in BOOLEAN, A!Send(e, put)
    PROVE  /\ domq' \in Seq(Dom) /\ schst' \in [Dom -> A!SchSts]
           /\ \A d \in Dom : (A!Known(d)' <=> A!Known(d)) /\ (Asleep(d)' <=> Asleep(d))
<1>1. domq' \in Seq(Dom)
  BY DEF Typed, A!Send
<1>2. schst' \in [Dom -> A!SchSts]
  BY DEF Typed, A!Send, A!SchSts
<1>3. \A d \in Dom : (A!Known(d)' <=> A!Known(d)) /\ (Asleep(d)' <=> Asleep(d))
  BY DEF Typed, A!Send, A!Kicks, A!Known, Asleep
<1> QED BY <1>1, <1>2, <1>3

Quiet == \/ AllocDone \/ ExpireDone \/ UNCHANGED vars \/ Elsewhere

LEMMA QuietCalm == ASSUME HInv, Quiet PROVE Calm
<1> USE DEF common
<1>1. /\ Typed /\ Phased
      /\ sd \in [Dom -> A!SDom] /\ schst \in [Dom -> A!SchSts]
      /\ \A d \in Dom : sd[d].deadline \in Int
  BY DeadlinesType DEF HInv, Typed
<1>2. UNCHANGED heaps
  BY DEF Quiet, AllocDone, ExpireDone, vars, Elsewhere
<1>3. ASSUME Typed', UNCHANGED <<sd, schst>>,
             \A d \in Dom : A!Running(d)' => A!Running(d)
      PROVE  Calm
  BY <1>2, <1>3 DEF Calm, Asleep, A!Known
<1>4. CASE A!Tick
  <2>1. sd' = [d \in Dom |-> [sd[d] EXCEPT !.deadline = A!Elapse(sd[d].deadline),
                                         !.timeout = A!Elapse(sd[d].timeout)]]
    BY <1>4 DEF A!Tick
  <2>2. ASSUME NEW d \in Dom
        PROVE  /\ [sd[d] EXCEPT !.deadline = A!Elapse(sd[d].deadline),
                                !.timeout = A!Elapse(sd[d].timeout)] \in A!SDom
               /\ sd'[d].state = sd[d].state
               /\ sd'[d].deadline = A!Elapse(sd[d].deadline)
    <3>1. sd[d] \in A!SDom /\ sd[d].deadline \in Int /\ sd[d].timeout \in Int
      BY <1>1 DEF A!SDom
    <3>2. A!Elapse(sd[d].deadline) \in Int /\ A!Elapse(sd[d].timeout) \in Int
      BY <3>1, ElapseType
    <3> QED BY <2>1, <3>1, <3>2 DEF A!SDom
  <2>3. sd' \in [Dom -> A!SDom]
    BY <2>1, <2>2
  <2>4. ran' \in Nat
    <3>1. ran + TickLen \in Nat
      BY <1>1, TimeAssumption DEF Typed
    <3> QED BY <1>4, <3>1 DEF A!Tick
  <2>5. Typed'
    BY <1>1, <1>2, <1>4, <2>3, <2>4 DEF A!Tick, A!Reenter, Typed, heaps, A!Phases, A!Outside
  <2>6. \A d, e \in Dom : sd[d].deadline <= sd[e].deadline =>
                            sd'[d].deadline <= sd'[e].deadline
    BY <1>1, <2>2, ElapseMonotone
  <2>7. UNCHANGED schst /\ \A d \in Dom : A!Running(d)' => A!Running(d)
    BY <1>4 DEF A!Tick, A!Running
  <2> QED BY <1>2, <2>2, <2>5, <2>6, <2>7 DEF Calm, Asleep, A!Known
<1>5. ASSUME NEW e \in Dom, NEW put \in BOOLEAN, A!Send(e, put),
             UNCHANGED <<cur, sd, ran, setqos>>, outevs' \in [Dom -> Seq(Dom)],
             \/ pc \in A!Outside /\ pc' \in A!Phases
             \/ UNCHANGED pc
      PROVE  Calm
  <2>1. /\ domq' \in Seq(Dom) /\ schst' \in [Dom -> A!SchSts]
        /\ \A d \in Dom : (A!Known(d)' <=> A!Known(d)) /\ (Asleep(d)' <=> Asleep(d))
    BY <1>1, <1>5, SendKeeps
  <2>2. Typed'
    BY <1>1, <1>2, <1>5, <2>1 DEF Typed, heaps
  <2>3. \A d \in Dom : A!Running(d)' => A!Running(d)
    BY <1>5 DEF A!Running
  <2> QED BY <1>2, <1>5, <2>1, <2>2, <2>3 DEF Calm
<1>6. ASSUME NEW e \in Dom, NEW put \in BOOLEAN,
             A!Interrupt(e, put) \/ A!SyscallSend(e, put)
      PROVE  Calm
  BY <1>1, <1>5, <1>6 DEF A!Interrupt, A!SyscallSend, A!Reenter, A!Phases, Typed
<1>7. ASSUME NEW put \in BOOLEAN, A!Deliver(put) PROVE Calm
  <2>1. cur \in Dom /\ outevs[cur] \in Seq(Dom) /\ outevs[cur] # <<>>
    BY <1>1, <1>7 DEF A!Deliver, Phased, Typed
  <2>2. Head(outevs[cur]) \in Dom /\ Tail(outevs[cur]) \in Seq(Dom)
    BY <2>1
  <2>3. outevs' \in [Dom -> Seq(Dom)]
    BY <1>1, <1>7, <2>2 DEF A!Deliver, Typed
  <2> QED BY <1>5, <1>7, <2>2, <2>3 DEF A!Deliver
<1>8. ASSUME NEW d \in Dom, A!PushEvent(d) PROVE Calm
  <2>1. Typed'
    BY <1>1, <1>2, <1>8 DEF A!PushEvent, A!Executing, Typed, heaps
  <2> QED BY <1>3, <1>8, <2>1 DEF A!PushEvent, A!Running
<1>9. CASE A!TakeEvents \/ A!DrainDone \/ AllocDone \/ ExpireDone \/ UNCHANGED vars
  <2>1. Typed'
    BY <1>1, <1>2, <1>9 DEF A!TakeEvents, A!DrainDone, AllocDone, ExpireDone, vars,
       Typed, heaps, A!Phases
  <2>2. \A d \in Dom : A!Running(d)' => A!Running(d)
    BY <1>9 DEF A!TakeEvents, A!DrainDone, AllocDone, ExpireDone, vars, A!Running,
       A!Outside
  <2> QED BY <1>3, <1>9, <2>1, <2>2 DEF A!TakeEvents, A!DrainDone, AllocDone,
      ExpireDone, vars
<1>10. CASE A!Yield \/ \E t \in Timeouts : A!Block(t)
  <2>1. /\ pc \in A!Outside /\ pc' = "deschedule" /\ cur \in Dom
        /\ UNCHANGED <<cur, ran, domq, outevs, setqos>>
        /\ \/ schst' = [schst EXCEPT ![cur] = "YIELD"]
           \/ schst' = [schst EXCEPT ![cur] = "BLOCK"]
        /\ \/ UNCHANGED sd
           \/ \E t \in Int : sd' = [sd EXCEPT ![cur] = [sd[cur] EXCEPT !.timeout = t]]
    BY <1>1, <1>10, TimeAssumption DEF A!Yield, A!Block, A!Executing, Typed
  <2>2. Placed(cur) /\ Found(cur)
    BY <2>1 DEF HInv, A!Running
  <2>3. \A d \in Dom : (A!Known(d)' <=> A!Known(d)) /\ (Asleep(d)' <=> Asleep(d))
    BY <1>1, <2>1, <2>2 DEF Placed, Found, A!Known, Asleep
  <2>4. /\ sd' \in [Dom -> A!SDom]
        /\ \A d \in Dom : /\ sd'[d].state = sd[d].state
                         /\ sd'[d].deadline = sd[d].deadline
    BY SMTT(30), <1>1, <2>1 DEF A!SDom
  <2>5. schst' \in [Dom -> A!SchSts]
    BY <1>1, <2>1 DEF A!SchSts
  <2>6. Typed'
    BY <1>1, <1>2, <2>1, <2>4, <2>5 DEF Typed, heaps, A!Phases
  <2>7. \A d \in Dom : A!Running(d)' => A!Running(d)
    BY <2>1 DEF A!Running
  <2> QED BY <1>2, <2>3, <2>4, <2>6, <2>7 DEF Calm
<1>11. ASSUME NEW d \in Dom, NEW v \in A!SDom, v.state = sd[d].state,
              v.deadline = sd[d].deadline, sd' = [sd EXCEPT ![d] = v],
              UNCHANGED <<pc, cur, ran, domq, schst, outevs>>,
              setqos' \in [by : Dom \cup {NoDom}, dom : Dom, qos : A!Contract,
                           left : 0..3]
       PROVE  Calm
  <2>1. /\ sd' \in [Dom -> A!SDom]
        /\ \A e \in Dom : /\ sd'[e].state = sd[e].state
                         /\ sd'[e].deadline = sd[e].deadline
    BY <1>1, <1>11
  <2>2. Typed'
    BY <1>1, <1>2, <1>11, <2>1 DEF Typed, heaps
  <2>3. \A e \in Dom : A!Running(e)' => A!Running(e)
    BY <1>11 DEF A!Running
  <2> QED BY <1>2, <1>11, <2>1, <2>2, <2>3 DEF Calm, Asleep, A!Known
<1>12. ASSUME NEW d \in Dom, NEW q \in QoS[d], A!SetQoS(d, q) PROVE Calm
  <2>1. q \in A!Contract /\ q.p \in Nat /\ cur \in Dom /\ sd[d] \in A!SDom
    <3>1. q \in A!Contract
      BY ContractAssumption
    <3> QED BY <1>1, <1>12, <3>1 DEF A!Contract, A!SetQoS, A!Executing, Typed
  <2> DEFINE v == [sd[d] EXCEPT !.period = q.p]
  <2>2. v \in A!SDom /\ v.state = sd[d].state /\ v.deadline = sd[d].deadline
    BY <2>1 DEF A!SDom
  <2>3. sd' = [sd EXCEPT ![d] = v]
    BY <1>12 DEF A!SetQoS
  <2>4. setqos' \in [by : Dom \cup {NoDom}, dom : Dom, qos : A!Contract,
                     left : 0..3]
    BY <1>12, <2>1 DEF A!SetQoS
  <2> HIDE DEF v
  <2> QED BY <1>11, <1>12, <2>2, <2>3, <2>4 DEF A!SetQoS
<1>13. CASE A!SetQoSStore
  <2> DEFINE d == setqos.dom
  <2>1. d \in Dom /\ setqos.qos \in A!Contract /\ setqos.left \in 0..3
    BY <1>1 DEF Typed
  <2>2. /\ sd[d] \in A!SDom /\ setqos.qos.s \in Nat
        /\ setqos.qos.l \in Nat /\ setqos.qos.x \in BOOLEAN
    BY <1>1, <2>1 DEF A!Contract
  <2>3. PICK v \in {[sd[d] EXCEPT !.slice = setqos.qos.s],
                    [sd[d] EXCEPT !.latency = setqos.qos.l],
                    [sd[d] EXCEPT !.xtratime = setqos.qos.x]} :
           sd' = [sd EXCEPT ![d] = v]
    BY <1>13 DEF A!SetQoSStore
  <2>4. setqos' \in [by : Dom \cup {NoDom}, dom : Dom, qos : A!Contract,
                     left : 0..3]
    <3>1. CASE setqos.left = 1
      BY <1>13, <3>1, UnsetType, ContractAssumption DEF A!SetQoSStore, A!NoCall
    <3>2. CASE setqos.left # 1
      <4>1. setqos.left - 1 \in 0..3
        BY <1>13, <2>1, <3>2 DEF A!SetQoSStore
      <4> QED BY <1>1, <1>13, <3>2, <4>1 DEF A!SetQoSStore, Typed
    <3> QED BY <3>1, <3>2
  <2> HIDE DEF d
  <2>5. v \in A!SDom /\ v.state = sd[d].state /\ v.deadline = sd[d].deadline
    BY <2>2, <2>3 DEF A!SDom
  <2> QED BY <1>11, <1>13, <2>1, <2>3, <2>4, <2>5 DEF A!SetQoSStore
<1>14. CASE Elsewhere
  BY <1>4, <1>6, <1>7, <1>8, <1>9, <1>10, <1>12, <1>13, <1>14 DEF Elsewhere
<1> QED BY <1>9, <1>14 DEF Quiet

\* The system domain gets no extra time from a step that leaves the queues
\* alone.
LEMMA QuietCursor == ASSUME CursorSafe, HInv, Quiet PROVE CursorInv'
<1> USE DEF common
<1> SUFFICES ASSUME Removable # {} PROVE CursorInv'
  BY DEF CursorInv
<1>1. /\ ~sd[Nemesis].xtratime
      /\ setqos.dom = Nemesis => ~setqos.qos.x
      /\ A!Running(Nemesis) => sd[Nemesis].state # "wait"
      /\ Nemesis \in Dom /\ NoDom \notin Dom
      /\ sd \in [Dom -> A!SDom] /\ sd[Nemesis] \in A!SDom
      /\ \A q \in QoS[Nemesis] : ~q.x
  BY ContractAssumption DEF HInv, CursorInv, Typed, CursorSafe
<1>2. /\ A!Running(Nemesis)' => A!Running(Nemesis)
      /\ sd'[Nemesis].state = sd[Nemesis].state
  BY <1>1, QuietCalm DEF Calm
<1>3. ASSUME UNCHANGED setqos, sd'[Nemesis].xtratime = sd[Nemesis].xtratime
      PROVE  CursorInv'
  BY <1>1, <1>2, <1>3 DEF CursorInv
<1>4. CASE A!Tick
  BY <1>1, <1>3, <1>4 DEF A!Tick, A!SDom
<1>5. CASE \/ \E d \in Dom, put \in BOOLEAN :
                A!Interrupt(d, put) \/ A!SyscallSend(d, put)
           \/ \E d \in Dom : A!PushEvent(d)
           \/ \E put \in BOOLEAN : A!Deliver(put)
           \/ A!TakeEvents \/ A!Yield \/ A!DrainDone
           \/ AllocDone \/ ExpireDone \/ UNCHANGED vars
  <2>1. UNCHANGED <<sd, setqos>>
    BY <1>5 DEF A!Interrupt, A!SyscallSend, A!PushEvent, A!Deliver, A!TakeEvents,
       A!Yield, A!DrainDone, AllocDone, ExpireDone, vars
  <2> QED BY <1>3, <2>1
<1>6. ASSUME NEW t \in Timeouts, A!Block(t) PROVE CursorInv'
  <2>1. sd' = [sd EXCEPT ![cur] = [sd[cur] EXCEPT !.timeout = t]]
    BY <1>6 DEF A!Block
  <2>2. [sd[Nemesis] EXCEPT !.timeout = t].xtratime = sd[Nemesis].xtratime
    BY <1>1 DEF A!SDom
  <2>3. sd'[Nemesis].xtratime = sd[Nemesis].xtratime
    BY <1>1, <2>1, <2>2
  <2> QED BY <1>3, <1>6, <2>3 DEF A!Block
<1>7. ASSUME NEW d \in Dom, NEW q \in QoS[d], A!SetQoS(d, q) PROVE CursorInv'
  <2>1. sd'[Nemesis].xtratime = sd[Nemesis].xtratime
    BY <1>1, <1>7 DEF A!SetQoS, A!SDom
  <2>2. setqos'.dom = d /\ setqos'.qos = q
    BY <1>7 DEF A!SetQoS
  <2>3. d = Nemesis => ~q.x
    BY <1>1
  <2> QED BY <1>1, <1>2, <2>1, <2>2, <2>3 DEF CursorInv
<1>8. CASE A!SetQoSStore
  <2>1. ~sd'[Nemesis].xtratime
    BY <1>1, <1>8 DEF A!SetQoSStore, A!SDom
  <2>2. setqos'.dom = Nemesis => ~setqos'.qos.x
    <3>1. CASE setqos.left = 1
      BY <1>8, <3>1 DEF A!SetQoSStore, A!NoCall, A!Unset
    <3>2. CASE setqos.left # 1
      <4>1. setqos'.dom = setqos.dom /\ setqos'.qos = setqos.qos
        BY <1>8, <3>2 DEF A!SetQoSStore, HInv, Typed
      <4> QED BY <1>1, <4>1
    <3> QED BY <3>1, <3>2
  <2> QED BY <1>1, <1>2, <2>1, <2>2 DEF CursorInv
<1> QED BY <1>4, <1>5, <1>6, <1>7, <1>8 DEF Quiet, Elsewhere

LEMMA QuietKeeps == ASSUME CursorSafe, HInv, Quiet PROVE HInv'
<1>1. Calm /\ CursorInv'
  BY QuietCalm, QuietCursor
<1>2. Phased'
  BY NextPhased DEF Quiet, Next, Pass, HInv
<1>3. Heaps(pq, Deadlines(sd))'
      /\ \A d \in Dom : Placed(d)' /\ (A!Running(d)' => Found(d)')
  BY <1>1, CalmKeeps
<1> QED BY <1>1, <1>2, <1>3 DEF HInv, Calm

-----------------------------------------------------------------------------
(* Steps that move a domain from queue to queue.                           *)

Queued(st) == st \in A!SchSts \ {"STOPPED", "DYING"}

LEMMA MovePlaces ==
    ASSUME HInv, NEW d \in Dom, NEW p, Off(p, d), NEW s \in A!SDom,
           NEW st, Queued(st), s.state = "block" <=> st \in {"BLCKD", "WAKING"},
           Move(d, s, st, p)
    PROVE  /\ Moved(d, s, p)
           /\ sd' \in [Dom -> A!SDom] /\ schst' \in [Dom -> A!SchSts]
           /\ \A e \in Dom : Placed(e)'
<1>1. sd \in [Dom -> A!SDom] /\ schst \in [Dom -> A!SchSts] /\ s.deadline \in Int
  BY DEF HInv, Typed, A!SDom
<1>2. sd' = [sd EXCEPT ![d] = s] /\ schst' = [schst EXCEPT ![d] = st]
  BY DEF Move
<1>3. Moved(d, s, p)
  BY <1>1, MoveIs
<1>4. \A k \in Queues : Members(pq'[k]) = IF k = QueueOf(s)
                                        THEN Members(pq[k]) \cup {d}
                                        ELSE Members(pq[k]) \ {d}
  BY <1>3 DEF Moved
<1>5. ASSUME NEW e \in Dom PROVE Placed(e)'
  <2>1. CASE e = d
    <3>1. A!Known(d)' /\ (Asleep(d)' <=> st \in {"BLCKD", "WAKING"}) /\ sd'[d] = s
      BY <1>1, <1>2 DEF A!Known, Asleep, Queued
    <3> QED BY <1>4, <2>1, <3>1 DEF Placed
  <2>2. CASE e # d
    <3>1. /\ sd'[e] = sd[e] /\ (A!Known(e)' <=> A!Known(e))
          /\ (Asleep(e)' <=> Asleep(e))
      BY <1>1, <1>2, <2>2 DEF A!Known, Asleep
    <3>2. Placed(e)
      BY DEF HInv
    <3> QED BY <1>4, <2>2, <3>1, <3>2 DEF Placed
  <2> QED BY <2>1, <2>2
<1> QED BY <1>1, <1>2, <1>3, <1>5 DEF Queued

\* dequeue takes off its queue the domain it is meant to: the running one, or
\* one that is blocked.
LEMMA DequeueIs ==
    ASSUME HInv, NEW d \in Dom,
           A!Running(d) \/ (A!Known(d) /\ sd[d].state = "block")
    PROVE  Off(dequeue(d), d)
<1>1. Heaps(pq, Deadlines(sd)) /\ sd \in [Dom -> A!SDom] /\ Placed(d) /\ A!Known(d)
  BY DEF HInv, Typed, Found
<1>2. CASE sd[d].state = "run"
  <2>1. Found(d) /\ "run" \in Queues
    BY <1>2 DEF HInv, Queues
  <2>2. pq["run"].n > 0 /\ pq["run"].q[1] = d
    BY <1>2, <2>1 DEF Found
  <2> QED BY <1>1, <1>2, <2>1, <2>2, HeadTaken DEF dequeue
<1>3. CASE sd[d].state = "wait"
  <2>1. Found(d) /\ "wait" \in Queues
    BY <1>3 DEF HInv, Queues
  <2>2. next_optm \in 1 .. pq["wait"].n /\ pq["wait"].q[next_optm] = d
    BY <1>3, <2>1 DEF Found
  <2> QED BY <1>1, <1>3, <2>1, <2>2, SlotTaken DEF dequeue
<1>4. CASE sd[d].state \notin {"run", "wait"}
  <2> DEFINE k == QueueOf(sd[d])
  <2>1. k \in Queues
    BY DEF QueueOf, Queues
  <2> HIDE DEF k
  <2>2. d \in Members(pq[k])
    BY <1>1, <2>1 DEF Placed, k
  <2>3. pq.ix[d] \in 1 .. pq[k].n /\ pq[k].q[pq.ix[d]] = d
    BY <1>1, <2>1, <2>2, HeapFacts
  <2>4. Off(DeleteAt(pq, k, pq.ix[d]), d)
    BY <1>1, <2>1, <2>3, SlotTaken
  <2> QED BY <1>4, <2>4 DEF dequeue, k
<1> QED BY <1>2, <1>3, <1>4

-----------------------------------------------------------------------------
(* What Atropos sees of the queues.                                        *)

R == Members(pq["run"])
W == Members(pq["wait"])
B == Members(pq["blocked"])
Cursor == IF Optimistic /\ next_optm \in 1 .. pq.wait.n
          THEN pq.wait.q[next_optm] ELSE NoDom

LEMMA HeadIs ==
    ASSUME HInv, NEW k \in Queues
    PROVE  /\ pq[k].n > 0 => /\ pq[k].q[1] \in A!Heads(Members(pq[k]))
                             /\ pq[k].q[1] \in Members(pq[k])
                             /\ pq[k].q[1] \in Dom
           /\ pq[k].n = 0 => Members(pq[k]) = {}
           /\ ~ (pq[k].n > 0) => pq[k].n = 0
           /\ pq[k].n > 0 => Members(pq[k]) # {}
<1> DEFINE h == Heap(pq, k)
           v == Deadlines(sd)
<1>1. /\ Heaps(pq, v) /\ sd \in [Dom -> A!SDom]
  BY DEF HInv, Typed
<1>2. /\ IsHeap(h, v, Dom, Slot, Size) /\ h.n = pq[k].n /\ h.q = pq[k].q
      /\ pq[k].n \in 0 .. Size /\ Size \in Nat
      /\ \A i \in 1 .. pq[k].n : pq[k].q[i] \in Dom /\ pq[k].q[i] \in Members(pq[k])
  BY <1>1, HeapFacts, SizeAssumption, FS_CardinalityType DEF Heaps, Size
<1>3. \A d \in Dom : v[d] = sd[d].deadline /\ sd[d].deadline \in Int
  BY <1>1, DeadlinesType
<1> HIDE DEF h, v
<1>4. Ordered(h, v) /\ h.n \in Nat /\ \A i \in 1 .. h.n : v[h.q[i]] \in Int
  BY <1>2, <1>3 DEF IsHeap
<1>5. \A i \in 1 .. h.n : v[h.q[1]] <= v[h.q[i]]
  BY <1>4, RootIsLeast
<1>6. pq[k].n > 0 => 1 \in 1 .. pq[k].n
  BY <1>2
<1>7. \A i \in 1 .. pq[k].n : sd[pq[k].q[1]].deadline <= sd[pq[k].q[i]].deadline
  BY <1>2, <1>3, <1>5, <1>6
<1>8. pq[k].n > 0 => pq[k].q[1] \in A!Heads(Members(pq[k]))
  BY <1>2, <1>6, <1>7 DEF A!Heads, Members
<1>9. pq[k].n = 0 => Members(pq[k]) = {}
  BY DEF Members
<1> QED BY <1>2, <1>6, <1>8, <1>9

LEMMA UpdatesKeep ==
    ASSUME NEW s \in A!SDom
    PROVE  /\ A!NewPeriod(s).xtratime = s.xtratime
           /\ A!BlockSDom(s).xtratime = s.xtratime
           /\ A!UnblockSDom(s).xtratime = s.xtratime
           /\ A!Charge(s).xtratime = s.xtratime
           /\ [s EXCEPT !.state = "wait"].xtratime = s.xtratime
           /\ A!Charge(s).state = s.state
           /\ A!BlockSDom(s).state = "block"
           /\ A!NewPeriod(s).state \in {"run", "wait"}
           /\ A!UnblockSDom(s).state \in {"run", "wait", "unblocked"}
           /\ [s EXCEPT !.state = "wait"] \in A!SDom
           /\ [s EXCEPT !.state = "wait"].state = "wait"
<1>1. A!NewPeriod(s).xtratime = s.xtratime /\ A!NewPeriod(s).state \in {"run", "wait"}
  BY DEF A!NewPeriod, A!SDom
<1>2. A!BlockSDom(s).xtratime = s.xtratime /\ A!BlockSDom(s).state = "block"
  BY DEF A!BlockSDom, A!SDom
<1>3. /\ A!UnblockSDom(s).xtratime = s.xtratime
      /\ A!UnblockSDom(s).state \in {"run", "wait", "unblocked"}
  BY DEF A!UnblockSDom, A!SDom
<1>4. A!Charge(s).xtratime = s.xtratime /\ A!Charge(s).state = s.state
  BY DEF A!Charge, A!SDom
<1>5. /\ [s EXCEPT !.state = "wait"].xtratime = s.xtratime
      /\ [s EXCEPT !.state = "wait"] \in A!SDom
      /\ [s EXCEPT !.state = "wait"].state = "wait"
  BY DEF A!SDom, A!States
<1> QED BY <1>1, <1>2, <1>3, <1>4, <1>5

\* In the middle of a pass nobody runs.
LEMMA NobodyRuns ==
    ASSUME HInv, Typed', Phased', Heaps(pq', Deadlines(sd')),
           \A d \in Dom : Placed(d)', UNCHANGED setqos,
           sd'[Nemesis].xtratime = sd[Nemesis].xtratime,
           pc' \notin A!Outside \cup {"deschedule"}
    PROVE  HInv' /\ Cursor' = NoDom
<1>1. \A d \in Dom : ~A!Running(d)'
  BY DEF A!Running
<1>2. Nemesis \in Dom
  BY ContractAssumption
<1>3. CursorInv'
  BY <1>1, <1>2 DEF HInv, CursorInv
<1>4. Cursor' = NoDom
  BY DEF Cursor, Optimistic, A!Outside
<1> QED BY <1>1, <1>3, <1>4 DEF HInv

-----------------------------------------------------------------------------
(* Each step keeps the invariant and is one of Atropos.                    *)

LEMMA DescheduleStep == ASSUME HInv, Deschedule PROVE HInv' /\ A!Deschedule
<1> DEFINE s == A!Charge(sd[cur])
           s1 == A!BlockSDom(s)
           s2 == [s EXCEPT !.state = "wait"]
<1>1. /\ Typed /\ Phased /\ Nemesis \in Dom /\ NoDom \notin Dom
      /\ cur \in Dom /\ A!Running(cur) /\ Found(cur) /\ Placed(cur)
      /\ sd \in [Dom -> A!SDom] /\ schst \in [Dom -> A!SchSts] /\ ran \in Nat
      /\ Heaps(pq, Deadlines(sd)) /\ cur # NoDom
  BY ContractAssumption DEF Deschedule, HInv, Typed, Phased, A!Running
<1>2. /\ pc = "deschedule" /\ outevs[cur] = <<>>
      /\ pc' = "alloc" /\ cur' = NoDom /\ ran' = 0
      /\ UNCHANGED <<next_optm, alarm, domq, pending, outevs, setqos, due>>
  BY DEF Deschedule
<1>3. sd[cur] \in A!SDom /\ s \in A!SDom /\ s.state = sd[cur].state
      /\ s.xtratime = sd[cur].xtratime
  BY <1>1, ChargeType, UpdatesKeep
<1> HIDE DEF s
<1>4. /\ s1 \in A!SDom /\ s1.state = "block" /\ s1.xtratime = sd[cur].xtratime
      /\ s2 \in A!SDom /\ s2.state = "wait" /\ s2.xtratime = sd[cur].xtratime
  BY <1>3, BlockSDomType, UpdatesKeep
<1> HIDE DEF s1, s2
<1>5. Off(dequeue(cur), cur)
  BY <1>1, DequeueIs
<1>6. \/ /\ A!Blocking(cur)
         /\ Move(cur, s1, "BLCKD", dequeue(cur))
      \/ /\ ~A!Blocking(cur) /\ A!Spent(cur)
         /\ Move(cur, s2, "WAIT", dequeue(cur))
      \/ /\ ~A!Blocking(cur) /\ ~A!Spent(cur)
         /\ sd' = [sd EXCEPT ![cur] = s]
         /\ UNCHANGED <<pq, schst>>
  BY DEF Deschedule, s, s1, s2
\* dequeue takes what Atropos does.
<1>7. /\ A!Dequeued(cur) = {cur} /\ cur \notin B
      /\ sd[cur].state = "run" => cur \notin W
      /\ sd[cur].state # "run" => cur \notin R
  <2>1. /\ cur \in R <=> QueueOf(sd[cur]) = "run"
        /\ cur \in W <=> QueueOf(sd[cur]) = "wait"
        /\ cur \in B <=> QueueOf(sd[cur]) = "blocked"
    BY <1>1 DEF Placed, Found, Queues, R, W, B
  <2>2. sd[cur].state # "block"
    BY <1>1 DEF Found
  <2>3. CASE sd[cur].state = "run"
    <3>1. pq["run"].n > 0 /\ pq["run"].q[1] = cur
      BY <1>1, <2>3 DEF Found
    <3>2. cur \in A!Heads(R)
      BY <3>1, HeadIs DEF R, Queues
    <3>3. A!Dequeued(cur) = {cur}
      BY <2>3, <3>2 DEF A!Dequeued, R
    <3> QED BY <2>1, <2>3, <3>3 DEF QueueOf
  <2>4. CASE sd[cur].state = "wait"
    <3>1. Optimistic /\ next_optm \in 1 .. pq.wait.n /\ pq.wait.q[next_optm] = cur
      BY <1>1, <1>2, <2>4 DEF Found, Optimistic
    <3>2. A!Dequeued(cur) = {cur}
      BY <2>4, <3>1 DEF A!Dequeued
    <3> QED BY <2>1, <2>4, <3>2 DEF QueueOf
  <2>5. CASE sd[cur].state \notin {"run", "wait"}
    <3>1. A!Dequeued(cur) = {cur}
      BY <2>5 DEF A!Dequeued
    <3> QED BY <2>1, <2>2, <2>5, <3>1 DEF QueueOf
  <2> QED BY <2>3, <2>4, <2>5
<1>8. ASSUME sd' \in [Dom -> A!SDom], schst' \in [Dom -> A!SchSts],
             Heaps(pq', Deadlines(sd')), \A d \in Dom : Placed(d)',
             NEW t, t.xtratime = sd[cur].xtratime, sd' = [sd EXCEPT ![cur] = t]
      PROVE  HInv' /\ Cursor' = NoDom
  <2>1. Typed'
    BY <1>1, <1>2, <1>8 DEF Typed, A!Phases
  <2>2. Phased' /\ pc' \notin A!Outside \cup {"deschedule"}
    BY <1>2 DEF Phased, A!Outside
  <2>3. sd'[Nemesis].xtratime = sd[Nemesis].xtratime
    BY <1>1, <1>8
  <2> QED BY <1>2, <1>8, <2>1, <2>2, <2>3, NobodyRuns
<1>9. CASE A!Blocking(cur)
  <2>1. Move(cur, s1, "BLCKD", dequeue(cur))
    BY <1>6, <1>9
  <2>2. Queued("BLCKD") /\ QueueOf(s1) = "blocked"
    BY <1>4 DEF Queued, A!SchSts, QueueOf
  <2>3. /\ Moved(cur, s1, dequeue(cur))
        /\ sd' \in [Dom -> A!SDom] /\ schst' \in [Dom -> A!SchSts]
        /\ \A d \in Dom : Placed(d)'
    BY <1>1, <1>4, <1>5, <2>1, <2>2, MovePlaces
  <2>4. /\ Heaps(pq', Deadlines(sd'))
        /\ R' = R \ {cur} /\ W' = W \ {cur} /\ B' = B \cup {cur}
    BY <2>2, <2>3 DEF Moved, Queues, R, W, B
  <2>5. sd' = [sd EXCEPT ![cur] = s1] /\ schst' = [schst EXCEPT ![cur] = "BLCKD"]
    BY <2>1 DEF Move
  <2>6. HInv' /\ Cursor' = NoDom
    BY <1>4, <1>8, <2>3, <2>4, <2>5
  <2>7. A!Deschedule
    BY <1>2, <1>7, <1>9, <2>4, <2>5, <2>6
       DEF A!Deschedule, R, W, B, Cursor, s, s1
  <2> QED BY <2>6, <2>7
<1>10. CASE ~A!Blocking(cur) /\ A!Spent(cur)
  <2>1. Move(cur, s2, "WAIT", dequeue(cur))
    BY <1>6, <1>10
  <2>2. Queued("WAIT") /\ QueueOf(s2) = "wait"
    BY <1>4 DEF Queued, A!SchSts, QueueOf
  <2>3. /\ Moved(cur, s2, dequeue(cur))
        /\ sd' \in [Dom -> A!SDom] /\ schst' \in [Dom -> A!SchSts]
        /\ \A d \in Dom : Placed(d)'
    BY <1>1, <1>4, <1>5, <2>1, <2>2, MovePlaces
  <2>4. /\ Heaps(pq', Deadlines(sd'))
        /\ R' = R \ {cur} /\ W' = W \cup {cur} /\ B' = B \ {cur}
    BY <2>2, <2>3 DEF Moved, Queues, R, W, B
  <2>5. sd' = [sd EXCEPT ![cur] = s2] /\ schst' = [schst EXCEPT ![cur] = "WAIT"]
    BY <2>1 DEF Move
  <2>6. HInv' /\ Cursor' = NoDom
    BY <1>4, <1>8, <2>3, <2>4, <2>5
  <2>7. A!Deschedule
    BY ZenonT(30), <1>2, <1>7, <1>10, <2>4, <2>5, <2>6
       DEF A!Deschedule, R, W, B, Cursor, s, s2
  <2> QED BY <2>6, <2>7
<1>11. CASE ~A!Blocking(cur) /\ ~A!Spent(cur)
  <2>1. sd' = [sd EXCEPT ![cur] = s] /\ UNCHANGED <<pq, schst>>
    BY <1>6, <1>11
  <2>2. sd' \in [Dom -> A!SDom] /\ Deadlines(sd') = Deadlines(sd)
    <3>1. s.deadline = sd[cur].deadline
      BY <1>1, <1>3 DEF A!Charge, A!SDom, s
    <3> QED BY <1>1, <1>3, <2>1, <3>1 DEF Deadlines
  <2>3. \A d \in Dom : Placed(d)'
    <3>1. \A d \in Dom : Placed(d) /\ sd'[d].state = sd[d].state
      BY <1>1, <1>3, <2>1 DEF HInv
    <3> QED BY <2>1, <3>1 DEF Placed, A!Known, Asleep, QueueOf
  <2>4. HInv' /\ Cursor' = NoDom
    BY <1>1, <1>3, <1>8, <2>1, <2>2, <2>3
  <2>5. A!Deschedule
    BY <1>2, <1>11, <2>1, <2>4 DEF A!Deschedule, Cursor, s
  <2> QED BY <2>4, <2>5
<1> QED BY <1>9, <1>10, <1>11

\* requeue takes a domain that has been taken off its queue to the run queue
\* or the wait queue.
LEMMA RequeueIs ==
    ASSUME HInv, NEW d \in Dom, NEW p, Off(p, d), NEW s \in A!SDom,
           s.state \in {"run", "wait", "unblocked"}, requeue(d, s, p)
    PROVE  /\ Heaps(pq', Deadlines(sd')) /\ \A e \in Dom : Placed(e)'
           /\ sd' \in [Dom -> A!SDom] /\ schst' \in [Dom -> A!SchSts]
           /\ sd' = [sd EXCEPT ![d] = s]
           /\ schst' = [schst EXCEPT ![d] = A!QueuedSt(s)]
           /\ R' = IF A!OnRun(s) THEN R \cup {d} ELSE R \ {d}
           /\ W' = IF A!OnRun(s) THEN W \ {d} ELSE W \cup {d}
           /\ B' = B \ {d}
<1> DEFINE st == A!QueuedSt(s)
<1>1. Move(d, s, st, p)
  BY DEF requeue
<1>2. Queued(st) /\ st \notin {"BLCKD", "WAKING"}
  BY DEF Queued, A!QueuedSt, A!SchSts
<1> HIDE DEF st
<1>3. /\ Moved(d, s, p)
      /\ sd' \in [Dom -> A!SDom] /\ schst' \in [Dom -> A!SchSts]
      /\ \A e \in Dom : Placed(e)'
  <2>1. s.state = "block" <=> st \in {"BLCKD", "WAKING"}
    BY <1>2
  <2> QED BY <1>1, <1>2, <2>1, MovePlaces
<1>4. QueueOf(s) = IF A!OnRun(s) THEN "run" ELSE "wait"
  BY DEF QueueOf, A!OnRun
<1>5. /\ Heaps(pq', Deadlines(sd'))
      /\ R' = IF A!OnRun(s) THEN R \cup {d} ELSE R \ {d}
      /\ W' = IF A!OnRun(s) THEN W \ {d} ELSE W \cup {d}
      /\ B' = B \ {d}
  <2>1. CASE A!OnRun(s)
    BY <1>3, <1>4, <2>1 DEF Moved, Queues, R, W, B
  <2>2. CASE ~A!OnRun(s)
    BY <1>3, <1>4, <2>2 DEF Moved, Queues, R, W, B
  <2> QED BY <2>1, <2>2
<1>6. sd' = [sd EXCEPT ![d] = s] /\ schst' = [schst EXCEPT ![d] = st]
  BY <1>1 DEF Move
<1> QED BY <1>3, <1>5, <1>6 DEF st

\* On one queue at most.
LEMMA Apart ==
    ASSUME HInv
    PROVE  /\ R \cap W = {} /\ R \cap B = {} /\ W \cap B = {}
           /\ R \subseteq Dom /\ W \subseteq Dom /\ B \subseteq Dom
           /\ \A d \in B : A!Known(d) /\ sd[d].state = "block"
           /\ \A d \in W : A!Known(d) /\ sd[d].state \notin {"run", "block"}
           /\ \A d \in R : A!Known(d) /\ sd[d].state = "run"
           /\ \A d \in Dom : A!Known(d) /\ sd[d].state = "block" => d \in B
<1>1. Heaps(pq, Deadlines(sd)) /\ \A d \in Dom : Placed(d)
  BY DEF HInv
<1>2. R \subseteq Dom /\ W \subseteq Dom /\ B \subseteq Dom
  BY <1>1, HeapFacts DEF R, W, B, Queues
<1>3. \A d \in Dom : /\ d \in R <=> A!Known(d) /\ QueueOf(sd[d]) = "run"
                     /\ d \in W <=> A!Known(d) /\ QueueOf(sd[d]) = "wait"
                     /\ d \in B <=> A!Known(d) /\ QueueOf(sd[d]) = "blocked"
  BY <1>1 DEF Placed, Queues, R, W, B
<1>4. \A d \in Dom : /\ QueueOf(sd[d]) = "run" <=> sd[d].state = "run"
                     /\ QueueOf(sd[d]) = "blocked" <=> sd[d].state = "block"
  BY DEF QueueOf
<1> QED BY <1>2, <1>3, <1>4

\* An iteration of a loop of the scheduler that requeues d.
LEMMA LoopKeeps ==
    ASSUME HInv, NEW d \in Dom, NEW p, Off(p, d), NEW s \in A!SDom,
           s.state \in {"run", "wait", "unblocked"}, s.xtratime = sd[d].xtratime,
           requeue(d, s, p), domq' \in Seq(Dom), pc \in A!Phases,
           pc \notin A!Outside \cup {"deschedule"},
           UNCHANGED <<pc, cur, ran, next_optm, outevs, setqos>>
    PROVE  HInv' /\ Cursor = NoDom /\ Cursor' = NoDom
<1>1. Typed /\ Phased /\ sd \in [Dom -> A!SDom] /\ Nemesis \in Dom
  BY ContractAssumption DEF HInv, Typed
<1>2. /\ Heaps(pq', Deadlines(sd')) /\ \A e \in Dom : Placed(e)'
      /\ sd' \in [Dom -> A!SDom] /\ schst' \in [Dom -> A!SchSts]
      /\ sd' = [sd EXCEPT ![d] = s]
  BY RequeueIs
<1>3. Typed' /\ Phased'
  BY <1>1, <1>2 DEF Typed, Phased
<1>4. sd'[Nemesis].xtratime = sd[Nemesis].xtratime
  BY <1>1, <1>2
<1>5. HInv' /\ Cursor' = NoDom
  BY <1>2, <1>3, <1>4, NobodyRuns
<1>6. Cursor = NoDom
  BY DEF Cursor, Optimistic, A!Outside
<1> QED BY <1>5, <1>6

LEMMA AllocateStep == ASSUME HInv, Allocate PROVE HInv' /\ A!Allocate
<1> DEFINE d == pq.wait.q[1]
           s == A!NewPeriod(sd[d])
           p == RemoveHead(pq, "wait")
<1>1. /\ Typed /\ Heaps(pq, Deadlines(sd)) /\ sd \in [Dom -> A!SDom]
      /\ pc = "alloc" /\ pq["wait"].n > 0 /\ sd[d].deadline <= 0
      /\ requeue(d, s, p) /\ due' = [due EXCEPT ![d] = A!Granted(d)]
      /\ UNCHANGED <<next_optm, pc, cur, ran, alarm, domq, pending, outevs, setqos>>
  BY DEF Allocate, HeadDue, HInv, Typed
<1>2. Off(p, d) /\ d \in A!Heads(W) /\ d \in W /\ d \in Dom
  BY <1>1, HeadTaken, HeadIs DEF W, Queues
<1> HIDE DEF d, p
<1>3. /\ s \in A!SDom /\ s.state \in {"run", "wait", "unblocked"}
      /\ s.xtratime = sd[d].xtratime
  BY <1>1, <1>2, NewPeriodType, UpdatesKeep
<1> HIDE DEF s
<1>4. /\ sd' = [sd EXCEPT ![d] = s]
      /\ schst' = [schst EXCEPT ![d] = A!QueuedSt(s)]
      /\ R' = IF A!OnRun(s) THEN R \cup {d} ELSE R \ {d}
      /\ W' = IF A!OnRun(s) THEN W \ {d} ELSE W \cup {d}
      /\ B' = B \ {d}
  BY <1>1, <1>2, <1>3, RequeueIs
<1>5. HInv' /\ Cursor = NoDom /\ Cursor' = NoDom
  BY <1>1, <1>2, <1>3, LoopKeeps DEF Typed, A!Outside
<1>6. d \notin R /\ d \notin B
  BY <1>2, Apart
<1>7. A!Requeue(d, s)
  BY <1>4, <1>6 DEF A!Requeue, R
<1>8. A!Allocate
  <2>1. W' = IF A!OnRun(s) THEN W \ {d} ELSE W
    BY <1>2, <1>4
  <2>2. B' = B
    BY <1>4, <1>6
  <2> QED BY <1>1, <1>2, <1>5, <1>7, <2>1, <2>2 DEF A!Allocate, W, B, Cursor, s
<1> QED BY <1>5, <1>8

\* unblock and requeue, for a domain off the blocked queue.
LEMMA UnblockStep ==
    ASSUME HInv, NEW d \in B, NEW p, Off(p, d), Unblock(d, p),
           domq' \in Seq(Dom), pc \in {"drain", "timeouts"},
           UNCHANGED <<pc, cur, ran, next_optm, outevs, setqos>>
    PROVE  HInv' /\ A!Unblock(d) /\ Cursor = NoDom /\ Cursor' = NoDom
<1> DEFINE s == A!UnblockSDom(sd[d])
<1>1. /\ d \in Dom /\ sd \in [Dom -> A!SDom] /\ pc \in A!Phases
      /\ pc \notin A!Outside \cup {"deschedule"}
  BY Apart DEF HInv, Typed, A!Outside
<1>2. /\ s \in A!SDom /\ s.state \in {"run", "wait", "unblocked"}
      /\ s.xtratime = sd[d].xtratime
  BY <1>1, UnblockSDomType, UpdatesKeep
<1>3. requeue(d, s, p)
  BY DEF Unblock
<1> HIDE DEF s
<1>4. /\ sd' = [sd EXCEPT ![d] = s]
      /\ schst' = [schst EXCEPT ![d] = A!QueuedSt(s)]
      /\ R' = IF A!OnRun(s) THEN R \cup {d} ELSE R \ {d}
      /\ W' = IF A!OnRun(s) THEN W \ {d} ELSE W \cup {d}
      /\ B' = B \ {d}
  BY <1>1, <1>2, <1>3, RequeueIs
<1>5. HInv' /\ Cursor = NoDom /\ Cursor' = NoDom
  BY <1>1, <1>2, <1>3, LoopKeeps
<1>6. d \notin R /\ d \notin W
  BY Apart
<1>7. A!Requeue(d, s)
  BY <1>4, <1>6 DEF A!Requeue, R
<1>8. W' = IF A!OnRun(s) THEN W ELSE W \cup {d}
  BY <1>4, <1>6
<1>9. due' = IF A!LongBlock(sd[d]) THEN [due EXCEPT ![d] = sd[d].slice] ELSE due
  BY DEF Unblock
<1>10. A!Unblock(d)
  BY <1>4, <1>7, <1>8, <1>9 DEF A!Unblock, W, B, s
<1> QED BY <1>5, <1>10

LEMMA DrainStep == ASSUME HInv, Drain PROVE HInv' /\ A!Drain
<1> DEFINE d == Head(domq)
           wake == schst[d] \notin {"STOPPED", "DYING"} /\ sd[d].state = "block"
<1>1. /\ pc = "drain" /\ domq # <<>> /\ domq' = Tail(domq)
      /\ IF wake THEN Unblock(d, dequeue(d)) ELSE UNCHANGED <<pq, schst, sd, due>>
      /\ UNCHANGED <<next_optm, pc, cur, ran, alarm, pending, outevs, setqos>>
  BY DEF Drain
<1>2. /\ Typed /\ Phased /\ Heaps(pq, Deadlines(sd)) /\ domq \in Seq(Dom)
      /\ \A e \in Dom : Placed(e)
  BY DEF HInv, Typed
<1>3. d \in Dom /\ domq' \in Seq(Dom)
  BY <1>1, <1>2
<1> HIDE DEF d
<1>4. CASE wake
  <2>1. d \in B /\ Off(dequeue(d), d)
    BY <1>3, <1>4, Apart, DequeueIs DEF A!Known
  <2>2. HInv' /\ A!Unblock(d) /\ Cursor = NoDom /\ Cursor' = NoDom
    BY <1>1, <1>3, <1>4, <2>1, UnblockStep
  <2>3. A!Drain
    BY <1>1, <1>4, <2>2 DEF A!Drain, Cursor, d
  <2> QED BY <2>2, <2>3
<1>5. CASE ~wake
  <2>1. UNCHANGED <<pq, schst, sd, due>>
    BY <1>1, <1>5
  <2>2. Typed' /\ Phased' /\ Heaps(pq', Deadlines(sd')) /\ \A e \in Dom : Placed(e)'
    BY <1>1, <1>2, <1>3, <2>1 DEF Typed, Phased, Placed, A!Known, Asleep
  <2>3. HInv' /\ Cursor' = NoDom
    BY <1>1, <2>1, <2>2, NobodyRuns DEF A!Outside
  <2>4. Cursor = NoDom
    BY <1>1 DEF Cursor, Optimistic
  <2>5. A!Drain
    BY <1>1, <1>5, <2>1, <2>3, <2>4 DEF A!Drain, Cursor, d
  <2> QED BY <2>3, <2>5
<1> QED BY <1>4, <1>5

LEMMA ExpireStep == ASSUME HInv, Expire PROVE HInv' /\ A!Expire
<1> DEFINE d == pq.blocked.q[1]
           p == RemoveHead(pq, "blocked")
<1>1. /\ Heaps(pq, Deadlines(sd)) /\ sd \in [Dom -> A!SDom] /\ domq \in Seq(Dom)
      /\ pc = "timeouts" /\ pq["blocked"].n > 0 /\ sd[d].deadline <= 0
      /\ Unblock(d, p)
      /\ UNCHANGED <<next_optm, pc, cur, ran, alarm, domq, pending, outevs, setqos>>
  BY DEF Expire, HeadDue, HInv, Typed
<1>2. Off(p, d) /\ d \in A!Heads(B) /\ d \in B
  BY <1>1, HeadTaken, HeadIs DEF B, Queues
<1> HIDE DEF d, p
<1>3. HInv' /\ A!Unblock(d) /\ Cursor = NoDom /\ Cursor' = NoDom
  BY <1>1, <1>2, UnblockStep
<1>4. A!Expire
  BY <1>1, <1>2, <1>3 DEF A!Expire, B, Cursor
<1> QED BY <1>3, <1>4

LEMMA LoopsEnd ==
    ASSUME HInv
    PROVE  /\ AllocDone => A!AllocDone
           /\ ExpireDone => A!ExpireDone
<1>1. ASSUME NEW k \in Queues, ~HeadDue(k)
      PROVE  \A d \in Members(pq[k]) : sd[d].deadline > 0
  <2>1. /\ sd \in [Dom -> A!SDom] /\ Members(pq[k]) \subseteq Dom
        /\ \A d \in Dom : sd[d].deadline \in Int
    BY HeapFacts, DeadlinesType DEF HInv, Typed
  <2>2. CASE pq[k].n = 0
    BY <2>2, HeadIs
  <2>3. CASE pq[k].n > 0
    <3> DEFINE h == pq[k].q[1]
    <3>1. h \in A!Heads(Members(pq[k])) /\ h \in Dom
      BY <2>3, HeadIs
    <3>2. ~ (sd[h].deadline <= 0)
      BY <1>1, <2>3 DEF HeadDue
    <3>3. \A d \in Members(pq[k]) : sd[h].deadline <= sd[d].deadline
      BY <3>1 DEF A!Heads
    <3> HIDE DEF h
    <3> QED BY <2>1, <3>1, <3>2, <3>3
  <2> QED BY <2>2, <2>3, HeadIs
<1>2. ASSUME AllocDone \/ ExpireDone PROVE Cursor = NoDom /\ Cursor' = NoDom
  BY <1>2 DEF AllocDone, ExpireDone, Cursor, Optimistic
<1>3. ASSUME AllocDone PROVE A!AllocDone
  <2>1. \A d \in W : sd[d].deadline > 0
    BY <1>1, <1>3 DEF AllocDone, W, Queues
  <2> QED BY <1>2, <1>3, <2>1 DEF AllocDone, A!AllocDone, A!queues, heaps, W, Cursor
<1>4. ASSUME ExpireDone PROVE A!ExpireDone
  <2>1. \A d \in B : sd[d].deadline > 0
    BY <1>1, <1>4 DEF ExpireDone, B, Queues
  <2> QED BY <1>2, <1>4, <2>1 DEF ExpireDone, A!ExpireDone, A!queues, heaps, B, Cursor
<1> QED BY <1>3, <1>4

-----------------------------------------------------------------------------
(* Choosing who runs next.                                                 *)

\* The timer is set for a deadline that all heads of a queue have.
LEMMA HeadTimeIs ==
    ASSUME HInv, NEW k \in Queues, NEW t
    PROVE  HeadTime(k, t) = A!HeadTime(Members(pq[k]), t)
<1> DEFINE q == Members(pq[k])
           h == A!HeadOf(q)
           g == pq[k].q[1]
<1>1. CASE pq[k].n = 0
  <2>1. A!Heads(q) = {}
    BY <1>1, HeadIs DEF A!Heads
  <2> QED BY <1>1, <2>1 DEF HeadTime, A!HeadTime
<1>2. CASE pq[k].n > 0
  <2>1. g \in A!Heads(q) /\ pq[k].n # 0
    BY <1>2, HeadIs
  <2>2. h \in A!Heads(q)
    BY <2>1 DEF A!HeadOf
  <2>3. /\ sd[g].deadline <= sd[h].deadline /\ sd[h].deadline <= sd[g].deadline
        /\ g \in q /\ h \in q
    BY <2>1, <2>2 DEF A!Heads
  <2>4. q \subseteq Dom /\ \A d \in Dom : sd[d].deadline \in Int
    BY HeapFacts, DeadlinesType DEF HInv, Typed
  <2> HIDE DEF q, h, g
  <2>5. sd[g].deadline = sd[h].deadline
    BY <2>3, <2>4
  <2>6. HeadTime(k, t) = A!Min2(t, sd[g].deadline)
    BY <2>1 DEF HeadTime, g
  <2>7. A!HeadTime(q, t) = A!Min2(t, sd[h].deadline)
    BY <2>1 DEF A!HeadTime, h
  <2> QED BY <2>5, <2>6, <2>7 DEF q
<1> QED BY <1>1, <1>2, HeadIs

LEMMA RunNextIs ==
    ASSUME HInv, NEW c \in Dom, NEW t, RunNext(c, t)
    PROVE  A!RunNext(c, t)
<1>1. c # NoDom
  BY ContractAssumption
<1>2. HeadTime("blocked", HeadTime("wait", t)) = A!NextAlarm(t)
  BY HeadTimeIs DEF A!NextAlarm, Queues
<1> QED BY <1>1, <1>2 DEF RunNext, A!RunNext

\* Both searches of the wait queue find what they look for, if it is there.
LEMMA Searches ==
    ASSUME HInv
    PROVE  /\ UnblockedAt # {} => FirstUnblocked \in UnblockedAt
           /\ ExtraAt # {} => NextExtra \in ExtraAt
           /\ UnblockedAt = {} <=> A!Favoured = {}
           /\ ExtraAt = {} <=> A!Extra = {}
           /\ \A i \in UnblockedAt : /\ pq.wait.q[i] \in A!Favoured
                                     /\ pq.wait.q[i] \in W
           /\ \A i \in ExtraAt : pq.wait.q[i] \in A!Extra /\ pq.wait.q[i] \in W
<1>1. pq["wait"].n \in Nat /\ next_optm \in Nat
  BY HeapFacts, SizeAssumption, FS_CardinalityType DEF HInv, Typed, Queues, Size
<1>2. UnblockedAt # {} => FirstUnblocked \in UnblockedAt
  <2>1. UnblockedAt \subseteq Nat
    BY DEF UnblockedAt
  <2> QED BY <2>1, LeastExists DEF FirstUnblocked
<1>3. ExtraAt # {} => NextExtra \in ExtraAt
  <2> SUFFICES ASSUME ExtraAt # {} PROVE NextExtra \in ExtraAt
    OBVIOUS
  <2> DEFINE T == {Visit(i) : i \in ExtraAt}
  <2>1. ASSUME NEW i \in ExtraAt PROVE Visit(i) \in Nat
    <3>1. i \in 1 .. pq["wait"].n
      BY DEF ExtraAt
    <3>2. Start \in 0 .. pq["wait"].n
      BY <1>1 DEF Start
    <3> QED BY <1>1, <3>1, <3>2 DEF Visit
  <2>2. T \subseteq Nat /\ T # {}
    BY <2>1
  <2>3. PICK m \in T : \A n \in T : m <= n
    <3> HIDE DEF T
    <3> QED BY <2>2, LeastExists
  <2>4. \E i \in ExtraAt : \A j \in ExtraAt : Visit(i) <= Visit(j)
    BY <2>3
  <2> QED BY <2>4 DEF NextExtra
<1>4. W = {pq.wait.q[i] : i \in 1 .. pq.wait.n}
  BY DEF W, Members
<1>5. /\ \A i \in UnblockedAt : pq.wait.q[i] \in A!Favoured /\ pq.wait.q[i] \in W
      /\ \A d \in A!Favoured : \E i \in UnblockedAt : pq.wait.q[i] = d
  BY <1>4 DEF UnblockedAt, A!Favoured, W
<1>6. /\ \A i \in ExtraAt : pq.wait.q[i] \in A!Extra /\ pq.wait.q[i] \in W
      /\ \A d \in A!Extra : \E i \in ExtraAt : pq.wait.q[i] = d
  BY <1>4 DEF ExtraAt, A!Extra, W
<1> QED BY <1>2, <1>3, <1>5, <1>6

\* The domain c is found where it is when it is to be descheduled.
LEMMA PickKeeps ==
    ASSUME HInv, pc' = "user", UNCHANGED <<pq, domq, sd, outevs, setqos>>,
           next_optm' \in Nat, NEW c \in Dom, c \in R \cup W,
           cur' = c, ran' = 0, schst' = [schst EXCEPT ![c] = "RUN"],
           c \in R => pq.run.n > 0 /\ pq.run.q[1] = c,
           sd[c].state = "wait" => /\ next_optm' \in 1 .. pq.wait.n
                                   /\ pq.wait.q[next_optm'] = c
                                   /\ sd[c].xtratime
    PROVE  HInv'
<1>1. /\ Typed /\ sd \in [Dom -> A!SDom] /\ schst \in [Dom -> A!SchSts]
      /\ Nemesis \in Dom /\ c # NoDom /\ Heaps(pq, Deadlines(sd))
  BY ContractAssumption DEF HInv, Typed
<1>2. A!Known(c) /\ sd[c].state # "block" /\ (sd[c].state = "run" => c \in R)
  BY Apart DEF HInv, Placed, Queues, R, QueueOf
<1>3. schst' \in [Dom -> A!SchSts]
  BY <1>1 DEF A!SchSts
<1>4. Typed' /\ Phased'
  BY <1>1, <1>3 DEF Typed, Phased, A!Phases, A!Outside
<1>5. ASSUME NEW e \in Dom
      PROVE  Placed(e)' /\ (A!Known(e)' <=> A!Known(e))
  <2>1. Placed(e) /\ Placed(c)
    BY DEF HInv
  <2>2. CASE e = c
    BY <1>1, <1>2, <2>1, <2>2 DEF Placed, A!Known, Asleep
  <2>3. CASE e # c
    BY <1>1, <2>1, <2>3 DEF Placed, A!Known, Asleep
  <2> QED BY <2>2, <2>3
<1>6. ASSUME NEW e \in Dom, A!Running(e)' PROVE Found(e)'
  <2>1. e = c
    BY <1>6 DEF A!Running
  <2> QED BY <1>2, <1>5, <2>1 DEF Found
<1>7. CursorInv'
  <2>1. A!Running(Nemesis)' => Nemesis = c
    BY DEF A!Running
  <2> QED BY <2>1 DEF HInv, CursorInv
<1> QED BY <1>1, <1>4, <1>5, <1>6, <1>7 DEF HInv

LEMMA PickStep == ASSUME HInv, Pick PROVE HInv' /\ A!Pick
<1>1. /\ Typed /\ Phased /\ sd \in [Dom -> A!SDom] /\ NoDom \notin Dom /\ Nemesis \in Dom
      /\ next_optm \in Nat /\ Heaps(pq, Deadlines(sd)) /\ \A d \in Dom : Placed(d)
  BY ContractAssumption DEF HInv, Typed
<1>2. /\ pc = "pick" /\ pc' = "user"
      /\ UNCHANGED <<pq, domq, sd, pending, outevs, setqos, due>>
  BY DEF Pick
<1>3. Cursor = NoDom
  BY <1>2 DEF Cursor, Optimistic
<1>4. R' = R /\ W' = W /\ B' = B
  BY <1>2 DEF R, W, B
<1>5. /\ pq["run"].n > 0 => /\ pq["run"].q[1] \in A!Heads(R)
                            /\ pq["run"].q[1] \in R /\ pq["run"].q[1] \in Dom
      /\ pq["run"].n = 0 => R = {}
      /\ ~ (pq["run"].n > 0) => pq["run"].n = 0
  BY HeadIs DEF R, Queues
<1>6. W \subseteq Dom /\ pq["wait"].n \in Nat
  BY Apart, <1>1, HeapFacts, SizeAssumption, FS_CardinalityType DEF Queues, Size
<1>7. ASSUME NEW c \in Dom, NEW t, RunNext(c, t), c \in R \cup W, next_optm' \in Nat,
             c \in R => pq.run.n > 0 /\ pq.run.q[1] = c,
             sd[c].state = "wait" => /\ next_optm' \in 1 .. pq.wait.n
                                     /\ pq.wait.q[next_optm'] = c
                                     /\ sd[c].xtratime
      PROVE  /\ HInv' /\ A!RunNext(c, t)
             /\ sd[c].state = "wait" => Cursor' = c
             /\ sd[c].state # "wait" => Cursor' = NoDom
  <2>1. /\ A!RunNext(c, t) /\ cur' = c /\ ran' = 0 /\ c # NoDom
        /\ schst' = [schst EXCEPT ![c] = "RUN"]
    BY <1>1, <1>7, RunNextIs DEF A!RunNext
  <2>2. HInv'
    BY <1>2, <1>7, <2>1, PickKeeps
  <2>3. Optimistic' <=> sd[c].state = "wait"
    BY <1>2, <2>1 DEF Optimistic
  <2>4. sd[c].state = "wait" => Cursor' = c
    BY <1>2, <1>7, <2>3 DEF Cursor
  <2>5. sd[c].state # "wait" => Cursor' = NoDom
    BY <2>3 DEF Cursor
  <2> QED BY <2>1, <2>2, <2>4, <2>5
<1>8. CASE pq.run.n > 0
  <2> DEFINE c == pq.run.q[1]
  <2>1. RunNext(c, sd[c].remain) /\ UNCHANGED next_optm
    BY <1>8 DEF Pick
  <2>2. c \in A!Heads(R) /\ c \in R /\ c \in Dom /\ sd[c].state = "run"
    BY <1>5, <1>8, Apart
  <2>3. HInv' /\ A!RunNext(c, sd[c].remain) /\ Cursor' = NoDom
    <3> HIDE DEF c
    <3>1. c \in R => pq.run.n > 0 /\ pq.run.q[1] = c
      BY <1>8 DEF c
    <3> QED BY <1>1, <1>7, <2>1, <2>2, <3>1
  <2> HIDE DEF c
  <2>4. A!Pick
    BY <1>2, <1>3, <1>4, <2>2, <2>3 DEF A!Pick, R, W, B, Cursor
  <2> QED BY <2>3, <2>4
<1>9. CASE pq.run.n = 0 /\ UnblockedAt # {}
  <2> DEFINE c == pq.wait.q[FirstUnblocked]
  <2>1. RunNext(c, sd[c].remain) /\ UNCHANGED next_optm
    BY <1>9 DEF Pick
  <2>2. c \in A!Favoured /\ c \in W /\ R = {}
    BY <1>5, <1>9, Searches
  <2>3. c \in Dom /\ sd[c].state = "unblocked"
    BY <1>6, <2>2 DEF A!Favoured
  <2> HIDE DEF c
  <2>4. HInv' /\ A!RunNext(c, sd[c].remain) /\ Cursor' = NoDom
    BY <1>1, <1>7, <2>1, <2>2, <2>3
  <2>5. A!Pick
    BY <1>2, <1>3, <1>4, <2>2, <2>4 DEF A!Pick, R, W, B, Cursor
  <2> QED BY <2>4, <2>5
<1>10. CASE pq.run.n = 0 /\ UnblockedAt = {} /\ ExtraAt # {}
  <2> DEFINE c == pq.wait.q[NextExtra]
  <2>1. next_optm' = NextExtra /\ RunNext(c, Quantum)
    BY <1>2, <1>10 DEF Pick
  <2>2. /\ c \in A!Extra /\ c \in W /\ R = {} /\ A!Favoured = {}
        /\ NextExtra \in ExtraAt
    BY <1>5, <1>10, Searches
  <2>3. c \in Dom /\ sd[c].xtratime /\ sd[c].state = "wait"
    <3>1. c \in Dom /\ sd[c].xtratime /\ sd[c].state \in A!States
      BY <1>1, <1>6, <2>2 DEF A!Extra, A!SDom
    <3>2. sd[c].state \notin {"run", "block"}
      BY <2>2, Apart
    <3>3. sd[c].state # "unblocked"
      BY <2>2 DEF A!Favoured, W
    <3> QED BY <3>1, <3>2, <3>3 DEF A!States
  <2>4. NextExtra \in 1 .. pq.wait.n /\ NextExtra \in Nat
    BY <2>2 DEF ExtraAt
  <2>5. HInv' /\ A!RunNext(c, Quantum) /\ Cursor' = c
    <3>1. pq.wait.q[next_optm'] = c
      BY <2>1
    <3> HIDE DEF c
    <3> QED BY <1>5, <1>7, <1>10, <2>1, <2>2, <2>3, <2>4, <3>1
  <2> HIDE DEF c
  <2>6. A!Pick
    BY <1>2, <1>4, <2>2, <2>5 DEF A!Pick, R, W, B, Cursor
  <2> QED BY <2>5, <2>6
<1>11. CASE pq.run.n = 0 /\ UnblockedAt = {} /\ ExtraAt = {}
  <2>1. /\ RunNext(NoDom, Forever)
        /\ next_optm' = IF pq.wait.n = 0 THEN next_optm
                        ELSE IF Start = 0 THEN pq.wait.n ELSE Start
    BY <1>11 DEF Pick
  <2>2. /\ cur' = NoDom /\ UNCHANGED <<ran, schst>>
        /\ alarm' = HeadTime("blocked", HeadTime("wait", Forever))
    BY <2>1 DEF RunNext
  <2>3. next_optm' \in Nat
    BY <1>1, <1>6, <2>1 DEF Start
  <2>4. alarm' = A!NextAlarm(Forever)
    BY <2>2, HeadTimeIs DEF A!NextAlarm, Queues
  <2>5. /\ Typed' /\ Phased' /\ Heaps(pq', Deadlines(sd'))
        /\ \A d \in Dom : Placed(d)' /\ ~A!Running(d)'
    BY <1>1, <1>2, <2>2, <2>3 DEF Typed, A!Phases, A!Outside, Phased, Placed,
       A!Known, Asleep, A!Running
  <2>6. CursorInv'
    BY <1>1, <1>2, <2>5 DEF HInv, CursorInv
  <2>7. Cursor' = NoDom
    BY <2>2 DEF Cursor, Optimistic
  <2>8. A!Favoured = {} /\ A!Extra = {} /\ R = {}
    BY <1>5, <1>11, Searches
  <2>9. A!Pick
    BY <1>2, <1>3, <1>4, <2>2, <2>4, <2>7, <2>8 DEF A!Pick, R, W, B, Cursor
  <2> QED BY <2>5, <2>6, <2>9 DEF HInv
<1> QED BY <1>5, <1>8, <1>9, <1>10, <1>11

-----------------------------------------------------------------------------
(* The domain manager, which the running system domain calls.              *)

\* A domain the scheduler does not know is on no queue.
LEMMA UnknownIsOff ==
    ASSUME HInv, NEW d \in Dom, ~A!Known(d) PROVE Off(pq, d)
<1>1. Heaps(pq, Deadlines(sd)) /\ \A k \in Queues : d \notin Members(pq[k])
  BY DEF HInv, Placed
<1> QED BY <1>1 DEF Off

LEMMA AddContractedStep ==
    ASSUME HInv, NEW d \in Dom, NEW q \in QoS[d], AddContracted(d, q)
    PROVE  HInv' /\ A!AddContracted(d, q)
<1> DEFINE new  == A!NewSDom(q)
           head == sd[pq.run.q[1]].deadline
           s    == IF pq.run.n > 0 /\ head >= new.deadline
                   THEN [new EXCEPT !.deadline = head + 1] ELSE new
<1>1. /\ A!Executing /\ cur = Nemesis /\ schst[d] = "STOPPED"
      /\ Move(d, s, "RUN", pq) /\ due' = [due EXCEPT ![d] = q.s]
      /\ UNCHANGED <<next_optm, pc, cur, ran, alarm, domq, pending, outevs, setqos>>
  BY DEF AddContracted
<1>2. /\ Typed /\ Phased /\ sd \in [Dom -> A!SDom] /\ schst \in [Dom -> A!SchSts]
      /\ Heaps(pq, Deadlines(sd)) /\ Nemesis \in Dom /\ Nemesis # NoDom
      /\ A!Running(Nemesis) /\ Found(Nemesis) /\ ~A!Known(d) /\ d # Nemesis
      /\ \A e \in Dom : sd[e].deadline \in Int
  <2>1. /\ Nemesis \in Dom /\ Nemesis # NoDom /\ A!Running(Nemesis) /\ ~A!Known(d)
    BY <1>1, ContractAssumption DEF A!Executing, A!Running, A!Known
  <2>2. Found(Nemesis)
    BY <2>1 DEF HInv
  <2>3. A!Known(Nemesis)
    BY <2>2 DEF Found
  <2> QED BY <2>1, <2>2, <2>3, DeadlinesType DEF HInv, Typed
<1>3. q.p \in Int /\ new \in A!SDom /\ new.deadline = q.p /\ new.state = "run"
      /\ ([new EXCEPT !.deadline = head + 1] = [A!NewSDom(q) EXCEPT !.deadline = head + 1])
  <2>1. q \in A!Contract
    BY ContractAssumption
  <2> QED BY <2>1, NewSDomType DEF A!Contract, A!NewSDom
<1>4. /\ pq["run"].n > 0 => /\ pq["run"].q[1] \in A!Heads(R)
                            /\ pq["run"].q[1] \in Dom
      /\ pq["run"].n = 0 => R = {}
      /\ ~ (pq["run"].n > 0) => pq["run"].n = 0
  BY HeadIs DEF R, Queues
<1> HIDE DEF new
\* The newcomer goes behind the head of the run queue.
<1>5. /\ s \in A!SDom /\ s.state = "run"
      /\ pq["run"].n > 0 => head <= s.deadline
  <2>1. CASE pq["run"].n > 0 /\ head >= new.deadline
    <3>1. head \in Int /\ s = [new EXCEPT !.deadline = head + 1]
      BY <1>2, <1>4, <2>1
    <3> HIDE DEF s, head
    <3>2. s \in A!SDom /\ s.state = "run" /\ s.deadline = head + 1
      BY <1>3, <3>1 DEF A!SDom
    <3> QED BY <3>1, <3>2
  <2>2. CASE ~ (pq["run"].n > 0 /\ head >= new.deadline)
    <3>1. s = new
      BY <2>2
    <3>2. pq["run"].n > 0 => head \in Int
      BY <1>2, <1>4
    <3> HIDE DEF s, head
    <3> QED BY <1>3, <2>2, <3>1, <3>2
  <2> QED BY <2>1, <2>2
<1>6. s = IF A!Displaces(q.p)
          THEN [A!NewSDom(q) EXCEPT !.deadline = sd[A!HeadOf(R)].deadline + 1]
          ELSE A!NewSDom(q)
  <2>1. CASE pq["run"].n > 0
    <3> DEFINE g == pq["run"].q[1]
    <3>1. g \in A!Heads(R) /\ A!HeadOf(R) \in A!Heads(R) /\ R \subseteq Dom
      BY <1>4, <2>1, Apart DEF A!HeadOf
    <3>2. \A h \in A!Heads(R) : sd[h].deadline = sd[g].deadline
      <4>1. SUFFICES ASSUME NEW h \in A!Heads(R)
                     PROVE  sd[h].deadline = sd[g].deadline
        OBVIOUS
      <4>2. /\ sd[g].deadline <= sd[h].deadline /\ sd[h].deadline <= sd[g].deadline
            /\ g \in Dom /\ h \in Dom
        BY <3>1 DEF A!Heads
      <4> HIDE DEF g
      <4> QED BY <1>2, <4>2
    <3>3. A!Displaces(q.p) <=> sd[g].deadline >= q.p
      BY <3>1, <3>2 DEF A!Displaces, R
    <3>4. sd[A!HeadOf(R)].deadline = head
      BY <3>1, <3>2
    <3>5. A!NewSDom(q) = new
      BY DEF new
    <3> QED BY <1>3, <2>1, <3>3, <3>4, <3>5
  <2>2. CASE ~ (pq["run"].n > 0)
    <3>1. ~A!Displaces(q.p)
      BY <1>4, <2>2 DEF A!Displaces, A!Heads, R
    <3> QED BY <2>2, <3>1 DEF new
  <2> QED BY <2>1, <2>2
<1> HIDE DEF s
<1>7. Off(pq, d) /\ Queued("RUN") /\ QueueOf(s) = "run"
  BY <1>2, <1>5, UnknownIsOff DEF Queued, A!SchSts, QueueOf
<1>8. /\ Moved(d, s, pq)
      /\ sd' \in [Dom -> A!SDom] /\ schst' \in [Dom -> A!SchSts]
      /\ \A e \in Dom : Placed(e)'
  BY <1>1, <1>5, <1>7, MovePlaces
<1>9. /\ Heaps(pq', Deadlines(sd'))
      /\ R' = R \cup {d} /\ W' = W \ {d} /\ B' = B \ {d}
      /\ pq["run"].n > 0 => pq'["run"].q[1] = pq["run"].q[1]
      /\ pq'["wait"] = pq["wait"]
  BY <1>5, <1>7, <1>8 DEF Moved, Queues, R, W, B
<1>10. d \notin W /\ d \notin B
  BY <1>2, Apart
<1>11. sd' = [sd EXCEPT ![d] = s] /\ schst' = [schst EXCEPT ![d] = "RUN"]
  BY <1>1 DEF Move
<1>12. sd'[Nemesis] = sd[Nemesis] /\ schst'[Nemesis] = schst[Nemesis]
  BY <1>2, <1>11
<1>13. Found(Nemesis)'
  <2>1. ASSUME sd[Nemesis].state = "run"
        PROVE  pq'["run"].n > 0 /\ pq'["run"].q[1] = Nemesis
    <3>1. pq["run"].n > 0 /\ pq["run"].q[1] = Nemesis /\ pq["run"].q[1] \in R
      BY <1>2, <2>1, HeadIs DEF Found, R, Queues
    <3>2. Nemesis \in Members(pq'["run"])
      BY <1>9, <3>1 DEF R
    <3>3. pq'["run"].n \in 0 .. Size
      BY <1>9, HeapFacts DEF Queues
    <3>4. pq'["run"].n # 0
      BY <3>2 DEF Members
    <3> QED BY <1>9, <3>1, <3>3, <3>4
  <2> QED BY <1>1, <1>2, <1>9, <1>12, <2>1 DEF Found, A!Known
<1>14. HInv'
  <2>1. Typed' /\ Phased'
    BY <1>1, <1>2, <1>8 DEF Typed, Phased
  <2>2. \A e \in Dom : A!Running(e)' => e = Nemesis
    BY <1>1 DEF A!Running
  <2>3. CursorInv'
    BY <1>1, <1>2, <1>12 DEF HInv, CursorInv, A!Running
  <2> QED BY <1>8, <1>9, <1>13, <2>1, <2>2, <2>3 DEF HInv
<1>15. Cursor' = Cursor
  BY <1>1, <1>9, <1>12 DEF Cursor, Optimistic
<1>16. A!AddContracted(d, q)
  <2>1. W' = W /\ B' = B
    BY <1>9, <1>10
  <2> QED BY <1>1, <1>6, <1>9, <1>11, <1>15, <2>1 DEF A!AddContracted, R, W, B, Cursor
<1> QED BY <1>14, <1>16

LEMMA StopDomainStep ==
    ASSUME HInv, NEW d \in Dom, NEW final \in {"STOPPED", "DYING"},
           StopDomain(d, final)
    PROVE  HInv' /\ A!StopDomain(d, final)
<1>1. /\ A!Executing /\ cur = Nemesis /\ d \in Removable /\ schst[d] # "DYING"
      /\ pq' = IF schst[d] = "STOPPED" THEN pq ELSE sdomq_delete(QueueOf(sd[d]), d)
      /\ schst' = [schst EXCEPT ![d] = final]
      /\ UNCHANGED <<next_optm, pc, cur, ran, alarm, domq, sd, pending, outevs,
                     setqos, due>>
  BY DEF StopDomain
<1>2. /\ Typed /\ Phased /\ sd \in [Dom -> A!SDom] /\ schst \in [Dom -> A!SchSts]
      /\ Heaps(pq, Deadlines(sd)) /\ Nemesis \in Dom /\ Nemesis # NoDom
      /\ A!Running(Nemesis) /\ Found(Nemesis) /\ d # Nemesis
      /\ sd[Nemesis].state # "wait"
  <2>1. /\ Nemesis \in Dom /\ Nemesis # NoDom /\ A!Running(Nemesis) /\ d # Nemesis
        /\ Removable # {}
    BY <1>1, ContractAssumption DEF A!Executing, A!Running
  <2> QED BY <2>1 DEF HInv, Typed, CursorInv
\* What is deleted is d, in the middle of the run queue if it is on that.
<1>3. /\ Off(pq', d)
      /\ sd[Nemesis].state = "run" => /\ pq["run"].n > 0 /\ pq["run"].q[1] = Nemesis
                                      /\ pq'["run"].q[1] = Nemesis
  <2>1. sd[Nemesis].state = "run" => pq["run"].n > 0 /\ pq["run"].q[1] = Nemesis
    BY <1>2 DEF Found
  <2>2. CASE schst[d] = "STOPPED"
    BY <1>1, <2>1, <2>2, UnknownIsOff DEF A!Known
  <2>3. CASE schst[d] # "STOPPED"
    <3> DEFINE k == QueueOf(sd[d])
               At(i) == pq[k].q[i] = d /\ \A j \in 1 .. (i - 1) : pq[k].q[j] # d
               i == CHOOSE i \in 1 .. pq[k].n : At(i)
    <3>1. k \in Queues /\ A!Known(d)
      BY <1>1, <2>3 DEF QueueOf, Queues, A!Known
    <3>2. d \in Members(pq[k])
      BY <3>1 DEF HInv, Placed
    <3>3. pq' = DeleteAt(pq, k, i)
      BY <1>1, <2>3, <3>2 DEF sdomq_delete
    <3> HIDE DEF k
    <3>4. /\ pq.ix[d] \in 1 .. pq[k].n /\ pq[k].q[pq.ix[d]] = d /\ pq[k].n \in Nat
          /\ \A j \in 1 .. pq[k].n : pq.ix[pq[k].q[j]] = j
      BY <1>2, <3>1, <3>2, HeapFacts, SizeAssumption, FS_CardinalityType DEF Size
    <3>5. At(pq.ix[d])
      BY <3>4
    <3>6. i \in 1 .. pq[k].n /\ At(i)
      BY <3>4, <3>5
    <3> HIDE DEF i
    <3>7. /\ Off(DeleteAt(pq, k, i), d)
          /\ i # 1 => DeleteAt(pq, k, i)[k].q[1] = pq[k].q[1]
          /\ \A j \in Queues : j # k => DeleteAt(pq, k, i)[j] = pq[j]
      BY <1>2, <3>1, <3>6, SlotTaken
    <3>8. ASSUME sd[Nemesis].state = "run" PROVE pq'["run"].q[1] = Nemesis
      <4>1. k = "run" => i # 1
        BY <1>2, <2>1, <3>6, <3>8
      <4> QED BY <2>1, <3>3, <3>7, <3>8, <4>1 DEF Queues
    <3> QED BY <2>1, <3>3, <3>7, <3>8
  <2> QED BY <2>2, <2>3
<1>4. Heaps(pq', Deadlines(sd')) /\ R' = R \ {d} /\ W' = W \ {d} /\ B' = B \ {d}
  BY <1>1, <1>3 DEF Off, Queues, R, W, B
<1>5. ASSUME NEW e \in Dom PROVE Placed(e)'
  <2>1. CASE e = d
    <3>1. ~A!Known(d)' /\ \A k \in Queues : d \notin Members(pq'[k])
      BY <1>1, <1>2, <1>3 DEF A!Known, Off
    <3> QED BY <2>1, <3>1 DEF Placed
  <2>2. CASE e # d
    <3>1. /\ (A!Known(e)' <=> A!Known(e)) /\ (Asleep(e)' <=> Asleep(e))
          /\ \A k \in Queues : e \in Members(pq'[k]) <=> e \in Members(pq[k])
      BY <1>1, <1>2, <1>3, <2>2 DEF A!Known, Asleep, Off
    <3>2. Placed(e)
      BY DEF HInv
    <3> QED BY <1>1, <3>1, <3>2 DEF Placed
  <2> QED BY <2>1, <2>2
<1>6. Found(Nemesis)'
  <2>1. schst'[Nemesis] = schst[Nemesis]
    BY <1>1, <1>2
  <2>2. ASSUME sd[Nemesis].state = "run" PROVE pq'["run"].n > 0
    <3>1. Nemesis \in R
      BY <1>3, <2>2, HeadIs DEF R, Queues
    <3>2. Nemesis \in Members(pq'["run"])
      BY <1>2, <1>4, <3>1 DEF R
    <3>3. pq'["run"].n \in 0 .. Size
      BY <1>4, HeapFacts DEF Queues
    <3>4. pq'["run"].n # 0
      BY <3>2 DEF Members
    <3> QED BY <3>3, <3>4
  <2> QED BY <1>1, <1>2, <1>3, <2>1, <2>2 DEF Found, A!Known
<1>7. HInv'
  <2>1. schst' \in [Dom -> A!SchSts]
    BY <1>1, <1>2 DEF A!SchSts
  <2>2. Typed' /\ Phased'
    BY <1>1, <1>2, <2>1 DEF Typed, Phased
  <2>3. \A e \in Dom : A!Running(e)' => e = Nemesis
    BY <1>1 DEF A!Running
  <2>4. CursorInv'
    BY <1>1, <1>2 DEF HInv, CursorInv, A!Running
  <2> QED BY <1>4, <1>5, <1>6, <2>2, <2>3, <2>4 DEF HInv
<1>8. Cursor = NoDom /\ Cursor' = NoDom
  BY <1>1, <1>2 DEF Cursor, Optimistic
<1>9. A!StopDomain(d, final)
  <2>1. CASE schst[d] = "STOPPED"
    <3>1. R' = R /\ W' = W /\ B' = B
      BY <1>1, <2>1 DEF R, W, B
    <3> QED BY <1>1, <1>8, <2>1, <3>1 DEF A!StopDomain, A!queues, R, W, B, Cursor
  <2>2. CASE schst[d] # "STOPPED"
    <3>1. /\ d \in R => sd[d].state = "run"
          /\ d \in B => sd[d].state = "block"
          /\ d \in W => sd[d].state \notin {"run", "block"}
          /\ sd[d].state \in A!States
      BY <1>2, Apart DEF A!SDom
    <3>2. A!TakeOff(d)
      <4>1. R' = IF sd[d].state = "run" THEN R \ {d} ELSE R
        BY <1>4, <3>1
      <4>2. B' = IF sd[d].state = "block" THEN B \ {d} ELSE B
        BY <1>4, <3>1
      <4>3. /\ sd[d].state \in {"wait", "unblocked"} => W' = W \ {d}
            /\ sd[d].state \notin {"wait", "unblocked"} => W' = W
        BY <1>4, <3>1 DEF A!States
      <4> QED BY <1>8, <4>1, <4>2, <4>3 DEF A!TakeOff, R, W, B, Cursor
    <3> QED BY <1>1, <2>2, <3>2 DEF A!StopDomain
  <2> QED BY <2>1, <2>2
<1> QED BY <1>7, <1>9

-----------------------------------------------------------------------------
(* The initial state, every step, and the theorems.                        *)

LEMMA InitStep == ASSUME Init, CursorSafe PROVE HInv /\ A!Init
<1> DEFINE e0 == [d \in Dom |-> 0]
           h0 == [n |-> 0, q |-> Empty.q, ix |-> e0]
           p0 == [run |-> Empty, wait |-> Empty, blocked |-> Empty, ix |-> e0]
           v  == Deadlines(sd)
           h  == PQInsert(h0, Nemesis, v)
<1>1. PICK q \in QoS[Nemesis] :
         sd = [d \in Dom |-> A!NewSDom(IF d = Nemesis THEN q ELSE A!Unset)]
  BY DEF Init
<1>2. /\ next_optm = 0 /\ pq = Put(p0, "run", h)
      /\ pc = "boot" /\ cur = Nemesis /\ ran = 0 /\ alarm = sd[Nemesis].deadline
      /\ domq = <<>>
      /\ schst = [d \in Dom |-> IF d = Nemesis THEN "RUN" ELSE "STOPPED"]
      /\ pending = [d \in Dom |-> FALSE] /\ outevs = [d \in Dom |-> <<>>]
      /\ setqos = A!NoCall /\ due = [d \in Dom |-> sd[d].slice]
  BY DEF Init
<1>3. /\ Nemesis \in Dom /\ NoDom \notin Dom /\ q \in A!Contract
      /\ Size \in Nat /\ \A d \in Dom : (IF d = Nemesis THEN q ELSE A!Unset) \in A!Contract
  BY ContractAssumption, UnsetType, SizeAssumption, FS_CardinalityType DEF Size
<1>4. /\ sd \in [Dom -> A!SDom] /\ \A d \in Dom : sd[d].state = "run"
      /\ sd[Nemesis].xtratime = q.x
  <2>1. \A r \in A!Contract : A!NewSDom(r) \in A!SDom /\ A!NewSDom(r).state = "run"
                              /\ A!NewSDom(r).xtratime = r.x
    BY NewSDomType DEF A!NewSDom
  <2> QED BY <1>1, <1>3, <2>1
<1>5. v \in [Dom -> Int]
  BY <1>4, DeadlinesType
<1> HIDE DEF v
\* Empty queues.
<1>6. Heaps(p0, v) /\ Heap(p0, "run") = h0 /\ \A k \in Queues : Members(p0[k]) = {}
  <2>1. \A k \in Queues : p0[k] = Empty
    BY DEF Queues
  <2>2. p0.ix = e0 /\ IsRecord(p0)
    BY DEF IsRecord, Fields, Queues
  <2>3. /\ h0.n = 0 /\ h0.q = Empty.q /\ h0.ix = e0 /\ Empty.n = 0
        /\ Empty.q = [i \in 1 .. Size |-> NoDom]
    BY DEF Empty, Size
  <2> HIDE DEF p0
  <2>4. ASSUME NEW k \in Queues PROVE Heap(p0, k) = h0 /\ Members(p0[k]) = {}
    <3>1. p0[k].n = 0 /\ p0[k].q = Empty.q
      BY <2>1, <2>3
    <3>2. Heap(p0, k) = h0
      BY <2>2, <3>1 DEF Heap
    <3>3. 1 .. p0[k].n = {}
      BY <3>1
    <3>4. Members(p0[k]) = {}
      BY <3>3 DEF Members
    <3> QED BY <3>2, <3>4
  <2>5. IsHeap(h0, v, Dom, Slot, Size)
    <3>1. h0.q \in [1 .. Size -> Slot] /\ h0.ix \in [Dom -> Nat] /\ h0.n \in 0 .. Size
      BY <1>3, <2>3 DEF Slot
    <3>2. QueueType(h0, Dom, Slot, Size)
      BY <3>1 DEF QueueType
    <3>3. Indexed(h0, Dom, 1 .. h0.n) /\ Ordered(h0, v)
      BY <2>3 DEF Indexed, Ordered
    <3> QED BY <3>2, <3>3 DEF IsHeap
  <2>6. "run" \in Queues
    BY DEF Queues
  <2> QED BY <2>2, <2>4, <2>5, <2>6 DEF Heaps
\* The system domain is put on the first one.
<1>7. With(h0, Nemesis, h, v, Dom, Slot, Size)
  <2>1. "run" \in Queues /\ p0["run"].n = h0.n /\ Members(h0) = {}
    BY DEF Queues, Empty, Members
  <2> HIDE DEF p0, h0
  <2>2. h0.n < Size
    BY <1>3, <1>6, <2>1, RoomFor
  <2>3. IsHeap(h0, v, Dom, Slot, Size)
    BY <1>6, <2>1 DEF Heaps
  <2>4. Dom \in SUBSET Slot
    BY DEF Slot
  <2> QED BY <1>3, <1>5, <2>1, <2>2, <2>3, <2>4, PQInsertIs
<1>8. Members(h0) = {} /\ h0.n = 0
  BY DEF Members
<1> HIDE DEF h, h0
<1>9. IsHeap(h, v, Dom, Slot, Size) /\ Members(h) = {Nemesis} /\ h.n = 1
  BY <1>7, <1>8 DEF With
<1>10. Heaps(pq, v) /\ R = {Nemesis} /\ W = {} /\ B = {}
  <2>1. "run" \in Queues /\ "wait" \in Queues /\ "blocked" \in Queues
    BY DEF Queues
  <2> HIDE DEF p0
  <2>2. \A j \in Queues \ {"run"} :
           /\ Members(h) \cap Members(p0[j]) = {}
           /\ \A x \in Members(p0[j]) : h.ix[x] = p0.ix[x]
    BY <1>6
  <2>3. Heaps(Put(p0, "run", h), v)
    BY <1>6, <1>9, <2>1, <2>2, PutKeeps
  <2>4. IsRecord(p0)
    BY <1>6 DEF Heaps
  <2>5. /\ pq["run"] = [n |-> h.n, q |-> h.q]
        /\ \A j \in Queues : j # "run" => pq[j] = p0[j]
    BY <1>2, <2>1, <2>4, PutIs
  <2>6. R = {Nemesis}
    BY <1>9, <2>5 DEF R, Members
  <2>7. W = {} /\ B = {}
    BY <1>6, <2>1, <2>5 DEF W, B
  <2> QED BY <1>2, <2>3, <2>6, <2>7
<1>11. pq["run"].n > 0 /\ pq["run"].q[1] = Nemesis
  <2>1. pq["run"].n \in 0 .. Size
        /\ \A i \in 1 .. pq["run"].n : pq["run"].q[i] \in R
    BY <1>10, HeapFacts DEF Queues, R
  <2>2. pq["run"].n # 0
    BY <1>10 DEF R, Members
  <2>3. 1 \in 1 .. pq["run"].n
    BY <1>3, <2>1, <2>2
  <2> QED BY <1>10, <2>1, <2>3
<1>12. Typed /\ Phased
  <2>1. setqos \in [by : Dom \cup {NoDom}, dom : Dom, qos : A!Contract, left : 0 .. 3]
    BY <1>2, <1>3, UnsetType DEF A!NoCall
  <2>2. schst \in [Dom -> A!SchSts]
    BY <1>2 DEF A!SchSts
  <2>3. domq \in Seq(Dom) /\ outevs \in [Dom -> Seq(Dom)]
    BY <1>2
  <2> QED BY <1>2, <1>3, <1>4, <2>1, <2>2, <2>3 DEF Typed, Phased, A!Phases, A!Outside
<1>13. ASSUME NEW d \in Dom PROVE Placed(d) /\ (A!Running(d) => Found(d))
  <2>1. A!Known(d) <=> d = Nemesis
    BY <1>2 DEF A!Known
  <2>2. sd[d].state = "run" /\ QueueOf(sd[d]) = "run" /\ ~Asleep(d)
    BY <1>2, <1>4 DEF QueueOf, Asleep
  <2>3. Placed(d)
    BY <1>10, <2>1, <2>2 DEF Placed, Queues, R, W, B
  <2>4. A!Running(d) => d = Nemesis
    BY <1>2 DEF A!Running
  <2> QED BY <1>11, <2>1, <2>2, <2>3, <2>4 DEF Found
<1>14. CursorInv
  <2>1. Removable # {} => ~q.x
    BY DEF CursorSafe
  <2>2. ~setqos.qos.x
    BY <1>2 DEF A!NoCall, A!Unset
  <2> QED BY <1>3, <1>4, <2>1, <2>2 DEF CursorInv
<1>15. HInv
  BY <1>10, <1>12, <1>13, <1>14 DEF HInv, v
<1>16. A!Init
  <2>1. Cursor = NoDom
    BY <1>2, <1>3, <1>4 DEF Cursor, Optimistic
  <2> QED BY <1>1, <1>2, <1>10, <2>1 DEF A!Init, R, W, B, Cursor
<1> QED BY <1>15, <1>16

\* What leaves the queues alone is a step of Atropos as it is.
LEMMA ElsewhereIsNext == ASSUME Elsewhere PROVE A!Next
<1>1. CASE A!Tick
  BY <1>1 DEF A!Next
<1>2. CASE A!TakeEvents
  BY <1>2 DEF A!Next, A!User
<1>3. CASE A!Yield
  BY <1>3 DEF A!Next, A!User
<1>4. CASE A!SetQoSStore
  BY <1>4 DEF A!Next
<1>5. CASE A!DrainDone
  BY <1>5 DEF A!Next, A!Pass
<1>6. CASE \E d \in Dom : A!PushEvent(d)
  BY <1>6 DEF A!Next, A!User
<1>7. CASE \E d \in Dom, put \in BOOLEAN : A!Interrupt(d, put)
  BY <1>7 DEF A!Next
<1>8. CASE \E d \in Dom, put \in BOOLEAN : A!SyscallSend(d, put)
  BY <1>8 DEF A!Next, A!User
<1>9. CASE \E put \in BOOLEAN : A!Deliver(put)
  BY <1>9 DEF A!Next, A!Pass
<1>10. CASE \E t \in Timeouts : A!Block(t)
  BY <1>10 DEF A!Next, A!User
<1>11. CASE \E d \in Dom : \E q \in QoS[d] : A!SetQoS(d, q)
  BY <1>11 DEF A!Next, A!User
<1> QED BY <1>1, <1>2, <1>3, <1>4, <1>5, <1>6, <1>7, <1>8, <1>9, <1>10, <1>11
        DEF Elsewhere

LEMMA QuietStep ==
    ASSUME CursorSafe, HInv, Quiet PROVE HInv' /\ [A!Next]_(A!vars)
<1>1. CASE Elsewhere
  BY <1>1, ElsewhereIsNext, QuietKeeps
<1>2. CASE AllocDone \/ ExpireDone
  <2>1. A!AllocDone \/ A!ExpireDone
    BY <1>2, LoopsEnd
  <2>2. A!Next
    BY <2>1 DEF A!Next, A!Pass
  <2> QED BY <2>2, QuietKeeps
<1>3. CASE UNCHANGED vars
  <2>1. Cursor' = Cursor
    BY <1>3 DEF Cursor, Optimistic, vars, heaps, common
  <2>2. UNCHANGED A!vars
    BY <1>3, <2>1 DEF A!vars, A!queues, vars, heaps, common, Cursor
  <2> QED BY <2>2, QuietKeeps
<1> QED BY <1>1, <1>2, <1>3 DEF Quiet

LEMMA NextStep ==
    CursorSafe /\ HInv /\ [Next]_vars => HInv' /\ [A!Next]_(A!vars)
<1> SUFFICES ASSUME CursorSafe, HInv, [Next]_vars
             PROVE  HInv' /\ [A!Next]_(A!vars)
  OBVIOUS
<1>1. CASE Quiet
  BY <1>1, QuietStep
<1>2. CASE Deschedule \/ Allocate \/ Drain \/ Expire \/ Pick
  BY <1>2, DescheduleStep, AllocateStep, DrainStep, ExpireStep, PickStep
     DEF A!Next, A!Pass
<1>3. ASSUME NEW d \in Dom, NEW q \in QoS[d], AddContracted(d, q)
      PROVE  HInv' /\ A!Next
  BY <1>3, AddContractedStep DEF A!Next, A!User
<1>4. ASSUME NEW d \in Dom, NEW final \in {"STOPPED", "DYING"}, StopDomain(d, final)
      PROVE  HInv' /\ A!Next
  BY <1>4, StopDomainStep DEF A!Next, A!User
<1>5. CASE Manager
  BY <1>3, <1>4, <1>5 DEF Manager
<1> QED BY <1>1, <1>2, <1>5 DEF Next, Pass, Quiet

LEMMA HInvHolds == ASSUME CursorSafe PROVE Spec => []HInv
<1>1. Init => HInv
  BY InitStep
<1>2. HInv /\ [Next]_vars => HInv'
  BY NextStep
<1> QED BY <1>1, <1>2, PTL DEF Spec

\* Whatever the domains do, a domain the scheduler knows is in one slot of the
\* array its sdom's state names, the slot its index field records, and in no
\* other; one it does not know is in none (atropos.c with the macros of
\* pqueues.h).  As for QueuesSound, the system domain has no extra time or no
\* domain is ever stopped.
THEOREM ArraysSound == ASSUME CursorSafe PROVE Spec => []HeapsIndexed
<1>1. HInv => HeapsIndexed
  <2> SUFFICES ASSUME HInv, NEW d \in Dom, NEW k \in Queues
               PROVE  {i \in 1 .. pq[k].n : pq[k].q[i] = d} =
                         IF A!Known(d) /\ QueueOf(sd[d]) = k THEN {pq.ix[d]} ELSE {}
    BY DEF HeapsIndexed, Queues
  <2>1. /\ \A i \in 1 .. pq[k].n : /\ pq.ix[pq[k].q[i]] = i
                                  /\ pq[k].q[i] \in Members(pq[k])
        /\ \A e \in Members(pq[k]) : pq.ix[e] \in 1 .. pq[k].n /\ pq[k].q[pq.ix[e]] = e
    BY HeapFacts DEF HInv
  <2>2. d \in Members(pq[k]) <=> A!Known(d) /\ QueueOf(sd[d]) = k
    BY DEF HInv, Placed
  <2> QED BY <2>1, <2>2
<1> QED BY <1>1, HInvHolds, PTL

\* The scheduler with its array heaps, index fields and cursor is the scheduler
\* of Atropos, whose queues are sets that give up a member of least deadline.
THEOREM AtroposImplemented == ASSUME CursorSafe PROVE Spec => ImplementsAtropos
<1>1. Init => A!Init
  BY InitStep
<1>2. HInv /\ [Next]_vars => [A!Next]_(A!vars)
  BY NextStep
<1> QED BY <1>1, <1>2, HInvHolds, PTL DEF Spec, ImplementsAtropos, A!Spec

\* While a domain is charged for a stay on the wait queue, next_optm is its
\* position there, however the queue has been rearranged since it was picked
\* (the comment at atropos.c:409-413).
THEOREM CursorSound == ASSUME CursorSafe PROVE Spec => []NextOptmIsRunning
<1>1. HInv => NextOptmIsRunning
  BY DEF HInv, Typed, NextOptmIsRunning, Optimistic, A!Running, A!Outside, Found
<1> QED BY <1>1, HInvHolds, PTL
=============================================================================
