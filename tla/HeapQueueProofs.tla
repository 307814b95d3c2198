--------------------------- MODULE HeapQueueProofs --------------------------
(***************************************************************************)
(* The heap is the queue its users take it for, whatever the number of its *)
(* elements, their values and the history of insertions and deletions.     *)
(***************************************************************************)
EXTENDS HeapQueue, PQueueProofs

\* The inductive invariant: the heap is one, and holds content; its elements
\* are as many as those of content, so that there is a slot for each element
\* that may be put in.
HeapInv ==
    /\ val \in [Elem -> Int] /\ content \subseteq Elem
    /\ IsHeap(heap, val, Elem, Elem \cup {Null}, Size)
    /\ Members(heap) = content /\ heap.n = Cardinality(content)

LEMMA ContentSize ==
    ASSUME content \subseteq Elem
    PROVE  /\ Size \in Nat /\ IsFiniteSet(content)
           /\ \A e \in Elem \ content :
                 /\ Cardinality(content) < Size
                 /\ Cardinality(content \cup {e}) = Cardinality(content) + 1
           /\ \A e \in content :
                 Cardinality(content \ {e}) = Cardinality(content) - 1
<1>1. Size \in Nat /\ IsFiniteSet(content) /\ Cardinality(content) \in Nat
  BY ElemAssumption, FS_CardinalityType, FS_Subset DEF Size
<1>2. ASSUME NEW e \in Elem \ content
      PROVE  /\ Cardinality(content) < Size
             /\ Cardinality(content \cup {e}) = Cardinality(content) + 1
  <2>1. Cardinality(content \cup {e}) = Cardinality(content) + 1
    BY <1>1, <1>2, FS_AddElement
  <2>2. content \cup {e} \in SUBSET Elem
    BY <1>2
  <2>3. Cardinality(content \cup {e}) <= Cardinality(Elem)
    BY <2>2, ElemAssumption, FS_Subset
  <2> QED BY <1>1, <2>1, <2>3 DEF Size
<1>3. ASSUME NEW e \in content
      PROVE  Cardinality(content \ {e}) = Cardinality(content) - 1
  BY <1>1, <1>3, FS_RemoveElement
<1> QED BY <1>1, <1>2, <1>3

LEMMA InitHeap == Init => HeapInv
<1> SUFFICES ASSUME Init PROVE HeapInv
  OBVIOUS
<1>1. content = {} /\ Size \in Nat /\ Cardinality({}) = 0
  BY ContentSize, FS_EmptySet DEF Init
<1>2. /\ heap.n = 0 /\ heap.q = [i \in 1 .. Size |-> Null]
      /\ heap.ix = [e \in Elem |-> 0] /\ val = [e \in Elem |-> 0]
      /\ heap = [n |-> heap.n, q |-> heap.q, ix |-> heap.ix]
  BY DEF Init
<1>3. QueueType(heap, Elem, Elem \cup {Null}, Size)
  <2>1. /\ heap.n \in 0 .. Size /\ heap.q \in [1 .. Size -> Elem \cup {Null}]
        /\ heap.ix \in [Elem -> Nat]
    BY <1>1, <1>2
  <2> QED BY <1>2, <2>1 DEF QueueType
<1>4. Members(heap) = {} /\ Indexed(heap, Elem, 1 .. heap.n) /\ Ordered(heap, val)
  BY <1>2 DEF Members, Indexed, Ordered
<1> QED BY <1>1, <1>2, <1>3, <1>4 DEF HeapInv, IsHeap

LEMMA InsertHeap ==
    ASSUME HeapInv, NEW e \in Elem, NEW v \in Vals, Insert(e, v)
    PROVE  HeapInv'
<1> DEFINE N == Elem \cup {Null}
<1>1. /\ e \notin content /\ val' = [val EXCEPT ![e] = v]
      /\ heap' = PQInsert(heap, e, val') /\ content' = content \cup {e}
  BY DEF Insert
<1>2. /\ val \in [Elem -> Int] /\ content \subseteq Elem /\ Members(heap) = content
      /\ heap.n = Cardinality(content) /\ IsHeap(heap, val, Elem, N, Size)
  BY DEF HeapInv
<1>3. val' \in [Elem -> Int] /\ \A x \in content : val'[x] = val[x]
  BY <1>1, <1>2, ValsAssumption
<1>4. IsHeap(heap, val', Elem, N, Size)
  BY <1>2, <1>3, IsHeapFor
<1>5. /\ Size \in Nat /\ heap.n < Size
      /\ Cardinality(content') = Cardinality(content) + 1
  BY <1>1, <1>2, ContentSize
<1>6. /\ IsHeap(heap', val', Elem, N, Size) /\ heap'.n = heap.n + 1
      /\ Members(heap') = Members(heap) \cup {e}
  <2>1. Elem \in SUBSET N /\ e \notin Members(heap)
    BY <1>1, <1>2
  <2> HIDE DEF N
  <2>2. With(heap, e, heap', val', Elem, N, Size)
    BY <1>1, <1>3, <1>4, <1>5, <2>1, PQInsertIs
  <2> QED BY <2>2 DEF With
<1> QED BY <1>1, <1>2, <1>3, <1>5, <1>6 DEF HeapInv

\* Taking out what is in slot k.
LEMMA TakeHeap ==
    ASSUME HeapInv, NEW k \in 1 .. heap.n, NEW h,
           Without(heap, k, h, val, Elem, Elem \cup {Null}, Size),
           Take(heap.q[k], h)
    PROVE  HeapInv'
<1> DEFINE e == heap.q[k]
           N == Elem \cup {Null}
<1>1. heap' = h /\ content' = content \ {e} /\ val' = [val EXCEPT ![e] = 0]
  BY DEF Take
<1>2. /\ val \in [Elem -> Int] /\ content \subseteq Elem /\ Members(heap) = content
      /\ heap.n = Cardinality(content) /\ e \in content
  BY DEF HeapInv, Members
<1>3. /\ IsHeap(h, val, Elem, N, Size) /\ h.n = heap.n - 1
      /\ Members(h) = content \ {e}
  BY <1>2 DEF Without
<1>4. val' \in [Elem -> Int] /\ \A x \in Members(h) : val'[x] = val[x]
  BY <1>1, <1>2, <1>3
<1>5. IsHeap(h, val', Elem, N, Size)
  BY <1>3, <1>4, IsHeapFor
<1>6. Cardinality(content') = Cardinality(content) - 1
  BY <1>1, <1>2, ContentSize
<1> QED BY <1>1, <1>2, <1>3, <1>4, <1>5, <1>6 DEF HeapInv

LEMMA NextHeap == HeapInv /\ [Next]_vars => HeapInv'
<1> SUFFICES ASSUME HeapInv, [Next]_vars PROVE HeapInv'
  OBVIOUS
<1> DEFINE N == Elem \cup {Null}
<1>1. /\ val \in [Elem -> Int] /\ IsHeap(heap, val, Elem, N, Size)
      /\ Members(heap) = content /\ Size \in Nat /\ heap.n \in Nat
  BY ContentSize DEF HeapInv, IsHeap, QueueType
<1>2. ASSUME NEW e \in Elem, NEW v \in Vals, Insert(e, v) PROVE HeapInv'
  BY <1>2, InsertHeap
<1>3. CASE RemoveHead
  <2>1. heap.n > 0 /\ Take(heap.q[1], PQRemove(heap, val))
    BY <1>3 DEF RemoveHead
  <2>2. Without(heap, 1, PQRemove(heap, val), val, Elem, N, Size)
    BY <1>1, <2>1, PQRemoveIs
  <2> QED BY <1>1, <2>1, <2>2, TakeHeap
<1>4. ASSUME NEW e \in Elem, Delete(e) PROVE HeapInv'
  <2>1. e \in content /\ Take(e, PQDel(heap, heap.ix[e], val))
    BY <1>4 DEF Delete
  <2>2. PICK k \in 1 .. heap.n : heap.q[k] = e
    BY <1>1, <2>1 DEF Members
  <2>3. heap.ix[e] = k
    BY <1>1, <2>2 DEF IsHeap, Indexed
  <2>4. Without(heap, k, PQDel(heap, k, val), val, Elem, N, Size)
    BY <1>1, PQDelIs
  <2> QED BY <2>1, <2>2, <2>3, <2>4, TakeHeap
<1>5. CASE UNCHANGED vars
  BY <1>5 DEF vars, HeapInv
<1> QED BY <1>2, <1>3, <1>4, <1>5 DEF Next

LEMMA HeapInvHolds == Spec => []HeapInv
<1> QED BY InitHeap, NextHeap, PTL DEF Spec

LEMMA HeapInvImplies == HeapInv => HeapIsQueue
<1> SUFFICES ASSUME HeapInv PROVE HeapIsQueue
  OBVIOUS
<1>1. /\ val \in [Elem -> Int] /\ Members(heap) = content
      /\ heap.n = Cardinality(content) /\ heap.n \in Nat
      /\ Ordered(heap, val) /\ Indexed(heap, Elem, 1 .. heap.n)
  BY DEF HeapInv, IsHeap, QueueType
<1>2. \A i \in 1 .. heap.n : val[heap.q[1]] <= val[heap.q[i]]
  <2>1. \A i \in 1 .. heap.n : val[heap.q[i]] \in Int
    BY <1>1 DEF Indexed
  <2> QED BY <1>1, <2>1, RootIsLeast
<1>3. \A e \in content : val[heap.q[1]] <= val[e]
  BY <1>1, <1>2 DEF Members
<1> QED BY <1>1, <1>3 DEF HeapIsQueue, Ordered, Indexed

\* Under every sequence of insertions and deletions the heap of h/pqueues.h
\* holds just what was put in, has a least element at its head, and records of
\* each element where it is; for heaps of every size.
THEOREM QueueCorrect == Spec => []HeapIsQueue
<1> QED BY HeapInvHolds, HeapInvImplies, PTL
=============================================================================
