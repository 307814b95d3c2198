------------------------------ MODULE HeapQueue -----------------------------
(* The heap of PQueue under every sequence of insertions and deletions,     *)
(* against what its users take it to be: a set with a head of least value.  *)
EXTENDS PQueue

CONSTANTS Elem,  \* what can be queued
          Vals,  \* the values by which it is ordered
          Null   \* an empty slot of the array

ASSUME ElemAssumption == IsFiniteSet(Elem) /\ Null \notin Elem
ASSUME ValsAssumption == Vals \subseteq Int

VARIABLES heap,     \* the queue, in an array with a slot for each element
          val,      \* the values
          content   \* history: what was put in and not taken out
vars == <<heap, val, content>>

Size == Cardinality(Elem)

Init == /\ heap = [n |-> 0, q |-> [i \in 1..Size |-> Null],
                   ix |-> [e \in Elem |-> 0]]
        /\ val = [e \in Elem |-> 0]
        /\ content = {}

\* An element's value is set before it is inserted, never while it is queued.
Insert(e, v) ==
    /\ e \notin content
    /\ val' = [val EXCEPT ![e] = v]
    /\ heap' = PQInsert(heap, e, val')
    /\ content' = content \cup {e}

Take(e, h) ==
    /\ heap' = h
    /\ content' = content \ {e}
    /\ val' = [val EXCEPT ![e] = 0]

RemoveHead == heap.n > 0 /\ Take(heap.q[1], PQRemove(heap, val))
Delete(e)  == e \in content /\ Take(e, PQDel(heap, heap.ix[e], val))

Next == \/ \E e \in Elem, v \in Vals : Insert(e, v)
        \/ RemoveHead
        \/ \E e \in Elem : Delete(e)
Spec == Init /\ [][Next]_vars

\* The heap holds exactly what was inserted and not taken out, each once; its
\* head is least; no element precedes its parent; and every element's recorded
\* index is where it is, so that PQ_DEL of that index deletes that element
\* (pqueues.h, PQ_SET_IX).
HeapIsQueue ==
    /\ Members(heap) = content /\ heap.n = Cardinality(content)
    /\ \A e \in content : val[heap.q[1]] <= val[e]
    /\ \A i \in 2..heap.n : val[heap.q[i \div 2]] <= val[heap.q[i]]
    /\ \A i \in 1..heap.n : heap.ix[heap.q[i]] = i
=============================================================================
