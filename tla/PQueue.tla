------------------------------- MODULE PQueue -------------------------------
(***************************************************************************)
(* The priority queue macros of h/pqueues.h, as h/intel/kernel_st.h        *)
(* instantiates them for the scheduler: a binary heap in an array indexed  *)
(* from 1, ordered by deadline, whose elements record their own index.     *)
(*                                                                         *)
(* A queue is [n, q, ix]: the number of elements, the array (slots beyond  *)
(* n hold whatever was left there) and the index field of every element.   *)
(* val gives the elements' priorities.                                     *)
(***************************************************************************)
EXTENDS Integers, FiniteSets

Members(h) == {h.q[i] : i \in 1..h.n}

\* q[k] = e with PQ_SET_IX, where the number of elements becomes n.
Place(h, n, k, e) ==
    [n |-> n, q |-> [h.q EXCEPT ![k] = e], ix |-> [h.ix EXCEPT ![e] = k]]

-----------------------------------------------------------------------------
(* The loops of PQ_UPHEAP and PQ_DOWNHEAP take the element v = q[k] from   *)
(* slot to slot until it may stay.  next[i] is the slot that v goes on to  *)
(* from slot i, and 0 if v stays there; the loops differ in next only.     *)

\* The slots that v comes to, from each slot on.
Passed(next) ==
    LET slots[i \in DOMAIN next] ==
            IF next[i] \in DOMAIN next THEN {i} \cup slots[next[i]] ELSE {i}
    IN  slots

\* Mutant for HeapsIndexed: the elements' index fields are not kept up.
SetNoIndices(ix, q, slots) == ix

\* PQ_SET_IX for what has been put in the slots.
SetIndices(ix, q, slots) ==
    [e \in DOMAIN ix |-> IF \E i \in slots : q[i] = e
                         THEN CHOOSE i \in slots : q[i] = e ELSE ix[e]]

\* Each slot that v leaves gets the element of the slot it goes on to.
Sift(h, k, next) ==
    LET slots == Passed(next)[k]
        q     == [i \in DOMAIN h.q |->
                    IF i \notin slots THEN h.q[i]
                    ELSE IF next[i] \in slots THEN h.q[next[i]] ELSE h.q[k]]
    IN  [h EXCEPT !.q = q, !.ix = SetIndices(h.ix, q, slots)]

\* v goes up past a parent of greater value, ...
Up(h, k, val) ==
    [i \in 1..k |-> IF i > 1 /\ val[h.q[i \div 2]] > val[h.q[k]]
                    THEN i \div 2 ELSE 0]

\* ... and down past a child of no greater value: the lesser, and of two
\* equal children the second.
Lesser(h, i, val) ==
    IF i + i < h.n /\ val[h.q[i + i]] >= val[h.q[i + i + 1]]
    THEN i + i + 1 ELSE i + i
Down(h, k, val) ==
    [i \in DOMAIN h.q |->
        IF i + i <= h.n /\ val[h.q[k]] >= val[h.q[Lesser(h, i, val)]]
        THEN Lesser(h, i, val) ELSE 0]

UpHeap(h, k, val)   == Sift(h, k, Up(h, k, val))
DownHeap(h, k, val) == Sift(h, k, Down(h, k, val))

-----------------------------------------------------------------------------
\* The last element, taken from the end, is put at k.
LastTo(h, k) == Place(h, h.n - 1, k, h.q[h.n])

PQRemove(h, val)    == DownHeap(LastTo(h, 1), 1, val)
PQInsert(h, e, val) == UpHeap(Place(h, h.n + 1, h.n + 1, e), h.n + 1, val)

\* Mutant for HeapIsQueue: what fills the gap only ever moves down.
PQDelDown(h, k, val) == DownHeap(LastTo(h, k), k, val)

PQDel(h, k, val) ==
    LET filled == LastTo(h, k)
    IN  IF val[filled.q[k]] >= val[h.q[k]]
        THEN DownHeap(filled, k, val) ELSE UpHeap(filled, k, val)
=============================================================================
