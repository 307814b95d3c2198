------------------------------ MODULE MCPQueue ------------------------------
(* An instance of HeapQueue small enough for TLC.                           *)
EXTENDS HeapQueue, TLC

Sym == Permutations(Elem)

\* What happens to the heap depends on the slots in use only.
InUse == <<[i \in 1..heap.n |-> heap.q[i]], [e \in content |-> heap.ix[e]],
           val, content>>
=============================================================================
