---------------------------- MODULE PQueueProofs ----------------------------
(***************************************************************************)
(* What the macros of h/pqueues.h do to a heap of any size: lemmas about   *)
(* the operators of PQueue, used for the heaps of every module that has    *)
(* them.                                                                   *)
(***************************************************************************)
EXTENDS PQueue, FiniteSetTheorems, WellFoundedInduction, TLAPS

\* A non-empty set of naturals has a least member.
LEMMA LeastExists ==
    ASSUME NEW T, T \subseteq Nat, T # {}
    PROVE  \E m \in T : \A n \in T : m <= n
<1>1. PICK x \in T : \A y \in T : ~(<<y, x>> \in OpToRel(<, Nat))
  BY NatLessThanWellFounded, WFMin
<1>2. \A y \in T : y \in Nat /\ x \in Nat
  OBVIOUS
<1>3. \A y \in T : ~(y < x)
  BY <1>1, <1>2 DEF OpToRel
<1>4. \A y \in T : x <= y
  BY <1>2, <1>3
<1> QED BY <1>4

-----------------------------------------------------------------------------
(* The way of an element through the array.                                *)

\* The recursion that defines Passed has a solution: the slots passed from i
\* on are the least set that contains i and is closed under next.
LEMMA PassedDef ==
    ASSUME NEW next, NEW i \in DOMAIN next
    PROVE  Passed(next)[i] = IF next[i] \in DOMAIN next
                             THEN {i} \cup Passed(next)[next[i]] ELSE {i}
<1> DEFINE S == DOMAIN next
           Closed(C) == \A c \in C : next[c] \in S => next[c] \in C
           Reach(j) == {c \in S : \A C \in SUBSET S : j \in C /\ Closed(C) => c \in C}
           f == [j \in S |-> Reach(j)]
           slots == CHOOSE g : g = [j \in S |-> IF next[j] \in S
                                                THEN {j} \cup g[next[j]] ELSE {j}]
<1>1. ASSUME NEW j \in S, next[j] \in S
      PROVE  Reach(j) = {j} \cup Reach(next[j])
  <2> DEFINE D == {j} \cup Reach(next[j])
  <2>1. D \in SUBSET S /\ j \in D /\ Closed(D)
    BY <1>1
  <2>2. Reach(j) \subseteq D
    BY <2>1
  <2>3. D \subseteq Reach(j)
    BY <1>1
  <2> QED BY <2>2, <2>3
<1>2. ASSUME NEW j \in S, next[j] \notin S
      PROVE  Reach(j) = {j}
  <2>1. {j} \in SUBSET S /\ j \in {j} /\ Closed({j})
    BY <1>2
  <2> QED BY <2>1
<1> HIDE DEF Reach
<1>3. f = [j \in S |-> IF next[j] \in S THEN {j} \cup f[next[j]] ELSE {j}]
  <2>1. \A j \in S : f[j] = IF next[j] \in S THEN {j} \cup f[next[j]] ELSE {j}
    BY <1>1, <1>2
  <2> QED BY <2>1
<1> HIDE DEF f
<1>4. slots = [j \in S |-> IF next[j] \in S THEN {j} \cup slots[next[j]] ELSE {j}]
  BY <1>3
<1>5. Passed(next) = slots
  BY DEF Passed
<1> HIDE DEF slots
<1> QED BY <1>4, <1>5

\* w falls along next, so that no element goes round for ever.
Descends(next, w) ==
    /\ w \in [DOMAIN next -> Nat]
    /\ \A i \in DOMAIN next : next[i] \in DOMAIN next => w[next[i]] < w[i]

\* The slots P passed from k on are a chain: one first and one last slot, and
\* each slot but the first has one before it.
Chain(next, w, k, P) ==
    /\ P \subseteq DOMAIN next /\ k \in P
    /\ \A j \in P : next[j] \in DOMAIN next => next[j] \in P
    /\ \A j \in P : j # k => w[j] < w[k] /\ \E i \in P : next[i] = j
    /\ \A i, j \in P : next[i] = next[j] /\ next[i] \in P => i = j
    /\ \E e \in P : /\ next[e] \notin DOMAIN next
                    /\ \A j \in P : /\ w[e] <= w[j]
                                    /\ next[j] \notin DOMAIN next => j = e

LEMMA PassedIsChain ==
    ASSUME NEW next, NEW w, Descends(next, w), NEW k \in DOMAIN next
    PROVE  Chain(next, w, k, Passed(next)[k])
<1> DEFINE S == DOMAIN next
           Good(i) == Chain(next, w, i, Passed(next)[i])
           Bad == {n \in Nat : \E i \in S : w[i] = n /\ ~Good(i)}
<1>1. w \in [S -> Nat] /\ \A i \in S : next[i] \in S => w[next[i]] < w[i]
  BY DEF Descends
<1>2. ASSUME NEW i \in S, next[i] \notin S PROVE Good(i)
  <2>1. Passed(next)[i] = {i}
    BY <1>2, PassedDef
  <2> HIDE DEF S
  <2> QED BY <1>1, <1>2, <2>1 DEF Chain, S
<1>3. ASSUME NEW i \in S, next[i] \in S, Good(next[i]) PROVE Good(i)
  <2> DEFINE P == Passed(next)[next[i]]
             Q == Passed(next)[i]
  <2>1. Q = {i} \cup P
    BY <1>3, PassedDef
  <2> HIDE DEF P, Q
  <2>2. Chain(next, w, next[i], P)
    BY <1>3 DEF P
  <2>3. w[next[i]] < w[i] /\ w[i] \in Nat /\ \A j \in P : j \in S /\ w[j] \in Nat
    BY <1>1, <1>3, <2>2 DEF Chain
  <2>4. \A j \in P : w[j] <= w[next[i]] /\ w[j] < w[i] /\ j # i
    BY <2>2, <2>3 DEF Chain
  <2>5. Q \subseteq S /\ i \in Q /\ \A j \in Q : next[j] \in S => next[j] \in Q
    BY <2>1, <2>2, <1>3 DEF Chain
  <2>6. \A j \in Q : j # i => w[j] < w[i] /\ \E m \in Q : next[m] = j
    BY <2>1, <2>2, <2>4 DEF Chain
  <2>7. \A j \in P : next[j] = next[i] => FALSE
    <3>1. SUFFICES ASSUME NEW j \in P, next[j] = next[i] PROVE FALSE
      OBVIOUS
    <3>2. w[next[j]] < w[j]
      BY <3>1, <2>3, <1>1, <1>3
    <3> QED BY <3>1, <3>2, <2>3, <2>4, <1>1, <1>3
  <2>8. \A m, j \in Q : next[m] = next[j] /\ next[m] \in Q => m = j
    <3>1. \A m, j \in P : next[m] = next[j] /\ next[m] \in S => m = j
      BY <2>2 DEF Chain
    <3> QED BY <3>1, <2>1, <2>5, <2>7
  <2>9. PICK e \in P : /\ next[e] \notin S
                       /\ \A j \in P : /\ w[e] <= w[j]
                                       /\ next[j] \notin S => j = e
    BY <2>2 DEF Chain
  <2>10. /\ e \in Q
         /\ \A j \in Q : w[e] <= w[j] /\ (next[j] \notin S => j = e)
    BY <2>1, <2>3, <2>4, <2>9, <1>3
  <2>11. Chain(next, w, i, Q)
    BY <2>5, <2>6, <2>8, <2>9, <2>10 DEF Chain
  <2> QED BY <2>11 DEF Q
<1> HIDE DEF Good
<1>4. Bad = {}
  <2>1. SUFFICES ASSUME Bad # {} PROVE FALSE
    OBVIOUS
  <2>2. PICK n \in Bad : \A m \in Bad : n <= m
    <3>1. Bad \subseteq Nat
      OBVIOUS
    <3> HIDE DEF Bad
    <3> QED BY <2>1, <3>1, LeastExists
  <2>3. PICK i \in S : w[i] = n /\ ~Good(i)
    OBVIOUS
  <2>4. next[i] \in S /\ ~Good(next[i])
    BY <1>2, <1>3, <2>3
  <2>5. w[next[i]] \in Bad /\ w[next[i]] < n
    BY <1>1, <2>3, <2>4
  <2> QED BY <2>2, <2>5
<1>5. Good(k)
  BY <1>1, <1>4
<1> QED BY <1>5 DEF Good

-----------------------------------------------------------------------------
(* What Sift does to the array.                                            *)

\* A queue of at most c elements of E, in an array of values of N.
QueueType(h, E, N, c) == h \in [n : 0 .. c, q : [1 .. c -> N], ix : [E -> Nat]]

\* Each of the slots D holds an element, which records the slot.
Indexed(h, E, D) == \A i \in D : h.q[i] \in E /\ h.ix[h.q[i]] = i

\* The slots in use, and that of the element to be sifted, which is the first
\* one not in use when the last element of the heap has been taken out.
Slots(h, k) == (1 .. h.n) \cup {k}

\* next stays in the slots in use.
Within(h, k, next, c) ==
    /\ k \in DOMAIN next /\ DOMAIN next \subseteq 1 .. c
    /\ \A i \in DOMAIN next : next[i] \in 0 .. h.n

\* Sifting moves the elements about, and tells them.
Rearranged(h, h2, E, N, c, D) ==
    /\ QueueType(h2, E, N, c) /\ h2.n = h.n
    /\ Indexed(h2, E, D)
    /\ {h2.q[i] : i \in D} = {h.q[i] : i \in D}
    /\ \A e \in E : (\A i \in D : h.q[i] # e) => h2.ix[e] = h.ix[e]

\* What Sift leaves in the array.
Sifted(h, k, next, P, h2) ==
    /\ h2.n = h.n
    /\ \A i \in DOMAIN h.q :
          h2.q[i] = IF i \notin P THEN h.q[i]
                    ELSE IF next[i] \in P THEN h.q[next[i]] ELSE h.q[k]

LEMMA SiftIs ==
    ASSUME NEW E, NEW N, NEW c \in Nat, NEW h, QueueType(h, E, N, c),
           NEW next, NEW w, Descends(next, w),
           NEW k, Within(h, k, next, c), Indexed(h, E, Slots(h, k))
    PROVE  LET P  == Passed(next)[k]
               h2 == Sift(h, k, next)
           IN  /\ Rearranged(h, h2, E, N, c, Slots(h, k))
               /\ Sifted(h, k, next, P, h2)
               /\ Chain(next, w, k, P) /\ P \subseteq Slots(h, k)
<1> DEFINE P  == Passed(next)[k]
           h2 == Sift(h, k, next)
           D  == Slots(h, k)
           q2 == [i \in DOMAIN h.q |->
                    IF i \notin P THEN h.q[i]
                    ELSE IF next[i] \in P THEN h.q[next[i]] ELSE h.q[k]]
           s(i) == IF i \notin P THEN i ELSE IF next[i] \in P THEN next[i] ELSE k
<1>1. Chain(next, w, k, P)
  BY PassedIsChain DEF Within
<1>2. h2 = [h EXCEPT !.q = q2, !.ix = SetIndices(h.ix, q2, P)]
  BY DEF Sift
<1> HIDE DEF P
<1>3. /\ h.n \in 0 .. c /\ h.q \in [1 .. c -> N] /\ h.ix \in [E -> Nat]
      /\ h = [n |-> h.n, q |-> h.q, ix |-> h.ix]
  BY DEF QueueType
<1>4. /\ h2.n = h.n /\ h2.q = q2 /\ h2.ix = SetIndices(h.ix, q2, P)
      /\ h2 = [n |-> h2.n, q |-> h2.q, ix |-> h2.ix]
  BY <1>2, <1>3
<1> HIDE DEF h2
<1>5. k \in 1 .. c /\ D \subseteq 1 .. c
  BY <1>3 DEF Within, Slots
<1>6. P \subseteq D
  <2>1. SUFFICES ASSUME NEW j \in P, j # k PROVE j \in 1 .. h.n
    BY DEF Slots
  <2>2. PICK i \in P : next[i] = j
    BY <1>1, <2>1 DEF Chain
  <2>3. i \in DOMAIN next /\ j \in DOMAIN next
    BY <1>1, <2>1, <2>2 DEF Chain
  <2> QED BY <1>3, <2>2, <2>3 DEF Within
<1>7. \A i \in D : s(i) \in D /\ q2[i] = h.q[s(i)]
  BY <1>3, <1>5, <1>6 DEF Slots
<1>8. \A i \in P : s(i) \in P
  BY <1>1 DEF Chain
<1>9. \A i, j \in D : s(i) = s(j) => i = j
  <2>1. SUFFICES ASSUME NEW i \in D, NEW j \in D, s(i) = s(j) PROVE i = j
    OBVIOUS
  <2>2. ASSUME NEW a \in P, next[a] \in P PROVE next[a] # k
    <3>1. /\ w[next[a]] < w[a] /\ (a = k \/ w[a] < w[k])
          /\ w[a] \in Nat /\ w[k] \in Nat
      BY <1>1, <2>2 DEF Chain, Descends
    <3> QED BY <3>1
  <2>3. CASE i \notin P \/ j \notin P
    BY <1>8, <2>1, <2>3
  <2>4. CASE i \in P /\ j \in P
    <3>1. CASE next[i] \in P /\ next[j] \in P
      BY <1>1, <2>1, <2>4, <3>1 DEF Chain
    <3>2. CASE next[i] \notin P /\ next[j] \notin P
      BY <1>1, <2>4, <3>2 DEF Chain
    <3>3. CASE next[i] \in P /\ next[j] \notin P
      BY <2>1, <2>2, <2>4, <3>3
    <3>4. CASE next[i] \notin P /\ next[j] \in P
      BY <2>1, <2>2, <2>4, <3>4
    <3> QED BY <3>1, <3>2, <3>3, <3>4
  <2> QED BY <2>3, <2>4
<1>10. \A j \in D : \E i \in D : s(i) = j
  <2>1. SUFFICES ASSUME NEW j \in D PROVE \E i \in D : s(i) = j
    OBVIOUS
  <2>2. CASE j \notin P
    BY <2>2
  <2>3. CASE j = k
    <3>1. PICK e \in P : next[e] \notin DOMAIN next
      BY <1>1 DEF Chain
    <3>2. s(e) = k /\ e \in D
      BY <1>1, <1>6, <3>1 DEF Chain
    <3> QED BY <2>3, <3>2
  <2>4. CASE j \in P /\ j # k
    <3>1. PICK i \in P : next[i] = j
      BY <1>1, <2>4 DEF Chain
    <3> QED BY <1>6, <2>4, <3>1
  <2> QED BY <2>2, <2>3, <2>4
<1> HIDE DEF q2
<1>11. \A i, j \in D : q2[i] = q2[j] => i = j
  <2>1. \A i, j \in D : h.q[i] = h.q[j] => i = j
    BY DEF Indexed
  <2> HIDE DEF s
  <2> QED BY <1>7, <1>9, <2>1
<1>12. {q2[i] : i \in D} = {h.q[i] : i \in D}
  <2> HIDE DEF s, D
  <2> QED BY <1>7, <1>10
<1>13. \A i \in D : q2[i] \in E
  <2> HIDE DEF s
  <2> QED BY <1>7 DEF Indexed
<1> USE DEF SetIndices
<1>14. ASSUME NEW i \in D PROVE h2.ix[q2[i]] = i
  <2>1. q2[i] \in E /\ DOMAIN h.ix = E
    BY <1>3, <1>13
  <2>2. CASE i \in P
    <3>1. \A j \in P : q2[j] = q2[i] => j = i
      BY <1>6, <1>11, <2>2
    <3> QED BY <1>4, <2>1, <2>2, <3>1
  <2>3. CASE i \notin P
    <3>1. \A j \in P : q2[j] # q2[i]
      BY <1>6, <1>11, <2>3
    <3>2. h2.ix[q2[i]] = h.ix[q2[i]]
      BY <1>4, <2>1, <3>1
    <3>3. q2[i] = h.q[i]
      BY <1>7, <2>3
    <3> QED BY <3>2, <3>3 DEF Indexed
  <2> QED BY <2>2, <2>3
<1>15. ASSUME NEW e \in E, \A i \in D : h.q[i] # e
       PROVE  h2.ix[e] = h.ix[e]
  <2>1. \A j \in P : q2[j] # e
    BY <1>6, <1>12, <1>15
  <2> QED BY <1>3, <1>4, <2>1
<1>16. h2.ix \in [E -> Nat]
  <2>1. ASSUME NEW e \in E PROVE h2.ix[e] \in Nat
    <3>1. CASE \E i \in D : h.q[i] = e
      <4>1. PICK i \in D : q2[i] = e
        BY <1>12, <3>1
      <4> QED BY <1>5, <1>14, <4>1
    <3>2. CASE ~ \E i \in D : h.q[i] = e
      BY <1>3, <1>15, <3>2
    <3> QED BY <3>1, <3>2
  <2>2. h2.ix = [e \in E |-> h2.ix[e]]
    BY <1>3, <1>4
  <2> QED BY <2>1, <2>2
<1>17. h2.q \in [1 .. c -> N]
  <2>1. h.q[k] \in N /\ \A i \in P : next[i] \in P => h.q[next[i]] \in N
    BY <1>3, <1>5, <1>6
  <2> QED BY <1>3, <1>4, <2>1 DEF q2
<1>18. QueueType(h2, E, N, c)
  BY <1>3, <1>4, <1>16, <1>17 DEF QueueType
<1>19. Indexed(h2, E, D)
  BY <1>4, <1>13, <1>14 DEF Indexed
<1>20. Sifted(h, k, next, P, h2)
  BY <1>4 DEF Sifted, q2
<1> HIDE DEF D
<1>21. {h2.q[i] : i \in D} = {h.q[i] : i \in D}
  <2>1. \A i \in D : h2.q[i] = q2[i]
    BY <1>4
  <2>2. {h2.q[i] : i \in D} = {q2[i] : i \in D}
    BY <2>1
  <2> QED BY <1>12, <2>2
<1>22. \A e \in E : (\A i \in D : h.q[i] # e) => h2.ix[e] = h.ix[e]
  BY <1>15
<1>23. Rearranged(h, h2, E, N, c, D)
  BY <1>4, <1>18, <1>19, <1>21, <1>22 DEF Rearranged
<1> QED BY <1>1, <1>6, <1>20, <1>23 DEF D, h2, P

-----------------------------------------------------------------------------
(* Sifting restores the order of the heap.                                 *)

\* The parent of slot i.
LEMMA Parent ==
    ASSUME NEW i \in Nat, i > 1
    PROVE  /\ i \div 2 \in Nat /\ i \div 2 > 0 /\ i \div 2 < i
           /\ i = i \div 2 + i \div 2 \/ i = i \div 2 + i \div 2 + 1
OBVIOUS

LEMMA Child ==
    ASSUME NEW i \in Nat
    PROVE  (i + i) \div 2 = i /\ (i + i + 1) \div 2 = i
OBVIOUS

\* What falls on the way up, and on the way down.
Upwards(k)   == [i \in 1 .. k |-> i]
Downwards(c) == [i \in 1 .. c |-> c - i]

LEMMA UpIs ==
    ASSUME NEW c \in Nat, NEW h, h.n \in 0 .. c, NEW k \in 1 .. h.n, NEW val
    PROVE  /\ Descends(Up(h, k, val), Upwards(k))
           /\ Within(h, k, Up(h, k, val), c)
           /\ DOMAIN Up(h, k, val) = 1 .. k
<1> DEFINE next == Up(h, k, val)
           w    == Upwards(k)
<1>1. /\ DOMAIN next = 1 .. k
      /\ \A i \in 1 .. k : next[i] = IF i > 1 /\ val[h.q[i \div 2]] > val[h.q[k]]
                                     THEN i \div 2 ELSE 0
  BY DEF Up
<1> HIDE DEF next
<1>2. \A i \in 1 .. k : /\ next[i] \in 0 .. h.n
                        /\ next[i] \in 1 .. k => next[i] < i
  <2>1. SUFFICES ASSUME NEW i \in 1 .. k
                 PROVE  /\ next[i] \in 0 .. h.n
                        /\ next[i] \in 1 .. k => next[i] < i
    OBVIOUS
  <2>2. i \in Nat /\ k \in Nat /\ i <= k /\ k <= h.n /\ h.n \in Nat
    OBVIOUS
  <2>3. CASE next[i] = 0
    BY <2>2, <2>3
  <2>4. CASE next[i] = i \div 2 /\ i > 1
    <3>1. i \div 2 \in Nat /\ i \div 2 < i /\ i \div 2 > 0
      BY <2>2, <2>4, Parent
    <3> QED BY <2>2, <2>4, <3>1
  <2> QED BY <1>1, <2>3, <2>4
<1>3. Descends(next, w)
  BY <1>1, <1>2 DEF Descends, Upwards
<1>4. Within(h, k, next, c)
  BY <1>1, <1>2 DEF Within
<1> QED BY <1>1, <1>3, <1>4 DEF next

LEMMA LesserIs ==
    ASSUME NEW h, h.n \in Nat, NEW i \in Nat \ {0}, NEW val, i + i <= h.n
    PROVE  LET j == Lesser(h, i, val)
           IN  /\ j \in 2 .. h.n /\ j > i /\ j \div 2 = i
               /\ j = i + i \/ (j = i + i + 1 /\ val[h.q[i + i]] >= val[h.q[j]])
               /\ j = i + i /\ i + i + 1 <= h.n
                     => ~ (val[h.q[i + i]] >= val[h.q[i + i + 1]])
BY Child DEF Lesser

LEMMA DownIs ==
    ASSUME NEW c \in Nat, NEW h, h.n \in 0 .. c, DOMAIN h.q = 1 .. c,
           NEW k \in 1 .. c, NEW val
    PROVE  /\ Descends(Down(h, k, val), Downwards(c))
           /\ Within(h, k, Down(h, k, val), c)
           /\ DOMAIN Down(h, k, val) = 1 .. c
<1> DEFINE next == Down(h, k, val)
           w    == Downwards(c)
<1>1. /\ DOMAIN next = 1 .. c
      /\ \A i \in 1 .. c :
            next[i] = IF i + i <= h.n /\ val[h.q[k]] >= val[h.q[Lesser(h, i, val)]]
                      THEN Lesser(h, i, val) ELSE 0
  BY DEF Down
<1> HIDE DEF next
<1>2. \A i \in 1 .. c : /\ next[i] \in 0 .. h.n
                        /\ next[i] \in 1 .. c => next[i] > i
  <2>1. SUFFICES ASSUME NEW i \in 1 .. c
                 PROVE  /\ next[i] \in 0 .. h.n
                        /\ next[i] \in 1 .. c => next[i] > i
    OBVIOUS
  <2>2. CASE next[i] = 0
    BY <2>2
  <2>3. CASE next[i] = Lesser(h, i, val) /\ i + i <= h.n
    <3>1. next[i] \in 2 .. h.n /\ next[i] > i
      BY <2>3, LesserIs
    <3> QED BY <3>1
  <2> QED BY <1>1, <2>2, <2>3
<1>3. Descends(next, w)
  <2>1. \A i \in 1 .. c : c - i \in Nat
    OBVIOUS
  <2>2. w \in [1 .. c -> Nat]
    BY <2>1 DEF Downwards
  <2>3. ASSUME NEW i \in 1 .. c, next[i] \in 1 .. c PROVE w[next[i]] < w[i]
    <3>1. next[i] > i
      BY <1>2, <2>3
    <3> QED BY <2>3, <3>1 DEF Downwards
  <2> HIDE DEF w
  <2> QED BY <1>1, <2>2, <2>3 DEF Descends
<1>4. Within(h, k, next, c)
  BY <1>1, <1>2 DEF Within
<1> QED BY <1>1, <1>3, <1>4 DEF next

\* No element precedes its parent.
Ordered(h, val) == \A i \in 2 .. h.n : val[h.q[i \div 2]] <= val[h.q[i]]

\* The heap is in order but for slot k, and would be without it.
OrderedBut(h, k, val) ==
    \A i \in 2 .. h.n :
       /\ i # k /\ i \div 2 # k => val[h.q[i \div 2]] <= val[h.q[i]]
       /\ i \div 2 = k /\ k > 1 => val[h.q[k \div 2]] <= val[h.q[i]]

LEMMA UpHeapOrders ==
    ASSUME NEW E, NEW N, NEW c \in Nat, NEW h, QueueType(h, E, N, c),
           NEW val \in [E -> Int], NEW k \in 1 .. h.n,
           Indexed(h, E, Slots(h, k)), OrderedBut(h, k, val),
           \A i \in 2 .. h.n : i \div 2 = k => val[h.q[k]] <= val[h.q[i]]
    PROVE  Ordered(UpHeap(h, k, val), val)
<1> DEFINE next == Up(h, k, val)
           P    == Passed(next)[k]
           h2   == Sift(h, k, next)
           w    == Upwards(k)
           V(i) == val[h.q[i]]
<1>1. h.n \in 0 .. c /\ DOMAIN h.q = 1 .. c /\ k \in Nat /\ h.n \in Nat
  BY DEF QueueType
<1>2. /\ Descends(next, w) /\ Within(h, k, next, c) /\ DOMAIN next = 1 .. k
      /\ \A i \in 1 .. k : next[i] = IF i > 1 /\ V(i \div 2) > V(k)
                                     THEN i \div 2 ELSE 0
  <2>1. h.n \in 0 .. c
    BY <1>1
  <2>2. Descends(next, w) /\ Within(h, k, next, c) /\ DOMAIN next = 1 .. k
    BY <2>1, UpIs
  <2>3. \A i \in 1 .. k : Up(h, k, val)[i] = IF i > 1 /\ val[h.q[i \div 2]] > val[h.q[k]]
                                     THEN i \div 2 ELSE 0
    BY DEF Up
  <2> QED BY <2>2, <2>3
<1>3. UpHeap(h, k, val) = h2
  BY DEF UpHeap
<1> HIDE DEF next
<1>4. Sifted(h, k, next, P, h2) /\ Chain(next, w, k, P) /\ P \subseteq 1 .. k
  <2>1. Sifted(h, k, next, P, h2) /\ Chain(next, w, k, P)
    BY <1>2, SiftIs
  <2> HIDE DEF P
  <2> QED BY <1>2, <2>1 DEF Chain
<1> HIDE DEF P, h2
<1>5. \A i \in 1 .. h.n : V(i) \in Int
  BY DEF Indexed, Slots
<1>6. /\ \A i \in 1 .. h.n : i \notin P => h2.q[i] = h.q[i]
      /\ \A i \in P : h2.q[i] = IF next[i] \in P THEN h.q[next[i]] ELSE h.q[k]
      /\ h2.n = h.n
  <2>1. /\ \A i \in 1 .. h.n : i \in DOMAIN h.q
        /\ \A i \in P : i \in DOMAIN h.q
    BY <1>1, <1>4
  <2> QED BY <1>4, <2>1 DEF Sifted
\* What the slots passed get is no greater than what was there.
<1>7. \A i \in P : i # k => V(i) > V(k)
  <2>1. SUFFICES ASSUME NEW i \in P, i # k PROVE V(i) > V(k)
    OBVIOUS
  <2>2. PICK j \in P : next[j] = i
    BY <1>4, <2>1 DEF Chain
  <2> QED BY <1>2, <1>4, <2>1, <2>2
<1>8. \A i \in P : i <= k /\ (next[i] \in P <=> next[i] \in 1 .. k)
  BY <1>2, <1>4 DEF Chain
<1> SUFFICES ASSUME NEW i \in 2 .. h.n
             PROVE  val[h2.q[i \div 2]] <= val[h2.q[i]]
  BY <1>3, <1>6 DEF Ordered
<1> DEFINE j == i \div 2
<1>9. j \in 1 .. h.n /\ j < i /\ i \in Nat /\ j \in Nat
  BY <1>1, Parent
<1>10. /\ i # k /\ j # k => V(j) <= V(i)
       /\ j = k /\ k > 1 => V(k \div 2) <= V(i)
       /\ j = k => V(k) <= V(i)
  BY DEF OrderedBut
<1>11. ASSUME NEW m \in P, next[m] \in P
       PROVE  next[m] = m \div 2 /\ m > 1 /\ V(m \div 2) > V(k)
  BY <1>2, <1>4, <1>11
<1>12. CASE i \notin P /\ j \notin P
  <2>1. i # k /\ j # k
    BY <1>4, <1>12 DEF Chain
  <2> QED BY <1>6, <1>9, <1>10, <1>12, <2>1
<1>13. CASE i \notin P /\ j \in P
  <2>1. i # k
    BY <1>4, <1>13 DEF Chain
  <2>2. V(k) <= V(i)
    <3>1. CASE j = k
      BY <1>10, <3>1
    <3>2. CASE j # k
      <4>1. V(j) <= V(i) /\ V(j) > V(k)
        BY <1>7, <1>10, <1>13, <2>1, <3>2
      <4> QED BY <1>5, <1>9, <4>1
    <3> QED BY <3>1, <3>2
  <2>3. ASSUME next[j] \in P PROVE V(next[j]) <= V(i)
    <3>1. next[j] = j \div 2 /\ j > 1
      BY <1>11, <1>13, <2>3
    <3>2. CASE j = k
      BY <1>10, <3>1, <3>2
    <3>3. CASE j # k
      <4>1. j \div 2 # k /\ j \div 2 \in 1 .. h.n
        <5>1. j \div 2 < j /\ j \div 2 > 0 /\ j \div 2 \in Nat
          BY <1>9, <3>1, Parent
        <5>2. j <= k
          BY <1>8, <1>13
        <5> HIDE DEF j
        <5> QED BY <1>1, <1>9, <5>1, <5>2
      <4>2. V(j \div 2) <= V(j)
        BY <1>9, <3>1, <3>3, <4>1 DEF OrderedBut
      <4>3. V(j) <= V(i)
        BY <1>10, <2>1, <3>3
      <4> QED BY <1>5, <1>9, <3>1, <4>1, <4>2, <4>3
    <3> QED BY <3>2, <3>3
  <2>4. h2.q[i] = h.q[i]
    BY <1>6, <1>13
  <2> QED BY <1>6, <1>13, <2>2, <2>3, <2>4
<1>14. CASE i \in P /\ next[i] \in P
  <2>1. j = next[i] /\ V(j) > V(k) /\ h2.q[i] = h.q[j] /\ j \in P
    BY <1>6, <1>11, <1>14
  <2>2. CASE next[j] \notin P
    <3>1. h2.q[j] = h.q[k]
      BY <1>6, <2>1, <2>2
    <3> QED BY <1>5, <1>9, <2>1, <3>1
  <2>3. CASE next[j] \in P
    <3>1. next[j] = j \div 2 /\ j > 1
      BY <1>11, <2>1, <2>3
    <3>2. j \div 2 < j /\ i <= k /\ j \div 2 \in Nat
      BY <1>8, <1>9, <1>14, <3>1, Parent
    <3>3. V(j \div 2) <= V(j)
      BY <1>9, <3>1, <3>2 DEF OrderedBut
    <3>4. h2.q[j] = h.q[j \div 2]
      BY <1>6, <2>1, <2>3, <3>1
    <3> QED BY <2>1, <3>3, <3>4
  <2> QED BY <2>2, <2>3
<1>15. CASE i \in P /\ next[i] \notin P
  <2>1. h2.q[i] = h.q[k] /\ i <= k /\ ~(V(j) > V(k))
    <3>1. next[i] \notin 1 .. k /\ i <= k /\ i \in 1 .. k
      BY <1>4, <1>8, <1>15
    <3>2. j \in 1 .. k
      BY <1>9, <3>1
    <3>3. ~(V(j) > V(k))
      BY <1>2, <3>1, <3>2
    <3> QED BY <1>6, <1>15, <3>1, <3>3
  <2>2. j \notin P
    <3>1. PICK e \in P : /\ next[e] \notin DOMAIN next
                         /\ \A m \in P : /\ w[e] <= w[m]
                                         /\ next[m] \notin DOMAIN next => m = e
      BY <1>4 DEF Chain
    <3>2. i = e
      BY <1>2, <1>8, <1>15, <3>1
    <3>3. ASSUME j \in P PROVE FALSE
      <4>1. w[i] <= w[j] /\ i \in 1 .. k /\ j \in 1 .. k
        BY <1>4, <3>1, <3>2, <3>3
      <4> HIDE DEF j
      <4> QED BY <1>9, <4>1 DEF Upwards
    <3> QED BY <3>3
  <2>3. h2.q[j] = h.q[j]
    BY <1>6, <1>9, <2>2
  <2> QED BY <1>5, <1>9, <2>1, <2>3
<1> QED BY <1>12, <1>13, <1>14, <1>15

LEMMA DownHeapOrders ==
    ASSUME NEW E, NEW N, NEW c \in Nat, NEW h, QueueType(h, E, N, c),
           NEW val \in [E -> Int], NEW k \in 1 .. c,
           Indexed(h, E, Slots(h, k)), OrderedBut(h, k, val),
           k \in 2 .. h.n => val[h.q[k \div 2]] <= val[h.q[k]]
    PROVE  Ordered(DownHeap(h, k, val), val)
<1> DEFINE next == Down(h, k, val)
           P    == Passed(next)[k]
           h2   == Sift(h, k, next)
           w    == Downwards(c)
           V(i) == val[h.q[i]]
<1>1. h.n \in 0 .. c /\ DOMAIN h.q = 1 .. c /\ k \in Nat /\ h.n \in Nat
  BY DEF QueueType
<1>2. /\ Descends(next, w) /\ Within(h, k, next, c) /\ DOMAIN next = 1 .. c
      /\ \A i \in 1 .. c :
            next[i] = IF i + i <= h.n /\ V(k) >= V(Lesser(h, i, val))
                      THEN Lesser(h, i, val) ELSE 0
  <2>1. h.n \in 0 .. c /\ DOMAIN h.q = 1 .. c
    BY <1>1
  <2>2. Descends(next, w) /\ Within(h, k, next, c) /\ DOMAIN next = 1 .. c
    BY <2>1, DownIs
  <2>3. \A i \in 1 .. c : Down(h, k, val)[i] =
            IF i + i <= h.n /\ val[h.q[k]] >= val[h.q[Lesser(h, i, val)]]
            THEN Lesser(h, i, val) ELSE 0
    BY <1>1 DEF Down
  <2> QED BY <2>2, <2>3
<1>3. DownHeap(h, k, val) = h2
  BY DEF DownHeap
<1> HIDE DEF next
<1>4. /\ Sifted(h, k, next, P, h2) /\ Chain(next, w, k, P)
      /\ P \subseteq 1 .. c /\ P \subseteq Slots(h, k)
  <2>1. Sifted(h, k, next, P, h2) /\ Chain(next, w, k, P) /\ P \subseteq Slots(h, k)
    BY <1>2, SiftIs
  <2> HIDE DEF P
  <2> QED BY <1>2, <2>1 DEF Chain
<1> HIDE DEF P, h2
<1>5. (\A i \in 1 .. h.n : V(i) \in Int) /\ V(k) \in Int
  BY DEF Indexed, Slots
<1>6. /\ \A i \in 1 .. h.n : i \notin P => h2.q[i] = h.q[i]
      /\ \A i \in P : h2.q[i] = IF next[i] \in P THEN h.q[next[i]] ELSE h.q[k]
      /\ h2.n = h.n
  <2>1. \A i \in 1 .. h.n : i \in 1 .. c
    BY <1>1
  <2>2. \A i \in P : i \in 1 .. c
    BY <1>4
  <2> QED BY <1>1, <1>4, <2>1, <2>2 DEF Sifted
\* A slot passed but the first is the lesser child of one passed.
<1>7. ASSUME NEW m \in P, next[m] \in P
      PROVE  /\ next[m] = Lesser(h, m, val) /\ m + m <= h.n
             /\ next[m] \in 2 .. h.n /\ next[m] \div 2 = m /\ V(k) >= V(next[m])
  <2>1. m \in 1 .. c /\ next[m] \in 1 .. c
    BY <1>4, <1>7
  <2>2. /\ next[m] = Lesser(h, m, val) /\ m + m <= h.n
        /\ V(k) >= V(next[m])
    BY <1>2, <2>1
  <2>3. next[m] \in 2 .. h.n /\ next[m] \div 2 = m
    BY <1>1, <2>1, <2>2, LesserIs
  <2> QED BY <2>2, <2>3
<1>8. ASSUME NEW m \in P, m # k
      PROVE  m \div 2 \in P /\ next[m \div 2] = m /\ m \in 2 .. h.n
  <2>1. PICK l \in P : next[l] = m
    BY <1>4, <1>8 DEF Chain
  <2> QED BY <1>7, <1>8, <2>1
<1> SUFFICES ASSUME NEW i \in 2 .. h.n
             PROVE  val[h2.q[i \div 2]] <= val[h2.q[i]]
  BY <1>3, <1>6 DEF Ordered
<1> DEFINE j == i \div 2
<1>9. /\ j \in 1 .. h.n /\ j < i /\ i \in Nat /\ j \in Nat /\ j \in 1 .. c
      /\ i = j + j \/ i = j + j + 1
  BY <1>1, Parent
<1>10. /\ i # k /\ j # k => V(j) <= V(i)
       /\ j = k /\ k > 1 => V(k \div 2) <= V(i)
       /\ i = k => V(j) <= V(k)
  BY DEF OrderedBut
\* The child that v would change places with is the lesser one.
<1>11. V(Lesser(h, j, val)) <= V(i) /\ j + j <= h.n /\ Lesser(h, j, val) \in 2 .. h.n
  <2> HIDE DEF j
  <2>1. j + j <= h.n /\ h.n \in Nat /\ j \in Nat \ {0}
    BY <1>1, <1>9
  <2> DEFINE m == Lesser(h, j, val)
  <2>2. /\ m \in 2 .. h.n
        /\ m = j + j \/ (m = j + j + 1 /\ V(j + j) >= V(m))
        /\ m = j + j /\ j + j + 1 <= h.n => ~(V(j + j) >= V(j + j + 1))
    BY <2>1, LesserIs
  <2>3. V(m) \in Int /\ V(i) \in Int /\ V(j + j) \in Int
    BY <1>5, <1>9, <2>1, <2>2
  <2> HIDE DEF m
  <2>4. ASSUME m = i PROVE V(m) <= V(i)
    BY <2>3, <2>4
  <2>5. ASSUME m # i, i = j + j PROVE V(m) <= V(i)
    BY <2>2, <2>3, <2>5
  <2>6. ASSUME m # i, i = j + j + 1 PROVE V(m) <= V(i)
    <3>1. m = j + j /\ i <= h.n
      BY <2>2, <2>6
    <3> QED BY <2>2, <2>3, <2>6, <3>1
  <2>7. V(m) <= V(i)
    BY <1>9, <2>4, <2>5, <2>6
  <2> QED BY <2>1, <2>2, <2>7 DEF m
<1>12. CASE i \notin P /\ j \notin P
  <2>1. i # k /\ j # k
    BY <1>4, <1>12 DEF Chain
  <2> QED BY <1>6, <1>9, <1>10, <1>12, <2>1
<1>13. CASE i \notin P /\ j \in P
  <2>1. h2.q[i] = h.q[i]
    BY <1>6, <1>13
  <2>2. CASE next[j] \in P
    BY <1>6, <1>7, <1>11, <1>13, <2>1, <2>2
  <2>3. CASE next[j] \notin P
    <3>1. h2.q[j] = h.q[k]
      BY <1>6, <1>13, <2>3
    <3>2. next[j] \notin 1 .. c
      BY <1>2, <1>4, <1>13, <2>3 DEF Chain
    <3>3. Lesser(h, j, val) \in 1 .. c
      BY <1>1, <1>11
    <3>4. ~(V(k) >= V(Lesser(h, j, val)))
      <4> HIDE DEF j
      <4> QED BY <1>2, <1>9, <1>11, <3>2, <3>3
    <3>5. V(Lesser(h, j, val)) \in Int /\ V(i) \in Int
      BY <1>5, <1>11
    <3> QED BY <1>5, <1>11, <2>1, <3>1, <3>4, <3>5
  <2> QED BY <2>2, <2>3
<1>14. CASE i \in P /\ i # k
  <2>1. j \in P /\ next[j] = i
    BY <1>8, <1>14
  <2>2. h2.q[j] = h.q[i] /\ V(k) >= V(i)
    BY <1>6, <1>7, <1>14, <2>1
  <2>3. CASE next[i] \in P
    <3>1. next[i] \in 2 .. h.n /\ next[i] \div 2 = i
      BY <1>7, <1>14, <2>3
    <3>2. next[i] # k
      <4>1. w[next[i]] < w[i] /\ w[i] < w[k]
        BY <1>2, <1>4, <1>14, <2>3 DEF Chain, Descends
      <4>2. i \in 1 .. c /\ next[i] \in 1 .. c
        BY <1>4, <1>14, <2>3
      <4> QED BY <4>1, <4>2 DEF Downwards
    <3>3. V(i) <= V(next[i])
      BY <1>14, <3>1, <3>2 DEF OrderedBut
    <3>4. h2.q[i] = h.q[next[i]]
      BY <1>6, <1>14, <2>3
    <3> QED BY <2>2, <3>3, <3>4
  <2>4. CASE next[i] \notin P
    <3>1. h2.q[i] = h.q[k]
      BY <1>6, <1>14, <2>4
    <3> QED BY <1>5, <2>2, <3>1
  <2> QED BY <2>3, <2>4
<1>15. CASE i = k
  <2>1. i \in P
    BY <1>4, <1>15 DEF Chain
  <2>2. j \notin P
    <3>1. ASSUME j \in P PROVE FALSE
      <4> HIDE DEF j
      <4>1. j # k /\ j \in 1 .. c
        BY <1>9, <1>15
      <4>2. w[j] < w[k]
        BY <1>4, <3>1, <4>1 DEF Chain
      <4> QED BY <1>9, <1>15, <4>1, <4>2 DEF Downwards
    <3> QED BY <3>1
  <2>3. h2.q[j] = h.q[j]
    BY <1>6, <1>9, <2>2
  <2>4. CASE next[i] \in P
    <3>1. /\ next[i] \in 2 .. h.n /\ next[i] \div 2 = k
          /\ h2.q[i] = h.q[next[i]]
      BY <1>6, <1>7, <1>15, <2>1, <2>4
    <3>2. V(j) <= V(next[i])
      BY <1>1, <1>15, <3>1 DEF OrderedBut
    <3> QED BY <2>3, <3>1, <3>2
  <2>5. CASE next[i] \notin P
    <3>1. h2.q[i] = h.q[k]
      BY <1>6, <2>1, <2>5
    <3> QED BY <1>10, <1>15, <2>3, <3>1
  <2> QED BY <2>4, <2>5
<1> QED BY <1>12, <1>13, <1>14, <1>15

-----------------------------------------------------------------------------
(* The macros.                                                             *)

LEMMA UpHeapIs ==
    ASSUME NEW E, NEW N, NEW c \in Nat, NEW h, QueueType(h, E, N, c),
           NEW val \in [E -> Int], NEW k \in 1 .. h.n,
           Indexed(h, E, Slots(h, k))
    PROVE  LET h2 == UpHeap(h, k, val)
           IN  /\ Rearranged(h, h2, E, N, c, Slots(h, k))
               /\ k # 1 /\ val[h.q[1]] <= val[h.q[k]] => h2.q[1] = h.q[1]
<1> DEFINE next == Up(h, k, val)
           P    == Passed(next)[k]
           w    == Upwards(k)
           h2   == Sift(h, k, next)
<1>1. h.n \in 0 .. c /\ DOMAIN h.q = 1 .. c
  BY DEF QueueType
<1>2. Descends(next, w) /\ Within(h, k, next, c) /\ DOMAIN next = 1 .. k
  <2>1. h.n \in 0 .. c
    BY <1>1
  <2> QED BY <2>1, UpIs
<1>3. \A i \in 1 .. k : next[i] = IF i > 1 /\ val[h.q[i \div 2]] > val[h.q[k]]
                                  THEN i \div 2 ELSE 0
  BY DEF Up
<1>4. UpHeap(h, k, val) = h2
  BY DEF UpHeap
<1> HIDE DEF next
<1>5. /\ Rearranged(h, h2, E, N, c, Slots(h, k))
      /\ Sifted(h, k, next, P, h2) /\ Chain(next, w, k, P)
  BY <1>2, SiftIs
<1> HIDE DEF P, h2
<1>6. ASSUME k # 1, val[h.q[1]] <= val[h.q[k]] PROVE h2.q[1] = h.q[1]
  <2>1. ASSUME 1 \in P PROVE FALSE
    <3>1. PICK m \in P : next[m] = 1
      BY <1>5, <1>6, <2>1 DEF Chain
    <3>2. m \in 1 .. k
      BY <1>2, <1>5 DEF Chain
    <3>3. m \div 2 = 1 /\ val[h.q[1]] > val[h.q[k]]
      BY <1>3, <3>1, <3>2
    <3>4. val[h.q[1]] \in Int /\ val[h.q[k]] \in Int
      BY <1>1 DEF Indexed, Slots
    <3> QED BY <1>6, <3>3, <3>4
  <2>2. 1 \in DOMAIN h.q
    BY <1>1
  <2> QED BY <1>5, <2>1, <2>2 DEF Sifted
<1> QED BY <1>4, <1>5, <1>6

LEMMA DownHeapIs ==
    ASSUME NEW E, NEW N, NEW c \in Nat, NEW h, QueueType(h, E, N, c),
           NEW val, NEW k \in 1 .. c, Indexed(h, E, Slots(h, k))
    PROVE  LET h2 == DownHeap(h, k, val)
           IN  /\ Rearranged(h, h2, E, N, c, Slots(h, k))
               /\ k # 1 => h2.q[1] = h.q[1]
               /\ k > h.n => h2.q[k] = h.q[k]
<1> DEFINE next == Down(h, k, val)
           P    == Passed(next)[k]
           w    == Downwards(c)
           h2   == Sift(h, k, next)
<1>1. h.n \in 0 .. c /\ DOMAIN h.q = 1 .. c
  BY DEF QueueType
<1>2. Descends(next, w) /\ Within(h, k, next, c) /\ DOMAIN next = 1 .. c
  BY <1>1, DownIs
<1>4. DownHeap(h, k, val) = h2
  BY DEF DownHeap
<1> HIDE DEF next
<1>5. /\ Rearranged(h, h2, E, N, c, Slots(h, k))
      /\ Sifted(h, k, next, P, h2) /\ Chain(next, w, k, P)
      /\ P \subseteq Slots(h, k)
  BY <1>2, SiftIs
<1> HIDE DEF P, h2
<1>6. \A j \in P : j # k => j > k /\ j <= h.n
  <2>1. SUFFICES ASSUME NEW j \in P, j # k PROVE j > k /\ j <= h.n
    OBVIOUS
  <2>2. j \in 1 .. c /\ w[j] < w[k] /\ j \in Slots(h, k)
    BY <1>2, <1>5, <2>1 DEF Chain
  <2> QED BY <1>1, <2>1, <2>2 DEF Slots, Downwards
<1>7. ASSUME k # 1 PROVE h2.q[1] = h.q[1]
  <2>1. 1 \in DOMAIN h.q /\ 1 \notin P
    BY <1>1, <1>6, <1>7
  <2> QED BY <1>5, <2>1 DEF Sifted
<1>8. ASSUME k > h.n PROVE h2.q[k] = h.q[k]
  <2>1. k \in P /\ next[k] \notin P
    <3>1. k \in P
      BY <1>5 DEF Chain
    <3>2. ASSUME next[k] \in P PROVE FALSE
      <4>1. w[next[k]] < w[k] /\ next[k] \in 1 .. c
        BY <1>2, <1>5, <3>1, <3>2 DEF Descends, Chain
      <4>2. next[k] # k
        BY <4>1 DEF Downwards
      <4>3. next[k] > k /\ next[k] <= h.n /\ next[k] \in Nat
        BY <1>6, <3>2, <4>1, <4>2
      <4> QED BY <1>1, <1>8, <4>3
    <3> QED BY <3>1, <3>2
  <2> QED BY <1>1, <1>5, <2>1 DEF Sifted
<1> QED BY <1>4, <1>5, <1>7, <1>8

\* A heap of elements of E.
IsHeap(h, val, E, N, c) ==
    /\ QueueType(h, E, N, c) /\ Indexed(h, E, 1 .. h.n) /\ Ordered(h, val)

\* The values of what is not queued do not matter.
LEMMA IsHeapFor ==
    ASSUME NEW E, NEW N, NEW c, NEW h, NEW v, IsHeap(h, v, E, N, c), NEW u,
           \A e \in Members(h) : u[e] = v[e]
    PROVE  IsHeap(h, u, E, N, c)
<1>1. h.n \in Nat /\ \A i \in 1 .. h.n : u[h.q[i]] = v[h.q[i]]
  BY DEF Members, IsHeap, QueueType
<1>2. \A i \in 2 .. h.n : i \in 1 .. h.n /\ i \div 2 \in 1 .. h.n
  <2>1. SUFFICES ASSUME NEW i \in 2 .. h.n
                 PROVE  i \in 1 .. h.n /\ i \div 2 \in 1 .. h.n
    OBVIOUS
  <2>2. i \div 2 \in Nat /\ i \div 2 > 0 /\ i \div 2 < i
    BY <1>1, Parent
  <2> QED BY <1>1, <2>2
<1> QED BY <1>1, <1>2 DEF IsHeap, Ordered

\* The root is least.
LEMMA RootIsLeast ==
    ASSUME NEW h, NEW val, h.n \in Nat, Ordered(h, val),
           \A i \in 1 .. h.n : val[h.q[i]] \in Int
    PROVE  \A i \in 1 .. h.n : val[h.q[1]] <= val[h.q[i]]
<1> DEFINE Bad == {i \in 1 .. h.n : ~(val[h.q[1]] <= val[h.q[i]])}
<1>1. ASSUME Bad # {} PROVE FALSE
  <2>1. PICK i \in Bad : \A j \in Bad : i <= j
    <3>1. Bad \subseteq Nat
      OBVIOUS
    <3> HIDE DEF Bad
    <3> QED BY <1>1, <3>1, LeastExists
  <2>2. i \in 2 .. h.n
    OBVIOUS
  <2>3. i \div 2 \in 1 .. h.n /\ i \div 2 < i
    BY <2>2, Parent
  <2>4. val[h.q[i \div 2]] <= val[h.q[i]]
    BY <2>2 DEF Ordered
  <2>5. val[h.q[1]] <= val[h.q[i \div 2]]
    BY <2>1, <2>3
  <2> QED BY <2>1, <2>2, <2>3, <2>4, <2>5
<1> QED BY <1>1

\* The heap h2 is h with e added; e is its head only if it is less than the
\* head there was.
With(h, e, h2, val, E, N, c) ==
    /\ IsHeap(h2, val, E, N, c) /\ h2.n = h.n + 1
    /\ Members(h2) = Members(h) \cup {e}
    /\ \A x \in E \ Members(h2) : h2.ix[x] = h.ix[x]
    /\ h.n > 0 /\ val[h.q[1]] <= val[e] => h2.q[1] = h.q[1]

\* PQ_INSERT adds an element.
LEMMA PQInsertIs ==
    ASSUME NEW N, NEW E \in SUBSET N, NEW c \in Nat, NEW val \in [E -> Int],
           NEW h, IsHeap(h, val, E, N, c), h.n < c,
           NEW e \in E, e \notin Members(h)
    PROVE  With(h, e, PQInsert(h, e, val), val, E, N, c)
<1> DEFINE k  == h.n + 1
           g  == Place(h, k, k, e)
           h2 == UpHeap(g, k, val)
<1>1. /\ h.n \in 0 .. c /\ h.q \in [1 .. c -> N] /\ h.ix \in [E -> Nat]
      /\ h = [n |-> h.n, q |-> h.q, ix |-> h.ix] /\ k \in 1 .. c
  BY DEF IsHeap, QueueType
<1>2. \A i \in 1 .. h.n : h.q[i] \in E /\ h.ix[h.q[i]] = i /\ h.q[i] # e
  BY DEF IsHeap, Indexed, Members
<1>3. /\ g.n = k /\ g.q = [h.q EXCEPT ![k] = e] /\ g.ix = [h.ix EXCEPT ![e] = k]
      /\ g = [n |-> g.n, q |-> g.q, ix |-> g.ix]
  BY DEF Place
<1>4. PQInsert(h, e, val) = h2
  BY DEF PQInsert
<1> HIDE DEF g
<1>5. /\ \A i \in 1 .. h.n : g.q[i] = h.q[i]
      /\ g.q[k] = e /\ g.ix[e] = k
      /\ \A x \in E : x # e => g.ix[x] = h.ix[x]
  BY <1>1, <1>3
<1>6. QueueType(g, E, N, c)
  <2>1. e \in N /\ k \in Nat /\ k \in 0 .. c
    BY <1>1
  <2>2. g.q \in [1 .. c -> N] /\ g.ix \in [E -> Nat] /\ g.n \in 0 .. c
    BY <1>1, <1>3, <2>1
  <2> QED BY <1>3, <2>2 DEF QueueType
<1>7. Slots(g, k) = 1 .. k /\ k \in 1 .. g.n
  BY <1>1, <1>3 DEF Slots
<1>8. Indexed(g, E, Slots(g, k))
  <2>1. SUFFICES ASSUME NEW i \in 1 .. k PROVE g.q[i] \in E /\ g.ix[g.q[i]] = i
    BY <1>7 DEF Indexed
  <2>2. CASE i = k
    BY <1>5, <2>2
  <2>3. CASE i # k
    <3>1. i \in 1 .. h.n
      BY <1>1, <2>3
    <3> QED BY <1>2, <1>5, <3>1
  <2> QED BY <2>2, <2>3
<1>9. \A i \in 2 .. g.n : /\ i \div 2 \in 1 .. h.n
                          /\ i # k => i \in 2 .. h.n
  <2>1. SUFFICES ASSUME NEW i \in 2 .. g.n
                 PROVE  i \div 2 \in 1 .. h.n /\ (i # k => i \in 2 .. h.n)
    OBVIOUS
  <2>2. i \in Nat /\ i > 1 /\ i <= h.n + 1
    BY <1>1, <1>3
  <2>3. i \div 2 \in Nat /\ i \div 2 > 0 /\ i \div 2 < i
    BY <2>2, Parent
  <2> QED BY <1>1, <2>2, <2>3
<1>10. \A i \in 2 .. g.n : i \div 2 # k
  BY <1>1, <1>9
<1>11. OrderedBut(g, k, val)
  BY <1>5, <1>9, <1>10 DEF OrderedBut, IsHeap, Ordered
<1>12. Ordered(h2, val)
  BY <1>6, <1>7, <1>8, <1>10, <1>11, UpHeapOrders
<1>13. /\ Rearranged(g, h2, E, N, c, Slots(g, k))
       /\ k # 1 /\ val[g.q[1]] <= val[g.q[k]] => h2.q[1] = g.q[1]
  <2> HIDE DEF k
  <2> QED BY <1>6, <1>7, <1>8, UpHeapIs
<1> HIDE DEF h2
<1>14. IsHeap(h2, val, E, N, c) /\ h2.n = h.n + 1
  BY <1>3, <1>7, <1>12, <1>13 DEF Rearranged, IsHeap
<1>15. Members(h2) = Members(h) \cup {e}
  <2>1. {g.q[i] : i \in 1 .. k} = {h.q[i] : i \in 1 .. h.n} \cup {e}
    <3>1. \A i \in 1 .. k : i \in 1 .. h.n \/ i = k
      BY <1>1
    <3>2. \A i \in 1 .. h.n : i \in 1 .. k
      BY <1>1
    <3>3. k \in 1 .. k
      BY <1>1
    <3> HIDE DEF k
    <3> QED BY <1>5, <3>1, <3>2, <3>3
  <2> QED BY <1>3, <1>7, <1>13, <2>1 DEF Rearranged, Members
<1>16. ASSUME NEW x \in E \ Members(h2) PROVE h2.ix[x] = h.ix[x]
  <2>1. \A i \in 1 .. k : g.q[i] # x
    BY <1>3, <1>7, <1>13, <1>16 DEF Rearranged, Members
  <2>2. x # e
    BY <1>15, <1>16
  <2> QED BY <1>5, <1>7, <1>13, <2>1, <2>2 DEF Rearranged
<1>17. ASSUME h.n > 0, val[h.q[1]] <= val[e] PROVE h2.q[1] = h.q[1]
  <2>1. k # 1 /\ 1 \in 1 .. h.n
    BY <1>1, <1>17
  <2> QED BY <1>5, <1>13, <1>17, <2>1
<1> QED BY <1>4, <1>14, <1>15, <1>16, <1>17 DEF With

\* g is h with its last element put at k, in order but for that.
Filled(h, k, g, val, E, N, c) ==
    /\ QueueType(g, E, N, c) /\ Indexed(g, E, Slots(g, k))
    /\ g.n = h.n - 1 /\ g.q[k] = h.q[h.n]
    /\ \A i \in 1 .. g.n : i # k => g.q[i] = h.q[i]
    /\ \A x \in E \ Members(h) : g.ix[x] = h.ix[x]
    /\ OrderedBut(g, k, val)

LEMMA LastToIs ==
    ASSUME NEW E, NEW N, NEW c \in Nat, NEW val \in [E -> Int],
           NEW h, IsHeap(h, val, E, N, c), NEW k \in 1 .. h.n
    PROVE  Filled(h, k, LastTo(h, k), val, E, N, c)
<1> DEFINE g == LastTo(h, k)
           l == h.q[h.n]
<1>1. /\ h.n \in 0 .. c /\ h.q \in [1 .. c -> N] /\ h.ix \in [E -> Nat]
      /\ h.n \in Nat /\ h.n > 0 /\ k \in 1 .. c /\ h.n \in 1 .. c
  BY DEF IsHeap, QueueType
<1>2. \A i \in 1 .. h.n : h.q[i] \in E /\ h.ix[h.q[i]] = i
  BY DEF IsHeap, Indexed
<1>3. /\ g.n = h.n - 1 /\ g.q = [h.q EXCEPT ![k] = l]
      /\ g.ix = [h.ix EXCEPT ![l] = k]
      /\ g = [n |-> g.n, q |-> g.q, ix |-> g.ix]
  BY DEF LastTo, Place
<1> HIDE DEF g
<1>4. l \in E /\ l \in N /\ \A i \in 1 .. h.n : i # h.n => h.q[i] # l
  BY <1>1, <1>2
<1>5. /\ \A i \in 1 .. g.n : i # k => g.q[i] = h.q[i]
      /\ g.q[k] = l /\ g.ix[l] = k
      /\ \A x \in E : x # l => g.ix[x] = h.ix[x]
  <2>1. \A i \in 1 .. g.n : i \in 1 .. c
    BY <1>1, <1>3
  <2> QED BY <1>1, <1>3, <1>4, <2>1
<1>6. QueueType(g, E, N, c)
  <2>1. g.n \in 0 .. c /\ g.q \in [1 .. c -> N] /\ g.ix \in [E -> Nat]
    BY <1>1, <1>3, <1>4
  <2> QED BY <1>3, <2>1 DEF QueueType
<1>7. Indexed(g, E, Slots(g, k))
  <2>1. SUFFICES ASSUME NEW i \in Slots(g, k)
                 PROVE  g.q[i] \in E /\ g.ix[g.q[i]] = i
    BY DEF Indexed
  <2>2. CASE i = k
    BY <1>4, <1>5, <2>2
  <2>3. CASE i # k
    <3>1. i \in 1 .. g.n /\ i \in 1 .. h.n /\ i # h.n
      BY <1>1, <1>3, <2>3 DEF Slots
    <3> QED BY <1>2, <1>4, <1>5, <2>3, <3>1
  <2> QED BY <2>2, <2>3
<1>8. \A x \in E \ Members(h) : g.ix[x] = h.ix[x]
  <2>1. l \in Members(h)
    BY <1>1 DEF Members
  <2> QED BY <1>5, <2>1
<1>9. OrderedBut(g, k, val)
  <2>1. SUFFICES ASSUME NEW i \in 2 .. g.n
                 PROVE  /\ i # k /\ i \div 2 # k
                              => val[g.q[i \div 2]] <= val[g.q[i]]
                        /\ i \div 2 = k /\ k > 1
                              => val[g.q[k \div 2]] <= val[g.q[i]]
    BY DEF OrderedBut
  <2>2. /\ i \in 2 .. h.n /\ i \in 1 .. g.n /\ i \in Nat /\ i > 1
        /\ i \div 2 \in 1 .. g.n /\ i \div 2 \in 1 .. h.n /\ i \div 2 < i
    <3>1. i \in 2 .. h.n /\ i \in 1 .. g.n /\ i \in Nat /\ i > 1
      BY <1>1, <1>3
    <3>2. i \div 2 \in Nat /\ i \div 2 > 0 /\ i \div 2 < i
      BY <3>1, Parent
    <3> QED BY <1>1, <1>3, <3>1, <3>2
  <2>3. val[h.q[i \div 2]] <= val[h.q[i]]
    BY <2>2 DEF IsHeap, Ordered
  <2>4. CASE i # k /\ i \div 2 # k
    BY <1>5, <2>2, <2>3, <2>4
  <2>5. CASE i \div 2 = k /\ k > 1
    <3>1. k \in 2 .. h.n /\ k \in Nat /\ k < i
      BY <1>1, <2>2, <2>5
    <3>2. k \div 2 \in Nat /\ k \div 2 > 0 /\ k \div 2 < k
      BY <3>1, Parent
    <3>3. k \div 2 \in 1 .. g.n /\ k \div 2 # k /\ k \div 2 \in 1 .. h.n
      BY <1>1, <1>3, <2>2, <3>1, <3>2
    <3>4. val[h.q[k \div 2]] <= val[h.q[k]]
      BY <3>1 DEF IsHeap, Ordered
    <3>5. /\ val[h.q[k \div 2]] \in Int /\ val[h.q[k]] \in Int
          /\ val[h.q[i]] \in Int
      BY <1>2, <2>2, <3>3
    <3>6. g.q[k \div 2] = h.q[k \div 2] /\ g.q[i] = h.q[i]
      BY <1>5, <2>2, <3>1, <3>3
    <3>7. val[h.q[k]] <= val[h.q[i]]
      BY <2>3, <2>5
    <3> QED BY <2>5, <3>1, <3>4, <3>5, <3>6, <3>7
  <2>6. CASE ~(i # k /\ i \div 2 # k) /\ ~(i \div 2 = k /\ k > 1)
    BY <2>6
  <2> QED BY <2>4, <2>5, <2>6
<1>10. Filled(h, k, g, val, E, N, c)
  BY <1>3, <1>5, <1>6, <1>7, <1>8, <1>9 DEF Filled
<1> QED BY <1>10 DEF g

\* The heap h2 is h without its k-th element.
Without(h, k, h2, val, E, N, c) ==
    /\ IsHeap(h2, val, E, N, c) /\ h2.n = h.n - 1
    /\ Members(h2) = Members(h) \ {h.q[k]}
    /\ \A x \in E \ Members(h) : h2.ix[x] = h.ix[x]
    /\ k # 1 => h2.q[1] = h.q[1]

LEMMA FilledIsWithout ==
    ASSUME NEW E, NEW N, NEW c \in Nat, NEW val \in [E -> Int],
           NEW h, IsHeap(h, val, E, N, c), NEW k \in 1 .. h.n, NEW h2,
           Rearranged(LastTo(h, k), h2, E, N, c, Slots(LastTo(h, k), k)),
           k = h.n => h2.q[k] = h.q[k],
           k # 1 => h2.q[1] = h.q[1], Ordered(h2, val)
    PROVE  Without(h, k, h2, val, E, N, c)
<1> DEFINE g == LastTo(h, k)
           D == Slots(g, k)
<1>1. /\ h.n \in Nat /\ h.n > 0
      /\ \A i, j \in 1 .. h.n : h.q[i] = h.q[j] => i = j
      /\ \A i \in 1 .. h.n : h.q[i] \in E
  BY DEF IsHeap, QueueType, Indexed
<1>2. /\ g.n = h.n - 1 /\ g.q[k] = h.q[h.n]
      /\ \A i \in 1 .. g.n : i # k => g.q[i] = h.q[i]
      /\ \A x \in E \ Members(h) : g.ix[x] = h.ix[x]
  <2>1. Filled(h, k, g, val, E, N, c)
    BY LastToIs
  <2> HIDE DEF g
  <2> QED BY <2>1 DEF Filled
<1> HIDE DEF g
<1>3. /\ QueueType(h2, E, N, c) /\ h2.n = g.n /\ Indexed(h2, E, D)
      /\ {h2.q[i] : i \in D} = {g.q[i] : i \in D}
      /\ \A e \in E : (\A i \in D : g.q[i] # e) => h2.ix[e] = g.ix[e]
  BY DEF Rearranged, g
<1>4. D = (1 .. (h.n - 1)) \cup {k}
  BY <1>2 DEF Slots
<1> HIDE DEF D
<1>5. IsHeap(h2, val, E, N, c) /\ h2.n = h.n - 1
  <2>1. Indexed(h2, E, 1 .. h2.n)
    BY <1>2, <1>3, <1>4 DEF Indexed
  <2> QED BY <1>2, <1>3, <2>1 DEF IsHeap
<1>6. \A i \in D : g.q[i] = IF i = k THEN h.q[h.n] ELSE h.q[i]
  BY <1>2, <1>4
<1>7. \A i \in D : i \in 1 .. h.n
  BY <1>1, <1>4
<1>8. Members(h2) = Members(h) \ {h.q[k]}
  <2>1. CASE k = h.n
    <3>1. D = 1 .. h.n
      BY <1>1, <1>4, <2>1
    <3>2. {h2.q[i] : i \in D} = Members(h)
      <4>1. \A i \in D : g.q[i] = h.q[i]
        BY <1>6, <2>1
      <4>2. {g.q[i] : i \in D} = {h.q[i] : i \in D}
        BY <4>1
      <4>3. Members(h) = {h.q[i] : i \in D}
        BY <3>1 DEF Members
      <4> QED BY <1>3, <4>2, <4>3
    <3>3. \A i, j \in D : h2.q[i] = h2.q[j] => i = j
      BY <1>3 DEF Indexed
    <3>4. \A i \in D : i \in 1 .. h2.n <=> i # k
      BY <1>1, <1>5, <2>1, <3>1
    <3>5. \A i \in 1 .. h2.n : i \in D
      BY <1>1, <1>4, <1>5
    <3>6. Members(h2) = {h2.q[i] : i \in D} \ {h2.q[k]}
      <4>1. k \in D
        BY <1>4
      <4> QED BY <3>3, <3>4, <3>5, <4>1 DEF Members
    <3> QED BY <2>1, <3>2, <3>6
  <2>2. CASE k # h.n
    <3>1. D = 1 .. h2.n /\ h2.n = h.n - 1
      BY <1>1, <1>4, <1>5, <2>2
    <3>2. Members(h2) = {g.q[i] : i \in D}
      BY <1>3, <3>1 DEF Members
    <3>3. ASSUME NEW x \in Members(h2) PROVE x \in Members(h) \ {h.q[k]}
      <4>1. PICK i \in D : x = g.q[i]
        BY <3>2
      <4>2. CASE i = k
        <5>1. x = h.q[h.n] /\ h.n \in 1 .. h.n
          BY <1>1, <1>6, <4>1, <4>2
        <5> QED BY <1>1, <2>2, <5>1 DEF Members
      <4>3. CASE i # k
        <5>1. x = h.q[i] /\ i \in 1 .. h.n
          BY <1>6, <1>7, <4>1, <4>3
        <5> QED BY <1>1, <4>3, <5>1 DEF Members
      <4> QED BY <4>2, <4>3
    <3>4. ASSUME NEW x \in Members(h), x # h.q[k] PROVE x \in Members(h2)
      <4>1. PICK i \in 1 .. h.n : x = h.q[i]
        BY DEF Members
      <4>2. CASE i = h.n
        <5>1. x = g.q[k] /\ k \in D
          BY <1>2, <1>4, <4>1, <4>2
        <5> QED BY <3>2, <5>1
      <4>3. CASE i # h.n
        <5>1. i \in D /\ i # k
          BY <1>1, <1>4, <3>4, <4>1, <4>3
        <5> QED BY <1>6, <3>2, <4>1, <5>1
      <4> QED BY <4>2, <4>3
    <3> QED BY <3>3, <3>4
  <2> QED BY <2>1, <2>2
<1>9. ASSUME NEW x \in E \ Members(h) PROVE h2.ix[x] = h.ix[x]
  <2>1. \A i \in 1 .. h.n : h.q[i] # x
    BY <1>9 DEF Members
  <2>2. h.n \in 1 .. h.n
    BY <1>1
  <2>3. \A i \in D : g.q[i] # x
    BY <1>6, <1>7, <2>1, <2>2
  <2> QED BY <1>2, <1>3, <1>9, <2>3
<1> QED BY <1>5, <1>8, <1>9 DEF Without

\* PQ_REMOVE takes out the head.
LEMMA PQRemoveIs ==
    ASSUME NEW E, NEW N, NEW c \in Nat, NEW val \in [E -> Int],
           NEW h, IsHeap(h, val, E, N, c), h.n > 0
    PROVE  Without(h, 1, PQRemove(h, val), val, E, N, c)
<1> DEFINE g  == LastTo(h, 1)
           h2 == DownHeap(g, 1, val)
<1>1. h.n \in 0 .. c /\ 1 \in 1 .. h.n /\ 1 \in 1 .. c
  BY DEF IsHeap, QueueType
<1>2. /\ QueueType(g, E, N, c) /\ Indexed(g, E, Slots(g, 1))
      /\ g.n = h.n - 1 /\ g.q[1] = h.q[h.n] /\ OrderedBut(g, 1, val)
  <2>1. Filled(h, 1, g, val, E, N, c)
    BY <1>1, LastToIs
  <2> HIDE DEF g
  <2> QED BY <2>1 DEF Filled
<1>3. PQRemove(h, val) = h2
  BY DEF PQRemove
<1> HIDE DEF g
<1>4. Ordered(h2, val)
  <2>1. 1 \notin 2 .. g.n
    OBVIOUS
  <2> QED BY <1>1, <1>2, <2>1, DownHeapOrders
<1>5. /\ Rearranged(g, h2, E, N, c, Slots(g, 1))
      /\ 1 > g.n => h2.q[1] = g.q[1]
  BY <1>1, <1>2, DownHeapIs
<1> HIDE DEF h2
<1>6. 1 = h.n => h2.q[1] = h.q[1]
  BY <1>2, <1>5
<1> QED BY <1>1, <1>3, <1>4, <1>5, <1>6, FilledIsWithout DEF g

\* PQ_DEL takes out the element of the slot it is given, and leaves the head
\* where it is unless it is that one.
LEMMA PQDelIs ==
    ASSUME NEW E, NEW N, NEW c \in Nat, NEW val \in [E -> Int],
           NEW h, IsHeap(h, val, E, N, c), NEW k \in 1 .. h.n
    PROVE  Without(h, k, PQDel(h, k, val), val, E, N, c)
<1> DEFINE g == LastTo(h, k)
<1>1. /\ h.n \in 0 .. c /\ k \in 1 .. c /\ h.n \in Nat /\ h.n > 0
      /\ \A i \in 1 .. h.n : h.q[i] \in E /\ val[h.q[i]] \in Int
  BY DEF IsHeap, QueueType, Indexed
<1>2. /\ QueueType(g, E, N, c) /\ Indexed(g, E, Slots(g, k))
      /\ g.n = h.n - 1 /\ g.q[k] = h.q[h.n]
      /\ \A i \in 1 .. g.n : i # k => g.q[i] = h.q[i]
      /\ OrderedBut(g, k, val)
  <2>1. Filled(h, k, g, val, E, N, c)
    BY LastToIs
  <2> HIDE DEF g
  <2> QED BY <2>1 DEF Filled
<1>3. PQDel(h, k, val) = IF val[g.q[k]] >= val[h.q[k]]
                         THEN DownHeap(g, k, val) ELSE UpHeap(g, k, val)
  BY DEF PQDel
<1> HIDE DEF g
<1>4. val[g.q[k]] \in Int /\ val[h.q[k]] \in Int
  BY <1>1, <1>2
<1>5. CASE val[g.q[k]] >= val[h.q[k]]
  <2> DEFINE h2 == DownHeap(g, k, val)
  <2>1. ASSUME k \in 2 .. g.n PROVE val[g.q[k \div 2]] <= val[g.q[k]]
    <3>1. k \in 2 .. h.n /\ k \in Nat /\ k > 1
      BY <1>1, <1>2, <2>1
    <3>2. k \div 2 \in Nat /\ k \div 2 > 0 /\ k \div 2 < k
      BY <3>1, Parent
    <3>3. k \div 2 \in 1 .. g.n /\ k \div 2 \in 1 .. h.n
      BY <1>1, <1>2, <3>1, <3>2, <2>1
    <3>4. g.q[k \div 2] = h.q[k \div 2]
      BY <1>2, <3>2, <3>3
    <3>5. val[h.q[k \div 2]] <= val[h.q[k]]
      BY <3>1 DEF IsHeap, Ordered
    <3>6. val[h.q[k \div 2]] \in Int
      BY <1>1, <3>3
    <3> QED BY <1>4, <1>5, <3>4, <3>5, <3>6
  <2>2. Ordered(h2, val)
    BY <1>1, <1>2, <2>1, DownHeapOrders
  <2>3. /\ Rearranged(g, h2, E, N, c, Slots(g, k))
        /\ k # 1 => h2.q[1] = g.q[1]
        /\ k > g.n => h2.q[k] = g.q[k]
    BY <1>1, <1>2, DownHeapIs
  <2> HIDE DEF h2
  <2>4. k = h.n => h2.q[k] = h.q[k]
    BY <1>1, <1>2, <2>3
  <2>5. k # 1 => h2.q[1] = h.q[1]
    <3>1. k # 1 => 1 \in 1 .. g.n
      BY <1>1, <1>2
    <3> QED BY <1>2, <2>3, <3>1
  <2>6. Without(h, k, h2, val, E, N, c)
    BY <2>2, <2>3, <2>4, <2>5, FilledIsWithout DEF g
  <2> QED BY <1>3, <1>5, <2>6 DEF h2
<1>6. CASE ~(val[g.q[k]] >= val[h.q[k]])
  <2> DEFINE h2 == UpHeap(g, k, val)
  <2>1. k # h.n /\ k \in 1 .. g.n
    <3>1. k # h.n
      BY <1>2, <1>4, <1>6
    <3> QED BY <1>1, <1>2, <3>1
  <2>2. \A i \in 2 .. g.n : i \div 2 = k => val[g.q[k]] <= val[g.q[i]]
    <3>1. SUFFICES ASSUME NEW i \in 2 .. g.n, i \div 2 = k
                   PROVE  val[g.q[k]] <= val[g.q[i]]
      OBVIOUS
    <3>2. i \in 2 .. h.n /\ i \in 1 .. g.n /\ i \in Nat /\ i > 1
      BY <1>1, <1>2
    <3>3. k < i
      BY <3>1, <3>2, Parent
    <3>4. val[h.q[k]] <= val[h.q[i]]
      BY <3>1, <3>2 DEF IsHeap, Ordered
    <3>5. g.q[i] = h.q[i] /\ val[h.q[i]] \in Int
      BY <1>1, <1>2, <3>2, <3>3
    <3> QED BY <1>4, <1>6, <3>4, <3>5
  <2>3. Ordered(h2, val)
    BY <1>2, <2>1, <2>2, UpHeapOrders
  <2>4. /\ Rearranged(g, h2, E, N, c, Slots(g, k))
        /\ k # 1 /\ val[g.q[1]] <= val[g.q[k]] => h2.q[1] = g.q[1]
    BY <1>2, <2>1, UpHeapIs
  <2> HIDE DEF h2
  <2>5. ASSUME k # 1 PROVE h2.q[1] = h.q[1]
    <3>1. 1 \in 1 .. g.n /\ h.n \in 1 .. h.n
      BY <1>1, <1>2, <2>1
    <3>2. val[h.q[1]] <= val[h.q[h.n]]
      <4>1. Ordered(h, val)
        BY DEF IsHeap
      <4> QED BY <1>1, <3>1, <4>1, RootIsLeast
    <3> QED BY <1>2, <2>4, <2>5, <3>1, <3>2
  <2>6. Without(h, k, h2, val, E, N, c)
    BY <2>1, <2>3, <2>4, <2>5, FilledIsWithout DEF g
  <2> QED BY <1>3, <1>6, <2>6 DEF h2
<1> QED BY <1>5, <1>6
=============================================================================
