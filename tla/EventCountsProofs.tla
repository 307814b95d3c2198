-------------------------- MODULE EventCountsProofs --------------------------
(***************************************************************************)
(* What EventCounts keeps for any threads, any values and any way the      *)
(* channel is closed: the queues of those that sleep, the order of the     *)
(* values an event count takes, the number of entries in the event FIFO,   *)
(* and that no event is lost.                                              *)
(***************************************************************************)
EXTENDS EventCounts, SequenceTheorems, FiniteSetTheorems, FunctionTheorems, TLAPS

-----------------------------------------------------------------------------
(* Words.                                                                  *)

Half == Words \div 2

\* How far the word x is ahead of the word y.
Ahead(x, y) == (x - y) % Words

LEMMA WordsAre ==
    /\ Words \in Nat \ {0} /\ Half \in Nat \ {0} /\ Half + Half = Words
    /\ MaxStep \in Nat \ {0} /\ Window \in Nat
    /\ \A k \in Kinds : /\ MaxAhead[k] \in Nat \ {0}
                        /\ Window + MaxAhead[k] < Half
                        /\ MaxStep + Window + MaxAhead[k] < Words
<1>1. Words \in Nat \ {0} /\ Half \in Nat \ {0} /\ Half + Half = Words
  BY ValueAssumption DEF Half
<1>2. MaxStep \in Nat \ {0} /\ Window \in Nat
  BY ValueAssumption
<1>3. ASSUME NEW k \in Kinds
      PROVE  /\ MaxAhead[k] \in Nat \ {0} /\ 2 * (Window + MaxAhead[k]) < Words
             /\ MaxStep + Window + MaxAhead[k] < Words
  BY ValueAssumption
<1> HIDE DEF Half
<1> QED BY <1>1, <1>2, <1>3

LEMMA AheadIs ==
    \A x, y \in Vals :
        /\ Ahead(x, y) = IF x >= y THEN x - y ELSE x - y + Words
        /\ Ahead(x, y) \in Nat
<1>1. \A x, y \in 0 .. Words - 1 : (x - y) % Words = IF x >= y THEN x - y ELSE x - y + Words
  BY WordsAre
<1> QED BY <1>1, WordsAre DEF Ahead, Vals

LEMMA PlusIs ==
    \A x, k \in Vals :
        /\ Plus(x, k) = IF x + k < Words THEN x + k ELSE x + k - Words
        /\ Plus(x, k) \in Vals
<1>1. \A x, k \in 0 .. Words - 1 : (x + k) % Words = IF x + k < Words THEN x + k ELSE x + k - Words
  BY WordsAre
<1> QED BY <1>1, WordsAre DEF Plus, Vals

LEMMA PlusInVals == \A x \in Vals, k \in Nat : Plus(x, k) \in Vals
<1>1. \A x \in 0 .. Words - 1, k \in Nat : (x + k) % Words \in 0 .. Words - 1
  BY WordsAre
<1> QED BY <1>1, WordsAre DEF Plus, Vals

LEMMA CompareIs ==
    \A x, y \in Vals : /\ EC_LE(x, y) <=> x = y \/ Ahead(x, y) >= Half
                       /\ EC_GT(x, y) <=> Ahead(x, y) \in 1 .. Half - 1
<1>1. ASSUME NEW x \in Vals, NEW y \in Vals
      PROVE  /\ Ahead(x, y) \in 0 .. Words - 1
             /\ x = y <=> Ahead(x, y) = 0
  <2>1. /\ Words \in Nat /\ x \in Nat /\ y \in Nat /\ x < Words /\ y < Words
        /\ Ahead(x, y) = IF x >= y THEN x - y ELSE x - y + Words
    BY AheadIs, WordsAre DEF Vals
  <2> QED BY <2>1
<1>2. \A x, y \in Vals : EC_LE(x, y) <=> Ahead(x, y) \in {0} \cup Half .. Words - 1
  BY DEF EC_LE, Half, Ahead
<1> QED BY <1>1, <1>2, WordsAre DEF EC_GT

LEMMA AheadOf ==
    ASSUME NEW x \in Vals, NEW y \in Vals
    PROVE  /\ Ahead(x, y) \in 0 .. Words - 1
           /\ Ahead(x, y) = 0 <=> x = y
           /\ x # y => Ahead(y, x) = Words - Ahead(x, y)
<1>1. /\ Words \in Nat \ {0} /\ x \in Nat /\ y \in Nat /\ x < Words /\ y < Words
      /\ Ahead(x, y) = IF x >= y THEN x - y ELSE x - y + Words
      /\ Ahead(y, x) = IF y >= x THEN y - x ELSE y - x + Words
  BY AheadIs, WordsAre DEF Vals
<1> QED BY <1>1

LEMMA AheadPlus ==
    ASSUME NEW x \in Vals, NEW y \in Vals, NEW k \in Nat, Ahead(x, y) + k < Words
    PROVE  Plus(x, k) \in Vals /\ Ahead(Plus(x, k), y) = Ahead(x, y) + k
<1>1. /\ Words \in Nat \ {0} /\ x \in Nat /\ y \in Nat /\ x < Words /\ y < Words
      /\ Ahead(x, y) = IF x >= y THEN x - y ELSE x - y + Words
  BY AheadIs, WordsAre DEF Vals
<1>2. k < Words /\ k \in Vals
  BY <1>1 DEF Vals
<1>3. Plus(x, k) \in Vals /\ Plus(x, k) = IF x + k < Words THEN x + k ELSE x + k - Words
  BY <1>2, PlusIs
<1>4. Ahead(Plus(x, k), y) = IF Plus(x, k) >= y THEN Plus(x, k) - y
                             ELSE Plus(x, k) - y + Words
  BY <1>3, AheadIs
<1> QED BY <1>1, <1>3, <1>4

\* A value s that is no further behind v than c is has been reached from c.
LEMMA Between ==
    ASSUME NEW v \in Vals, NEW c \in Vals, NEW s \in Vals,
           Ahead(v, c) <= Window, Ahead(v, s) <= Ahead(v, c), NEW k \in Kinds
    PROVE  EC_LE(c, s)
<1>1. /\ Words \in Nat \ {0} /\ Half \in Nat /\ Half + Half = Words
      /\ Window \in Nat /\ Window < Half
  <2>1. Window + MaxAhead[k] < Half /\ MaxAhead[k] \in Nat
    BY WordsAre
  <2> QED BY <2>1, WordsAre
<1>2. /\ v \in Nat /\ c \in Nat /\ s \in Nat /\ v < Words /\ c < Words /\ s < Words
      /\ Ahead(v, c) = IF v >= c THEN v - c ELSE v - c + Words
      /\ Ahead(v, s) = IF v >= s THEN v - s ELSE v - s + Words
      /\ Ahead(c, s) = IF c >= s THEN c - s ELSE c - s + Words
  BY <1>1, AheadIs DEF Vals
<1>3. c = s \/ Ahead(c, s) >= Half
  BY <1>1, <1>2
<1> QED BY <1>3, CompareIs

\* An event moves the channel's value on, within the window.
LEMMA StepAhead ==
    ASSUME NEW v \in Vals, NEW c \in Vals, NEW k \in 1 .. MaxStep, NEW d \in Kinds,
           Ahead(v, c) <= Window,
           \/ Ahead(Plus(v, k), c) <= Window
           \/ Ahead(c, Plus(v, k)) <= MaxAhead[d]
    PROVE  Ahead(Plus(v, k), c) = Ahead(v, c) + k /\ Ahead(Plus(v, k), c) <= Window
<1>1. /\ Words \in Nat \ {0} /\ Window \in Nat /\ MaxStep \in Nat /\ MaxAhead[d] \in Nat
      /\ MaxStep + Window + MaxAhead[d] < Words
  BY WordsAre
<1>2. Ahead(v, c) \in Nat /\ k \in Nat /\ k > 0 /\ Ahead(v, c) + k < Words - MaxAhead[d]
  BY <1>1, AheadOf
<1>3. Plus(v, k) \in Vals /\ Ahead(Plus(v, k), c) = Ahead(v, c) + k
  BY <1>1, <1>2, AheadPlus
<1>4. Plus(v, k) # c /\ Ahead(c, Plus(v, k)) = Words - (Ahead(v, c) + k)
  BY <1>2, <1>3, AheadOf
<1> QED BY <1>1, <1>2, <1>3, <1>4

-----------------------------------------------------------------------------
(* The wait queue.                                                         *)

\* The queue q holds each thread of S once, and nobody else.
Holds(q, S) ==
    /\ q \in Seq(Threads)
    /\ \A i, j \in DOMAIN q : q[i] = q[j] => i = j
    /\ {q[i] : i \in DOMAIN q} = S

\* r is what is left of q without those of G, in its order.
LeftOf(r, q, G) ==
    \E p \in [DOMAIN r -> DOMAIN q] :
        /\ \A n \in DOMAIN r : r[n] = q[p[n]]
        /\ \A m, n \in DOMAIN r : m < n => p[m] < p[n]
        /\ \A i \in DOMAIN q : q[i] \notin G <=> \E n \in DOMAIN r : p[n] = i

LEMMA WithoutLeaves ==
    ASSUME NEW q \in Seq(Threads), NEW G
    PROVE  Without(q, G) \in Seq(Threads) /\ LeftOf(Without(q, G), q, G)
<1> DEFINE kept == {i \in DOMAIN q : q[i] \notin G}
           rank == [i \in kept |-> Cardinality(kept \cap 1 .. i)]
           c == Cardinality(kept)
<1>1. Len(q) \in Nat /\ DOMAIN q = 1 .. Len(q)
  OBVIOUS
<1>2. kept \subseteq 1 .. Len(q) /\ kept \subseteq Nat
  BY <1>1
<1>3. IsFiniteSet(kept) /\ c \in Nat
  <2>1. IsFiniteSet(1 .. Len(q))
    BY <1>1, FS_Interval
  <2>2. kept \in SUBSET (1 .. Len(q))
    BY <1>2
  <2> HIDE DEF kept
  <2> QED BY <2>1, <2>2, FS_Subset, FS_CardinalityType
<1> HIDE DEF kept, c
<1>4. ASSUME NEW i \in kept
      PROVE  IsFiniteSet(kept \cap 1 .. i) /\ rank[i] \in 1 .. c
  <2>1. kept \cap 1 .. i \in SUBSET kept /\ i \in kept \cap 1 .. i
    BY <1>2
  <2>2. /\ IsFiniteSet(kept \cap 1 .. i)
        /\ Cardinality(kept \cap 1 .. i) <= c
    BY <1>3, <2>1, FS_Subset DEF c
  <2>3. Cardinality(kept \cap 1 .. i) \in Nat \ {0}
    BY <2>1, <2>2, FS_CardinalityType, FS_EmptySet
  <2> QED BY <1>3, <2>2, <2>3
<1>5. ASSUME NEW i \in kept, NEW j \in kept, i < j PROVE rank[i] < rank[j]
  <2>1. /\ kept \cap 1 .. i \in SUBSET (kept \cap 1 .. j)
        /\ kept \cap 1 .. i # kept \cap 1 .. j
    BY <1>2, <1>5
  <2>2. /\ Cardinality(kept \cap 1 .. i) <= Cardinality(kept \cap 1 .. j)
        /\ Cardinality(kept \cap 1 .. i) # Cardinality(kept \cap 1 .. j)
    BY <1>4, <2>1, FS_Subset
  <2>3. /\ rank[i] = Cardinality(kept \cap 1 .. i) /\ rank[j] = Cardinality(kept \cap 1 .. j)
    OBVIOUS
  <2> HIDE DEF rank
  <2>4. rank[i] \in 1 .. c /\ rank[j] \in 1 .. c
    BY <1>4
  <2> QED BY <1>3, <2>2, <2>3, <2>4
<1>6. rank \in Injection(kept, 1 .. c)
  <2>1. rank \in [kept -> 1 .. c]
    BY <1>4
  <2>2. \A i, j \in kept : rank[i] = rank[j] => i = j
    <3> SUFFICES ASSUME NEW i \in kept, NEW j \in kept, i # j PROVE rank[i] # rank[j]
      OBVIOUS
    <3>1. i < j \/ j < i
      BY <1>2
    <3> HIDE DEF rank
    <3>2. rank[i] \in 1 .. c /\ rank[j] \in 1 .. c
      BY <1>4
    <3>3. rank[i] < rank[j] \/ rank[j] < rank[i]
      BY <1>5, <3>1
    <3> QED BY <1>3, <3>2, <3>3
  <2> HIDE DEF rank
  <2> QED BY <2>1, <2>2 DEF Injection, IsInjective
<1> HIDE DEF rank
<1>7. \A n \in 1 .. c : \E i \in kept : rank[i] = n
  <2>1. IsFiniteSet(1 .. c) /\ Cardinality(1 .. c) = c
    BY <1>3, FS_Interval
  <2>2. rank \in Surjection(kept, 1 .. c)
    BY <1>6, <2>1, FS_Injection DEF c
  <2> QED BY <2>2, Fun_SurjectionProperties
<1> DEFINE p == [n \in 1 .. c |-> CHOOSE i \in kept : rank[i] = n]
<1>8. \A n \in 1 .. c : p[n] \in kept /\ rank[p[n]] = n
  BY <1>7
<1>9. Without(q, G) = [n \in 1 .. c |-> q[p[n]]]
  <2>1. \A i \in kept : rank[i] = Cardinality(kept \cap 1 .. i)
    BY DEF rank
  <2>2. ASSUME NEW n \in 1 .. c
        PROVE  p[n] = CHOOSE i \in kept : Cardinality(kept \cap 1 .. i) = n
    BY <2>1
  <2> HIDE DEF p
  <2>3. [n \in 1 .. c |-> q[p[n]]]
            = [n \in 1 .. c |-> q[CHOOSE i \in kept : Cardinality(kept \cap 1 .. i) = n]]
    BY <2>2
  <2> QED BY <2>3 DEF Without, kept, c
<1> DEFINE r == [n \in 1 .. c |-> q[p[n]]]
<1>10. DOMAIN r = 1 .. c /\ \A n \in 1 .. c : r[n] = q[p[n]]
  OBVIOUS
<1>11. p \in [1 .. c -> DOMAIN q]
  BY <1>1, <1>2, <1>8
<1>12. r \in Seq(Threads)
  <2> HIDE DEF p
  <2>1. \A n \in 1 .. c : p[n] \in 1 .. Len(q)
    BY <1>1, <1>11
  <2>2. \A n \in 1 .. c : q[p[n]] \in Threads
    BY <2>1
  <2> QED BY <1>3, <2>2, SeqDef
<1> HIDE DEF p
<1>13. \A m, n \in 1 .. c : m < n => p[m] < p[n]
  <2> SUFFICES ASSUME NEW m \in 1 .. c, NEW n \in 1 .. c, m < n PROVE p[m] < p[n]
    OBVIOUS
  <2>1. p[m] \in kept /\ p[n] \in kept /\ rank[p[m]] = m /\ rank[p[n]] = n
    BY <1>8
  <2>2. ~(p[n] < p[m]) /\ p[m] # p[n]
    BY <1>5, <2>1
  <2>3. p[m] \in Nat /\ p[n] \in Nat
    BY <1>2, <2>1
  <2> QED BY <2>2, <2>3
<1>14. \A i \in DOMAIN q : q[i] \notin G <=> \E n \in 1 .. c : p[n] = i
  <2>1. \A i \in DOMAIN q : q[i] \notin G <=> i \in kept
    BY DEF kept
  <2>2. \A i \in kept : rank[i] \in 1 .. c /\ p[rank[i]] = i
    <3> SUFFICES ASSUME NEW i \in kept PROVE rank[i] \in 1 .. c /\ p[rank[i]] = i
      OBVIOUS
    <3>1. rank[i] \in 1 .. c
      BY <1>4
    <3>2. p[rank[i]] \in kept /\ rank[p[rank[i]]] = rank[i]
      BY <1>8, <3>1
    <3> QED BY <1>6, <3>1, <3>2, Fun_InjectionProperties
  <2> QED BY <1>8, <2>1, <2>2
<1> HIDE DEF r, c, kept
<1> QED BY <1>9, <1>10, <1>11, <1>12, <1>13, <1>14 DEF LeftOf, r

LEMMA InsertAtIs ==
    ASSUME NEW S, NEW q \in Seq(S), NEW e \in S, NEW k \in 1 .. Len(q) + 1
    PROVE  /\ InsertAt(q, k, e) \in Seq(S)
           /\ Len(InsertAt(q, k, e)) = Len(q) + 1
           /\ \A i \in 1 .. Len(q) + 1 :
                 InsertAt(q, k, e)[i] = IF i < k THEN q[i]
                                        ELSE IF i = k THEN e ELSE q[i - 1]
<1> DEFINE a == SubSeq(q, 1, k - 1)
           c == SubSeq(q, k, Len(q))
<1>1. /\ Len(q) \in Nat /\ k \in Int /\ k - 1 \in Int
      /\ \A i \in 1 .. Len(q) : q[i] \in S
  OBVIOUS
<1>2. /\ a \in Seq(S) /\ Len(a) = k - 1
      /\ \A i \in 1 .. k - 1 : a[i] = q[i]
  <2>1. /\ a \in Seq(S)
        /\ Len(a) = IF 1 <= k - 1 THEN k - 1 - 1 + 1 ELSE 0
        /\ \A i \in 1 .. k - 1 - 1 + 1 : a[i] = q[1 + i - 1]
    BY <1>1, SubSeqProperties
  <2> HIDE DEF a
  <2> QED BY <1>1, <2>1
<1>3. /\ c \in Seq(S) /\ Len(c) = Len(q) - k + 1
      /\ \A i \in 1 .. Len(q) - k + 1 : c[i] = q[k + i - 1]
  <2>1. /\ c \in Seq(S)
        /\ Len(c) = IF k <= Len(q) THEN Len(q) - k + 1 ELSE 0
        /\ \A i \in 1 .. Len(q) - k + 1 : c[i] = q[k + i - 1]
    BY <1>1, SubSeqProperties
  <2> HIDE DEF c
  <2> QED BY <1>1, <2>1
<1>4. <<e>> \in Seq(S) /\ Len(<<e>>) = 1 /\ <<e>>[1] = e
  OBVIOUS
<1> DEFINE m == a \o <<e>>
<1> HIDE DEF a, c
<1>5. /\ m \in Seq(S) /\ Len(m) = k
      /\ \A i \in 1 .. k : m[i] = IF i <= k - 1 THEN a[i] ELSE e
  <2>1. /\ m \in Seq(S) /\ Len(m) = Len(a) + 1
        /\ \A i \in 1 .. Len(a) + 1 :
              m[i] = IF i <= Len(a) THEN a[i] ELSE <<e>>[i - Len(a)]
    BY <1>2, <1>4, ConcatProperties
  <2> HIDE DEF m
  <2>2. ASSUME NEW i \in 1 .. k, i > k - 1 PROVE <<e>>[i - Len(a)] = e
    <3>1. i - Len(a) = 1
      BY <1>1, <1>2, <2>2
    <3> QED BY <3>1, <1>4
  <2> QED BY <1>1, <1>2, <2>1, <2>2
<1> HIDE DEF m
<1>6. /\ m \o c \in Seq(S) /\ Len(m \o c) = Len(m) + Len(c)
      /\ \A i \in 1 .. Len(m) + Len(c) :
            (m \o c)[i] = IF i <= Len(m) THEN m[i] ELSE c[i - Len(m)]
  BY <1>3, <1>5, ConcatProperties
<1>7. InsertAt(q, k, e) = m \o c
  BY DEF InsertAt, m, a, c
<1>8. ASSUME NEW i \in 1 .. Len(q) + 1
      PROVE  (m \o c)[i] = IF i < k THEN q[i] ELSE IF i = k THEN e ELSE q[i - 1]
  <2>1. CASE i <= k
    BY <1>1, <1>2, <1>3, <1>5, <1>6, <2>1
  <2>2. CASE i > k
    <3>1. i - k \in 1 .. Len(q) - k + 1 /\ k + (i - k) - 1 = i - 1
      BY <1>1, <2>2
    <3>2. c[i - k] = q[i - 1]
      BY <1>3, <3>1
    <3>3. i \in 1 .. Len(m) + Len(c) /\ ~(i <= Len(m)) /\ i - Len(m) = i - k
      BY <1>1, <1>3, <1>5, <2>2
    <3>4. (m \o c)[i] = c[i - k]
      BY <1>6, <3>3
    <3> QED BY <1>1, <2>2, <3>2, <3>4
  <2>3. i <= k \/ i > k
    BY <1>1
  <2> QED BY <2>1, <2>2, <2>3, Zenon
<1> QED BY <1>1, <1>3, <1>5, <1>6, <1>7, <1>8

\* Whatever its place, a newcomer joins those that the queue holds.
LEMMA InsertAtThreads ==
    \A q \in Seq(Threads), t \in Threads : \A k \in 1 .. Len(q) + 1 :
        /\ InsertAt(q, k, t) \in Seq(Threads)
        /\ Len(InsertAt(q, k, t)) = Len(q) + 1
        /\ \A i \in 1 .. Len(q) + 1 :
              InsertAt(q, k, t)[i] = IF i < k THEN q[i]
                                     ELSE IF i = k THEN t ELSE q[i - 1]
BY InsertAtIs

LEMMA InsertHolds ==
    ASSUME NEW q, NEW S, Holds(q, S), NEW t \in Threads \ S, NEW k \in 1 .. Len(q) + 1
    PROVE  Holds(InsertAt(q, k, t), S \cup {t})
<1> DEFINE r == InsertAt(q, k, t)
<1>1. q \in Seq(Threads) /\ Len(q) \in Nat /\ DOMAIN q = 1 .. Len(q)
  BY DEF Holds
<1>2. /\ r \in Seq(Threads) /\ Len(r) = Len(q) + 1
      /\ \A i \in 1 .. Len(q) + 1 :
            r[i] = IF i < k THEN q[i] ELSE IF i = k THEN t ELSE q[i - 1]
  BY <1>1, InsertAtIs
<1> HIDE DEF r
<1>3. DOMAIN r = 1 .. Len(q) + 1
  BY <1>1, <1>2
<1>4. \A i \in 1 .. Len(q) : q[i] \in S
  BY <1>1 DEF Holds
<1>5. ASSUME NEW i \in 1 .. Len(q) + 1, NEW j \in 1 .. Len(q) + 1, r[i] = r[j]
      PROVE  i = j
  <2> DEFINE at(n) == IF n < k THEN n ELSE n - 1
  <2>1. ASSUME NEW n \in 1 .. Len(q) + 1, n # k
        PROVE  at(n) \in 1 .. Len(q) /\ r[n] = q[at(n)]
    BY <1>1, <1>2, <2>1
  <2>2. i = k <=> j = k
    BY <1>2, <1>4, <1>5, <2>1
  <2>3. CASE i # k
    <3>1. q[at(i)] = q[at(j)] /\ at(i) \in 1 .. Len(q) /\ at(j) \in 1 .. Len(q)
      BY <1>5, <2>1, <2>2, <2>3
    <3>2. at(i) = at(j)
      BY <1>1, <3>1 DEF Holds
    <3> QED BY <1>1, <2>2, <2>3, <3>2
  <2> QED BY <2>2, <2>3
<1>6. {r[i] : i \in DOMAIN r} = S \cup {t}
  <2>1. ASSUME NEW i \in 1 .. Len(q) + 1 PROVE r[i] \in S \cup {t}
    <3>1. CASE i = k
      BY <1>2, <3>1
    <3>2. CASE i < k
      BY <1>1, <1>2, <1>4, <3>2
    <3>3. CASE i > k
      <4>1. i - 1 \in 1 .. Len(q)
        BY <1>1, <3>3
      <4> QED BY <1>1, <1>2, <1>4, <3>3, <4>1
    <3> QED BY <1>1, <3>1, <3>2, <3>3
  <2>2. ASSUME NEW s \in S PROVE \E i \in 1 .. Len(q) + 1 : r[i] = s
    <3>1. PICK i \in 1 .. Len(q) : q[i] = s
      BY <1>1 DEF Holds
    <3>2. CASE i < k
      BY <1>1, <1>2, <3>1, <3>2
    <3>3. CASE i >= k
      <4>1. PICK j \in 1 .. Len(q) + 1 : ~(j < k) /\ j # k /\ j - 1 = i
        <5>1. i + 1 \in 1 .. Len(q) + 1 /\ ~(i + 1 < k) /\ i + 1 # k /\ i + 1 - 1 = i
          BY <1>1, <3>3
        <5> QED BY <5>1
      <4> QED BY <1>2, <3>1, <4>1
    <3> QED BY <1>1, <3>2, <3>3
  <2>3. r[k] = t
    BY <1>2
  <2> QED BY <1>3, <2>1, <2>2, <2>3
<1>7. Holds(r, S \cup {t})
  BY <1>2, <1>3, <1>5, <1>6 DEF Holds
<1> QED BY <1>7 DEF r

LEMMA WithoutHolds ==
    ASSUME NEW q, NEW S, Holds(q, S), NEW G
    PROVE  Holds(Without(q, G), S \ G)
<1> DEFINE r == Without(q, G)
<1>1. q \in Seq(Threads) /\ r \in Seq(Threads) /\ LeftOf(r, q, G)
  BY WithoutLeaves DEF Holds
<1> HIDE DEF r
<1>2. PICK p \in [DOMAIN r -> DOMAIN q] :
          /\ \A n \in DOMAIN r : r[n] = q[p[n]]
          /\ \A m, n \in DOMAIN r : m < n => p[m] < p[n]
          /\ \A i \in DOMAIN q : q[i] \notin G <=> \E n \in DOMAIN r : p[n] = i
  BY <1>1 DEF LeftOf
<1>3. /\ Len(q) \in Nat /\ Len(r) \in Nat
      /\ DOMAIN q = 1 .. Len(q) /\ DOMAIN r = 1 .. Len(r)
  BY <1>1
<1>4. ASSUME NEW m \in DOMAIN r, NEW n \in DOMAIN r, r[m] = r[n] PROVE m = n
  <2>1. p[m] = p[n] /\ p[m] \in Int
    BY <1>2, <1>3, <1>4 DEF Holds
  <2>2. ~(m < n) /\ ~(n < m)
    BY <1>2, <2>1
  <2> QED BY <1>3, <2>2
<1>5. {r[n] : n \in DOMAIN r} = S \ G
  <2>1. \A n \in DOMAIN r : r[n] \in S \ G
    BY <1>2 DEF Holds
  <2>2. ASSUME NEW t \in S \ G PROVE \E n \in DOMAIN r : r[n] = t
    <3>1. PICK i \in DOMAIN q : q[i] = t
      BY DEF Holds
    <3>2. PICK n \in DOMAIN r : p[n] = i
      BY <1>2, <3>1
    <3> QED BY <1>2, <3>1, <3>2
  <2> QED BY <2>1, <2>2
<1> QED BY <1>1, <1>4, <1>5 DEF Holds, r

LEMMA BehindIs ==
    ASSUME NEW q \in Seq(Threads), NEW t
    PROVE  /\ IsFiniteSet(Behind(t, q)) /\ Behind(t, q) \in SUBSET (1 .. Len(q))
           /\ Cardinality(Behind(t, q)) \in 0 .. Len(q)
<1> DEFINE B == Behind(t, q)
<1>1. Len(q) \in Nat /\ DOMAIN q = 1 .. Len(q)
  OBVIOUS
<1>2. B \in SUBSET (1 .. Len(q))
  BY <1>1 DEF Behind
<1>3. IsFiniteSet(1 .. Len(q)) /\ Cardinality(1 .. Len(q)) = Len(q)
  BY SMTT(30), <1>1, FS_Interval
<1> HIDE DEF B
<1>4. IsFiniteSet(B) /\ Cardinality(B) <= Len(q) /\ Cardinality(B) \in Nat
  BY <1>2, <1>3, FS_Subset, FS_CardinalityType
<1>5. Cardinality(B) \in 0 .. Len(q)
  BY <1>1, <1>4
<1> QED BY <1>2, <1>4, <1>5 DEF B

LEMMA InsertIntoHolds ==
    ASSUME NEW q, NEW S, Holds(q, S), NEW t \in Threads \ S
    PROVE  Holds(InsertInto(q, t), S \cup {t})
<1> DEFINE k == Cardinality(Behind(t, q)) + 1
<1>1. q \in Seq(Threads) /\ Len(q) \in Nat
  BY DEF Holds
<1>2. k \in 1 .. Len(q) + 1
  <2>1. Cardinality(Behind(t, q)) \in 0 .. Len(q)
    BY <1>1, BehindIs
  <2> QED BY <1>1, <2>1
<1>3. InsertInto(q, t) = InsertAt(q, k, t)
  BY DEF InsertInto
<1> HIDE DEF k
<1> QED BY <1>2, <1>3, InsertHolds

-----------------------------------------------------------------------------
(* Types, and the queues of those that sleep.                              *)

QueueInv ==
    /\ Holds(waitq, Blocked)
    /\ timeq = Blocked \cap Timed /\ timeouts = timeq

SInv == TypeOK /\ QueueInv

LEMMA QueuesAgree == ASSUME SInv PROVE SleepersQueued
<1>1. /\ waitq \in Seq(Threads) /\ Len(waitq) \in Nat /\ DOMAIN waitq = 1 .. Len(waitq)
      /\ \A i, j \in DOMAIN waitq : waitq[i] = waitq[j] => i = j
      /\ Waiters = Blocked
  BY DEF SInv, QueueInv, Holds, Waiters
<1>2. Len(waitq) = Cardinality(Blocked)
  <2>1. /\ \A b \in Blocked : \E i \in 1 .. Len(waitq) : waitq[i] = b
        /\ \A i \in 1 .. Len(waitq) : waitq[i] \in Blocked
    BY <1>1 DEF Waiters
  <2>2. waitq \in Bijection(1 .. Len(waitq), Blocked)
    <3>1. waitq \in [1 .. Len(waitq) -> Blocked]
      BY <1>1, <2>1
    <3> QED BY <1>1, <2>1, <3>1 DEF Bijection, Injection, Surjection, IsInjective
  <2>3. IsFiniteSet(1 .. Len(waitq)) /\ Cardinality(1 .. Len(waitq)) = Len(waitq)
    BY <1>1, FS_Interval
  <2> QED BY <2>2, <2>3, FS_Bijection DEF ExistsBijection
<1> QED BY <1>1, <1>2 DEF SInv, QueueInv, SleepersQueued

LEMMA NobodyQueued ==
    ASSUME SInv, Blocked' = Blocked, UNCHANGED <<waitq, timeq, timeouts>>
    PROVE  QueueInv' /\ waitq' \in Seq(Threads) /\ timeq' \subseteq Timed
           /\ timeouts' \subseteq Timed
BY DEF SInv, QueueInv, Holds

LEMMA RequeueHolds ==
    ASSUME SInv, NEW gone \in SUBSET Threads, NEW late \in SUBSET Threads,
           NEW stay \in SUBSET (Threads \ Blocked),
           \A t, u \in stay : t = u,
           Requeue(gone, late, stay),
           Blocked' = (Blocked \ (gone \cup late)) \cup stay
    PROVE  QueueInv' /\ waitq' \in Seq(Threads) /\ timeq' \subseteq Timed
           /\ timeouts' \subseteq Timed
<1> DEFINE G == gone \cup late
           q == Without(waitq, G)
           t == CHOOSE t \in stay : TRUE
<1>1. Holds(waitq, Blocked) /\ timeq = Blocked \cap Timed /\ timeouts = timeq
  BY DEF SInv, QueueInv
<1>2. Holds(q, Blocked \ G)
  BY <1>1, WithoutHolds
<1>3. waitq' = IF stay = {} THEN q ELSE InsertInto(q, t)
  BY DEF Requeue
<1> HIDE DEF q
<1>4. Holds(waitq', (Blocked \ G) \cup stay)
  <2>1. CASE stay = {}
    BY <1>2, <1>3, <2>1
  <2>2. CASE stay # {}
    <3>1. t \in stay /\ stay = {t}
      BY <2>2
    <3> HIDE DEF t
    <3>2. t \in Threads \ (Blocked \ G)
      BY <3>1
    <3>3. Holds(InsertInto(q, t), (Blocked \ G) \cup {t})
      BY <1>2, <3>2, InsertIntoHolds
    <3> QED BY <1>3, <2>2, <3>1, <3>3
  <2> QED BY <2>1, <2>2
<1>5. timeq' = Blocked' \cap Timed
  BY <1>1 DEF Requeue
<1>6. timeouts' = timeq'
  BY <1>1 DEF Requeue, Cancelled
<1>7. waitq' \in Seq(Threads)
  BY <1>4 DEF Holds
<1> QED BY <1>4, <1>5, <1>6, <1>7 DEF QueueInv

LEMMA SleepersAre ==
    ASSUME SInv
    PROVE  /\ Waiters = Blocked /\ Blocked \subseteq Threads
           /\ Expired \subseteq Blocked /\ Expired \subseteq due
           /\ \A c : Released(c) \subseteq Blocked
           /\ \A v, st : Notified(v, st) \subseteq Blocked
           /\ \A t \in Threads : t \in Blocked <=> pc[t] = "blocked"
<1>1. Waiters = Blocked /\ Blocked \subseteq Threads
  BY DEF SInv, QueueInv, Holds, Waiters, Blocked
<1>2. Expired \subseteq Blocked /\ Expired \subseteq due
  BY DEF SInv, QueueInv, Expired
<1>3. \A c : Released(c) \subseteq Waiters
  BY DEF Released, Waiters
<1>4. \A v, st : Notified(v, st) \subseteq Waiters
  BY <1>3 DEF Notified
<1> QED BY <1>1, <1>2, <1>3, <1>4 DEF Blocked

\* The threads of gone wake up.
LEMMA WakeHolds ==
    ASSUME SInv, NEW gone \in SUBSET Blocked, NEW late \in SUBSET Blocked,
           Requeue(gone, late, {}),
           \A t \in Threads :
               pc'[t] = "blocked" <=> pc[t] = "blocked" /\ t \notin gone \cup late
    PROVE  QueueInv' /\ waitq' \in Seq(Threads) /\ timeq' \subseteq Timed
           /\ timeouts' \subseteq Timed
<1>1. Blocked' = (Blocked \ (gone \cup late)) \cup {}
  BY DEF Blocked
<1>2. Blocked \subseteq Threads
  BY DEF Blocked
<1> QED BY <1>1, <1>2, RequeueHolds

LEMMA InitSInv == Init => SInv
<1> SUFFICES ASSUME Init PROVE SInv
  OBVIOUS
<1>1. 0 \in Vals
  BY WordsAre DEF Vals
<1>2. Blocked = {}
  BY DEF Init, Blocked
<1>3. QueueInv
  BY <1>2 DEF Init, QueueInv, Holds
<1>4. waitq \in Seq(Threads)
  BY DEF Init
<1>5. seen \in [Threads -> [v : Vals, st : States]] /\ chan \in Endpoint
  BY <1>1 DEF Init, States, Endpoint
<1>6. /\ pc \in [Threads -> PCs] /\ want \in [Threads -> Vals]
      /\ mode \in Modes /\ thd \in Threads \cup {NoThread}
  BY <1>1 DEF Init, PCs, Modes
<1>7. /\ kind \in Kinds /\ sent \in Vals /\ fifo \in Nat /\ cnt \in Vals
      /\ plumb \in {"idle", "cleared", "dead", "kicked", "done"}
      /\ hooked \in BOOLEAN /\ masked \in BOOLEAN /\ pending \in BOOLEAN
      /\ emasked \in BOOLEAN
      /\ timeq \subseteq Timed /\ timeouts \subseteq Timed /\ due \subseteq Timed
  BY <1>1 DEF Init
<1> QED BY <1>3, <1>4, <1>5, <1>6, <1>7 DEF SInv, TypeOK

LEMMA KernelKeeps ==
    ASSUME SInv, (\E k \in 1 .. MaxStep : Send(k)) \/ Plumber
    PROVE  SInv'
<1>1. UNCHANGED <<countVars, hooked, maskVars, cpuVars, pc, want, due, seen>>
      /\ kind' = kind
  BY DEF Send, Plumber, ClearPeer, MarkDead, Kick, CloseTX, Plumb
<1>2. QueueInv'
  BY <1>1, NobodyQueued DEF countVars, Blocked
<1>3. 0 \in Vals
  BY WordsAre DEF Vals
<1>4. fifo \in Nat /\ Listed \in Nat
  BY DEF SInv, TypeOK, Listed
<1>5. /\ sent' \in Vals /\ chan' \in Endpoint /\ fifo' \in Nat
      /\ plumb' \in {"idle", "cleared", "dead", "kicked", "done"}
  <2>1. ASSUME NEW k \in 1 .. MaxStep, Send(k)
        PROVE  /\ sent' \in Vals /\ chan' \in Endpoint /\ fifo' \in Nat
               /\ plumb' \in {"idle", "cleared", "dead", "kicked", "done"}
    <3>1. Plus(sent, k) \in Vals
      BY PlusInVals, WordsAre DEF SInv, TypeOK
    <3> QED BY <1>4, <2>1, <3>1 DEF Send, SInv, TypeOK, Endpoint
  <2>2. CASE ClearPeer
    BY <1>3, <2>2 DEF ClearPeer, Plumb, SInv, TypeOK, Endpoint
  <2>3. CASE MarkDead
    BY <1>3, <2>3 DEF MarkDead, Plumb, SInv, TypeOK, Endpoint, States
  <2>4. CASE Kick \/ CloseTX
    BY <1>4, <2>4 DEF Kick, CloseTX, Plumb, SInv, TypeOK
  <2> QED BY <2>1, <2>2, <2>3, <2>4 DEF Plumber
<1> QED BY <1>1, <1>2, <1>5 DEF SInv, TypeOK, countVars, maskVars, cpuVars

LEMMA ActivateKeeps == ASSUME SInv, Activate PROVE SInv'
<1>1. QueueInv'
  BY NobodyQueued DEF Activate, countVars, Blocked
<1> QED BY <1>1 DEF Activate, SInv, TypeOK, Modes, kernelVars, countVars, maskVars

LEMMA NotifyKeeps ==
    ASSUME SInv, NEW v \in Vals, NEW st, Notify(v, st)
    PROVE  /\ QueueInv' /\ waitq' \in Seq(Threads) /\ timeq' \subseteq Timed
           /\ timeouts' \subseteq Timed
           /\ cnt' \in Vals /\ pc' \in [Threads -> PCs]
<1>1. Notified(v, st) \subseteq Blocked
  BY SleepersAre
<1>2. pc \in [Threads -> PCs] /\ cnt \in Vals
  BY DEF SInv, TypeOK
<1>3. /\ pc' \in [Threads -> PCs] /\ cnt' \in Vals
      /\ \A t \in Threads :
            pc'[t] = "blocked" <=> pc[t] = "blocked" /\ t \notin Notified(v, st) \cup {}
  BY <1>2 DEF Notify, PCs
<1>4. Requeue(Notified(v, st), {}, {})
  BY DEF Notify
<1> QED BY <1>1, <1>3, <1>4, WakeHolds

LEMMA TimeoutsKeep ==
    ASSUME SInv, RunTimeouts
    PROVE  /\ QueueInv' /\ waitq' \in Seq(Threads) /\ timeq' \subseteq Timed
           /\ timeouts' \subseteq Timed /\ pc' \in [Threads -> PCs]
<1>1. Expired \subseteq Blocked
  BY SleepersAre
<1>2. pc \in [Threads -> PCs]
  BY DEF SInv, TypeOK
<1>3. /\ pc' \in [Threads -> PCs]
      /\ \A t \in Threads :
            pc'[t] = "blocked" <=> pc[t] = "blocked" /\ t \notin {} \cup Expired
  BY <1>2 DEF RunTimeouts, PCs
<1>4. Requeue({}, Expired, {})
  BY DEF RunTimeouts
<1> QED BY <1>1, <1>3, <1>4, WakeHolds

LEMMA HandlerKeeps == ASSUME SInv, Handler PROVE SInv'
<1>1. CASE TakeEvent
  <2>1. /\ QueueInv' /\ waitq' \in Seq(Threads) /\ timeq' \subseteq Timed
        /\ timeouts' \subseteq Timed /\ cnt' \in Vals /\ pc' \in [Threads -> PCs]
        /\ pending' \in BOOLEAN
    <3>1. CASE UNCHANGED <<countVars, pc>>
      <4>1. pending' \in BOOLEAN
        BY <1>1 DEF TakeEvent, SInv, TypeOK
      <4>2. Blocked' = Blocked /\ UNCHANGED <<waitq, timeq, timeouts>>
        BY <3>1 DEF countVars, Blocked
      <4> QED BY <3>1, <4>1, <4>2, NobodyQueued DEF countVars, SInv, TypeOK
    <3>2. CASE Notify(chan.val, chan.state) /\ UNCHANGED pending
      <4>1. chan.val \in Vals /\ pending' \in BOOLEAN
        BY <3>2 DEF SInv, TypeOK, Endpoint
      <4> QED BY <3>2, <4>1, NotifyKeeps
    <3> QED BY <1>1, <3>1, <3>2 DEF TakeEvent
  <2>2. fifo' \in Nat
    BY <1>1 DEF TakeEvent, SInv, TypeOK
  <2> QED BY <1>1, <2>1, <2>2 DEF TakeEvent, SInv, TypeOK, cpuVars
<1>2. CASE HandlerDone
  <2>1. /\ QueueInv' /\ waitq' \in Seq(Threads) /\ timeq' \subseteq Timed
        /\ timeouts' \subseteq Timed /\ pc' \in [Threads -> PCs]
    BY <1>2, TimeoutsKeep DEF HandlerDone
  <2> QED BY <1>2, <2>1 DEF HandlerDone, SInv, TypeOK, Modes, kernelVars, maskVars
<1> QED BY <1>1, <1>2 DEF Handler

LEMMA LeftIs == Left \in {"handler", "on"}
BY DEF Left

LEMMA ResumeKeeps == ASSUME SInv, NEW t \in Threads, Resume(t) PROVE SInv'
<1>1. /\ pc' \in [Threads -> PCs] /\ mode' \in Modes /\ thd' = t
      /\ pc'[t] # "blocked" /\ pc[t] # "blocked"
      /\ \A u \in Threads \ {t} : pc'[u] = pc[u]
  BY LeftIs DEF Resume, SInv, TypeOK, PCs, Modes
<1>2. Blocked' = Blocked
  BY <1>1 DEF Blocked
<1>3. QueueInv'
  BY <1>2, NobodyQueued DEF Resume, countVars
<1> QED BY <1>1, <1>3 DEF Resume, SInv, TypeOK, kernelVars, countVars, maskVars

LEMMA ReactivateKeeps == ASSUME SInv, Reactivate PROVE SInv'
<1>1. CASE UNCHANGED <<waitq, timeq, timeouts, pc>>
  <2>1. QueueInv'
    BY <1>1, NobodyQueued DEF Blocked
  <2> QED BY <1>1, <2>1 DEF Reactivate, SInv, TypeOK, Modes, kernelVars, maskVars
<1>2. CASE RunTimeouts
  <2>1. /\ QueueInv' /\ waitq' \in Seq(Threads) /\ timeq' \subseteq Timed
        /\ timeouts' \subseteq Timed /\ pc' \in [Threads -> PCs]
    BY <1>2, TimeoutsKeep
  <2> QED BY <2>1 DEF Reactivate, SInv, TypeOK, Modes, kernelVars, maskVars
<1> QED BY <1>1, <1>2 DEF Reactivate

\* A step of t that neither blocks it nor wakes anybody.
LEMMA CallKeeps ==
    ASSUME SInv, NEW t \in Threads, NEW p \in PCs, pc[t] # "blocked", p # "blocked",
           pc' = [pc EXCEPT ![t] = p], UNCHANGED <<waitq, timeq, timeouts>>
    PROVE  QueueInv' /\ pc' \in [Threads -> PCs]
<1>1. pc' \in [Threads -> PCs]
  BY DEF SInv, TypeOK
<1>2. Blocked' = Blocked
  BY DEF SInv, TypeOK, Blocked
<1> QED BY <1>1, <1>2, NobodyQueued

LEMMA CallsKeep ==
    ASSUME SInv, NEW t \in Threads,
           \/ \E k \in 1 .. MaxAhead[kind] : Await(t, k)
           \/ EnterCS(t) \/ Ack(t) \/ Attach(t) \/ Unmask(t)
    PROVE  SInv'
<1>1. PICK p \in PCs : p # "blocked" /\ pc' = [pc EXCEPT ![t] = p]
  BY DEF Await, EnterCS, Ack, Attach, Unmask, PCs
<1>2. pc[t] # "blocked" /\ UNCHANGED <<waitq, timeq, timeouts>>
  BY DEF Await, EnterCS, Ack, Attach, Unmask, countVars
<1>3. QueueInv' /\ pc' \in [Threads -> PCs]
  BY <1>1, <1>2, CallKeeps
<1>4. CASE \E k \in 1 .. MaxAhead[kind] : Await(t, k)
  <2>1. PICK k \in 1 .. MaxAhead[kind] : Await(t, k)
    BY <1>4
  <2>2. Plus(cnt, k) \in Vals
    BY PlusInVals, WordsAre DEF SInv, TypeOK
  <2> QED BY <1>3, <2>1, <2>2
          DEF Await, SInv, TypeOK, kernelVars, countVars, maskVars, cpuVars
<1>5. CASE EnterCS(t)
  BY <1>3, <1>5 DEF EnterCS, SInv, TypeOK, Modes, kernelVars, countVars, maskVars
<1>6. CASE Ack(t)
  <2>1. chan' \in Endpoint
    BY <1>6 DEF Ack, SInv, TypeOK, Endpoint
  <2> QED BY <1>3, <1>6, <2>1 DEF Ack, SInv, TypeOK, countVars, maskVars, cpuVars
<1>7. CASE Attach(t)
  <2>1. seen' \in [Threads -> [v : Vals, st : States]]
    BY <1>7 DEF Attach, SInv, TypeOK, Endpoint
  <2> QED BY <1>3, <1>7, <2>1
          DEF Attach, SInv, TypeOK, Modes, kernelVars, countVars, maskVars
<1>8. CASE Unmask(t)
  <2>1. seen' \in [Threads -> [v : Vals, st : States]]
    BY <1>8 DEF Unmask, SInv, TypeOK, Endpoint, States
  <2> QED BY <1>3, <1>8, <2>1
          DEF Unmask, SInv, TypeOK, kernelVars, countVars, maskVars, cpuVars
<1> QED BY <1>4, <1>5, <1>6, <1>7, <1>8

LEMMA MasksKeep ==
    ASSUME SInv, NEW t \in Threads, Read(t) \/ Mask(t) \/ MaskAll(t) \/ Expire(t)
    PROVE  SInv'
<1>1. Blocked' = Blocked /\ UNCHANGED <<waitq, timeq, timeouts>>
  BY DEF Read, Mask, MaskAll, Expire, countVars, Blocked
<1>2. QueueInv'
  BY <1>1, NobodyQueued
<1>3. CASE Read(t)
  <2>1. cnt' \in Vals
    BY <1>3 DEF Read, SInv, TypeOK, Endpoint
  <2> QED BY <1>2, <1>3, <2>1 DEF Read, SInv, TypeOK, kernelVars, maskVars, cpuVars
<1>4. CASE Mask(t)
  BY <1>2, <1>4, LeftIs DEF Mask, SInv, TypeOK, Modes, kernelVars, countVars
<1>5. CASE MaskAll(t)
  BY <1>2, <1>5, LeftIs DEF MaskAll, SInv, TypeOK, Modes, kernelVars, countVars
<1>6. CASE Expire(t)
  BY <1>2, <1>6
     DEF Expire, SInv, TypeOK, kernelVars, countVars, maskVars, cpuVars
<1> QED BY <1>3, <1>4, <1>5, <1>6

LEMMA AdvanceKeeps == ASSUME SInv, NEW k \in 1 .. MaxStep, Advance(k) PROVE SInv'
<1>1. Plus(cnt, k) \in Vals
  BY PlusInVals, WordsAre DEF SInv, TypeOK
<1>2. /\ QueueInv' /\ waitq' \in Seq(Threads) /\ timeq' \subseteq Timed
      /\ timeouts' \subseteq Timed /\ cnt' \in Vals /\ pc' \in [Threads -> PCs]
  BY <1>1, NotifyKeeps DEF Advance
<1>3. mode' \in Modes
  BY LeftIs DEF Advance, SInv, TypeOK, Modes
<1> QED BY <1>2, <1>3 DEF Advance, SInv, TypeOK, kernelVars, maskVars

\* The threads that Conclude blocks, releases and times out.
Stays(t, v) == IF EC_GT(want[t], v) /\ ~Late(t) THEN {t} ELSE {}
Goes(v)     == IF hooked THEN Released(v) ELSE {}
Lates(t, v) == IF Stays(t, v) \cap Timed = {} THEN {} ELSE Expired \ Goes(v)

LEMMA ConcludeIs ==
    ASSUME NEW t, NEW v, Conclude(t, v)
    PROVE  /\ cnt' = v
           /\ Requeue(Goes(v), Lates(t, v), Stays(t, v))
           /\ pc' = [u \in Threads |->
                         IF u \in Stays(t, v) THEN "blocked"
                         ELSE IF u = t THEN "run"
                         ELSE IF u \in Goes(v) \cup Lates(t, v) THEN "woken"
                         ELSE pc[u]]
           /\ mode' = IF Stays(t, v) = {} THEN Left ELSE "sched"
BY DEF Conclude, Stays, Goes, Lates

LEMMA ConcludeKeeps ==
    ASSUME SInv, NEW t \in Threads, pc[t] # "blocked", NEW v \in Vals, Conclude(t, v)
    PROVE  /\ QueueInv' /\ waitq' \in Seq(Threads) /\ timeq' \subseteq Timed
           /\ timeouts' \subseteq Timed
           /\ cnt' \in Vals /\ pc' \in [Threads -> PCs] /\ mode' \in Modes
<1>1. /\ Goes(v) \in SUBSET Threads /\ Lates(t, v) \in SUBSET Threads
      /\ Goes(v) \subseteq Blocked /\ Lates(t, v) \subseteq Blocked
      /\ Stays(t, v) \subseteq {t} /\ t \notin Blocked
  BY SleepersAre DEF Goes, Lates, Stays
<1>2. Stays(t, v) \in SUBSET (Threads \ Blocked) /\ \A x, y \in Stays(t, v) : x = y
  BY <1>1
<1>3. Requeue(Goes(v), Lates(t, v), Stays(t, v)) /\ cnt' = v
  BY ConcludeIs
<1>4. pc \in [Threads -> PCs]
  BY DEF SInv, TypeOK
<1>5. /\ pc' \in [Threads -> PCs]
      /\ \A u \in Threads : pc'[u] = "blocked" <=>
            u \in Stays(t, v) \/ (pc[u] = "blocked" /\ u \notin Goes(v) \cup Lates(t, v))
  <2>1. \A u \in Threads :
           /\ pc[u] \in PCs
           /\ pc'[u] = IF u \in Stays(t, v) THEN "blocked"
                       ELSE IF u = t THEN "run"
                       ELSE IF u \in Goes(v) \cup Lates(t, v) THEN "woken"
                       ELSE pc[u]
    BY <1>4, ConcludeIs
  <2>2. pc' \in [Threads -> PCs]
    BY <2>1, <1>4, ConcludeIs DEF PCs
  <2>3. t \in Threads /\ pc[t] # "blocked"
    OBVIOUS
  <2> QED BY <2>1, <2>2, <2>3
<1>6. Blocked' = (Blocked \ (Goes(v) \cup Lates(t, v))) \cup Stays(t, v)
  BY <1>2, <1>5 DEF Blocked
<1>7. mode' \in Modes
  BY ConcludeIs, LeftIs DEF Modes
<1>8. QueueInv' /\ waitq' \in Seq(Threads) /\ timeq' \subseteq Timed
      /\ timeouts' \subseteq Timed
  BY <1>1, <1>2, <1>3, <1>6, RequeueHolds
<1> QED BY <1>3, <1>5, <1>7, <1>8

LEMMA QueryKeeps == ASSUME SInv, NEW t \in Threads, Query(t) PROVE SInv'
<1>1. pc[t] # "blocked" /\ chan.val \in Vals /\ cnt \in Vals
  BY DEF Query, SInv, TypeOK, Endpoint
<1>2. CASE UNCHANGED seen /\ \E v \in Vals : Conclude(t, v)
  <2>1. /\ QueueInv' /\ waitq' \in Seq(Threads) /\ timeq' \subseteq Timed
        /\ timeouts' \subseteq Timed
        /\ cnt' \in Vals /\ pc' \in [Threads -> PCs] /\ mode' \in Modes
    BY <1>1, <1>2, ConcludeKeeps
  <2> QED BY <1>2, <2>1 DEF Query, SInv, TypeOK, kernelVars, maskVars
<1>3. CASE /\ seen' = [seen EXCEPT ![t].v = chan.val] /\ UNCHANGED countVars
           /\ \/ mode' = "sched" /\ pc' = [pc EXCEPT ![t] = "yielded"]
              \/ mode' = mode /\ pc' = [pc EXCEPT ![t] = "ack"]
  <2>1. seen' \in [Threads -> [v : Vals, st : States]] /\ mode' \in Modes
    BY <1>1, <1>3 DEF SInv, TypeOK, Modes
  <2>2. QueueInv' /\ pc' \in [Threads -> PCs]
    BY <1>1, <1>3, CallKeeps DEF countVars, PCs
  <2> QED BY <1>3, <2>1, <2>2 DEF Query, SInv, TypeOK, kernelVars, countVars, maskVars
<1> QED BY <1>1, <1>2, <1>3 DEF Query

LEMMA AttachDoneKeeps == ASSUME SInv, NEW t \in Threads, AttachDone(t) PROVE SInv'
<1>1. /\ seen[t].v \in Vals /\ pc \in [Threads -> PCs]
      /\ Released(seen[t].v) \subseteq Blocked /\ pc[t] = "attach"
  BY SleepersAre DEF AttachDone, SInv, TypeOK
<1>2. /\ pc' \in [Threads -> PCs]
      /\ \A u \in Threads : pc'[u] = "blocked" <=>
            pc[u] = "blocked" /\ u \notin Released(seen[t].v) \cup {}
  BY <1>1 DEF AttachDone, PCs
<1>3. QueueInv' /\ waitq' \in Seq(Threads) /\ timeq' \subseteq Timed
      /\ timeouts' \subseteq Timed
  BY <1>1, <1>2, WakeHolds DEF AttachDone
<1> QED BY <1>1, <1>2, <1>3, LeftIs
        DEF AttachDone, SInv, TypeOK, Modes, kernelVars

LEMMA UnmaskDoneKeeps == ASSUME SInv, NEW t \in Threads, UnmaskDone(t) PROVE SInv'
<1> DEFINE gone == IF Told THEN Notified(seen[t].v, seen[t].st) ELSE {}
<1>1. /\ seen[t].v \in Vals /\ pc \in [Threads -> PCs]
      /\ gone \subseteq Blocked /\ pc[t] = "unmask"
  BY SleepersAre DEF UnmaskDone, SInv, TypeOK
<1>2. /\ Requeue(gone, {}, {})
      /\ pc' = [u \in Threads |-> IF u = t THEN "run"
                                  ELSE IF u \in gone THEN "woken" ELSE pc[u]]
      /\ cnt' = IF Told /\ seen[t].st # "Dead" THEN seen[t].v ELSE cnt
  BY DEF UnmaskDone
<1> HIDE DEF gone
<1>3. /\ pc' \in [Threads -> PCs]
      /\ \A u \in Threads : pc'[u] = "blocked" <=> pc[u] = "blocked" /\ u \notin gone \cup {}
  BY <1>1, <1>2 DEF PCs
<1>4. QueueInv' /\ waitq' \in Seq(Threads) /\ timeq' \subseteq Timed
      /\ timeouts' \subseteq Timed
  BY <1>1, <1>2, <1>3, WakeHolds
<1>5. cnt' \in Vals /\ pending' \in BOOLEAN
  BY <1>1, <1>2 DEF UnmaskDone, SInv, TypeOK
<1> QED BY <1>3, <1>4, <1>5, LeftIs
        DEF UnmaskDone, SInv, TypeOK, Modes, kernelVars

LEMMA UnmaskAllKeeps == ASSUME SInv, NEW t \in Threads, UnmaskAll(t) PROVE SInv'
<1>1. chan.val \in Vals /\ pending' \in BOOLEAN /\ mode' \in Modes
  BY LeftIs DEF UnmaskAll, SInv, TypeOK, Endpoint, Modes
<1>2. CASE UNCHANGED <<countVars, pc>>
  <2>1. Blocked' = Blocked /\ UNCHANGED <<waitq, timeq, timeouts>>
    BY <1>2 DEF countVars, Blocked
  <2>2. QueueInv'
    BY <2>1, NobodyQueued
  <2> QED BY <1>1, <1>2, <2>2 DEF UnmaskAll, SInv, TypeOK, kernelVars, countVars
<1>3. CASE \E st : Notify(chan.val, st)
  <2>1. /\ QueueInv' /\ waitq' \in Seq(Threads) /\ timeq' \subseteq Timed
        /\ timeouts' \subseteq Timed /\ cnt' \in Vals /\ pc' \in [Threads -> PCs]
    BY <1>1, <1>3, NotifyKeeps
  <2> QED BY <1>1, <2>1 DEF UnmaskAll, SInv, TypeOK, kernelVars
<1> QED BY <1>2, <1>3 DEF UnmaskAll

LEMMA NextSInv == SInv /\ [Next]_vars => SInv'
<1> SUFFICES ASSUME SInv, [Next]_vars PROVE SInv'
  OBVIOUS
<1>1. CASE UNCHANGED vars
  <2>1. QueueInv'
    BY <1>1, NobodyQueued DEF vars, countVars, Blocked
  <2> QED BY <1>1, <2>1
          DEF SInv, TypeOK, vars, kernelVars, countVars, maskVars, cpuVars
<1>2. CASE \E k \in 1 .. MaxStep : Send(k) \/ Advance(k)
  BY <1>2, KernelKeeps, AdvanceKeeps
<1>3. CASE Plumber \/ Activate \/ Handler \/ Reactivate
  BY <1>3, KernelKeeps, ActivateKeeps, HandlerKeeps, ReactivateKeeps
<1>4. ASSUME NEW t \in Threads, Resume(t) \/ Critical(t) \/ Calls(t) \/ Expire(t)
      PROVE  SInv'
  <2>1. CASE Critical(t)
    BY <2>1, QueryKeeps, CallsKeep, AttachDoneKeeps DEF Critical
  <2>2. CASE Calls(t)
    BY <2>2, CallsKeep, MasksKeep, UnmaskDoneKeeps, UnmaskAllKeeps DEF Calls
  <2> QED BY <1>4, <2>1, <2>2, ResumeKeeps, MasksKeep
<1> QED BY <1>1, <1>2, <1>3, <1>4 DEF Next

LEMMA SInvHolds == Spec => []SInv
<1> QED BY InitSInv, NextSInv, PTL DEF Spec

\* Every variable keeps its type, for any threads, masks and timeouts, and
\* however the channel is closed.
THEOREM TypeCorrect == Spec => []TypeOK
<1>1. SInv => TypeOK
  BY DEF SInv
<1> QED BY <1>1, SInvHolds, PTL

\* The wait queue, the two timeout queues and the states of the threads
\* agree: no sleeper is forgotten by a handler, a timeout or a close.
THEOREM SleepersAreQueued == Spec => []SleepersQueued
<1> QED BY SInvHolds, QueuesAgree, PTL

-----------------------------------------------------------------------------
(* The values a count takes.                                               *)

\* UnmaskEvent has the count to itself.
Unshared == Maskers = {} \/ \E t \in Threads : Threads = {t}

\* The count is on a channel that has not been closed.
Open == kind = "channel" /\ plumb = "idle"

KindInv ==
    /\ kind = "local" => ~hooked /\ fifo = 0
    /\ pending => hooked
    /\ kind = "channel" /\ ~hooked => cnt = 0
    /\ \A t \in Threads : /\ pc[t] = "attach" => ~hooked /\ kind = "channel"
                          /\ pc[t] = "unmask" => t \in Maskers
    /\ \A t, u \in Threads : pc[t] = "attach" /\ pc[u] = "attach" => t = u

\* t is about to store what it read of the channel in the count.
Storing(t) == pc[t] = "attach" \/ (pc[t] = "unmask" /\ masked)

\* The count is behind the channel by no more than Window, and not ahead of
\* what is going to be stored in it.
CountInv ==
    Open =>
        /\ sent = chan.val
        /\ Ahead(chan.val, cnt) <= Window
        /\ \A t \in Threads :
               Storing(t) => Ahead(chan.val, seen[t].v) <= Ahead(chan.val, cnt)

CInv == KindInv /\ CountInv

CountUp == plumb' = "idle" /\ hooked => EC_LE(cnt, cnt')

LEMMA Reflexive == \A x \in Vals : EC_LE(x, x)
BY CompareIs

LEMMA SomeKind == SInv => kind \in Kinds /\ (kind = "channel" \/ kind = "local")
BY ThreadAssumption DEF SInv, TypeOK

LEMMA ValuesAre ==
    ASSUME SInv
    PROVE  /\ chan.val \in Vals /\ chan.ack \in Vals /\ cnt \in Vals /\ sent \in Vals
           /\ \A t \in Threads : /\ seen[t].v \in Vals /\ want[t] \in Vals
                                 /\ pc[t] \in PCs
BY DEF SInv, TypeOK, Endpoint

LEMMA InitCInv == Init => CInv
<1> SUFFICES ASSUME Init PROVE CInv
  OBVIOUS
<1>1. Ahead(0, 0) = 0 /\ 0 \in Vals
  <2>1. 0 \in Vals
    BY WordsAre DEF Vals
  <2> QED BY <2>1, AheadOf
<1>2. \A t \in Threads : pc[t] = "run"
  BY DEF Init
<1>3. 0 <= Window
  BY WordsAre
<1> QED BY <1>1, <1>2, <1>3 DEF Init, CInv, KindInv, CountInv, Storing

\* A step that leaves count, mask and channel alone.
LEMMA SameCount ==
    ASSUME SInv, CInv, SInv',
           UNCHANGED <<kind, sent, plumb, cnt, hooked, masked>>, chan'.val = chan.val,
           pending' => pending \/ hooked,
           fifo' = fifo \/ fifo > 0,
           \A t \in Threads : pc'[t] \in {"attach", "unmask"}
                                  => pc'[t] = pc[t] /\ seen'[t] = seen[t]
    PROVE  CInv' /\ CountUp
<1>1. KindInv'
  <2>1. \A t \in Threads : /\ pc'[t] = "attach" => pc[t] = "attach"
                           /\ pc'[t] = "unmask" => pc[t] = "unmask"
    OBVIOUS
  <2>2. kind = "local" => fifo' = 0
    BY DEF CInv, KindInv
  <2>3. \A t, u \in Threads : pc'[t] = "attach" /\ pc'[u] = "attach" => t = u
    BY <2>1 DEF CInv, KindInv
  <2>4. \A t \in Threads : /\ pc'[t] = "attach" => ~hooked' /\ kind' = "channel"
                           /\ pc'[t] = "unmask" => t \in Maskers
    BY <2>1 DEF CInv, KindInv
  <2> QED BY <2>2, <2>3, <2>4 DEF CInv, KindInv
<1>2. CountInv'
  <2>1. \A t \in Threads : Storing(t)' => Storing(t) /\ seen'[t] = seen[t]
    BY DEF Storing
  <2> QED BY <2>1 DEF CInv, CountInv, Open
<1>3. EC_LE(cnt, cnt')
  BY Reflexive, ValuesAre
<1> QED BY <1>1, <1>2, <1>3 DEF CInv, CountUp

\* A step that stores s in the count of an open channel.
LEMMA StoreCount ==
    ASSUME SInv, CInv, SInv', NEW s \in Vals,
           UNCHANGED <<kind, sent, plumb>>, chan'.val = chan.val, cnt' = s,
           Open => Ahead(chan.val, s) <= Ahead(chan.val, cnt),
           \A t \in Threads : Storing(t)' => FALSE
    PROVE  CountInv' /\ CountUp
<1>1. CASE Open
  <2>1. Ahead(chan.val, cnt) <= Window /\ Ahead(chan.val, s) <= Ahead(chan.val, cnt)
    BY <1>1 DEF CInv, CountInv
  <2>2. Ahead(chan.val, s) <= Window
    <3>1. /\ Ahead(chan.val, s) \in Nat /\ Ahead(chan.val, cnt) \in Nat
      BY ValuesAre, AheadIs
    <3> QED BY <2>1, <3>1, WordsAre
  <2>3. EC_LE(cnt, s)
    BY <2>1, Between, ValuesAre, SomeKind
  <2> QED BY <1>1, <2>2, <2>3 DEF CInv, CountInv, CountUp, Open
<1>2. CASE ~Open
  <2>1. CountInv'
    BY <1>2 DEF CountInv, Open
  <2>2. CountUp
    BY <1>2, SomeKind DEF CountUp, Open, CInv, KindInv
  <2> QED BY <2>1, <2>2
<1> QED BY <1>1, <1>2

LEMMA KernelCounts ==
    ASSUME SInv, CInv, SInv', (\E k \in 1 .. MaxStep : Send(k)) \/ Plumber
    PROVE  CInv' /\ CountUp
<1>1. /\ UNCHANGED <<cnt, hooked, masked, pending, pc, seen>> /\ kind' = kind
      /\ kind = "channel"
  BY DEF Send, Plumber, ClearPeer, MarkDead, Kick, CloseTX, Plumb, countVars, maskVars
<1>2. KindInv'
  BY <1>1 DEF CInv, KindInv
<1>3. CountUp
  BY <1>1, Reflexive, ValuesAre DEF CountUp
<1>4. CASE Plumber
  <2>1. plumb' # "idle"
    BY <1>4 DEF Plumber, ClearPeer, MarkDead, Kick, CloseTX, Plumb
  <2> QED BY <1>2, <1>3, <2>1 DEF CInv, CountInv, Open
<1>5. ASSUME NEW k \in 1 .. MaxStep, Send(k) PROVE CountInv'
  <2> DEFINE v == Plus(sent, k)
  <2>1. /\ plumb' = plumb /\ sent' = v /\ chan'.val = v /\ InWindow(v)
    BY <1>5 DEF Send, SInv, TypeOK, Endpoint
  <2> SUFFICES ASSUME Open PROVE CountInv'
    BY <1>1, <2>1 DEF CountInv, Open
  <2>2. sent = chan.val /\ Ahead(chan.val, cnt) <= Window
    BY DEF CInv, CountInv
  <2>3. Ahead(v, cnt) <= Window \/ Ahead(cnt, v) <= MaxAhead[kind]
    BY <2>1 DEF InWindow, Compared, Ahead
  <2>4. Ahead(v, cnt) = Ahead(chan.val, cnt) + k /\ Ahead(v, cnt) <= Window
    BY <2>2, <2>3, StepAhead, ValuesAre, SomeKind
  <2>5. ASSUME NEW t \in Threads, Storing(t)'
        PROVE  Ahead(v, seen[t].v) <= Ahead(v, cnt)
    <3>1. Ahead(chan.val, seen[t].v) <= Ahead(chan.val, cnt)
      BY <1>1, <2>5 DEF CInv, CountInv, Storing
    <3>2. /\ Ahead(chan.val, seen[t].v) \in Nat /\ Ahead(chan.val, cnt) \in Nat
          /\ k \in Nat /\ Window \in Nat /\ Words \in Nat /\ Window < Words
      <4>1. Window + MaxAhead[kind] < Half /\ MaxAhead[kind] \in Nat
        BY WordsAre, SomeKind
      <4> QED BY <4>1, ValuesAre, AheadIs, WordsAre
    <3> HIDE DEF v
    <3>3. Ahead(chan.val, seen[t].v) + k < Words
      BY <2>4, <3>1, <3>2
    <3>4. Ahead(v, seen[t].v) = Ahead(chan.val, seen[t].v) + k
      BY <2>2, <3>2, <3>3, AheadPlus, ValuesAre DEF v
    <3> QED BY <2>4, <3>1, <3>2, <3>4
  <2> HIDE DEF v
  <2> QED BY <1>1, <2>1, <2>4, <2>5 DEF CountInv
<1> QED BY <1>2, <1>3, <1>4, <1>5 DEF CInv

\* The channel's value itself is always between.
LEMMA StoreValue ==
    ASSUME SInv, CInv, SInv', UNCHANGED <<kind, sent, plumb>>, chan'.val = chan.val,
           cnt' = chan.val, \A t \in Threads : Storing(t)' => FALSE
    PROVE  CountInv' /\ CountUp
<1>1. Ahead(chan.val, chan.val) = 0 /\ Ahead(chan.val, cnt) \in Nat
  BY ValuesAre, AheadOf, AheadIs
<1>2. Ahead(chan.val, chan.val) <= Ahead(chan.val, cnt)
  BY <1>1
<1> QED BY <1>2, ValuesAre, StoreCount

LEMMA QuietCounts ==
    ASSUME SInv, CInv, SInv', NEW t \in Threads,
           \/ Activate \/ HandlerDone \/ Reactivate \/ Resume(t)
           \/ EnterCS(t) \/ Ack(t) \/ MaskAll(t) \/ Expire(t)
           \/ \E k \in 1 .. MaxAhead[kind] : Await(t, k)
    PROVE  CInv' /\ CountUp
<1>1. /\ UNCHANGED <<kind, sent, plumb, cnt, hooked, masked, pending, fifo, seen>>
      /\ chan'.val = chan.val
  BY DEF Activate, HandlerDone, Reactivate, Resume, EnterCS, Ack, MaskAll, Expire,
         Await, kernelVars, countVars, maskVars, SInv, TypeOK, Endpoint
<1>2. \A u \in Threads : pc'[u] \in {"attach", "unmask"} => pc'[u] = pc[u]
  <2>1. CASE RunTimeouts \/ UNCHANGED pc
    BY <2>1 DEF RunTimeouts
  <2>2. CASE ~(RunTimeouts \/ UNCHANGED pc)
    BY <2>2 DEF Activate, HandlerDone, Reactivate, Resume, EnterCS, Ack, MaskAll, Expire,
                Await, SInv, TypeOK
  <2> QED BY <2>1, <2>2
<1> QED BY <1>1, <1>2, SameCount

\* While the count is on the channel and the event is not masked, nobody is
\* about to store anything.
LEMMA NobodyStores ==
    ASSUME CInv, hooked, ~masked
    PROVE  \A t \in Threads : ~Storing(t)
BY DEF CInv, KindInv, Storing

LEMMA TakeEventCounts ==
    ASSUME SInv, CInv, SInv', TakeEvent
    PROVE  CInv' /\ CountUp
<1>1. CASE UNCHANGED <<countVars, pc>>
  <2>1. /\ UNCHANGED <<kind, sent, plumb, cnt, hooked, masked, chan, pc, seen>>
        /\ (pending' => pending \/ hooked) /\ fifo > 0
    BY <1>1 DEF TakeEvent, countVars
  <2> QED BY <2>1, SameCount
<1>2. CASE hooked /\ ~masked /\ Notify(chan.val, chan.state) /\ UNCHANGED pending
  <2>1. /\ UNCHANGED <<kind, sent, plumb, hooked, masked, chan, seen, pending>>
        /\ cnt' \in {cnt, chan.val}
    BY <1>2 DEF TakeEvent, Notify
  <2>2. \A t \in Threads : pc'[t] \in {"attach", "unmask"} => pc'[t] = pc[t]
    BY <1>2 DEF Notify
  <2>3. kind # "local"
    BY <1>2 DEF CInv, KindInv
  <2>4. KindInv'
    BY <1>2, <2>1, <2>2, <2>3 DEF CInv, KindInv
  <2>5. \A t \in Threads : Storing(t)' => FALSE
    BY <1>2, <2>1, <2>2, NobodyStores DEF Storing
  <2>6. CountInv' /\ CountUp
    <3>1. CASE cnt' = chan.val
      BY <2>1, <2>5, <3>1, StoreValue
    <3>2. CASE cnt' = cnt
      <4>1. cnt' = cnt /\ Ahead(chan.val, cnt) <= Ahead(chan.val, cnt)
        BY <3>2, ValuesAre, AheadIs
      <4> QED BY <2>1, <2>5, <4>1, ValuesAre, StoreCount
    <3> QED BY <2>1, <3>1, <3>2
  <2> QED BY <2>4, <2>6 DEF CInv
<1> QED BY <1>1, <1>2 DEF TakeEvent

LEMMA AdvanceCounts ==
    ASSUME SInv, CInv, SInv', NEW k \in 1 .. MaxStep, Advance(k)
    PROVE  CInv' /\ CountUp
<1>1. kind = "local" /\ ~hooked /\ UNCHANGED <<kind, fifo, hooked, pending>>
  BY DEF Advance, kernelVars, maskVars, CInv, KindInv
<1>2. \A t \in Threads : pc'[t] \in {"attach", "unmask"} => pc'[t] = pc[t]
  BY DEF Advance, Notify
<1>3. KindInv'
  BY <1>1, <1>2 DEF CInv, KindInv
<1> QED BY <1>1, <1>3 DEF CInv, CountInv, Open, CountUp

\* A thread that calls or ends something is the only one, or nobody unmasks.
LEMMA NobodyUnmasks ==
    ASSUME Unshared, CInv, NEW t \in Threads, pc[t] # "unmask"
    PROVE  \A u \in Threads : pc[u] # "unmask"
BY DEF Unshared, CInv, KindInv

LEMMA QueryCounts ==
    ASSUME Unshared, SInv, CInv, SInv', NEW t \in Threads, Query(t)
    PROVE  CInv' /\ CountUp
<1>1. UNCHANGED <<kind, sent, plumb, chan, hooked, masked, pending, fifo>> /\ pc[t] = "query"
  BY DEF Query, kernelVars, maskVars
<1>2. \A u \in Threads : pc'[u] \in {"attach", "unmask"} => pc'[u] = pc[u] /\ seen'[u] = seen[u]
  BY <1>1, ConcludeIs DEF Query, SInv, TypeOK
<1>3. CASE cnt' = cnt
  BY <1>1, <1>2, <1>3, SameCount
<1>4. CASE hooked /\ cnt' = chan.val
  <2>1. \A u \in Threads : Storing(u)' => FALSE
    BY <1>1, <1>2, <1>4, NobodyUnmasks DEF Storing, CInv, KindInv
  <2>2. KindInv'
    BY <1>1, <1>2, <1>4 DEF CInv, KindInv
  <2> QED BY <1>1, <1>4, <2>1, <2>2, StoreValue DEF CInv
<1> QED BY <1>3, <1>4, ConcludeIs DEF Query, countVars

LEMMA ReadCounts ==
    ASSUME Unshared, SInv, CInv, SInv', NEW t \in Threads, Read(t)
    PROVE  CInv' /\ CountUp
<1>1. /\ UNCHANGED <<kind, sent, plumb, chan, hooked, masked, pending, fifo, pc, seen>>
      /\ pc[t] = "run" /\ hooked /\ cnt' = chan.val
  BY DEF Read, kernelVars, maskVars
<1>2. KindInv'
  BY <1>1 DEF CInv, KindInv
<1>3. \A u \in Threads : Storing(u)' => FALSE
  BY <1>1, NobodyUnmasks DEF Storing, CInv, KindInv
<1> QED BY <1>1, <1>2, <1>3, StoreValue DEF CInv

LEMMA MaskCounts ==
    ASSUME Unshared, SInv, CInv, SInv', NEW t \in Threads, Mask(t)
    PROVE  CInv' /\ CountUp
<1>1. /\ UNCHANGED <<kind, sent, plumb, chan, cnt, hooked, pending, fifo, pc, seen>>
      /\ pc[t] = "run" /\ hooked
  BY DEF Mask, kernelVars, countVars
<1>2. KindInv'
  BY <1>1 DEF CInv, KindInv
<1>3. \A u \in Threads : Storing(u)' => FALSE
  BY <1>1, NobodyUnmasks DEF Storing, CInv, KindInv
<1>4. cnt' = cnt /\ Ahead(chan.val, cnt) <= Ahead(chan.val, cnt)
  BY <1>1, ValuesAre, AheadIs
<1> QED BY <1>1, <1>2, <1>3, <1>4, ValuesAre, StoreCount DEF CInv

\* What is read of the channel now is its value.
LEMMA LookCounts ==
    ASSUME SInv, CInv, SInv', NEW t \in Threads, Attach(t) \/ Unmask(t)
    PROVE  CInv' /\ CountUp
<1>1. /\ UNCHANGED <<kind, sent, plumb, chan, cnt, hooked, masked, pending, fifo>>
      /\ seen'[t].v = chan.val
      /\ \A u \in Threads \ {t} : pc'[u] = pc[u] /\ seen'[u] = seen[u]
  BY DEF Attach, Unmask, kernelVars, countVars, maskVars, SInv, TypeOK
<1>2. \/ /\ pc'[t] = "attach" /\ ~hooked /\ kind = "channel"
         /\ \A u \in Threads : pc[u] # "attach"
      \/ pc'[t] = "unmask" /\ t \in Maskers
  BY DEF Attach, Unmask, SInv, TypeOK
<1>3. KindInv'
  BY <1>1, <1>2 DEF CInv, KindInv
<1>4. CountInv'
  <2>1. Ahead(chan.val, seen'[t].v) = 0 /\ Ahead(chan.val, cnt) \in Nat
    BY <1>1, ValuesAre, AheadOf, AheadIs
  <2>2. 0 <= Ahead(chan.val, cnt)
    BY <2>1
  <2>3. \A u \in Threads \ {t} : Storing(u)' => Storing(u)
    BY <1>1 DEF Storing
  <2> QED BY <1>1, <2>1, <2>2, <2>3 DEF CInv, CountInv, Open
<1>5. CountUp
  BY <1>1, Reflexive, ValuesAre DEF CountUp
<1> QED BY <1>3, <1>4, <1>5 DEF CInv

LEMMA AttachDoneCounts ==
    ASSUME Unshared, SInv, CInv, SInv', NEW t \in Threads, AttachDone(t)
    PROVE  CInv' /\ CountUp
<1>1. /\ UNCHANGED <<kind, sent, plumb, chan, fifo>> /\ pc[t] = "attach"
      /\ hooked' = TRUE /\ masked' = FALSE /\ cnt' = seen[t].v
      /\ \A u \in Threads : pc'[u] \in {"attach", "unmask"} => u # t /\ pc'[u] = pc[u]
      /\ pending' = pending
  BY DEF AttachDone, kernelVars
<1>2. kind = "channel" /\ ~hooked /\ \A u \in Threads : pc'[u] # "attach"
  BY <1>1 DEF CInv, KindInv
<1>3. KindInv'
  BY <1>1, <1>2 DEF CInv, KindInv
<1>4. \A u \in Threads : Storing(u)' => FALSE
  BY <1>1, <1>2 DEF Storing
<1>5. Open => Ahead(chan.val, seen[t].v) <= Ahead(chan.val, cnt)
  BY <1>1 DEF CInv, CountInv, Storing
<1>6. chan'.val = chan.val /\ seen[t].v \in Vals
  BY <1>1, ValuesAre
<1>7. CountInv' /\ CountUp
  BY <1>1, <1>4, <1>5, <1>6, StoreCount
<1> QED BY <1>3, <1>7 DEF CInv

LEMMA UnmaskCounts ==
    ASSUME Unshared, SInv, CInv, SInv', NEW t \in Threads, UnmaskDone(t) \/ UnmaskAll(t)
    PROVE  CInv' /\ CountUp
<1>1. /\ UNCHANGED <<kind, sent, plumb, chan, fifo, hooked, seen>> /\ (pending' => pending)
      /\ chan'.val = chan.val
      /\ \A u \in Threads : pc'[u] \in {"attach", "unmask"} => pc'[u] = pc[u]
  <2>1. UNCHANGED <<kind, sent, plumb, chan, fifo, hooked, seen>> /\ chan'.val = chan.val
    BY DEF UnmaskDone, UnmaskAll, kernelVars
  <2>2. pending' => pending
    BY DEF UnmaskDone, UnmaskAll
  <2>3. ASSUME NEW u \in Threads PROVE pc'[u] \in {"attach", "unmask"} => pc'[u] = pc[u]
    <3>1. CASE UnmaskDone(t)
      BY <3>1 DEF UnmaskDone
    <3>2. CASE UnmaskAll(t)
      BY <3>2 DEF UnmaskAll, Notify
    <3> QED BY <3>1, <3>2
  <2> QED BY <2>1, <2>2, <2>3
<1>2. KindInv' \/ (kind = "channel" /\ ~hooked /\ cnt' # cnt)
  BY <1>1 DEF CInv, KindInv
<1>3. CASE cnt' = cnt
  <2>1. masked' => masked
    BY DEF UnmaskDone, UnmaskAll
  <2>2. \A u \in Threads : Storing(u)' => Storing(u)
    BY <1>1, <2>1 DEF Storing
  <2>3. CountInv' /\ CountUp
    <3>1. EC_LE(cnt, cnt')
      BY <1>3, Reflexive, ValuesAre
    <3> QED BY <1>1, <1>3, <2>2, <3>1 DEF CInv, CountInv, Open, CountUp
  <2> QED BY <1>2, <1>3, <2>3 DEF CInv
<1>4. CASE cnt' # cnt
  <2>1. pending /\ hooked
    BY <1>4 DEF UnmaskDone, UnmaskAll, Told, countVars, CInv, KindInv
  <2>2. KindInv'
    BY <1>2, <2>1
  <2>3. masked' = FALSE
    BY <1>4 DEF UnmaskDone, UnmaskAll, countVars
  <2>4. \A u \in Threads : Storing(u)' => FALSE
    BY <1>1, <2>1, <2>3 DEF Storing, CInv, KindInv
  <2>5. CASE UnmaskDone(t)
    <3>1. cnt' = seen[t].v /\ pc[t] = "unmask" /\ masked
      BY <1>4, <2>5 DEF UnmaskDone, Told
    <3>2. Open => Ahead(chan.val, seen[t].v) <= Ahead(chan.val, cnt)
      BY <3>1 DEF CInv, CountInv, Storing
    <3>3. CountInv' /\ CountUp
      BY <1>1, <2>4, <3>1, <3>2, ValuesAre, StoreCount
    <3> QED BY <2>2, <3>3 DEF CInv
  <2>6. CASE UnmaskAll(t)
    <3>1. cnt' = chan.val
      BY <1>4, <2>6 DEF UnmaskAll, Notify, countVars
    <3>2. CountInv' /\ CountUp
      BY <1>1, <2>4, <3>1, StoreValue
    <3> QED BY <2>2, <3>2 DEF CInv
  <2> QED BY <2>5, <2>6
<1> QED BY <1>3, <1>4

LEMMA NextCInv == Unshared => (SInv /\ CInv /\ [Next]_vars => CInv' /\ CountUp)
<1> SUFFICES ASSUME Unshared, SInv, CInv, [Next]_vars PROVE CInv' /\ CountUp
  OBVIOUS
<1>1. SInv'
  BY NextSInv
<1>2. CASE UNCHANGED vars
  BY <1>1, <1>2, SameCount DEF vars, kernelVars, countVars, maskVars, cpuVars
<1>3. CASE \E k \in 1 .. MaxStep : Send(k) \/ Advance(k)
  BY <1>1, <1>3, KernelCounts, AdvanceCounts
<1>4. CASE Plumber \/ Activate \/ Handler \/ Reactivate
  <2>1. PICK t \in Threads : TRUE
    BY ThreadAssumption
  <2> QED BY <1>1, <1>4, KernelCounts, QuietCounts, TakeEventCounts DEF Handler
<1>5. ASSUME NEW t \in Threads, Resume(t) \/ Critical(t) \/ Calls(t) \/ Expire(t)
      PROVE  CInv' /\ CountUp
  <2>1. CASE Critical(t)
    BY <1>1, <2>1, QueryCounts, QuietCounts, AttachDoneCounts DEF Critical
  <2>2. CASE Calls(t)
    BY <1>1, <2>2, QuietCounts, ReadCounts, LookCounts, MaskCounts, UnmaskCounts DEF Calls
  <2> QED BY <1>1, <1>5, <2>1, <2>2, QuietCounts
<1> QED BY <1>2, <1>3, <1>4, <1>5 DEF Next

\* While its channel is open the value of a count never goes back, in the
\* order of ecs.h and however often the words wrap around, if UnmaskEvent
\* has the count to itself.
THEOREM CountsGoUp == ASSUME Unshared PROVE Spec => Monotone
<1>1. Init => SInv /\ CInv
  BY InitSInv, InitCInv
<1>2. SInv /\ CInv /\ [Next]_vars => SInv' /\ CInv' /\ CountUp
  BY NextSInv, NextCInv
<1>3. CountUp => [plumb' = "idle" /\ hooked => EC_LE(cnt, cnt')]_cnt
  BY DEF CountUp
<1> QED BY <1>1, <1>2, <1>3, PTL DEF Spec, Monotone

-----------------------------------------------------------------------------
(* Who is inside, and how far the channel is from what threads wait for.   *)

\* AwaitUntil and UnmaskEvent, which read a value and use it after they let
\* others run, are not called.
Undisturbed == Timed = {} /\ Maskers = {}

Inner == {"query", "ack", "attach"}

PlaceInv ==
    /\ \A t \in Threads : /\ pc[t] \in Inner => mode = "cs" /\ thd = t
                          /\ pc[t] \notin {"yielded", "unmask"}
                          /\ pc[t] = "ack" => hooked
    /\ mode = "cs" => thd \in Threads /\ pc[thd] \in Inner
    /\ ~masked /\ ~pending

\* The threads whose want the model compares with the channel's value.
Awaiting == {t \in Threads : pc[t] \notin {"run", "woken", "unmask", "attach"}}

WantInv ==
    Open => \A t \in Awaiting : \/ Ahead(chan.val, want[t]) <= Window
                                \/ Ahead(want[t], chan.val) <= MaxAhead[kind]

PInv == PlaceInv /\ WantInv

\* Everything there is to know when a count is used undisturbed.
AInv == SInv /\ CInv /\ PInv

LEMMA InitPInv == Init => PInv
<1> SUFFICES ASSUME Init PROVE PInv
  OBVIOUS
<1>1. \A t \in Threads : pc[t] = "run"
  BY DEF Init
<1> QED BY <1>1 DEF Init, PInv, PlaceInv, WantInv, Awaiting, Inner

\* A step that leaves no thread inside.
LEMMA NobodyInside ==
    ASSUME PlaceInv, mode' # "cs",
           \A t \in Threads : \/ pc'[t] \in {"run", "woken", "enter", "blocked"}
                              \/ pc'[t] = pc[t] /\ (mode # "cs" \/ t # thd),
           ~masked', ~pending'
    PROVE  PlaceInv'
<1>1. \A t \in Threads : pc'[t] \notin Inner /\ pc'[t] \notin {"yielded", "unmask"}
  BY DEF PlaceInv, Inner
<1>2. \A t \in Threads : pc'[t] # "ack"
  BY <1>1 DEF Inner
<1> QED BY <1>1, <1>2 DEF PlaceInv

\* A step after which t is inside.
LEMMA OneInside ==
    ASSUME SInv, PlaceInv, NEW t \in Threads, mode' = "cs", thd' = t, thd = t,
           NEW p \in Inner, pc' = [pc EXCEPT ![t] = p], p = "ack" => hooked,
           UNCHANGED <<masked, pending, hooked>>
    PROVE  PlaceInv'
<1>1. pc'[t] = p /\ \A u \in Threads \ {t} : pc'[u] = pc[u] /\ pc'[u] \notin Inner
  BY DEF SInv, TypeOK, PlaceInv
<1>2. p \notin {"yielded", "unmask"}
  BY DEF Inner
<1> QED BY <1>1, <1>2 DEF PlaceInv, Inner

\* A step that brings nobody to wait.
LEMMA SameWants ==
    ASSUME WantInv, kind' = kind, Open' => Open, chan'.val = chan.val,
           \A t \in Threads : t \in Awaiting' => t \in Awaiting /\ want'[t] = want[t]
    PROVE  WantInv'
BY DEF WantInv, Awaiting

\* A step that takes threads out of the wait queue, or stops before it.
LEMMA WantsLeft ==
    ASSUME WantInv, UNCHANGED <<kind, plumb, want>>, chan'.val = chan.val,
           \A t \in Threads : \/ pc'[t] \in {"run", "woken", "unmask", "attach"}
                              \/ pc'[t] = pc[t] \/ t \in Awaiting
    PROVE  WantInv'
<1>1. \A t \in Threads : t \in Awaiting' => t \in Awaiting
  BY DEF Awaiting
<1> QED BY <1>1, SameWants DEF Open

LEMMA KernelPlaces ==
    ASSUME AInv, (\E k \in 1 .. MaxStep : Send(k)) \/ Plumber
    PROVE  PInv'
<1>1. /\ UNCHANGED <<hooked, masked, pending, mode, thd, pc, want, cnt>> /\ kind' = kind
  BY DEF Send, Plumber, ClearPeer, MarkDead, Kick, CloseTX, Plumb, countVars, maskVars,
         cpuVars
<1>2. PlaceInv'
  BY <1>1 DEF AInv, PInv, PlaceInv
<1>3. CASE Plumber
  <2>1. ~Open'
    BY <1>3 DEF Plumber, ClearPeer, MarkDead, Kick, CloseTX, Plumb, Open
  <2> QED BY <1>2, <2>1 DEF PInv, WantInv
<1>4. ASSUME NEW k \in 1 .. MaxStep, Send(k) PROVE WantInv'
  <2>1. InWindow(chan'.val)
    BY <1>4 DEF Send, AInv, SInv, TypeOK, Endpoint
  <2>2. \A t \in Awaiting : \/ Ahead(chan'.val, want[t]) <= Window
                            \/ Ahead(want[t], chan'.val) <= MaxAhead[kind]
    BY <2>1 DEF InWindow, Compared, Ahead, Awaiting
  <2> QED BY <1>1, <2>2 DEF WantInv, Awaiting
<1> QED BY <1>2, <1>3, <1>4 DEF PInv

LEMMA HandlerPlaces ==
    ASSUME Undisturbed, AInv, Activate \/ Handler \/ Reactivate
    PROVE  PInv'
<1>1. /\ mode # "cs" /\ mode' # "cs"
      /\ UNCHANGED <<kind, plumb, want, masked>> /\ chan'.val = chan.val
  BY DEF Activate, Handler, TakeEvent, HandlerDone, Reactivate, kernelVars, maskVars, cpuVars
<1>2. ~masked' /\ ~pending'
  <2>1. CASE TakeEvent
    BY <1>1, <2>1 DEF TakeEvent, AInv, PInv, PlaceInv
  <2>2. CASE ~TakeEvent
    BY <2>2 DEF Activate, Handler, HandlerDone, Reactivate, maskVars, AInv, PInv, PlaceInv
  <2> QED BY <2>1, <2>2
<1>3. \A t \in Threads : pc'[t] \in {"woken", pc[t]}
  BY DEF Activate, Handler, TakeEvent, HandlerDone, Reactivate, RunTimeouts, Notify
<1>4. PlaceInv'
  BY <1>1, <1>2, <1>3, NobodyInside DEF AInv, PInv
<1>5. WantInv'
  BY <1>1, <1>3, WantsLeft DEF AInv, PInv
<1> QED BY <1>4, <1>5 DEF PInv

LEMMA ThreadPlaces ==
    ASSUME Undisturbed, AInv, NEW t \in Threads,
           \/ Resume(t) \/ Read(t) \/ MaskAll(t) \/ UnmaskAll(t) \/ AttachDone(t)
           \/ \E k \in 1 .. MaxStep : Advance(k)
    PROVE  PInv'
<1>1. /\ mode' # "cs" /\ UNCHANGED <<kind, plumb, want>> /\ chan'.val = chan.val
  <2>1. Resume(t) => pc[t] # "yielded"
    BY DEF AInv, PInv, PlaceInv
  <2> QED BY <2>1, LeftIs DEF Resume, Read, MaskAll, UnmaskAll, AttachDone, Advance, Running,
                              kernelVars, cpuVars
<1>2. ~masked' /\ ~pending'
  <2>1. ~masked /\ ~pending
    BY DEF AInv, PInv, PlaceInv
  <2>2. CASE UnmaskAll(t)
    BY <2>1, <2>2 DEF UnmaskAll
  <2>3. CASE Resume(t)
    BY <2>1, <2>3 DEF Resume, maskVars
  <2>4. CASE Read(t)
    BY <2>1, <2>4 DEF Read, maskVars
  <2>5. CASE MaskAll(t)
    BY <2>1, <2>5 DEF MaskAll
  <2>6. CASE AttachDone(t)
    BY <2>1, <2>6 DEF AttachDone
  <2>7. CASE \E k \in 1 .. MaxStep : Advance(k)
    BY <2>1, <2>7 DEF Advance, maskVars
  <2> QED BY <2>2, <2>3, <2>4, <2>5, <2>6, <2>7
<1>3. ASSUME NEW u \in Threads
      PROVE  pc'[u] \in {"run", "woken"} \/ (pc'[u] = pc[u] /\ (mode # "cs" \/ u # thd))
  <2>1. CASE AttachDone(t)
    BY <2>1 DEF AttachDone, Inside
  <2>2. CASE UnmaskAll(t)
    BY <2>2 DEF UnmaskAll, Running, AInv, PInv, PlaceInv
  <2>3. CASE Resume(t)
    BY <2>3 DEF Resume, AInv, PInv, PlaceInv, SInv, TypeOK
  <2>4. CASE Read(t) \/ MaskAll(t)
    BY <2>4 DEF Read, MaskAll, Running
  <2>5. CASE \E k \in 1 .. MaxStep : Advance(k)
    BY <2>5 DEF Advance, Notify, Running
  <2> QED BY <2>1, <2>2, <2>3, <2>4, <2>5
<1>4. PlaceInv'
  BY <1>1, <1>2, <1>3, NobodyInside DEF AInv, PInv
<1>5. WantInv'
  BY <1>1, <1>3, WantsLeft DEF AInv, PInv
<1> QED BY <1>4, <1>5 DEF PInv

LEMMA EnterPlaces ==
    ASSUME Undisturbed, AInv, NEW t \in Threads, EnterCS(t) \/ Attach(t) \/ Ack(t)
    PROVE  PInv'
<1>1. /\ mode' = "cs" /\ thd' = t /\ thd = t
      /\ UNCHANGED <<kind, plumb, want, masked, pending, hooked>> /\ chan'.val = chan.val
  BY DEF EnterCS, Attach, Ack, Running, Inside, kernelVars, maskVars, cpuVars, AInv, SInv,
         TypeOK, Endpoint
<1>2. PICK p \in {"query", "attach"} : pc' = [pc EXCEPT ![t] = p]
  BY DEF EnterCS, Attach, Ack
<1>3. pc[t] \in {"run", "enter", "ack"} /\ (p = "query" => pc[t] \in {"enter", "ack"})
  BY <1>2 DEF EnterCS, Attach, Ack, AInv, SInv, TypeOK
<1>4. PlaceInv'
  BY <1>1, <1>2, OneInside DEF AInv, PInv, Inner
<1>5. WantInv'
  <2>1. \A u \in Threads : \/ pc'[u] \in {"run", "woken", "unmask", "attach"}
                           \/ pc'[u] = pc[u] \/ u \in Awaiting
    BY <1>2, <1>3 DEF Awaiting, AInv, SInv, TypeOK
  <2> QED BY <1>1, <2>1, WantsLeft DEF AInv, PInv
<1> QED BY <1>4, <1>5 DEF PInv

LEMMA NobodyLate == ASSUME Undisturbed, AInv PROVE Expired = {} /\ due = {} /\ \A t : ~Late(t)
BY DEF Undisturbed, AInv, SInv, TypeOK, Expired, Late

LEMMA QueryPlaces == ASSUME Undisturbed, AInv, NEW t \in Threads, Query(t) PROVE PInv'
<1>1. /\ UNCHANGED <<kind, plumb, want, masked, pending, hooked, chan, thd>>
      /\ pc[t] = "query" /\ thd = t /\ mode = "cs" /\ t \in Awaiting
  BY DEF Query, Inside, kernelVars, maskVars, Awaiting
<1>2. CASE \E v : Conclude(t, v)
  <2>1. mode' # "cs"
    BY <1>2, ConcludeIs, LeftIs
  <2>2. \A u \in Threads : \/ pc'[u] \in {"run", "woken", "blocked"}
                           \/ pc'[u] = pc[u] /\ (mode # "cs" \/ u # thd)
    BY <1>1, <1>2, ConcludeIs
  <2>3. \A u \in Threads : pc'[u] = "blocked" => u = t \/ pc'[u] = pc[u]
    <3>1. PICK v : Conclude(t, v)
      BY <1>2
    <3>2. \A u \in Stays(t, v) : u = t
      BY DEF Stays
    <3> QED BY <3>1, <3>2, ConcludeIs
  <2>4. PlaceInv'
    BY <1>1, <2>1, <2>2, NobodyInside DEF AInv, PInv, PlaceInv
  <2>5. WantInv'
    BY <1>1, <2>2, <2>3, WantsLeft DEF AInv, PInv
  <2> QED BY <2>4, <2>5 DEF PInv
<1>3. CASE mode' = mode /\ pc' = [pc EXCEPT ![t] = "ack"] /\ hooked
  <2>1. PlaceInv'
    BY <1>1, <1>3, OneInside DEF AInv, PInv, Inner
  <2>2. WantInv'
    BY <1>1, <1>3, WantsLeft DEF AInv, PInv, SInv, TypeOK
  <2> QED BY <2>1, <2>2 DEF PInv
<1> QED BY <1>2, <1>3 DEF Query, Undisturbed

LEMMA AwaitPlaces ==
    ASSUME AInv, NEW t \in Threads, NEW k \in 1 .. MaxAhead[kind], Await(t, k)
    PROVE  PInv'
<1>1. /\ UNCHANGED <<kind, plumb, chan, masked, pending, mode, thd, cnt>> /\ mode = "on"
      /\ want' = [want EXCEPT ![t] = Plus(cnt, k)] /\ pc' = [pc EXCEPT ![t] = "enter"]
  BY DEF Await, Running, kernelVars, countVars, maskVars, cpuVars
<1>2. PlaceInv'
  <2>1. \A u \in Threads : pc'[u] \in {"enter", pc[u]}
    BY <1>1 DEF AInv, SInv, TypeOK
  <2> QED BY <1>1, <2>1, NobodyInside DEF AInv, PInv, PlaceInv
<1>3. WantInv'
  <2> SUFFICES ASSUME Open PROVE WantInv'
    BY <1>1 DEF WantInv, Open
  <2>1. \/ Ahead(chan.val, want'[t]) <= Window
        \/ Ahead(want'[t], chan.val) <= MaxAhead[kind]
    <3>1. want'[t] = Plus(cnt, k) /\ chan.val \in Vals /\ cnt \in Vals
      BY <1>1, ValuesAre DEF AInv, SInv, TypeOK
    <3>2. /\ Words \in Nat \ {0} /\ Window \in Nat /\ MaxAhead[kind] \in Nat /\ k \in Nat
          /\ Window + MaxAhead[kind] < Words /\ k <= MaxAhead[kind]
      <4>1. Window + MaxAhead[kind] < Half /\ MaxAhead[kind] \in Nat \ {0}
        BY WordsAre, SomeKind DEF AInv
      <4> QED BY <4>1, WordsAre
    <3>3. Ahead(chan.val, cnt) <= Window
      BY DEF AInv, CInv, CountInv
    <3> DEFINE v == chan.val
               x == Plus(cnt, k)
    <3>4. /\ v \in Nat /\ v < Words /\ cnt \in Nat /\ cnt < Words
          /\ k < Words /\ k \in Vals
      BY <3>1, <3>2 DEF Vals
    <3>5. /\ x = (IF cnt + k < Words THEN cnt + k ELSE cnt + k - Words) /\ x \in Vals
      BY <3>1, <3>4, PlusIs
    <3>6. /\ Ahead(v, cnt) = IF v >= cnt THEN v - cnt ELSE v - cnt + Words
          /\ Ahead(v, x) = IF v >= x THEN v - x ELSE v - x + Words
          /\ Ahead(x, v) = IF x >= v THEN x - v ELSE x - v + Words
      BY <3>1, <3>5, AheadIs
    <3> HIDE DEF v, x
    <3>7. Ahead(v, cnt) <= Window
      BY <3>3 DEF v
    <3>8. Ahead(v, x) <= Window \/ Ahead(x, v) <= MaxAhead[kind]
      BY <3>2, <3>4, <3>5, <3>6, <3>7
    <3> QED BY <3>1, <3>8 DEF v, x
  <2>2. \A u \in Threads \ {t} : pc'[u] = pc[u] /\ want'[u] = want[u]
    BY <1>1 DEF AInv, SInv, TypeOK
  <2> QED BY <1>1, <2>1, <2>2 DEF AInv, PInv, WantInv, Awaiting
<1> QED BY <1>2, <1>3 DEF PInv

LEMMA NextPInv == Undisturbed => (AInv /\ [Next]_vars => AInv')
<1> SUFFICES ASSUME Undisturbed, AInv, [Next]_vars PROVE AInv'
  OBVIOUS
<1>1. SInv' /\ CInv'
  BY NextSInv, NextCInv DEF AInv, Undisturbed, Unshared
<1>2. CASE UNCHANGED vars
  <2>1. PInv'
    BY <1>2 DEF AInv, PInv, PlaceInv, WantInv, Awaiting, Open, vars, kernelVars,
                countVars, maskVars, cpuVars
  <2> QED BY <1>1, <2>1 DEF AInv
<1>3. CASE \E k \in 1 .. MaxStep : Send(k) \/ Advance(k)
  <2>1. PICK t \in Threads : TRUE
    BY ThreadAssumption
  <2> QED BY <1>1, <1>3, KernelPlaces, ThreadPlaces DEF AInv
<1>4. CASE Plumber \/ Activate \/ Handler \/ Reactivate
  BY <1>1, <1>4, KernelPlaces, HandlerPlaces DEF AInv
<1>5. ASSUME NEW t \in Threads, Resume(t) \/ Critical(t) \/ Calls(t) \/ Expire(t)
      PROVE  PInv'
  <2>1. ~Expire(t) /\ ~Mask(t) /\ ~Unmask(t) /\ ~UnmaskDone(t)
    BY DEF Undisturbed, Expire, Mask, Unmask, UnmaskDone, AInv, PInv, PlaceInv
  <2>2. CASE Critical(t)
    BY <2>2, QueryPlaces, EnterPlaces, ThreadPlaces DEF Critical
  <2>3. CASE Calls(t)
    BY <2>1, <2>3, AwaitPlaces, EnterPlaces, ThreadPlaces DEF Calls
  <2> QED BY <1>5, <2>1, <2>2, <2>3, ThreadPlaces
<1> QED BY <1>1, <1>2, <1>3, <1>4, <1>5 DEF AInv, Next

-----------------------------------------------------------------------------
(* The event FIFO.                                                         *)

\* How many events may yet be listed for a thread in the loop of Await.
Room(t) == IF Ahead(want[t], chan.val) <= MaxAhead[kind]
           THEN Ahead(want[t], chan.val) + 1 ELSE 0

\* Nothing has been listed and not taken out since the thread went inside.
Clear == fifo <= 1 /\ (chan.val = chan.ack => fifo = 0)

FifoInv ==
    Open =>
        /\ chan.val <= Top /\ chan.ack <= chan.val
        /\ \A t \in Threads :
               pc[t] = "ack" => /\ seen[t].v <= chan.val
                                /\ Ahead(want[t], seen[t].v) <= MaxAhead[kind]
        /\ fifo <= MaxAhead[kind] + 2
        /\ chan.val = chan.ack => fifo <= MaxAhead[kind] + 1
        /\ mode = "on" \/ (mode = "cs" /\ pc[thd] = "attach") => Clear
        /\ mode = "cs" /\ pc[thd] # "attach"
               => fifo + Room(thd) <= MaxAhead[kind] + 2

LEMMA InitFifoInv == Init => FifoInv
<1> SUFFICES ASSUME Init, kind \in Kinds PROVE FifoInv
  BY DEF Init
<1>1. MaxAhead[kind] \in Nat /\ Top \in Nat
  BY WordsAre, ValueAssumption
<1>2. \A t \in Threads : pc[t] = "run"
  BY DEF Init
<1> QED BY <1>1, <1>2 DEF Init, FifoInv, Clear

LEMMA FifoNumbers ==
    ASSUME SInv
    PROVE  /\ fifo \in Nat /\ MaxAhead[kind] \in Nat \ {0} /\ Top \in Nat
           /\ chan.val \in Nat /\ chan.ack \in Nat
           /\ \A t \in Threads : Room(t) \in 0 .. MaxAhead[kind] + 1
<1>1. /\ fifo \in Nat /\ MaxAhead[kind] \in Nat \ {0} /\ Top \in Nat
      /\ chan.val \in Nat /\ chan.ack \in Nat
  BY WordsAre, SomeKind, ValuesAre, ValueAssumption DEF SInv, TypeOK, Vals
<1>2. \A t \in Threads : Ahead(want[t], chan.val) \in Nat
  BY ValuesAre, AheadIs
<1> QED BY <1>1, <1>2 DEF Room

\* A step with activations off that may take an entry out, or that puts
\* activations on only when there is none.
LEMMA FifoLeft ==
    ASSUME SInv, FifoInv, UNCHANGED <<kind, plumb, chan, want>>,
           fifo' \in Nat, fifo' <= fifo,
           \A t \in Threads : pc'[t] # "ack",
           \/ mode' \in {"handler", "sched"}
           \/ mode' = "on" /\ (fifo' = 0 \/ (mode = "on" /\ fifo' = fifo))
    PROVE  FifoInv'
<1> SUFFICES ASSUME Open PROVE FifoInv'
  BY DEF FifoInv, Open
<1>1. mode' = "on" => Clear'
  BY DEF FifoInv, Clear
<1> QED BY <1>1, FifoNumbers DEF FifoInv, Open

LEMMA SendFifo ==
    ASSUME Undisturbed, Top < Words, AInv, FifoInv, NEW k \in 1 .. MaxStep, Send(k)
    PROVE  FifoInv'
<1> SUFFICES ASSUME Open PROVE FifoInv'
  BY DEF Send, FifoInv, Open
<1> DEFINE v == chan.val
           w == chan'.val
<1>1. /\ sent' = Plus(sent, k) /\ fifo' = Listed /\ chan' = [chan EXCEPT !.val = sent']
      /\ UNCHANGED <<kind, plumb, mode, thd, pc, want, seen>> /\ sent + k <= Top
  BY ValueAssumption, WordsAre DEF Send, cpuVars
<1>2. SInv /\ sent = v
  BY DEF AInv, CInv, CountInv
<1>3. /\ Words \in Nat \ {0} /\ Top \in Nat /\ MaxStep \in Nat /\ Window \in Nat
      /\ MaxAhead[kind] \in Nat /\ MaxStep + Window + MaxAhead[kind] < Words
      /\ v \in Nat /\ v < Words /\ k \in Nat /\ k > 0 /\ k <= MaxStep /\ v \in Vals
  BY <1>2, WordsAre, SomeKind, ValuesAre, FifoNumbers DEF Vals
<1>4. w = v + k /\ chan'.ack = chan.ack /\ w \in Vals /\ w <= Top
  <2>1. chan'.val = sent' /\ chan'.ack = chan.ack
    BY <1>1, <1>2 DEF SInv, TypeOK, Endpoint
  <2>2. v + k <= Top /\ k < Words /\ k \in Vals
    BY <1>1, <1>2, <1>3 DEF Vals
  <2>3. Plus(v, k) = v + k /\ Plus(v, k) \in Vals
    BY <1>3, <2>2, PlusIs
  <2> QED BY <1>1, <1>2, <2>1, <2>2, <2>3
<1>5. /\ chan.ack \in Nat /\ fifo \in Nat /\ chan.ack <= v
      /\ fifo <= MaxAhead[kind] + 2 /\ (v = chan.ack => fifo <= MaxAhead[kind] + 1)
  BY <1>2, FifoNumbers DEF FifoInv
<1>6. fifo' = (IF v = chan.ack THEN fifo + 1 ELSE fifo)
  BY <1>1 DEF Listed
<1>7. w # chan'.ack /\ chan'.ack <= w /\ fifo' <= MaxAhead[kind] + 2
  BY <1>3, <1>4, <1>5, <1>6
<1>8. \A t \in Threads :
         pc'[t] = "ack" => /\ seen'[t].v <= w
                           /\ Ahead(want'[t], seen'[t].v) <= MaxAhead[kind]
  <2>1. \A t \in Threads :
           pc[t] = "ack" => /\ seen[t].v <= v /\ Ahead(want[t], seen[t].v) <= MaxAhead[kind]
    BY DEF FifoInv
  <2>2. \A t \in Threads : seen[t].v \in Nat
    BY <1>2, ValuesAre DEF Vals
  <2> QED BY <1>1, <1>3, <1>4, <2>1, <2>2
<1>9. mode = "on" \/ (mode = "cs" /\ pc[thd] = "attach") => Clear'
  <2> SUFFICES ASSUME mode = "on" \/ (mode = "cs" /\ pc[thd] = "attach") PROVE Clear'
    OBVIOUS
  <2>1. fifo <= 1 /\ (v = chan.ack => fifo = 0)
    BY DEF FifoInv, Clear
  <2> QED BY <1>5, <1>6, <1>7, <2>1 DEF Clear
<1>10. mode = "cs" /\ pc[thd] # "attach" => fifo' + Room(thd)' <= MaxAhead[kind] + 2
  <2> SUFFICES ASSUME mode = "cs", pc[thd] # "attach"
               PROVE  fifo' + Room(thd)' <= MaxAhead[kind] + 2
    OBVIOUS
  <2>1. thd \in Threads /\ thd \in Awaiting
    BY DEF AInv, PInv, PlaceInv, Inner, Awaiting
  <2>2. fifo + Room(thd) <= MaxAhead[kind] + 2
    BY DEF FifoInv
  <2> DEFINE x == want[thd]
  <2>3. x \in Vals /\ x \in Nat /\ x < Words
    BY <1>2, <1>3, <2>1, ValuesAre DEF Vals
  <2>4. Ahead(v, x) <= Window \/ Ahead(x, v) <= MaxAhead[kind]
    BY <2>1 DEF AInv, PInv, WantInv
  <2>5. /\ Ahead(v, x) = IF v >= x THEN v - x ELSE v - x + Words
        /\ Ahead(x, v) = IF x >= v THEN x - v ELSE x - v + Words
        /\ Ahead(x, w) = IF x >= w THEN x - w ELSE x - w + Words
    BY <1>3, <1>4, <2>3, AheadIs
  <2>6. /\ Room(thd) = (IF Ahead(x, v) <= MaxAhead[kind] THEN Ahead(x, v) + 1 ELSE 0)
        /\ Room(thd)' = (IF Ahead(x, w) <= MaxAhead[kind] THEN Ahead(x, w) + 1 ELSE 0)
    BY <1>1 DEF Room
  <2> DEFINE r == Room(thd)
             n == Room(thd)'
  <2>7. w \in Nat /\ w < Words
    BY <1>3, <1>4 DEF Vals
  <2> HIDE DEF v, w, x, r, n
  <2>8. (r = 0 /\ n = 0) \/ (n \in Nat /\ n + 1 <= r /\ r \in Nat)
    BY <1>3, <1>4, <2>3, <2>4, <2>5, <2>6, <2>7 DEF r, n
  <2>9. fifo + r <= MaxAhead[kind] + 2
    BY <2>2 DEF r
  <2>10. fifo' + n <= MaxAhead[kind] + 2
    BY <1>3, <1>5, <1>6, <1>7, <2>8, <2>9
  <2> QED BY <2>10 DEF n
<1> QED BY <1>1, <1>4, <1>7, <1>8, <1>9, <1>10 DEF FifoInv

LEMMA HandlerFifo ==
    ASSUME AInv, FifoInv, Activate \/ Handler \/ Reactivate
    PROVE  FifoInv'
<1>1. SInv /\ mode # "cs" /\ fifo \in Nat
  BY FifoNumbers DEF AInv, Activate, Handler, TakeEvent, HandlerDone, Reactivate
<1>2. /\ UNCHANGED <<kind, plumb, chan, want>>
      /\ fifo' \in Nat /\ fifo' <= fifo
      /\ \/ mode' \in {"handler", "sched"}
         \/ mode' = "on" /\ fifo' = 0
  <2>1. CASE TakeEvent
    BY <1>1, <2>1 DEF TakeEvent, cpuVars
  <2>2. CASE Activate \/ HandlerDone \/ Reactivate
    BY <1>1, <2>2 DEF Activate, HandlerDone, Reactivate, kernelVars
  <2> QED BY <2>1, <2>2 DEF Handler
<1>3. ASSUME NEW t \in Threads PROVE pc'[t] # "ack"
  <2>1. pc[t] # "ack"
    BY <1>1 DEF AInv, PInv, PlaceInv, Inner
  <2>2. pc'[t] \in {"woken", pc[t]}
    BY DEF Activate, Handler, TakeEvent, HandlerDone, Reactivate, RunTimeouts, Notify
  <2> QED BY <2>1, <2>2
<1> QED BY <1>1, <1>2, <1>3, FifoLeft

LEMMA ThreadFifo ==
    ASSUME Undisturbed, AInv, FifoInv, NEW t \in Threads,
           \/ Resume(t) \/ Read(t) \/ MaskAll(t) \/ UnmaskAll(t) \/ AttachDone(t)
           \/ \E v : Conclude(t, v) /\ Query(t)
           \/ \E k \in Nat : Await(t, k)
    PROVE  FifoInv'
<1>1. SInv /\ fifo \in Nat
  BY FifoNumbers DEF AInv
<1>2. UNCHANGED <<kind, plumb, chan, fifo>>
  BY DEF Resume, Read, MaskAll, UnmaskAll, AttachDone, Query, Await, kernelVars
<1>3. \/ mode' \in {"handler", "sched"}
      \/ mode' = "on" /\ (fifo' = 0 \/ mode = "on")
  <2>1. Left \in {"handler", "on"} /\ (Left = "on" => fifo = 0)
    BY <1>1 DEF Left
  <2>2. CASE Resume(t)
    BY <1>2, <2>1, <2>2 DEF Resume, AInv, PInv, PlaceInv
  <2>3. CASE \E v : Conclude(t, v)
    BY <1>2, <2>1, <2>3, ConcludeIs
  <2>4. CASE Read(t) \/ \E k \in Nat : Await(t, k)
    BY <2>4 DEF Read, Await, Running, cpuVars
  <2>5. CASE MaskAll(t) \/ UnmaskAll(t) \/ AttachDone(t)
    BY <1>2, <2>1, <2>5 DEF MaskAll, UnmaskAll, AttachDone
  <2> QED BY <2>2, <2>3, <2>4, <2>5
<1>4. ASSUME NEW u \in Threads PROVE pc'[u] # "ack"
  <2>1. pc[u] = "ack" => mode = "cs" /\ thd = u
    BY DEF AInv, PInv, PlaceInv, Inner
  <2>2. CASE \E v : Conclude(t, v) /\ Query(t)
    BY <2>1, <2>2, ConcludeIs DEF Query, Inside
  <2>3. CASE Resume(t)
    BY <2>1, <2>3 DEF Resume, AInv, SInv, TypeOK, PInv, PlaceInv
  <2>4. CASE Read(t) \/ MaskAll(t)
    BY <2>1, <2>4 DEF Read, MaskAll, Running
  <2>5. CASE UnmaskAll(t)
    BY <2>1, <2>5 DEF UnmaskAll, Running, Notify
  <2>6. CASE AttachDone(t)
    BY <2>1, <2>6 DEF AttachDone, Inside
  <2>7. CASE \E k \in Nat : Await(t, k)
    BY <2>1, <2>7 DEF Await, Running, AInv, SInv, TypeOK
  <2> QED BY <2>2, <2>3, <2>4, <2>5, <2>6, <2>7
<1> SUFFICES ASSUME Open PROVE FifoInv'
  BY <1>2 DEF FifoInv, Open
<1>5. mode' = "on" => Clear'
  BY <1>2, <1>3 DEF FifoInv, Clear
<1>6. mode' # "cs"
  BY <1>3
<1> QED BY <1>1, <1>2, <1>4, <1>5, <1>6 DEF FifoInv

LEMMA EnterFifo ==
    ASSUME AInv, FifoInv, NEW t \in Threads, EnterCS(t) \/ Attach(t)
    PROVE  FifoInv'
<1>1. /\ UNCHANGED <<kind, plumb, chan, fifo, want>> /\ mode = "on" /\ mode' = "cs"
      /\ thd' = t
  BY DEF EnterCS, Attach, Running, kernelVars
<1>2. \A u \in Threads : pc'[u] # "ack"
  <2>1. \A u \in Threads : pc[u] # "ack"
    BY <1>1 DEF AInv, PInv, PlaceInv, Inner
  <2> QED BY <2>1 DEF EnterCS, Attach, AInv, SInv, TypeOK
<1> SUFFICES ASSUME Open PROVE FifoInv'
  BY <1>1 DEF FifoInv, Open
<1>3. Clear
  BY <1>1 DEF FifoInv
<1>4. fifo + Room(t) <= MaxAhead[kind] + 2
  <2>1. /\ fifo \in Nat /\ MaxAhead[kind] \in Nat /\ Room(t) \in Nat
        /\ Room(t) <= MaxAhead[kind] + 1
    BY FifoNumbers DEF AInv
  <2> QED BY <1>3, <2>1 DEF Clear
<1>5. Room(t)' = Room(t) /\ Clear'
  BY <1>1, <1>3 DEF Room, Clear
<1> QED BY <1>1, <1>2, <1>4, <1>5 DEF FifoInv

LEMMA QueryFifo ==
    ASSUME Undisturbed, AInv, FifoInv, NEW t \in Threads, Query(t)
    PROVE  FifoInv'
<1>1. CASE \E v : Conclude(t, v)
  BY <1>1, ThreadFifo
<1>2. CASE /\ hooked /\ ~Settled(t) /\ seen' = [seen EXCEPT ![t].v = chan.val]
           /\ mode' = mode /\ pc' = [pc EXCEPT ![t] = "ack"]
  <2>1. /\ UNCHANGED <<kind, plumb, chan, fifo, want, thd>> /\ mode = "cs" /\ thd = t
        /\ pc[t] = "query"
    BY DEF Query, Inside, kernelVars
  <2> SUFFICES ASSUME Open PROVE FifoInv'
    BY <2>1 DEF FifoInv, Open
  <2>2. pc'[t] = "ack" /\ seen'[t].v = chan.val
    BY <1>2 DEF AInv, SInv, TypeOK
  <2>3. \A u \in Threads \ {t} : pc'[u] # "ack"
    BY <1>2, <2>1 DEF AInv, SInv, TypeOK, PInv, PlaceInv, Inner
  <2>4. Ahead(want[t], chan.val) <= MaxAhead[kind]
    <3>1. EC_LE(chan.val, want[t]) /\ t \in Awaiting
      BY <1>2, <2>1 DEF Settled, EC_GT, Awaiting
    <3>2. /\ chan.val \in Vals /\ want[t] \in Vals /\ Window < Half
          /\ MaxAhead[kind] \in Nat /\ Window \in Nat /\ Half \in Nat
      <4>1. Window + MaxAhead[kind] < Half /\ MaxAhead[kind] \in Nat
        BY WordsAre, SomeKind DEF AInv
      <4> QED BY <4>1, ValuesAre, WordsAre DEF AInv
    <3>3. chan.val = want[t] \/ Ahead(chan.val, want[t]) >= Half
      BY <3>1, <3>2, CompareIs
    <3>4. \/ Ahead(chan.val, want[t]) <= Window
          \/ Ahead(want[t], chan.val) <= MaxAhead[kind]
      BY <3>1 DEF AInv, PInv, WantInv
    <3>5. Ahead(chan.val, want[t]) \in Nat
      BY <3>2, AheadIs
    <3>6. chan.val = want[t] => Ahead(want[t], chan.val) = 0
      BY <3>2, AheadOf
    <3> QED BY <3>2, <3>3, <3>4, <3>5, <3>6
  <2>5. fifo + Room(t) <= MaxAhead[kind] + 2
    BY <2>1 DEF FifoInv
  <2>6. Room(t)' = Room(t)
    BY <2>1 DEF Room
  <2>7. chan.val \in Nat
    BY FifoNumbers DEF AInv
  <2> QED BY <1>2, <2>1, <2>2, <2>3, <2>4, <2>5, <2>6, <2>7 DEF FifoInv
<1> QED BY <1>1, <1>2 DEF Query, Undisturbed

LEMMA AckFifo ==
    ASSUME AInv, FifoInv, NEW t \in Threads, Ack(t)
    PROVE  FifoInv'
<1>1. /\ UNCHANGED <<kind, plumb, fifo, want, thd>> /\ mode' = mode
      /\ mode = "cs" /\ thd = t /\ pc[t] = "ack" /\ pc' = [pc EXCEPT ![t] = "query"]
      /\ chan'.val = chan.val /\ chan'.ack = seen[t].v
  BY DEF Ack, Inside, cpuVars, AInv, SInv, TypeOK, Endpoint
<1> SUFFICES ASSUME Open PROVE FifoInv'
  BY <1>1 DEF FifoInv, Open
<1>2. pc'[t] = "query" /\ \A u \in Threads \ {t} : pc'[u] # "ack"
  BY <1>1 DEF AInv, SInv, TypeOK, PInv, PlaceInv, Inner
<1>3. seen[t].v <= chan.val /\ Ahead(want[t], seen[t].v) <= MaxAhead[kind]
  BY <1>1 DEF FifoInv
<1>4. fifo + Room(t) <= MaxAhead[kind] + 2 /\ Room(t)' = Room(t)
  BY <1>1 DEF FifoInv, Room
<1>5. seen[t].v = chan.val => fifo <= MaxAhead[kind] + 1
  <2> SUFFICES ASSUME seen[t].v = chan.val PROVE fifo <= MaxAhead[kind] + 1
    OBVIOUS
  <2>1. Room(t) = Ahead(want[t], chan.val) + 1
    BY <1>3 DEF Room
  <2>2. fifo \in Nat /\ MaxAhead[kind] \in Nat /\ Ahead(want[t], chan.val) \in Nat
    BY FifoNumbers, ValuesAre, AheadIs DEF AInv
  <2> QED BY <1>4, <2>1, <2>2
<1> QED BY <1>1, <1>2, <1>3, <1>4, <1>5 DEF FifoInv

LEMMA NextFifoInv == Undisturbed /\ Top < Words => (AInv /\ FifoInv /\ [Next]_vars => FifoInv')
<1> SUFFICES ASSUME Undisturbed, Top < Words, AInv, FifoInv, [Next]_vars PROVE FifoInv'
  OBVIOUS
<1>1. CASE UNCHANGED vars
  BY <1>1 DEF FifoInv, Open, Clear, Room, vars, kernelVars, cpuVars
<1>2. CASE \E k \in 1 .. MaxStep : Send(k)
  BY <1>2, SendFifo
<1>3. CASE Plumber \/ \E k \in 1 .. MaxStep : Advance(k)
  <2>1. ~Open'
    BY <1>3 DEF Plumber, ClearPeer, MarkDead, Kick, CloseTX, Plumb, Open, Advance, kernelVars
  <2> QED BY <2>1 DEF FifoInv
<1>4. CASE Activate \/ Handler \/ Reactivate
  BY <1>4, HandlerFifo
<1>5. ASSUME NEW t \in Threads, Resume(t) \/ Critical(t) \/ Calls(t) \/ Expire(t)
      PROVE  FifoInv'
  <2>1. ~Expire(t) /\ ~Mask(t) /\ ~Unmask(t) /\ ~UnmaskDone(t)
    BY DEF Undisturbed, Expire, Mask, Unmask, UnmaskDone, AInv, PInv, PlaceInv
  <2>2. CASE Critical(t)
    BY <2>2, QueryFifo, AckFifo, ThreadFifo DEF Critical
  <2>3. CASE Calls(t)
    BY <2>1, <2>3, EnterFifo, ThreadFifo, SomeKind, WordsAre DEF Calls, AInv
  <2> QED BY <1>5, <2>1, <2>2, <2>3, ThreadFifo
<1> QED BY <1>1, <1>2, <1>3, <1>4, <1>5 DEF Next

LEMMA AInvHolds == ASSUME Undisturbed PROVE Spec => []AInv
<1>1. Init => AInv
  BY InitSInv, InitCInv, InitPInv DEF AInv
<1>2. AInv /\ [Next]_vars => AInv'
  BY NextPInv
<1> QED BY <1>1, <1>2, PTL DEF Spec

\* A count that does not wrap around, and is used undisturbed, has its
\* endpoint in the event FIFO at most two times more than a thread waits
\* ahead of it.
THEOREM FifoIsBounded == ASSUME Undisturbed, Top < Words PROVE Spec => []FifoBound
<1>1. Init => FifoInv
  BY InitFifoInv
<1>2. AInv /\ FifoInv /\ [Next]_vars => FifoInv'
  BY NextFifoInv
<1>3. AInv /\ FifoInv => FifoBound
  <2> SUFFICES ASSUME AInv, FifoInv, plumb = "idle" PROVE fifo <= MaxAhead[kind] + 2
    BY DEF FifoBound
  <2>1. fifo \in Nat /\ MaxAhead[kind] \in Nat
    BY FifoNumbers DEF AInv
  <2>2. kind = "local" => fifo = 0
    BY DEF AInv, CInv, KindInv
  <2> QED BY <2>1, <2>2, SomeKind DEF FifoInv, Open, AInv
<1> QED BY <1>1, <1>2, <1>3, AInvHolds, PTL DEF Spec

-----------------------------------------------------------------------------
(* Events.                                                                 *)

\* A thread that waits on a channel waits for the next value.
NextAwaited == "channel" \in Kinds => MaxAhead["channel"] = 1

\* t waits for an event that will be listed when it comes.
Unlisted(t) == want[t] = Plus(chan.val, 1) /\ chan.val = chan.ack

\* The event t waits for has come.
Reached(t) == Ahead(chan.val, want[t]) <= Window

EventInv ==
    /\ kind = "channel" /\ ~hooked => \A t \in Awaiting : want[t] = 1
    /\ Open =>
          /\ \A t, u \in Blocked : want[t] = want[u]
          /\ ~hooked => chan.ack = 0
          /\ \A t \in Threads :
                 pc[t] = "attach" /\ seen[t].v = 0 => chan.val = 0 \/ fifo > 0
          /\ hooked => \A t \in Blocked : Unlisted(t) \/ (Reached(t) /\ fifo > 0)
          /\ \A t \in Threads : pc[t] = "ack" => \A u \in Blocked : Reached(u)

LEMMA InitEventInv == Init => EventInv
<1> SUFFICES ASSUME Init PROVE EventInv
  OBVIOUS
<1>1. \A t \in Threads : pc[t] = "run"
  BY DEF Init
<1> QED BY <1>1 DEF Init, EventInv, Awaiting, Blocked

LEMMA ReachedIs ==
    ASSUME NEW v \in Vals, NEW x \in Vals, NEW k \in Kinds, Ahead(v, x) <= Window
    PROVE  EC_LE(x, v)
<1>1. /\ Words \in Nat /\ Half \in Nat /\ Half + Half = Words
      /\ Window \in Nat /\ Window < Half
  <2>1. Window + MaxAhead[k] < Half /\ MaxAhead[k] \in Nat
    BY WordsAre
  <2> QED BY <2>1, WordsAre
<1>2. Ahead(v, x) \in Nat /\ (x # v => Ahead(x, v) = Words - Ahead(v, x))
  BY AheadOf
<1>3. x = v \/ Ahead(x, v) >= Half
  BY <1>1, <1>2
<1> QED BY <1>3, CompareIs

LEMMA NextIs ==
    ASSUME NEW v \in Vals, NEW k \in Kinds
    PROVE  /\ Plus(v, 1) \in Vals /\ Ahead(Plus(v, 1), v) = 1
           /\ EC_GT(Plus(v, 1), v) /\ ~EC_LE(Plus(v, 1), v)
<1>1. /\ Words \in Nat /\ Half \in Nat /\ Half + Half = Words /\ Half > 1
  <2>1. Window + MaxAhead[k] < Half /\ MaxAhead[k] \in Nat \ {0}
    BY WordsAre
  <2> QED BY <2>1, WordsAre
<1>2. Ahead(v, v) = 0
  BY AheadOf
<1>3. Plus(v, 1) \in Vals /\ Ahead(Plus(v, 1), v) = 1
  <2>1. 1 \in Nat /\ Ahead(v, v) + 1 < Words /\ Ahead(v, v) + 1 = 1
    BY <1>1, <1>2
  <2> QED BY <2>1, AheadPlus
<1>4. EC_GT(Plus(v, 1), v)
  BY <1>1, <1>3, CompareIs
<1> QED BY <1>3, <1>4 DEF EC_GT

\* If one sleeper has been reached, and all wait for the same value, all are
\* released.
LEMMA AllReleased ==
    ASSUME SInv, NEW c, \A t \in Blocked : EC_LE(want[t], c)
    PROVE  Released(c) = Blocked
<1>1. Waiters = Blocked /\ Released(c) \subseteq Blocked
  BY SleepersAre
<1>2. \A i \in DOMAIN waitq : EC_LE(want[waitq[i]], c)
  BY <1>1 DEF Waiters
<1>3. waitq \in Seq(Threads) /\ Len(waitq) \in Nat /\ DOMAIN waitq = 1 .. Len(waitq)
  BY DEF SInv, TypeOK
<1>4. \A k \in DOMAIN waitq : \A j \in 1 .. k : j \in DOMAIN waitq
  BY <1>3
<1>5. \A k \in DOMAIN waitq : \A j \in 1 .. k : EC_LE(want[waitq[j]], c)
  BY <1>2, <1>4
<1> QED BY <1>1, <1>5 DEF Released, Waiters

\* A step that brings nobody to wait, to acknowledge or to attach.
LEMMA EventLeft ==
    ASSUME EventInv, UNCHANGED <<kind, plumb, chan, fifo, want, hooked>>,
           \A t \in Threads :
               /\ t \in Awaiting' => t \in Awaiting
               /\ pc'[t] = "blocked" => pc[t] = "blocked"
               /\ pc'[t] = "ack" => pc[t] = "ack"
               /\ pc'[t] = "attach" => pc[t] = "attach" /\ seen'[t] = seen[t]
    PROVE  EventInv'
<1>1. \A t \in Blocked' : t \in Blocked
  BY DEF Blocked
<1>2. kind = "channel" /\ ~hooked => \A t \in Awaiting' : want'[t] = 1
  BY DEF EventInv, Awaiting
<1>3. Open' => Open
  BY DEF Open
<1>4. \A t \in Threads : /\ Unlisted(t) => Unlisted(t)'
                         /\ Reached(t) => Reached(t)'
  BY DEF Unlisted, Reached
<1>5. Blocked \subseteq Threads
  BY DEF Blocked
<1> SUFFICES ASSUME Open, Open' PROVE EventInv'
  BY <1>2, <1>3 DEF EventInv
<1>6. \A t \in Threads : pc'[t] = "attach" /\ seen'[t].v = 0 => chan'.val = 0 \/ fifo' > 0
  BY DEF EventInv
<1>7. hooked => \A t \in Blocked' : Unlisted(t)' \/ (Reached(t)' /\ fifo' > 0)
  BY <1>1, <1>4, <1>5 DEF EventInv
<1>8. \A t \in Threads : pc'[t] = "ack" => \A u \in Blocked' : Reached(u)'
  BY <1>1, <1>4, <1>5 DEF EventInv
<1>9. \A t, u \in Blocked' : want'[t] = want'[u]
  BY <1>1 DEF EventInv
<1>10. ~hooked' => chan'.ack = 0
  BY DEF EventInv
<1> QED BY <1>2, <1>6, <1>7, <1>8, <1>9, <1>10 DEF EventInv

LEMMA SendEvents ==
    ASSUME NextAwaited, AInv, EventInv, NEW k \in 1 .. MaxStep, Send(k)
    PROVE  EventInv'
<1> DEFINE v == chan.val
           w == chan'.val
<1>1. /\ sent' = Plus(sent, k) /\ fifo' = Listed /\ chan' = [chan EXCEPT !.val = sent']
      /\ UNCHANGED <<kind, plumb, hooked, pc, want, seen>> /\ InWindow(Plus(sent, k))
      /\ kind = "channel"
  BY DEF Send
<1> SUFFICES ASSUME Open PROVE EventInv'
  BY <1>1 DEF EventInv, Open, Awaiting
<1>2. SInv /\ sent = v /\ v \in Vals /\ kind \in Kinds /\ chan.ack \in Vals
  BY SomeKind, ValuesAre DEF AInv, CInv, CountInv
<1>3. w = Plus(v, k) /\ chan'.ack = chan.ack
  BY <1>1, <1>2 DEF SInv, TypeOK, Endpoint
<1>4. fifo \in Nat /\ fifo' = (IF v = chan.ack THEN fifo + 1 ELSE fifo)
  BY <1>1, <1>2 DEF Listed, SInv, TypeOK
<1>5. Blocked' = Blocked /\ Blocked \subseteq Awaiting /\ Blocked \subseteq Threads
      /\ Awaiting' = Awaiting
  BY <1>1 DEF Blocked, Awaiting
<1>6. ASSUME NEW u \in Blocked
      PROVE  /\ Reached(u) => Reached(u)'
             /\ Unlisted(u) => Reached(u)' /\ fifo' > 0
  <2> DEFINE x == want[u]
  <2>1. x \in Vals /\ want'[u] = x
    BY <1>1, <1>2, <1>5, ValuesAre
  <2>2. Ahead(w, x) <= Window \/ Ahead(x, w) <= MaxAhead[kind]
    BY <1>1, <1>2, <1>3, <1>5 DEF InWindow, Compared, Ahead, Awaiting
  <2>3. Reached(u) => Reached(u)'
    <3> SUFFICES ASSUME Ahead(v, x) <= Window PROVE Ahead(w, x) <= Window
      BY <1>1 DEF Reached
    <3> HIDE DEF v, w, x
    <3> QED BY <1>2, <1>3, <2>1, <2>2, StepAhead
  <2>4. ASSUME Unlisted(u) PROVE Reached(u)' /\ fifo' > 0
    <3>1. x = Plus(v, 1) /\ v = chan.ack
      BY <2>4 DEF Unlisted
    <3> SUFFICES Ahead(w, x) <= Window
      BY <1>1, <1>4, <3>1 DEF Reached
    <3> HIDE DEF v, w, x
    <3>2. MaxAhead[kind] = 1
      BY <1>1, <1>2 DEF NextAwaited
    <3>3. /\ Words \in Nat /\ Window \in Nat /\ MaxStep \in Nat
          /\ k \in Nat /\ k > 0 /\ k <= MaxStep /\ MaxStep + Window + 1 < Words
      BY <1>2, <3>2, WordsAre
    <3>4. /\ v \in Nat /\ v < Words /\ k \in Vals /\ 1 \in Vals
      BY <1>2, <3>3 DEF Vals
    <3>5. /\ w = (IF v + k < Words THEN v + k ELSE v + k - Words) /\ w \in Vals
          /\ x = (IF v + 1 < Words THEN v + 1 ELSE v + 1 - Words)
      BY <1>2, <1>3, <3>1, <3>4, PlusIs
    <3>6. /\ Ahead(w, x) = IF w >= x THEN w - x ELSE w - x + Words
          /\ Ahead(x, w) = IF x >= w THEN x - w ELSE x - w + Words
      BY <2>1, <3>5, AheadIs
    <3> QED BY <2>2, <3>2, <3>3, <3>4, <3>5, <3>6
  <2> QED BY <2>3, <2>4
<1>7. \A t \in Threads : pc'[t] = "attach" /\ seen'[t].v = 0 => w = 0 \/ fifo' > 0
  <2> SUFFICES ASSUME NEW t \in Threads, pc[t] = "attach", seen[t].v = 0 PROVE fifo' > 0
    BY <1>1
  <2>1. chan.ack = 0 /\ (v = 0 \/ fifo > 0)
    BY DEF EventInv, AInv, CInv, KindInv
  <2> QED BY <1>4, <2>1
<1>8. hooked => \A t \in Blocked : Unlisted(t)' \/ (Reached(t)' /\ fifo' > 0)
  <2> SUFFICES ASSUME hooked, NEW t \in Blocked PROVE Reached(t)' /\ fifo' > 0
    OBVIOUS
  <2>1. Unlisted(t) \/ (Reached(t) /\ fifo > 0)
    BY DEF EventInv
  <2>2. fifo > 0 => fifo' > 0
    BY <1>4
  <2> QED BY <1>6, <2>1, <2>2
<1>9. \A t \in Threads : pc'[t] = "ack" => \A u \in Blocked' : Reached(u)'
  BY <1>1, <1>5, <1>6 DEF EventInv
<1>10. /\ kind' = "channel" /\ ~hooked' => \A t \in Awaiting' : want'[t] = 1
       /\ \A t, u \in Blocked' : want'[t] = want'[u]
       /\ ~hooked' => chan'.ack = 0
  BY <1>1, <1>3, <1>5 DEF EventInv
<1> QED BY <1>1, <1>5, <1>7, <1>8, <1>9, <1>10 DEF EventInv

LEMMA QuietEvents ==
    ASSUME Undisturbed, AInv, EventInv, NEW t \in Threads,
           \/ Activate \/ HandlerDone \/ Reactivate
           \/ Resume(t) \/ Read(t) \/ MaskAll(t) \/ UnmaskAll(t) \/ EnterCS(t)
    PROVE  EventInv'
<1>1. UNCHANGED <<kind, plumb, chan, fifo, want, hooked, seen>>
  BY DEF Activate, HandlerDone, Reactivate, Resume, Read, MaskAll, UnmaskAll, EnterCS,
         kernelVars
<1>2. pc \in [Threads -> PCs] /\ \A u \in Threads : pc[u] # "yielded"
  BY DEF AInv, SInv, TypeOK, PInv, PlaceInv
<1>3. ASSUME NEW u \in Threads
      PROVE  \/ pc'[u] = pc[u] \/ pc'[u] = "run"
             \/ pc'[u] = "query" /\ pc[u] = "enter"
  <2>1. CASE Activate \/ Read(t) \/ MaskAll(t)
    BY <2>1 DEF Activate, Read, MaskAll
  <2>2. CASE HandlerDone \/ Reactivate
    <3>1. Expired = {}
      BY NobodyLate
    <3> QED BY <1>2, <2>2, <3>1 DEF HandlerDone, Reactivate, RunTimeouts
  <2>3. CASE Resume(t)
    BY <1>2, <2>3 DEF Resume
  <2>4. CASE UnmaskAll(t)
    BY <2>4 DEF UnmaskAll, AInv, PInv, PlaceInv
  <2>5. CASE EnterCS(t)
    BY <1>2, <2>5 DEF EnterCS
  <2> QED BY <2>1, <2>2, <2>3, <2>4, <2>5
<1>4. \A u \in Threads :
         /\ u \in Awaiting' => u \in Awaiting
         /\ pc'[u] = "blocked" => pc[u] = "blocked"
         /\ pc'[u] = "ack" => pc[u] = "ack"
         /\ pc'[u] = "attach" => pc[u] = "attach" /\ seen'[u] = seen[u]
  BY <1>1, <1>3 DEF Awaiting
<1> QED BY <1>1, <1>4, EventLeft

LEMMA AwaitEvents ==
    ASSUME NextAwaited, AInv, EventInv, NEW t \in Threads,
           NEW k \in 1 .. MaxAhead[kind], Await(t, k)
    PROVE  EventInv'
<1>1. /\ UNCHANGED <<kind, plumb, chan, fifo, hooked, seen>>
      /\ want' = [want EXCEPT ![t] = Plus(cnt, k)] /\ pc' = [pc EXCEPT ![t] = "enter"]
      /\ pc[t] = "run"
  BY DEF Await, kernelVars
<1>2. /\ pc'[t] = "enter" /\ want'[t] = Plus(cnt, k)
      /\ \A u \in Threads \ {t} : pc'[u] = pc[u] /\ want'[u] = want[u]
  BY <1>1 DEF AInv, SInv, TypeOK
<1>3. ASSUME kind = "channel", ~hooked PROVE \A u \in Awaiting' : want'[u] = 1
  <2>1. k = 1 /\ cnt = 0
    BY <1>3, SomeKind DEF NextAwaited, AInv, CInv, KindInv
  <2>2. Plus(0, 1) = 1
    <3>1. 0 \in Vals /\ 1 \in Vals /\ 1 < Words
      <4>1. Window + MaxAhead[kind] < Half /\ MaxAhead[kind] \in Nat \ {0}
        BY WordsAre, SomeKind DEF AInv
      <4> QED BY <4>1, WordsAre DEF Vals
    <3> QED BY <3>1, PlusIs
  <2> QED BY <1>2, <1>3, <2>1, <2>2 DEF EventInv, Awaiting
<1> SUFFICES ASSUME Open PROVE EventInv'
  BY <1>1, <1>3 DEF EventInv, Open
<1>4. Blocked' = Blocked /\ t \notin Blocked /\ Blocked \subseteq Threads
  BY <1>1, <1>2 DEF Blocked
<1>5. \A u \in Blocked : /\ want'[u] = want[u] /\ Unlisted(u)' = Unlisted(u)
                         /\ Reached(u)' = Reached(u)
  BY <1>1, <1>2, <1>4 DEF Unlisted, Reached
<1>6. /\ \A u, x \in Blocked' : want'[u] = want'[x]
      /\ hooked => \A u \in Blocked' : Unlisted(u)' \/ (Reached(u)' /\ fifo' > 0)
  BY <1>1, <1>4, <1>5 DEF EventInv
<1>7. \A u \in Threads :
         pc'[u] \in {"ack", "attach"} => pc[u] = pc'[u] /\ seen'[u] = seen[u]
  BY <1>1, <1>2
<1>8. \A u \in Threads : pc'[u] = "ack" => \A x \in Blocked' : Reached(x)'
  BY <1>4, <1>5, <1>7 DEF EventInv
<1> QED BY <1>1, <1>3, <1>6, <1>7, <1>8 DEF EventInv

\* An event taken from the FIFO releases all those it has reached.
LEMMA TakeEventEvents ==
    ASSUME AInv, EventInv, TakeEvent
    PROVE  EventInv'
<1>1. /\ UNCHANGED <<kind, plumb, chan, want, hooked, seen>> /\ mode = "handler"
      /\ SInv /\ \A t \in Threads : pc[t] \notin Inner
  BY DEF TakeEvent, AInv, PInv, PlaceInv
<1>2. ~hooked \/ Notify(chan.val, chan.state)
  BY DEF TakeEvent, AInv, PInv, PlaceInv
<1>3. \A t \in Threads : pc'[t] \in {"woken", pc[t]}
  BY DEF TakeEvent, Notify
<1>4. \A t \in Threads : t \in Awaiting' => t \in Awaiting
  BY <1>3 DEF Awaiting
<1>5. Blocked' \subseteq Blocked /\ Blocked \subseteq Threads
  BY <1>3 DEF Blocked
<1>6. \A t \in Threads : pc'[t] \notin {"ack", "attach"}
  BY <1>1, <1>3 DEF Inner
<1>7. kind = "channel" /\ ~hooked => \A t \in Awaiting' : want'[t] = 1
  BY <1>1, <1>4 DEF EventInv, Awaiting
<1> SUFFICES ASSUME Open PROVE EventInv'
  BY <1>1, <1>7 DEF EventInv, Open
<1>8. ASSUME hooked, NEW t \in Blocked' PROVE Unlisted(t)'
  <2>1. t \in Blocked /\ t \in Threads /\ (Unlisted(t) \/ Reached(t))
    BY <1>5, <1>8 DEF EventInv
  <2>2. Released(chan.val) # Blocked
    <3>1. t \notin Notified(chan.val, chan.state)
      BY <1>2, <1>8, <2>1 DEF Notify, Blocked
    <3> QED BY <1>1, <2>1, <3>1, SleepersAre DEF Notified
  <2>3. \E u \in Blocked : ~EC_LE(want[u], chan.val)
    BY <1>1, <2>2, AllReleased
  <2>4. ~EC_LE(want[t], chan.val)
    BY <2>1, <2>3 DEF EventInv
  <2>5. ~Reached(t)
    BY <1>1, <2>1, <2>4, ReachedIs, ValuesAre, SomeKind DEF Reached
  <2> QED BY <1>1, <2>1, <2>5 DEF Unlisted
<1>9. /\ \A t, u \in Blocked' : want'[t] = want'[u]
      /\ ~hooked' => chan'.ack = 0
  BY <1>1, <1>5 DEF EventInv
<1> QED BY <1>1, <1>6, <1>7, <1>8, <1>9 DEF EventInv

LEMMA ConcludeEvents ==
    ASSUME Undisturbed, NextAwaited, AInv, EventInv, NEW t \in Threads, Query(t),
           NEW v, Conclude(t, v), v = (IF hooked THEN chan.val ELSE cnt),
           hooked => Settled(t)
    PROVE  EventInv'
<1>1. /\ UNCHANGED <<kind, plumb, chan, fifo, want, hooked>> /\ SInv
      /\ mode = "cs" /\ thd = t /\ pc[t] = "query" /\ t \in Awaiting
  BY DEF Query, Inside, kernelVars, AInv, Awaiting
<1>2. /\ Lates(t, v) = {} /\ Goes(v) \subseteq Blocked /\ Stays(t, v) \subseteq {t}
      /\ (Stays(t, v) # {} => EC_GT(want[t], v))
  BY <1>1, SleepersAre DEF Lates, Goes, Stays, Undisturbed
<1>3. ASSUME NEW u \in Threads
      PROVE  /\ pc'[u] = "blocked" <=>
                    u \in Stays(t, v) \/ (pc[u] = "blocked" /\ u \notin Goes(v))
             /\ pc'[u] \in {"blocked", "run", "woken", pc[u]}
             /\ u # t => pc'[u] \in {"woken", pc[u]}
  BY <1>1, <1>2, ConcludeIs
<1>4. Blocked' = (Blocked \ Goes(v)) \cup Stays(t, v) /\ Blocked \subseteq Threads
  BY <1>2, <1>3 DEF Blocked
<1>5. \A u \in Threads : pc'[u] \notin {"ack", "attach"}
  BY <1>1, <1>3 DEF AInv, PInv, PlaceInv, Inner
<1>6. \A u \in Threads : u \in Awaiting' => u \in Awaiting
  BY <1>1, <1>3 DEF Awaiting
<1>7. kind = "channel" /\ ~hooked => \A u \in Awaiting' : want'[u] = 1
  BY <1>1, <1>6 DEF EventInv, Awaiting
<1> SUFFICES ASSUME Open PROVE EventInv'
  BY <1>1, <1>7 DEF EventInv, Open
<1>8. CASE hooked
  <2>1. v = chan.val
    BY <1>8
  <2>2. ASSUME t \in Stays(t, v) PROVE Unlisted(t)
    <3>1. EC_GT(want[t], chan.val) /\ ~EC_LE(want[t], chan.val)
      BY <1>2, <2>1, <2>2 DEF EC_GT
    <3>2. chan.val \in Vals /\ want[t] \in Vals /\ kind \in Kinds
      BY <1>1, ValuesAre, SomeKind
    <3>3. Ahead(want[t], chan.val) <= 1
      <4>1. Ahead(chan.val, want[t]) <= Window \/ Ahead(want[t], chan.val) <= MaxAhead[kind]
        BY <1>1 DEF AInv, PInv, WantInv
      <4>2. MaxAhead[kind] = 1
        BY <3>2 DEF NextAwaited, Open
      <4> QED BY <3>1, <3>2, <4>1, <4>2, ReachedIs
    <3>4. want[t] = Plus(chan.val, 1)
      <4>1. /\ Words \in Nat \ {0} /\ Half \in Nat /\ Half + Half = Words
            /\ Ahead(want[t], chan.val) \in 1 .. Half - 1
        BY <3>1, <3>2, CompareIs, WordsAre
      <4>2. Ahead(want[t], chan.val) = 1 /\ 1 < Words
        BY <3>3, <4>1
      <4>3. /\ chan.val \in Nat /\ want[t] \in Nat /\ chan.val < Words /\ want[t] < Words
            /\ 1 \in Vals
        BY <3>2, <4>1, <4>2 DEF Vals
      <4>4. /\ Plus(chan.val, 1) = IF chan.val + 1 < Words THEN chan.val + 1
                                   ELSE chan.val + 1 - Words
            /\ Ahead(want[t], chan.val) = IF want[t] >= chan.val THEN want[t] - chan.val
                                          ELSE want[t] - chan.val + Words
        BY <3>2, <4>3, PlusIs, AheadIs
      <4> QED BY <4>1, <4>2, <4>3, <4>4
    <3>5. chan.val = chan.ack
      <4>1. ~Late(t)
        BY DEF Undisturbed, Late
      <4>2. ~EC_GT(chan.val, want[t])
        <5>1. Ahead(chan.val, want[t]) = 0 \/ Ahead(chan.val, want[t]) >= Half
          <6>1. /\ Words \in Nat /\ Half \in Nat /\ Half + Half = Words
                /\ Ahead(want[t], chan.val) \in 1 .. Half - 1
            BY <3>1, <3>2, CompareIs, WordsAre
          <6>2. want[t] # chan.val /\ Ahead(chan.val, want[t]) = Words - Ahead(want[t], chan.val)
            BY <3>2, <6>1, AheadOf
          <6> QED BY <6>1, <6>2
        <5>2. Half \in Nat
          BY WordsAre
        <5> QED BY <3>2, <5>1, <5>2, CompareIs
      <4> QED BY <1>8, <4>1, <4>2 DEF Settled
    <3> QED BY <3>4, <3>5 DEF Unlisted
  <2>3. ASSUME NEW u \in Blocked, u \notin Goes(v) PROVE Unlisted(u)
    <3>1. Released(chan.val) # Blocked
      BY <1>8, <2>1, <2>3 DEF Goes
    <3>2. \E x \in Blocked : ~EC_LE(want[x], chan.val)
      BY <1>1, <3>1, AllReleased
    <3>3. ~EC_LE(want[u], chan.val)
      BY <3>2 DEF EventInv
    <3>4. ~Reached(u)
      BY <1>1, <1>4, <3>3, ReachedIs, ValuesAre, SomeKind DEF Reached
    <3> QED BY <1>8, <3>4 DEF EventInv
  <2>4. \A u \in Blocked' : Unlisted(u)
    BY <1>2, <1>4, <2>2, <2>3
  <2>5. \A u \in Blocked' : Unlisted(u)' /\ want'[u] = Plus(chan.val, 1)
    BY <1>1, <2>4 DEF Unlisted
  <2> QED BY <1>1, <1>5, <1>7, <1>8, <2>5 DEF EventInv
<1>9. CASE ~hooked
  <2>1. \A u \in Blocked' : want[u] = 1
    <3>1. \A u \in Blocked' : u \in Awaiting
      BY <1>1, <1>2, <1>4 DEF Blocked, Awaiting
    <3> QED BY <1>9, <3>1 DEF EventInv, Open
  <2>2. \A t1, u1 \in Blocked' : want'[t1] = want'[u1]
    BY <1>1, <2>1
  <2> QED BY <1>1, <1>5, <1>7, <1>9, <2>2 DEF EventInv
<1> QED BY <1>8, <1>9

LEMMA QueryEvents ==
    ASSUME Undisturbed, NextAwaited, AInv, EventInv, NEW t \in Threads, Query(t)
    PROVE  EventInv'
<1>1. CASE /\ Conclude(t, IF hooked THEN chan.val ELSE cnt)
           /\ hooked => Settled(t)
  BY <1>1, ConcludeEvents
<1>2. CASE /\ hooked /\ ~Settled(t) /\ seen' = [seen EXCEPT ![t].v = chan.val]
           /\ pc' = [pc EXCEPT ![t] = "ack"]
  <2>1. UNCHANGED <<kind, plumb, chan, fifo, want, hooked>> /\ pc[t] = "query"
    BY DEF Query, Inside, kernelVars
  <2>2. pc'[t] = "ack" /\ \A u \in Threads \ {t} : pc'[u] = pc[u] /\ seen'[u] = seen[u]
    BY <1>2 DEF AInv, SInv, TypeOK
  <2>3. Blocked' = Blocked /\ Blocked \subseteq Threads
    BY <2>1, <2>2 DEF Blocked
  <2>4. \A u \in Threads : Unlisted(u)' = Unlisted(u) /\ Reached(u)' = Reached(u)
    BY <2>1 DEF Unlisted, Reached
  <2> SUFFICES ASSUME Open PROVE EventInv'
    BY <1>2, <2>1 DEF EventInv, Open
  <2>5. \A u \in Blocked : Reached(u) /\ fifo > 0
    <3>1. chan.val # chan.ack
      BY <1>2 DEF Settled
    <3> QED BY <1>2, <3>1 DEF EventInv, Unlisted
  <2> QED BY <1>2, <2>1, <2>2, <2>3, <2>4, <2>5 DEF EventInv
<1> QED BY <1>1, <1>2 DEF Query, Undisturbed

LEMMA AckEvents ==
    ASSUME AInv, EventInv, NEW t \in Threads, Ack(t)
    PROVE  EventInv'
<1>1. /\ UNCHANGED <<kind, plumb, fifo, want, hooked, seen>> /\ hooked
      /\ pc[t] = "ack" /\ pc' = [pc EXCEPT ![t] = "query"] /\ chan'.val = chan.val
  BY DEF Ack, Inside, AInv, SInv, TypeOK, Endpoint, PInv, PlaceInv
<1>2. /\ pc'[t] = "query"
      /\ \A u \in Threads \ {t} : pc'[u] = pc[u] /\ pc[u] \notin Inner
  BY <1>1 DEF AInv, SInv, TypeOK, PInv, PlaceInv, Inner
<1>3. Blocked' = Blocked /\ Blocked \subseteq Threads
  BY <1>1, <1>2 DEF Blocked
<1> SUFFICES ASSUME Open PROVE EventInv'
  BY <1>1 DEF EventInv, Open
<1>4. ASSUME NEW u \in Blocked PROVE Reached(u)' /\ fifo > 0
  <2>1. Reached(u) /\ (Unlisted(u) \/ fifo > 0)
    BY <1>1 DEF EventInv
  <2>2. chan.val \in Vals /\ kind \in Kinds /\ want[u] \in Vals
    BY <1>3, ValuesAre, SomeKind DEF AInv
  <2>3. EC_LE(want[u], chan.val)
    BY <2>1, <2>2, ReachedIs DEF Reached
  <2>4. ~Unlisted(u)
    BY <2>2, <2>3, NextIs DEF Unlisted
  <2> QED BY <1>1, <2>1, <2>4 DEF Reached
<1>5. \A u \in Threads : pc'[u] \notin {"ack", "attach"}
  BY <1>2 DEF Inner
<1> QED BY <1>1, <1>3, <1>4, <1>5 DEF EventInv

LEMMA AttachEvents ==
    ASSUME AInv, EventInv, NEW t \in Threads, Attach(t)
    PROVE  EventInv'
<1>1. /\ UNCHANGED <<kind, plumb, chan, fifo, want, hooked>> /\ ~hooked
      /\ pc[t] = "run" /\ pc' = [pc EXCEPT ![t] = "attach"]
      /\ seen' = [seen EXCEPT ![t].v = chan.val]
  BY DEF Attach, kernelVars
<1>2. /\ pc'[t] = "attach" /\ seen'[t].v = chan.val
      /\ \A u \in Threads \ {t} : pc'[u] = pc[u] /\ seen'[u] = seen[u]
  BY <1>1 DEF AInv, SInv, TypeOK
<1>3. Blocked' = Blocked /\ Awaiting' = Awaiting
  BY <1>1, <1>2 DEF Blocked, Awaiting
<1>4. \A u \in Threads : pc'[u] # "ack"
  BY <1>1, <1>2 DEF AInv, PInv, PlaceInv
<1> SUFFICES ASSUME Open PROVE EventInv'
  BY <1>1, <1>3 DEF EventInv, Open
<1>5. \A u \in Threads : pc'[u] = "attach" /\ seen'[u].v = 0 => chan'.val = 0 \/ fifo' > 0
  BY <1>1, <1>2 DEF EventInv
<1> QED BY <1>1, <1>3, <1>4, <1>5 DEF EventInv

LEMMA AttachDoneEvents ==
    ASSUME NextAwaited, AInv, EventInv, NEW t \in Threads, AttachDone(t)
    PROVE  EventInv'
<1> DEFINE s == seen[t].v
           v == chan.val
<1>1. /\ UNCHANGED <<kind, plumb, chan, fifo, want, seen>> /\ hooked'
      /\ mode = "cs" /\ thd = t /\ pc[t] = "attach" /\ ~hooked /\ kind = "channel" /\ SInv
  BY DEF AttachDone, Inside, kernelVars, AInv, CInv, KindInv
<1>2. pc' = [u \in Threads |-> IF u = t THEN "run"
                               ELSE IF u \in Released(s) THEN "woken" ELSE pc[u]]
  BY DEF AttachDone
<1> SUFFICES ASSUME Open PROVE EventInv'
  BY <1>1 DEF EventInv, Open
<1>3. \A u \in Threads : pc'[u] \notin {"ack", "attach"}
  BY <1>1, <1>2 DEF AInv, PInv, PlaceInv, Inner
<1>4. /\ Blocked' = Blocked \ Released(s) /\ Blocked \subseteq Threads
      /\ Blocked \subseteq Awaiting
  BY <1>1, <1>2 DEF Blocked, Awaiting
<1>5. \A u \in Blocked : want[u] = 1
  BY <1>1, <1>4 DEF EventInv
<1>6. /\ v \in Vals /\ s \in Vals /\ kind \in Kinds /\ MaxAhead[kind] = 1
      /\ v \in Nat /\ s \in Nat /\ v < Words /\ s < Words
      /\ Words \in Nat /\ Half \in Nat /\ Half + Half = Words
      /\ Window \in Nat /\ Window + 1 < Half /\ 0 \in Vals /\ 1 \in Vals
  <2>1. v \in Vals /\ s \in Vals /\ kind \in Kinds /\ MaxAhead[kind] = 1
    BY <1>1, ValuesAre, SomeKind DEF NextAwaited
  <2> HIDE DEF v, s
  <2>2. /\ Words \in Nat /\ Half \in Nat /\ Half + Half = Words
        /\ Window \in Nat /\ Window + 1 < Half
    BY <2>1, WordsAre
  <2> QED BY <2>1, <2>2 DEF Vals
<1>7. v <= Window /\ Ahead(v, s) <= v
  <2>1. Ahead(v, cnt) <= Window /\ Ahead(v, s) <= Ahead(v, cnt) /\ cnt = 0
    BY <1>1 DEF AInv, CInv, CountInv, KindInv, Storing
  <2> HIDE DEF v, s
  <2>2. Ahead(v, 0) = v
    BY <1>6, AheadIs
  <2> QED BY <2>1, <2>2
<1>8. CASE s = 0
  <2>1. v = 0 \/ fifo > 0
    BY <1>1, <1>8 DEF EventInv
  <2>2. v = 0 => Plus(v, 1) = 1 /\ v = chan.ack
    <3>1. chan.ack = 0
      BY <1>1 DEF EventInv
    <3> HIDE DEF v, s
    <3> QED BY <1>6, <3>1, PlusIs
  <2>3. v # 0 => Ahead(v, 1) <= Window
    <3> HIDE DEF v, s
    <3>1. Ahead(v, 1) = IF v >= 1 THEN v - 1 ELSE v - 1 + Words
      BY <1>6, AheadIs
    <3> QED BY <1>6, <1>7, <3>1
  <2>4. \A u \in Blocked : Unlisted(u) \/ (Reached(u) /\ fifo > 0)
    BY <1>5, <2>1, <2>2, <2>3 DEF Unlisted, Reached
  <2>5. \A u \in Blocked' : Unlisted(u)' \/ (Reached(u)' /\ fifo' > 0)
    BY <1>1, <1>4, <2>4 DEF Unlisted, Reached
  <2>6. \A x, u \in Blocked' : want'[x] = want'[u]
    BY <1>1, <1>4, <1>5
  <2> QED BY <1>1, <1>3, <2>5, <2>6 DEF EventInv
<1>9. CASE s # 0
  <2>1. EC_LE(1, s)
    <3> HIDE DEF v, s
    <3>1. /\ Ahead(1, s) = IF 1 >= s THEN 1 - s ELSE 1 - s + Words
          /\ Ahead(v, s) = IF v >= s THEN v - s ELSE v - s + Words
      BY <1>6, AheadIs
    <3>2. 1 = s \/ Ahead(1, s) >= Half
      BY <1>6, <1>7, <1>9, <3>1
    <3> QED BY <1>6, <3>2, CompareIs
  <2>2. Released(s) = Blocked
    <3>1. \A u \in Blocked : EC_LE(want[u], s)
      BY <1>5, <2>1
    <3> HIDE DEF s
    <3> QED BY <1>1, <3>1, AllReleased
  <2>3. Blocked' = {}
    BY <1>4, <2>2
  <2> QED BY <1>1, <1>3, <2>3 DEF EventInv
<1> QED BY <1>8, <1>9

LEMMA NextEventInv ==
    Undisturbed /\ NextAwaited => (AInv /\ EventInv /\ [Next]_vars => EventInv')
<1> SUFFICES ASSUME Undisturbed, NextAwaited, AInv, EventInv, [Next]_vars PROVE EventInv'
  OBVIOUS
<1>1. CASE UNCHANGED vars
  BY <1>1, EventLeft DEF Awaiting, vars, kernelVars
<1>2. CASE \E k \in 1 .. MaxStep : Send(k)
  BY <1>2, SendEvents
<1>3. CASE Plumber
  <2>1. ~Open' /\ UNCHANGED <<kind, hooked, pc, want>>
    BY <1>3 DEF Plumber, ClearPeer, MarkDead, Kick, CloseTX, Plumb, Open
  <2> QED BY <2>1 DEF EventInv, Awaiting
<1>4. CASE \E k \in 1 .. MaxStep : Advance(k)
  <2>1. ~Open' /\ kind' = "local"
    BY <1>4, SomeKind DEF Advance, kernelVars, Open, AInv
  <2> QED BY <2>1 DEF EventInv
<1>5. CASE Activate \/ Handler \/ Reactivate
  <2>1. PICK t \in Threads : TRUE
    BY ThreadAssumption
  <2> QED BY <1>5, QuietEvents, TakeEventEvents DEF Handler
<1>6. ASSUME NEW t \in Threads, Resume(t) \/ Critical(t) \/ Calls(t) \/ Expire(t)
      PROVE  EventInv'
  <2>1. ~Expire(t) /\ ~Mask(t) /\ ~Unmask(t) /\ ~UnmaskDone(t)
    BY DEF Undisturbed, Expire, Mask, Unmask, UnmaskDone, AInv, PInv, PlaceInv
  <2>2. CASE Critical(t)
    BY <2>2, QueryEvents, AckEvents, AttachDoneEvents DEF Critical
  <2>3. CASE Calls(t)
    BY <2>1, <2>3, AwaitEvents, AttachEvents, QuietEvents DEF Calls
  <2> QED BY <1>6, <2>1, <2>2, <2>3, QuietEvents
<1> QED BY <1>1, <1>2, <1>3, <1>4, <1>5, <1>6 DEF Next

\* Whoever waits for the next value of a channel is about to be told when it
\* has come, however the words wrap around, if AwaitUntil and UnmaskEvent do
\* not use values they read before.
THEOREM NoEventIsLost == ASSUME Undisturbed, NextAwaited PROVE Spec => []NoLostEvent
<1>1. Init => EventInv
  BY InitEventInv
<1>2. AInv /\ EventInv /\ [Next]_vars => EventInv'
  BY NextEventInv
<1>3. AInv /\ EventInv => NoLostEvent
  <2> SUFFICES ASSUME AInv, EventInv, NEW t \in Waiters, hooked, plumb = "idle",
                      EC_LE(want[t], chan.val)
               PROVE  fifo > 0
    BY DEF NoLostEvent
  <2>1. SInv /\ t \in Blocked /\ Blocked \subseteq Threads
    BY SleepersAre DEF AInv
  <2>2. Open
    BY <2>1, SomeKind DEF Open, AInv, CInv, KindInv
  <2>3. Unlisted(t) \/ fifo > 0
    BY <2>1, <2>2 DEF EventInv
  <2>4. ~Unlisted(t)
    BY <2>1, NextIs, ValuesAre, SomeKind DEF Unlisted
  <2> QED BY <2>3, <2>4
<1> QED BY <1>1, <1>2, <1>3, AInvHolds, PTL DEF Spec

-----------------------------------------------------------------------------
(* The order of the wait queue.                                            *)

\* The values of a local count do not wrap around.
NoWrap == "local" \in Kinds => Top + MaxAhead["local"] < Words

Sorted(q) == \A i, j \in DOMAIN q : i < j => want[q[i]] <= want[q[j]]

InOrder == Sorted(waitq)

LocalInv ==
    kind = "local" =>
        /\ ~hooked /\ ~pending
        /\ \A t \in Threads : pc[t] \notin {"ack", "attach", "yielded", "unmask"}
        /\ cnt <= Top
        /\ \A t \in Awaiting : /\ want[t] <= cnt + MaxAhead["local"]
                               /\ cnt <= want[t] + Window
        /\ \A t \in Blocked : cnt < want[t]
        /\ InOrder

LEMMA WithoutSorted ==
    ASSUME NEW q \in Seq(Threads), NEW G, Sorted(q)
    PROVE  Without(q, G) \in Seq(Threads) /\ Sorted(Without(q, G))
<1> DEFINE r == Without(q, G)
<1>1. r \in Seq(Threads) /\ LeftOf(r, q, G)
  BY WithoutLeaves
<1> HIDE DEF r
<1>2. PICK p \in [DOMAIN r -> DOMAIN q] :
          /\ \A n \in DOMAIN r : r[n] = q[p[n]]
          /\ \A m, n \in DOMAIN r : m < n => p[m] < p[n]
  BY <1>1 DEF LeftOf
<1>3. Sorted(r)
  BY <1>2 DEF Sorted
<1> QED BY <1>1, <1>3 DEF r

\* Those a thread is put behind are the first of the queue.
LEMMA BehindFirst ==
    ASSUME NEW q \in Seq(Threads), NEW t
    PROVE  Behind(t, q) = 1 .. Cardinality(Behind(t, q))
<1> DEFINE B == Behind(t, q)
           c == Cardinality(B)
<1>1. Len(q) \in Nat /\ DOMAIN q = 1 .. Len(q)
  OBVIOUS
<1>2. IsFiniteSet(B) /\ B \in SUBSET (1 .. Len(q)) /\ c \in Nat
  BY BehindIs
<1>3. \A i \in B : 1 .. i \in SUBSET B
  BY <1>1 DEF Behind
<1> HIDE DEF B, c
<1>4. IsFiniteSet(1 .. c) /\ Cardinality(1 .. c) = c
  BY <1>2, FS_Interval
<1>5. ASSUME NEW i \in B PROVE i \in 1 .. c
  <2>1. i \in Nat /\ i > 0
    BY <1>2
  <2>2. Cardinality(1 .. i) = i
    BY <2>1, FS_Interval
  <2>3. Cardinality(1 .. i) <= c
    BY <1>2, <1>3, FS_Subset DEF c
  <2> QED BY <1>2, <2>1, <2>2, <2>3
<1>6. B \in SUBSET (1 .. c)
  BY <1>5
<1>7. B = 1 .. c
  BY <1>4, <1>6, FS_Subset DEF c
<1> QED BY <1>7 DEF B, c

LEMMA InsertSorted ==
    ASSUME NEW q \in Seq(Threads), Sorted(q), NEW t \in Threads,
           \A u \in Threads : want[u] \in Nat
    PROVE  Sorted(InsertInto(q, t))
<1> DEFINE c == Cardinality(Behind(t, q))
           r == InsertInto(q, t)
<1>1. Len(q) \in Nat /\ c \in Nat /\ c <= Len(q) /\ DOMAIN q = 1 .. Len(q)
  <2>1. c \in 0 .. Len(q) /\ Len(q) \in Nat
    BY BehindIs
  <2> QED BY <2>1
<1>2. Behind(t, q) = 1 .. c
  BY BehindFirst
<1> HIDE DEF c
<1>3. /\ r \in Seq(Threads) /\ Len(r) = Len(q) + 1
      /\ \A i \in 1 .. Len(q) + 1 :
            r[i] = IF i < c + 1 THEN q[i] ELSE IF i = c + 1 THEN t ELSE q[i - 1]
  <2>1. r = InsertAt(q, c + 1, t) /\ c + 1 \in 1 .. Len(q) + 1
    BY <1>1 DEF InsertInto, c
  <2>2. PICK k \in 1 .. Len(q) + 1 : k = c + 1
    BY <2>1
  <2>3. /\ InsertAt(q, k, t) \in Seq(Threads) /\ Len(InsertAt(q, k, t)) = Len(q) + 1
        /\ \A i \in 1 .. Len(q) + 1 :
              InsertAt(q, k, t)[i] = IF i < k THEN q[i] ELSE IF i = k THEN t ELSE q[i - 1]
    BY InsertAtThreads
  <2> HIDE DEF r
  <2> QED BY <2>1, <2>2, <2>3
<1> HIDE DEF r
<1>4. DOMAIN r = 1 .. Len(q) + 1
  BY <1>1, <1>3
<1>5. \A i \in 1 .. Len(q) : q[i] \in Threads /\ want[q[i]] \in Nat
  OBVIOUS
<1>6. \A i \in 1 .. Len(q) : i <= c => want[q[i]] <= want[t]
  <2> SUFFICES ASSUME NEW i \in 1 .. Len(q), i <= c PROVE want[q[i]] <= want[t]
    OBVIOUS
  <2>1. i \in Behind(t, q) /\ i \in 1 .. i
    BY <1>1, <1>2
  <2> QED BY <2>1 DEF Behind
<1>7. \A i \in 1 .. Len(q) : i > c => want[t] <= want[q[i]]
  <2> SUFFICES ASSUME NEW i \in 1 .. Len(q), i > c PROVE want[t] <= want[q[i]]
    OBVIOUS
  <2>1. c + 1 \in 1 .. Len(q) /\ c + 1 \notin Behind(t, q) /\ c + 1 <= i
    BY <1>1, <1>2
  <2>2. PICK j \in 1 .. c + 1 : ~(want[q[j]] <= want[t])
    BY <1>1, <2>1 DEF Behind
  <2>3. j \in 1 .. Len(q) /\ j <= i
    BY <1>1, <2>1, <2>2
  <2>4. want[q[j]] <= want[q[i]]
    <3>1. CASE j = i
      BY <1>5, <3>1
    <3>2. CASE j # i
      <4>1. j < i
        BY <2>3, <3>2
      <4> QED BY <1>1, <2>3, <4>1 DEF Sorted
    <3> QED BY <3>1, <3>2
  <2> QED BY <1>5, <2>2, <2>3, <2>4
<1>8. ASSUME NEW i \in DOMAIN r, NEW j \in DOMAIN r, i < j PROVE want[r[i]] <= want[r[j]]
  <2>1. \A m, n \in 1 .. Len(q) : m < n => want[q[m]] <= want[q[n]]
    BY <1>1 DEF Sorted
  <2>2. i \in 1 .. Len(q) + 1 /\ j \in 1 .. Len(q) + 1
    BY <1>4
  <2>3. /\ i < c + 1 => i \in 1 .. Len(q) /\ i <= c
        /\ j < c + 1 => j \in 1 .. Len(q)
        /\ i > c + 1 => i - 1 \in 1 .. Len(q)
        /\ j > c + 1 => j - 1 \in 1 .. Len(q) /\ j - 1 > c
    BY <1>1, <2>2
  <2>4. CASE j < c + 1
    <3>1. i < c + 1
      BY <1>1, <1>8, <2>2, <2>4
    <3>2. r[i] = q[i] /\ r[j] = q[j]
      BY <1>3, <2>2, <2>4, <3>1
    <3> QED BY <1>8, <2>1, <2>3, <2>4, <3>1, <3>2
  <2>5. CASE j = c + 1
    <3>1. i < c + 1
      BY <1>1, <1>8, <2>2, <2>5
    <3>2. r[i] = q[i] /\ r[j] = t
      BY <1>3, <2>2, <2>5, <3>1
    <3> QED BY <1>6, <2>3, <3>1, <3>2
  <2>6. CASE j > c + 1
    <3>1. r[j] = q[j - 1]
      BY <1>1, <1>3, <2>2, <2>6
    <3>2. CASE i < c + 1
      <4>1. r[i] = q[i] /\ i < j - 1
        BY <1>1, <1>3, <2>2, <2>6, <3>2
      <4> QED BY <2>1, <2>3, <2>6, <3>1, <3>2, <4>1
    <3>3. CASE i = c + 1
      <4>1. r[i] = t
        BY <1>1, <1>3, <2>2, <3>3
      <4> QED BY <1>7, <2>3, <2>6, <3>1, <4>1
    <3>4. CASE i > c + 1
      <4>1. r[i] = q[i - 1] /\ i - 1 < j - 1
        BY <1>1, <1>3, <1>8, <2>2, <3>4
      <4> QED BY <2>1, <2>3, <2>6, <3>1, <3>4, <4>1
    <3> QED BY <1>1, <2>2, <3>2, <3>3, <3>4
  <2> QED BY <1>1, <2>2, <2>4, <2>5, <2>6
<1>9. Sorted(r)
  BY <1>8 DEF Sorted
<1> QED BY <1>9 DEF r

LEMMA RequeueSorted ==
    ASSUME SInv, InOrder, NEW gone, NEW late, NEW stay \in SUBSET Threads,
           Requeue(gone, late, stay), want' = want
    PROVE  InOrder'
<1> DEFINE q == Without(waitq, gone \cup late)
           t == CHOOSE t \in stay : TRUE
<1>1. waitq \in Seq(Threads) /\ \A u \in Threads : want[u] \in Nat
  BY ValuesAre DEF SInv, TypeOK, Vals
<1>2. q \in Seq(Threads) /\ Sorted(q)
  BY <1>1, WithoutSorted DEF InOrder
<1>3. waitq' = IF stay = {} THEN q ELSE InsertInto(q, t)
  BY DEF Requeue
<1>4. stay # {} => t \in Threads
  OBVIOUS
<1> HIDE DEF q, t
<1>5. stay # {} => Sorted(InsertInto(q, t))
  BY <1>1, <1>2, <1>4, InsertSorted
<1> QED BY <1>2, <1>3, <1>5 DEF InOrder, Sorted

\* What the words of a local count are.
LEMMA LocalNumbers ==
    ASSUME NoWrap, SInv, kind = "local", LocalInv
    PROVE  /\ "local" \in Kinds /\ MaxAhead["local"] \in Nat \ {0} /\ Top \in Nat
           /\ Top + MaxAhead["local"] < Words /\ Window + MaxAhead["local"] < Half
           /\ Words \in Nat /\ Half \in Nat /\ Half + Half = Words
           /\ Window \in Nat /\ MaxStep \in Nat
           /\ cnt \in Vals /\ cnt \in Nat /\ cnt <= Top
           /\ \A t \in Threads : want[t] \in Vals /\ want[t] \in Nat /\ want[t] < Words
<1>1. "local" \in Kinds
  BY SomeKind
<1>2. Words \in Nat /\ cnt <= Top
  BY WordsAre DEF LocalInv
<1>3. cnt \in Nat /\ \A t \in Threads : want[t] \in Nat /\ want[t] < Words
  BY <1>2, ValuesAre DEF Vals
<1> QED BY <1>1, <1>2, <1>3, WordsAre, ValuesAre, ValueAssumption DEF NoWrap

\* A value no larger than Top that a thread may wait to be compared with.
LEMMA WithinWindow ==
    ASSUME NoWrap, SInv, kind = "local", LocalInv,
           NEW v \in Vals, v <= Top, NEW t \in Threads,
           \/ Ahead(v, want[t]) <= Window
           \/ Ahead(want[t], v) <= MaxAhead["local"]
    PROVE  v <= want[t] + Window /\ (want[t] <= v => EC_LE(want[t], v))
<1> DEFINE x == want[t]
<1>1. /\ MaxAhead["local"] \in Nat /\ Top \in Nat /\ Top + MaxAhead["local"] < Words
      /\ Words \in Nat /\ Window \in Nat /\ x \in Vals /\ x \in Nat /\ x < Words
      /\ "local" \in Kinds
  BY LocalNumbers
<1> HIDE DEF x
<1>2. v \in Nat /\ v < Words
  BY <1>1 DEF Vals
<1>3. /\ Ahead(v, x) = IF v >= x THEN v - x ELSE v - x + Words
      /\ Ahead(x, v) = IF x >= v THEN x - v ELSE x - v + Words
  BY <1>1, AheadIs
<1>4. Ahead(v, x) <= Window \/ Ahead(x, v) <= MaxAhead["local"]
  BY DEF x
<1>5. v <= x + Window /\ (x <= v => Ahead(v, x) <= Window)
  BY <1>1, <1>2, <1>3, <1>4
<1>6. x <= v => EC_LE(x, v)
  BY <1>1, <1>5, ReachedIs
<1> QED BY <1>5, <1>6 DEF x

LEMMA InitLocal == Init => LocalInv
<1> SUFFICES ASSUME Init PROVE LocalInv
  OBVIOUS
<1>1. \A t \in Threads : pc[t] = "run"
  BY DEF Init
<1> QED BY <1>1, ValueAssumption DEF Init, LocalInv, Awaiting, Blocked, InOrder, Sorted

\* A step that leaves the count alone, and puts nobody to sleep.
LEMMA LocalLeft ==
    ASSUME LocalInv, kind = "local", UNCHANGED <<kind, hooked, pending, cnt, want>>,
           InOrder',
           \A t \in Threads : \/ pc'[t] = pc[t] \/ pc'[t] \in {"run", "woken"}
                              \/ pc'[t] = "query" /\ pc[t] = "enter"
    PROVE  LocalInv'
<1>1. \A t \in Threads : /\ t \in Awaiting' => t \in Awaiting
                         /\ t \in Blocked' => t \in Blocked
  BY DEF Awaiting, Blocked
<1>2. Awaiting' \subseteq Threads /\ Blocked' \subseteq Threads
  BY DEF Awaiting, Blocked
<1>3. \A t \in Threads : pc'[t] \notin {"ack", "attach", "yielded", "unmask"}
  BY DEF LocalInv
<1> QED BY <1>1, <1>2, <1>3 DEF LocalInv

LEMMA QuietLocal ==
    ASSUME SInv, LocalInv, kind = "local", NEW t \in Threads,
           \/ Activate \/ Handler \/ Reactivate
           \/ Resume(t) \/ EnterCS(t) \/ MaskAll(t) \/ UnmaskAll(t) \/ Expire(t)
    PROVE  LocalInv'
<1>1. /\ ~hooked /\ ~pending /\ \A u \in Threads : pc[u] # "yielded"
      /\ pc \in [Threads -> PCs]
  BY DEF LocalInv, SInv, TypeOK
<1>2. UNCHANGED <<kind, hooked, pending, cnt, want>>
  <2>1. CASE UnmaskAll(t)
    BY <1>1, <2>1 DEF UnmaskAll, SInv, TypeOK, kernelVars, countVars
  <2>2. CASE TakeEvent
    BY <1>1, <2>2 DEF TakeEvent, countVars
  <2>3. CASE ~UnmaskAll(t) /\ ~TakeEvent
    BY <2>3 DEF Activate, Handler, HandlerDone, Reactivate, Resume, EnterCS, MaskAll, Expire,
                kernelVars, countVars, maskVars
  <2> QED BY <2>1, <2>2, <2>3
<1>3. waitq' = waitq \/ RunTimeouts
  BY <1>1 DEF Activate, Handler, TakeEvent, HandlerDone, Reactivate, Resume, EnterCS, MaskAll,
              UnmaskAll, Expire, countVars
<1>4. InOrder'
  <2>1. InOrder
    BY DEF LocalInv
  <2>2. CASE waitq' = waitq
    BY <1>2, <2>1, <2>2 DEF InOrder, Sorted
  <2>3. CASE RunTimeouts
    <3>1. Requeue({}, Expired, {}) /\ {} \in SUBSET Threads /\ want' = want
      BY <1>2, <2>3 DEF RunTimeouts
    <3> QED BY <2>1, <3>1, RequeueSorted
  <2> QED BY <1>3, <2>2, <2>3
<1>5. ASSUME NEW u \in Threads
      PROVE  \/ pc'[u] = pc[u] \/ pc'[u] \in {"run", "woken"}
             \/ pc'[u] = "query" /\ pc[u] = "enter"
  <2>1. CASE UnmaskAll(t) \/ TakeEvent
    BY <1>1, <2>1 DEF UnmaskAll, TakeEvent
  <2>2. CASE Activate \/ HandlerDone \/ Reactivate \/ MaskAll(t) \/ Expire(t)
    BY <2>2 DEF Activate, HandlerDone, Reactivate, MaskAll, Expire, RunTimeouts
  <2>3. CASE Resume(t)
    BY <1>1, <2>3 DEF Resume
  <2>4. CASE EnterCS(t)
    BY <1>1, <2>4 DEF EnterCS
  <2> QED BY <2>1, <2>2, <2>3, <2>4 DEF Handler
<1> QED BY <1>2, <1>4, <1>5, LocalLeft

LEMMA AwaitLocal ==
    ASSUME NoWrap, SInv, LocalInv, kind = "local", NEW t \in Threads,
           NEW k \in 1 .. MaxAhead[kind], Await(t, k)
    PROVE  LocalInv'
<1>1. /\ UNCHANGED <<kind, hooked, pending, cnt, waitq>> /\ pc[t] = "run"
      /\ want' = [want EXCEPT ![t] = Plus(cnt, k)] /\ pc' = [pc EXCEPT ![t] = "enter"]
  BY DEF Await, kernelVars, countVars, maskVars
<1>2. /\ pc'[t] = "enter" /\ want'[t] = Plus(cnt, k)
      /\ \A u \in Threads \ {t} : pc'[u] = pc[u] /\ want'[u] = want[u]
  BY <1>1 DEF SInv, TypeOK
<1>3. /\ MaxAhead["local"] \in Nat /\ Top \in Nat /\ Top + MaxAhead["local"] < Words
      /\ Words \in Nat /\ Window \in Nat /\ cnt \in Vals /\ cnt \in Nat /\ cnt <= Top
  BY LocalNumbers
<1>4. k \in Nat /\ k <= MaxAhead["local"]
  BY <1>3
<1>5. want'[t] = cnt + k
  <2>1. k \in Vals /\ cnt + k < Words
    BY <1>3, <1>4 DEF Vals
  <2> QED BY <1>2, <1>3, <2>1, PlusIs
<1>6. Blocked' = Blocked /\ t \notin Blocked /\ Blocked \subseteq Threads
  BY <1>1, <1>2 DEF Blocked
<1>7. InOrder'
  <2>1. \A i \in DOMAIN waitq : waitq[i] \in Blocked
    BY SleepersAre DEF Waiters
  <2>2. \A i \in DOMAIN waitq : want'[waitq[i]] = want[waitq[i]]
    BY <1>2, <1>6, <2>1
  <2>3. InOrder
    BY DEF LocalInv
  <2> QED BY <1>1, <2>2, <2>3 DEF InOrder, Sorted
<1>8. ASSUME NEW u \in Awaiting'
      PROVE  want'[u] <= cnt + MaxAhead["local"] /\ cnt <= want'[u] + Window
  <2>1. CASE u = t
    BY <1>3, <1>4, <1>5, <2>1
  <2>2. CASE u # t
    <3>1. u \in Awaiting /\ want'[u] = want[u]
      BY <1>2, <1>8, <2>2 DEF Awaiting
    <3> QED BY <3>1 DEF LocalInv
  <2> QED BY <2>1, <2>2
<1>9. \A u \in Blocked' : cnt < want'[u]
  BY <1>2, <1>6 DEF LocalInv
<1>10. \A u \in Threads : pc'[u] \notin {"ack", "attach", "yielded", "unmask"}
  BY <1>2 DEF LocalInv
<1> QED BY <1>1, <1>7, <1>8, <1>9, <1>10 DEF LocalInv

LEMMA QueryLocal ==
    ASSUME NoWrap, SInv, LocalInv, kind = "local", NEW t \in Threads, Query(t)
    PROVE  LocalInv'
<1>1. /\ UNCHANGED <<kind, hooked, pending, want>> /\ pc[t] = "query"
      /\ ~hooked /\ Conclude(t, cnt)
  BY DEF Query, kernelVars, maskVars, LocalInv
<1>2. /\ cnt' = cnt /\ Goes(cnt) = {} /\ Stays(t, cnt) \in SUBSET Threads
      /\ Requeue(Goes(cnt), Lates(t, cnt), Stays(t, cnt))
      /\ Stays(t, cnt) \subseteq {t}
      /\ (Stays(t, cnt) # {} => EC_GT(want[t], cnt))
  BY <1>1, ConcludeIs DEF Goes, Stays
<1>3. InOrder'
  BY <1>1, <1>2, RequeueSorted DEF LocalInv
<1>4. EC_GT(want[t], cnt) => cnt < want[t]
  <2> DEFINE x == want[t]
  <2>1. /\ MaxAhead["local"] \in Nat /\ Window + MaxAhead["local"] < Half
        /\ Words \in Nat /\ Half \in Nat /\ Half + Half = Words /\ Window \in Nat
        /\ cnt \in Vals /\ cnt \in Nat /\ x \in Vals /\ x \in Nat
    BY LocalNumbers
  <2>2. cnt <= x + Window
    BY <1>1 DEF LocalInv, Awaiting
  <2> HIDE DEF x
  <2>3. Ahead(x, cnt) = IF x >= cnt THEN x - cnt ELSE x - cnt + Words
    BY <2>1, AheadIs
  <2>4. EC_GT(x, cnt) => Ahead(x, cnt) \in 1 .. Half - 1
    BY <2>1, CompareIs
  <2>5. EC_GT(x, cnt) => cnt < x
    BY <2>1, <2>2, <2>3, <2>4
  <2> QED BY <2>5 DEF x
<1>5. ASSUME NEW u \in Threads
      PROVE  /\ pc'[u] \in {"run", "woken", pc[u]} \/ (pc'[u] = "blocked" /\ u \in Stays(t, cnt))
  BY <1>1, ConcludeIs
<1>6. ASSUME NEW u \in Blocked' PROVE cnt < want[u]
  <2>1. u \in Threads /\ (u \in Blocked \/ u \in Stays(t, cnt))
    BY <1>5, <1>6 DEF Blocked
  <2> QED BY <1>2, <1>4, <2>1 DEF LocalInv
<1>7. \A u \in Awaiting' : u \in Awaiting
  BY <1>1, <1>2, <1>5 DEF Awaiting
<1>8. \A u \in Threads : pc'[u] \notin {"ack", "attach", "yielded", "unmask"}
  BY <1>5 DEF LocalInv
<1> QED BY <1>1, <1>2, <1>3, <1>6, <1>7, <1>8 DEF LocalInv

\* Advance releases everybody it should, as the queue is in order.
LEMMA AdvanceLocal ==
    ASSUME NoWrap, SInv, LocalInv, NEW k \in 1 .. MaxStep, Advance(k)
    PROVE  LocalInv'
<1> DEFINE w == Plus(cnt, k)
           gone == Released(w)
<1>1. /\ UNCHANGED <<kind, hooked, pending, want>> /\ kind = "local" /\ InWindow(w)
      /\ Top >= Words \/ cnt + k <= Top
      /\ cnt' = w /\ Requeue(gone, {}, {})
      /\ pc' = [t \in Threads |-> IF t \in gone THEN "woken" ELSE pc[t]]
  BY DEF Advance, Notify, Notified, kernelVars, maskVars
<1> HIDE DEF gone
<1>2. /\ MaxAhead["local"] \in Nat /\ Top \in Nat /\ Top + MaxAhead["local"] < Words
      /\ Words \in Nat /\ Window \in Nat /\ cnt \in Vals /\ cnt \in Nat /\ cnt <= Top
      /\ MaxStep \in Nat /\ k \in Nat
  BY <1>1, LocalNumbers
<1>3. w = cnt + k /\ w <= Top /\ w \in Vals /\ w \in Nat
  <2>1. cnt + k <= Top /\ cnt + k < Words /\ k \in Vals
    BY <1>1, <1>2 DEF Vals
  <2> QED BY <1>2, <2>1, PlusIs
<1>4. ASSUME NEW t \in Awaiting
      PROVE  /\ w <= want[t] + Window /\ (want[t] <= w => EC_LE(want[t], w))
             /\ want[t] <= w + MaxAhead["local"]
  <2>1. t \in Threads /\ want[t] \in Nat
    BY <1>1, LocalNumbers DEF Awaiting
  <2>2. Ahead(w, want[t]) <= Window \/ Ahead(want[t], w) <= MaxAhead["local"]
    BY <1>1 DEF InWindow, Compared, Ahead, Awaiting
  <2>3. want[t] <= cnt + MaxAhead["local"]
    BY <1>1 DEF LocalInv
  <2>4. w <= want[t] + Window /\ (want[t] <= w => EC_LE(want[t], w))
    <3> HIDE DEF w
    <3> QED BY <1>1, <1>3, <2>1, <2>2, WithinWindow
  <2> QED BY <1>2, <1>3, <2>1, <2>3, <2>4
<1>5. ASSUME NEW t \in Blocked, t \notin gone PROVE w < want[t]
  <2> SUFFICES ASSUME want[t] <= w PROVE FALSE
    <3>1. want[t] \in Nat
      BY <1>1, LocalNumbers DEF Blocked
    <3> HIDE DEF w
    <3> QED BY <1>3, <3>1
  <2>1. PICK i \in DOMAIN waitq : waitq[i] = t
    BY SleepersAre DEF Waiters
  <2>2. waitq \in Seq(Threads) /\ DOMAIN waitq = 1 .. Len(waitq) /\ Len(waitq) \in Nat
    BY DEF SInv, TypeOK
  <2>3. ASSUME NEW j \in 1 .. i PROVE EC_LE(want[waitq[j]], w)
    <3>1. j \in DOMAIN waitq /\ (j = i \/ j < i)
      BY <2>2
    <3>2. want[waitq[j]] <= want[t]
      <4>1. want[t] \in Nat
        BY <1>1, LocalNumbers DEF Blocked
      <4> QED BY <1>1, <2>1, <3>1, <4>1 DEF LocalInv, InOrder, Sorted
    <3>3. waitq[j] \in Blocked
      BY <3>1, SleepersAre DEF Waiters
    <3>4. waitq[j] \in Awaiting /\ want[waitq[j]] \in Nat /\ want[t] \in Nat
      BY <1>1, <3>3, LocalNumbers DEF Blocked, Awaiting
    <3>5. want[waitq[j]] <= w
      <4> HIDE DEF w
      <4> QED BY <1>3, <3>2, <3>4
    <3> QED BY <1>4, <3>4, <3>5
  <2> QED BY <1>5, <2>1, <2>3 DEF gone, Released
<1>6. /\ \A t \in Blocked' : t \in Blocked /\ t \notin gone
      /\ \A t \in Awaiting' : t \in Awaiting
  BY <1>1 DEF Blocked, Awaiting
<1>7. \A t \in Blocked' : w < want[t]
  BY <1>5, <1>6
<1>8. \A t \in Awaiting' : want[t] <= w + MaxAhead["local"] /\ w <= want[t] + Window
  BY <1>4, <1>6
<1>9. \A t \in Threads : pc'[t] \notin {"ack", "attach", "yielded", "unmask"}
  BY <1>1 DEF LocalInv
<1>10. InOrder'
  BY <1>1, RequeueSorted DEF LocalInv
<1> QED BY <1>1, <1>3, <1>7, <1>8, <1>9, <1>10 DEF LocalInv

LEMMA NextLocal == NoWrap => (SInv /\ LocalInv /\ [Next]_vars => LocalInv')
<1> SUFFICES ASSUME NoWrap, SInv, LocalInv, [Next]_vars PROVE LocalInv'
  OBVIOUS
<1>1. kind' = kind
  BY DEF Next, vars, kernelVars, Send, Advance, Plumber, ClearPeer, MarkDead, Kick, CloseTX,
         Plumb, Activate, Handler, TakeEvent, HandlerDone, Reactivate, Resume, Critical, Query,
         Ack, AttachDone, Calls, Await, EnterCS, Read, Attach, Mask, Unmask, UnmaskDone,
         MaskAll, UnmaskAll, Expire
<1> SUFFICES ASSUME kind = "local" PROVE LocalInv'
  BY <1>1 DEF LocalInv
<1>2. CASE UNCHANGED vars
  BY <1>2 DEF LocalInv, Awaiting, Blocked, InOrder, Sorted, vars, kernelVars, countVars, maskVars
<1>3. ASSUME NEW k \in 1 .. MaxStep, Send(k) \/ Advance(k) PROVE LocalInv'
  BY <1>3, AdvanceLocal DEF Send
<1>4. ~Plumber
  BY DEF Plumber, ClearPeer, MarkDead, Kick, CloseTX, Plumb
<1>5. CASE Activate \/ Handler \/ Reactivate
  <2>1. PICK t \in Threads : TRUE
    BY ThreadAssumption
  <2> QED BY <1>5, QuietLocal
<1>6. ASSUME NEW t \in Threads, Resume(t) \/ Critical(t) \/ Calls(t) \/ Expire(t)
      PROVE  LocalInv'
  <2>1. /\ ~Ack(t) /\ ~AttachDone(t) /\ ~Read(t) /\ ~Attach(t)
        /\ ~Mask(t) /\ ~Unmask(t) /\ ~UnmaskDone(t)
    BY DEF LocalInv, Ack, AttachDone, Read, Attach, Mask, Unmask, UnmaskDone
  <2>2. CASE Critical(t)
    BY <2>1, <2>2, QueryLocal DEF Critical
  <2>3. CASE Calls(t)
    BY <2>1, <2>3, AwaitLocal, QuietLocal DEF Calls
  <2> QED BY <1>6, <2>2, <2>3, QuietLocal
<1> QED BY <1>2, <1>3, <1>4, <1>5, <1>6 DEF Next

LEMMA LocalNotOverdue ==
    ASSUME NoWrap, SInv, LocalInv, kind = "local"
    PROVE  NoneOverdue
<1> SUFFICES ASSUME NEW t \in Waiters PROVE EC_GT(want[t], cnt)
  BY DEF NoneOverdue
<1> DEFINE x == want[t]
<1>1. t \in Blocked /\ t \in Threads /\ t \in Awaiting
  BY SleepersAre DEF Blocked, Awaiting
<1>2. cnt < x /\ x <= cnt + MaxAhead["local"]
  BY <1>1 DEF LocalInv
<1>3. /\ MaxAhead["local"] \in Nat /\ Window + MaxAhead["local"] < Half /\ Window \in Nat
      /\ Half \in Nat /\ cnt \in Vals /\ cnt \in Nat /\ x \in Vals /\ x \in Nat
  BY <1>1, LocalNumbers
<1> HIDE DEF x
<1>4. Ahead(x, cnt) = x - cnt
  BY <1>2, <1>3, AheadIs
<1>5. Ahead(x, cnt) \in 1 .. Half - 1
  BY <1>2, <1>3, <1>4
<1>6. EC_GT(x, cnt)
  BY <1>3, <1>5, CompareIs
<1> QED BY <1>6 DEF x

LEMMA ChannelNotOverdue ==
    ASSUME NextAwaited, AInv, EventInv, kind = "channel"
    PROVE  NoneOverdue
<1> SUFFICES ASSUME NEW t \in Waiters, ~hooked \/ (plumb = "idle" /\ fifo = 0)
             PROVE  EC_GT(want[t], cnt)
  <2>1. fifo \in Nat
    BY FifoNumbers DEF AInv
  <2> QED BY <2>1 DEF NoneOverdue
<1>1. SInv /\ t \in Blocked /\ t \in Threads /\ t \in Awaiting
  BY SleepersAre DEF AInv, Blocked, Awaiting
<1>2. /\ kind \in Kinds /\ MaxAhead[kind] = 1 /\ Window + 1 < Half
      /\ Window \in Nat /\ Half \in Nat /\ Words \in Nat /\ Half + Half = Words
  <2>1. kind \in Kinds /\ MaxAhead[kind] = 1
    BY <1>1, SomeKind DEF NextAwaited
  <2> QED BY <2>1, WordsAre
<1>3. CASE ~hooked
  <2>1. cnt = 0 /\ want[t] = 1
    BY <1>1, <1>3 DEF AInv, CInv, KindInv, EventInv
  <2>2. 0 \in Vals /\ Plus(0, 1) = 1
    <3>1. 0 \in Vals /\ 1 \in Vals /\ 1 < Words
      BY <1>2 DEF Vals
    <3> QED BY <3>1, PlusIs
  <2> QED BY <1>2, <2>1, <2>2, NextIs
<1>4. CASE hooked
  <2> DEFINE v == chan.val
             x == want[t]
  <2>1. Open /\ plumb = "idle" /\ fifo = 0
    BY <1>4 DEF Open
  <2>2. x = Plus(v, 1)
    BY <1>1, <1>4, <2>1 DEF EventInv, Unlisted
  <2>3. Ahead(v, cnt) <= Window
    BY <2>1 DEF AInv, CInv, CountInv
  <2>4. v \in Vals /\ cnt \in Vals /\ x \in Vals
    BY <1>1, ValuesAre
  <2> HIDE DEF v, x
  <2>5. Ahead(v, cnt) \in Nat /\ Ahead(v, cnt) + 1 < Half
    BY <1>2, <2>3, <2>4, AheadIs
  <2>6. Ahead(x, cnt) = Ahead(v, cnt) + 1
    <3>1. 1 \in Nat /\ Ahead(v, cnt) + 1 < Words
      BY <1>2, <2>5
    <3> QED BY <2>2, <2>4, <3>1, AheadPlus
  <2>7. Ahead(x, cnt) \in 1 .. Half - 1
    BY <1>2, <2>5, <2>6
  <2>8. EC_GT(x, cnt)
    BY <2>4, <2>7, CompareIs
  <2> QED BY <2>8 DEF x
<1> QED BY <1>3, <1>4

\* Nobody sleeps in the queue of a count that has reached its value, with
\* the handler not still to be run: on a local count whatever threads do, if
\* its values do not wrap around, and on a channel that is used undisturbed.
THEOREM NobodyIsOverdue ==
    ASSUME NoWrap, "channel" \in Kinds => Undisturbed /\ NextAwaited
    PROVE  Spec => []NoneOverdue
<1>1. Spec => []LocalInv
  BY InitLocal, NextLocal, SInvHolds, PTL DEF Spec
<1>2. CASE "channel" \in Kinds
  <2>1. Init => EventInv
    BY InitEventInv
  <2>2. AInv /\ EventInv /\ [Next]_vars => EventInv'
    BY <1>2, NextEventInv
  <2>3. Spec => []AInv
    BY <1>2, AInvHolds
  <2>4. AInv /\ EventInv /\ LocalInv => NoneOverdue
    BY <1>2, LocalNotOverdue, ChannelNotOverdue, SomeKind DEF AInv
  <2> QED BY <1>1, <2>1, <2>2, <2>3, <2>4, PTL DEF Spec
<1>3. CASE "channel" \notin Kinds
  <2>1. SInv /\ LocalInv => NoneOverdue
    BY <1>3, LocalNotOverdue, SomeKind
  <2> QED BY <1>1, <2>1, SInvHolds, PTL
<1> QED BY <1>2, <1>3

-----------------------------------------------------------------------------
(* The end of a channel.                                                   *)

\* The peer is stopped before its channels are closed.
PeerDies == Closing = "destroy"

\* One thread only uses the count.
Alone == \E t \in Threads : Threads = {t}

DeathInv ==
    /\ plumb \in {"cleared", "dead"} => chan.val = 0
    /\ plumb = "dead" /\ hooked => \A t \in Blocked : chan.ack = 0

LEMMA InitDeath == Init => DeathInv
BY DEF Init, DeathInv, Blocked

\* A step that blocks nobody.
LEMMA DeathSame ==
    ASSUME DeathInv, UNCHANGED <<plumb, chan>>, Blocked' = {} \/ hooked' = hooked,
           \A t \in Threads : pc'[t] = "blocked" => pc[t] = "blocked"
    PROVE  DeathInv'
<1>1. \A t \in Blocked' : t \in Blocked
  BY DEF Blocked
<1> QED BY <1>1 DEF DeathInv

LEMMA KernelDeath ==
    ASSUME PeerDies, SInv, DeathInv, (\E k \in 1 .. MaxStep : Send(k)) \/ Plumber
    PROVE  DeathInv'
<1>1. CASE \E k \in 1 .. MaxStep : Send(k)
  BY <1>1 DEF Send, PeerDies, DeathInv
<1>2. CASE ClearPeer
  BY <1>2 DEF ClearPeer, Plumb, SInv, TypeOK, Endpoint, DeathInv
<1>3. CASE MarkDead
  BY <1>3 DEF MarkDead, Plumb, SInv, TypeOK, Endpoint, DeathInv
<1>4. CASE Kick \/ CloseTX
  BY <1>4 DEF Kick, CloseTX, Plumb, DeathInv
<1> QED BY <1>1, <1>2, <1>3, <1>4 DEF Plumber

\* Whoever blocks on a channel has seen its value acknowledged.
LEMMA BlocksSettled ==
    ASSUME SInv, NEW t \in Threads, Query(t), hooked, pc'[t] = "blocked"
    PROVE  chan.val = chan.ack
<1>1. pc \in [Threads -> PCs]
  BY DEF SInv, TypeOK
<1>2. Conclude(t, chan.val) /\ Settled(t)
  BY <1>1 DEF Query
<1>3. t \in Stays(t, chan.val)
  BY <1>2, ConcludeIs DEF Query
<1>4. EC_GT(want[t], chan.val) /\ ~Late(t)
  BY <1>3 DEF Stays
<1>5. ~EC_GT(chan.val, want[t])
  <2>1. chan.val \in Vals /\ want[t] \in Vals
    BY ValuesAre
  <2>2. /\ Words \in Nat /\ Half \in Nat /\ Half + Half = Words
        /\ Ahead(want[t], chan.val) \in 1 .. Half - 1
    BY <1>4, <2>1, CompareIs, WordsAre
  <2>3. /\ want[t] # chan.val
        /\ Ahead(chan.val, want[t]) = Words - Ahead(want[t], chan.val)
    BY <2>1, <2>2, AheadOf
  <2>4. Ahead(chan.val, want[t]) \notin 1 .. Half - 1
    BY <2>2, <2>3
  <2> QED BY <2>1, <2>4, CompareIs
<1> QED BY <1>2, <1>4, <1>5 DEF Settled

LEMMA QueryDeath ==
    ASSUME SInv, DeathInv, NEW t \in Threads, Threads = {t}, Query(t)
    PROVE  DeathInv'
<1>1. UNCHANGED <<plumb, chan, hooked>>
  BY DEF Query, kernelVars
<1>2. plumb = "dead" /\ hooked /\ pc'[t] = "blocked" => chan.ack = 0
  BY BlocksSettled DEF DeathInv
<1> QED BY <1>1, <1>2 DEF DeathInv, Blocked

LEMMA NextDeath == PeerDies /\ Alone => (SInv /\ DeathInv /\ [Next]_vars => DeathInv')
<1> SUFFICES ASSUME PeerDies, Alone, SInv, DeathInv, [Next]_vars PROVE DeathInv'
  OBVIOUS
<1>1. pc \in [Threads -> PCs]
  BY DEF SInv, TypeOK
<1>2. CASE UNCHANGED vars
  BY <1>2, DeathSame DEF vars, kernelVars
<1>3. CASE (\E k \in 1 .. MaxStep : Send(k)) \/ Plumber
  BY <1>3, KernelDeath
<1>4. CASE Activate \/ Handler \/ Reactivate \/ \E k \in 1 .. MaxStep : Advance(k)
  <2>1. UNCHANGED <<plumb, chan, hooked>>
    BY <1>4 DEF Activate, Handler, TakeEvent, HandlerDone, Reactivate, Advance, kernelVars
  <2>2. \A t \in Threads : pc'[t] = "blocked" => pc[t] = "blocked"
    BY <1>4 DEF Activate, Handler, TakeEvent, HandlerDone, Reactivate, RunTimeouts, Advance,
                Notify
  <2> QED BY <2>1, <2>2, DeathSame
<1>5. ASSUME NEW t \in Threads, Resume(t) \/ Critical(t) \/ Calls(t) \/ Expire(t)
      PROVE  DeathInv'
  <2>1. Threads = {t}
    BY DEF Alone
  <2>2. CASE Query(t)
    BY <2>1, <2>2, QueryDeath
  <2>3. CASE Ack(t)
    <3>1. UNCHANGED <<plumb, hooked>> /\ chan'.val = chan.val /\ pc'[t] = "query"
      BY <1>1, <2>3 DEF Ack, SInv, TypeOK, Endpoint
    <3> QED BY <2>1, <3>1 DEF DeathInv, Blocked
  <2>4. CASE AttachDone(t)
    <3>1. UNCHANGED <<plumb, chan>> /\ pc'[t] = "run"
      BY <2>4 DEF AttachDone, kernelVars
    <3>2. Blocked' = {}
      BY <2>1, <3>1 DEF Blocked
    <3> QED BY <2>1, <3>1, <3>2, DeathSame
  <2>5. CASE Resume(t) \/ Calls(t) \/ Expire(t)
    <3>1. UNCHANGED <<plumb, chan, hooked>>
      BY <2>5 DEF Resume, Calls, Await, EnterCS, Read, Attach, Mask, Unmask, UnmaskDone,
                  MaskAll, UnmaskAll, Expire, kernelVars
    <3>2. pc'[t] = "blocked" => pc[t] = "blocked"
      BY <1>1, <2>5 DEF Resume, Calls, Await, EnterCS, Read, Attach, Mask, Unmask,
                        UnmaskDone, MaskAll, UnmaskAll, Expire, Notify
    <3> QED BY <2>1, <3>1, <3>2, DeathSame
  <2> QED BY <1>5, <2>2, <2>3, <2>4, <2>5 DEF Critical
<1> QED BY <1>2, <1>3, <1>4, <1>5 DEF Next

\* The same for several threads. One that is about to acknowledge what it read
\* before the close has left the endpoint in the FIFO if another sleeps.
DyingInv ==
    /\ plumb \in {"cleared", "dead"} =>
           /\ kind = "channel" /\ chan.val = 0
           /\ ~hooked => chan.ack = 0
           /\ \A t \in Threads :
                  pc[t] = "ack" => seen[t].v = 0 \/ Blocked = {} \/ fifo > 0
    /\ plumb = "dead" =>
           /\ chan.state = "Dead"
           /\ chan.ack = 0 \/ Blocked = {} \/ fifo > 0

LEMMA InitDying == Init => DyingInv
BY DEF Init, DyingInv

\* A step that blocks nobody and has nobody go on to acknowledge.
LEMMA DyingSame ==
    ASSUME DyingInv, UNCHANGED <<kind, plumb, chan, fifo>>, hooked => hooked',
           \A t \in Threads : pc'[t] = "blocked" => pc[t] = "blocked",
           \A t \in Threads : pc'[t] = "ack" => pc[t] = "ack" /\ seen'[t] = seen[t]
    PROVE  DyingInv'
<1>1. Blocked' \subseteq Blocked
  BY DEF Blocked
<1>2. Blocked = {} => Blocked' = {}
  BY <1>1
<1> QED BY <1>2 DEF DyingInv

LEMMA KernelDying ==
    ASSUME PeerDies, NextAwaited, AInv, EventInv, DyingInv,
           (\E k \in 1 .. MaxStep : Send(k)) \/ Plumber
    PROVE  DyingInv'
<1>1. SInv /\ chan \in Endpoint /\ fifo \in Nat
  BY DEF AInv, SInv, TypeOK
<1>2. CASE \E k \in 1 .. MaxStep : Send(k)
  BY <1>2 DEF Send, PeerDies, DyingInv
<1>3. CASE ClearPeer
  <2>1. /\ Open /\ kind' = "channel" /\ plumb' = "cleared" /\ chan'.val = 0
        /\ chan'.ack = chan.ack /\ UNCHANGED <<hooked, fifo, pc, seen>>
    BY <1>1, <1>3 DEF ClearPeer, Plumb, Open, Endpoint, cpuVars, countVars
  <2>2. Blocked' = Blocked
    BY <2>1 DEF Blocked
  <2>3. ASSUME NEW t \in Threads, pc[t] = "ack", NEW u \in Blocked PROVE fifo > 0
    <3>1. Reached(u) /\ hooked
      BY <2>1, <2>3 DEF EventInv, AInv, PInv, PlaceInv
    <3>2. ~Unlisted(u)
      BY <1>1, <3>1, <2>3, SleepersAre, NextIs, ReachedIs, ValuesAre, SomeKind
         DEF Unlisted, Reached
    <3> QED BY <2>1, <3>1, <3>2, <2>3 DEF EventInv
  <2>4. ~hooked => chan.ack = 0
    BY <2>1 DEF EventInv
  <2> QED BY <2>1, <2>2, <2>3, <2>4 DEF DyingInv
<1>4. CASE MarkDead
  <2>1. /\ plumb = "cleared" /\ plumb' = "dead" /\ UNCHANGED <<kind, hooked, fifo, pc, seen>>
        /\ chan'.val = chan.val /\ chan'.ack = 0 /\ chan'.state = "Dead"
    BY <1>1, <1>4 DEF MarkDead, Plumb, Endpoint, cpuVars, countVars
  <2>2. Blocked' = Blocked
    BY <2>1 DEF Blocked
  <2> QED BY <2>1, <2>2 DEF DyingInv
<1>5. CASE Kick \/ CloseTX
  BY <1>5 DEF Kick, CloseTX, Plumb, DyingInv
<1> QED BY <1>2, <1>3, <1>4, <1>5 DEF Plumber

\* The handler tells all that sleep when it finds the channel dead.
LEMMA TakeDying == ASSUME AInv, DyingInv, TakeEvent PROVE DyingInv'
<1>1. /\ UNCHANGED <<kind, plumb, chan, hooked, seen>> /\ mode = "handler" /\ ~masked
      /\ SInv
  BY DEF TakeEvent, AInv, PInv, PlaceInv
<1>2. \A t \in Threads : pc[t] # "ack"
  BY <1>1 DEF AInv, PInv, PlaceInv, Inner
<1>3. \A t \in Threads : pc'[t] # "ack"
  BY <1>2 DEF TakeEvent, Notify
<1>4. ASSUME plumb = "dead", hooked PROVE Blocked' = {}
  <2>1. Notify(chan.val, "Dead")
    BY <1>1, <1>4 DEF TakeEvent, DyingInv
  <2>2. Waiters = Blocked
    BY <1>1, SleepersAre
  <2> QED BY <2>1, <2>2 DEF Notify, Notified, Blocked
<1> QED BY <1>1, <1>3, <1>4 DEF DyingInv

LEMMA QueryDying ==
    ASSUME Undisturbed, AInv, DyingInv, NEW t \in Threads, Query(t)
    PROVE  DyingInv'
<1>1. /\ UNCHANGED <<kind, plumb, chan, fifo, hooked>> /\ SInv /\ pc \in [Threads -> PCs]
      /\ seen \in [Threads -> [v : Vals, st : States]] /\ mode = "cs" /\ thd = t
      /\ pc[t] = "query" /\ t \notin Timed
  BY DEF Query, Inside, kernelVars, AInv, SInv, TypeOK, Undisturbed
<1>2. \A u \in Threads : pc[u] # "ack"
  BY <1>1 DEF AInv, PInv, PlaceInv, Inner
<1>3. CASE pc'[t] = "ack" /\ UNCHANGED waitq
  <2>1. seen' = [seen EXCEPT ![t].v = chan.val] /\ pc' = [pc EXCEPT ![t] = "ack"]
    BY <1>1, <1>3 DEF Query, Conclude
  <2>2. \A u \in Threads : pc'[u] = "ack" => u = t
    BY <1>1, <1>2, <2>1
  <2>3. plumb \in {"cleared", "dead"} => seen'[t].v = 0
    BY <1>1, <2>1 DEF DyingInv
  <2>4. Blocked' = Blocked
    BY <1>1, <2>1 DEF Blocked
  <2> QED BY <1>1, <2>2, <2>3, <2>4 DEF DyingInv
<1>4. CASE \E v \in Vals : Conclude(t, v)
  <2>1. \A u \in Threads : pc'[u] # "ack"
    BY <1>2, <1>4 DEF Conclude
  <2>2. \A u \in Threads : u # t /\ pc'[u] = "blocked" => pc[u] = "blocked"
    BY <1>4 DEF Conclude
  <2>3. CASE pc'[t] = "blocked"
    <3>1. plumb = "dead" => chan.ack = 0
      BY <1>1, <2>3, BlocksSettled DEF DyingInv
    <3> QED BY <1>1, <2>1, <3>1 DEF DyingInv
  <2>4. CASE pc'[t] # "blocked"
    BY <1>1, <2>1, <2>2, <2>4, DyingSame
  <2> QED BY <2>3, <2>4
<1>5. cnt \in Vals /\ chan.val \in Vals
  BY <1>1, ValuesAre
<1> QED BY <1>1, <1>3, <1>4, <1>5 DEF Query, countVars

LEMMA NextDying ==
    PeerDies /\ Undisturbed /\ NextAwaited
        => (AInv /\ EventInv /\ DyingInv /\ [Next]_vars => DyingInv')
<1> SUFFICES ASSUME PeerDies, Undisturbed, NextAwaited, AInv, EventInv, DyingInv, [Next]_vars
             PROVE  DyingInv'
  OBVIOUS
<1>1. pc \in [Threads -> PCs] /\ SInv /\ chan \in Endpoint
  BY DEF AInv, SInv, TypeOK
<1>2. CASE UNCHANGED vars
  BY <1>2, DyingSame DEF vars, kernelVars
<1>3. CASE (\E k \in 1 .. MaxStep : Send(k)) \/ Plumber
  BY <1>3, KernelDying
<1>4. CASE TakeEvent
  BY <1>4, TakeDying
<1>5. CASE Activate \/ HandlerDone \/ Reactivate \/ \E k \in 1 .. MaxStep : Advance(k)
  <2>1. UNCHANGED <<kind, plumb, chan, fifo, hooked, seen>>
    BY <1>5 DEF Activate, HandlerDone, Reactivate, Advance, kernelVars
  <2>2. \A t \in Threads : /\ pc'[t] = "blocked" => pc[t] = "blocked"
                           /\ pc'[t] = "ack" => pc[t] = "ack"
    BY <1>5 DEF Activate, HandlerDone, Reactivate, RunTimeouts, Advance, Notify
  <2> QED BY <2>1, <2>2, DyingSame
<1>6. ASSUME NEW t \in Threads, Resume(t) \/ Critical(t) \/ Calls(t) \/ Expire(t)
      PROVE  DyingInv'
  <2>1. pc[t] # "yielded" /\ pc[t] # "unmask" /\ t \notin Maskers
    BY DEF AInv, PInv, PlaceInv, Undisturbed
  <2>2. CASE Query(t)
    BY <2>2, QueryDying
  <2>3. CASE Ack(t)
    <3>1. /\ UNCHANGED <<kind, plumb, hooked, fifo, seen>> /\ pc[t] = "ack"
          /\ pc' = [pc EXCEPT ![t] = "query"]
          /\ chan'.val = chan.val /\ chan'.state = chan.state /\ chan'.ack = seen[t].v
      BY <1>1, <2>3 DEF Ack, Endpoint
    <3>2. hooked
      BY <3>1 DEF AInv, PInv, PlaceInv
    <3>3. Blocked' = Blocked
      BY <1>1, <3>1 DEF Blocked
    <3>4. \A u \in Threads : pc'[u] = "ack" => pc[u] = "ack"
      BY <1>1, <3>1
    <3> QED BY <3>1, <3>2, <3>3, <3>4 DEF DyingInv
  <2>4. CASE AttachDone(t)
    <3>1. /\ UNCHANGED <<kind, plumb, chan, fifo, seen>> /\ hooked'
          /\ \A u \in Threads : /\ pc'[u] = "blocked" => pc[u] = "blocked"
                                /\ pc'[u] = "ack" => pc[u] = "ack"
      BY <2>4 DEF AttachDone, kernelVars
    <3>2. UNCHANGED <<kind, plumb, chan, fifo>>
      BY <3>1
    <3>3. \A u \in Threads : pc'[u] = "ack" => pc[u] = "ack" /\ seen'[u] = seen[u]
      BY <3>1
    <3> QED BY <3>1, <3>2, <3>3, DyingSame
  <2>5. CASE Resume(t) \/ Calls(t) \/ Expire(t)
    <3>1. UNCHANGED <<kind, plumb, chan, fifo, hooked>>
      BY <2>5 DEF Resume, Calls, Await, EnterCS, Read, Attach, Mask, Unmask, UnmaskDone,
                  MaskAll, UnmaskAll, Expire, kernelVars
    <3>2. \A u \in Threads : pc'[u] = "blocked" => pc[u] = "blocked"
      BY <1>1, <2>1, <2>5 DEF Resume, Calls, Await, EnterCS, Read, Attach, Mask, Unmask,
                        UnmaskDone, MaskAll, UnmaskAll, Expire, Notify
    <3>3. \A u \in Threads : pc'[u] = "ack" => pc[u] = "ack" /\ seen'[u] = seen[u]
      <4>1. CASE Attach(t)
        <5>1. pc' = [pc EXCEPT ![t] = "attach"] /\ seen' = [seen EXCEPT ![t].v = chan.val]
          BY <4>1 DEF Attach
        <5> QED BY <1>1, <5>1 DEF SInv, TypeOK
      <4>2. CASE ~Attach(t)
        <5>1. UNCHANGED seen
          BY <2>1, <2>5, <4>2 DEF Resume, Calls, Await, EnterCS, Read, Mask, Unmask,
                        UnmaskDone, MaskAll, UnmaskAll, Expire
        <5> QED BY <5>1, <1>1, <2>1, <2>5 DEF Resume, Calls, Await, EnterCS, Read, Attach,
                        Mask, Unmask, UnmaskDone, MaskAll, UnmaskAll, Expire, Notify
      <4> QED BY <4>1, <4>2
    <3> QED BY <3>1, <3>2, <3>3, DyingSame
  <2> QED BY <1>6, <2>2, <2>3, <2>4, <2>5 DEF Critical
<1> QED BY <1>2, <1>3, <1>4, <1>5, <1>6 DEF Next, Handler

\* The Plumber's kick lists the endpoint, if it was not listed.
LEMMA KickLists ==
    ASSUME SInv, [Next]_vars, plumb = "dead", plumb' = "kicked",
           chan.val = chan.ack \/ fifo > 0
    PROVE  fifo' > 0
<1>1. Kick
  BY DEF Next, Send, Advance, Plumber, ClearPeer, MarkDead, CloseTX, Plumb, Activate,
         Handler, TakeEvent, HandlerDone, Reactivate, Resume, Critical, Query, Ack,
         AttachDone, Calls, Await, EnterCS, Read, Attach, Mask, Unmask, UnmaskDone, MaskAll,
         UnmaskAll, Expire, vars, kernelVars
<1>2. fifo \in Nat /\ fifo' = IF chan.val = chan.ack THEN fifo + 1 ELSE fifo
  BY <1>1 DEF Kick, Plumb, Listed, SInv, TypeOK
<1> QED BY <1>2

\* When a destroyed peer's channel is closed, a thread that waits on it is
\* told: its endpoint is put in the FIFO, whatever was acknowledged
\* between the steps of the Plumber, by the one thread that uses the
\* channel or, if it is used undisturbed, by any.
THEOREM DeathIsAnnounced ==
    ASSUME PeerDies, Alone \/ (Undisturbed /\ NextAwaited)
    PROVE  Spec => EnlistedWhenDead
<1> DEFINE Enlists == hooked /\ Waiters # {} /\ plumb = "dead" /\ plumb' = "kicked"
                          => fifo' > 0
<1>1. CASE Alone
  <2>1. Init => DeathInv
    BY InitDeath
  <2>2. SInv /\ DeathInv /\ [Next]_vars => DeathInv'
    BY <1>1, NextDeath
  <2>3. SInv /\ DeathInv /\ [Next]_vars => Enlists
    BY KickLists, SleepersAre DEF DeathInv
  <2>4. SInv /\ DeathInv /\ [Next]_vars => [Enlists]_vars
    BY <2>3
  <2> QED BY <2>1, <2>2, <2>4, SInvHolds, PTL DEF Spec, EnlistedWhenDead
<1>2. CASE Undisturbed /\ NextAwaited
  <2>1. Init => EventInv /\ DyingInv
    BY <1>2, InitEventInv, InitDying
  <2>2. AInv /\ EventInv /\ DyingInv /\ [Next]_vars => EventInv' /\ DyingInv'
    BY <1>2, NextEventInv, NextDying
  <2>3. AInv /\ EventInv /\ DyingInv /\ [Next]_vars => Enlists
    BY KickLists, SleepersAre DEF AInv, DyingInv
  <2>4. AInv /\ EventInv /\ DyingInv /\ [Next]_vars => [Enlists]_vars
    BY <2>3
  <2>5. Spec => []AInv
    BY <1>2, AInvHolds
  <2> QED BY <2>1, <2>2, <2>4, <2>5, PTL DEF Spec, EnlistedWhenDead
<1> QED BY <1>1, <1>2

=============================================================================
