---------------------------- MODULE MMEntryProofs ----------------------------
(***************************************************************************)
(* The user-level scheduler: what each of its operations preserves,        *)
(* whoever calls it (the run queue, the mark of the critical thread, the   *)
(* context slots, the activation mode of every thread and the count of     *)
(* threads).  Then page faults over it: what keeps the faults, the workers *)
(* and the fault structures in step, for every sequence of calls, faults   *)
(* and activations.  For any threads, order of starting, workers, number   *)
(* of structures and depth of sections.                                    *)
(***************************************************************************)
EXTENDS MMEntry, SequenceTheorems, FiniteSetTheorems, WellFoundedInduction,
        TLAPS

-----------------------------------------------------------------------------
(* Queues.                                                                 *)

\* The queue q holds each thread of S once, and nobody else.
Holds(q, S) ==
    /\ q \in Seq(Threads)
    /\ \A i, j \in DOMAIN q : q[i] = q[j] => i = j
    /\ {q[i] : i \in DOMAIN q} = S

LEMMA InsertAtIs ==
    ASSUME NEW S, NEW q \in Seq(S), NEW e \in S, NEW k \in 1 .. Len(q) + 1
    PROVE  /\ InsertAt(q, k, e) \in Seq(S)
           /\ Len(InsertAt(q, k, e)) = Len(q) + 1
           /\ \A i \in 1 .. Len(q) + 1 :
                 InsertAt(q, k, e)[i] = IF i < k THEN q[i]
                                        ELSE IF i = k THEN e ELSE q[i - 1]
<1> DEFINE a == SubSeq(q, 1, k - 1)
           c == SubSeq(q, k, Len(q))
<1>1. /\ Len(q) \in Nat /\ k \in Int /\ k - 1 \in Int
      /\ \A i \in 1 .. Len(q) : q[i] \in S
  OBVIOUS
<1>2. /\ a \in Seq(S) /\ Len(a) = k - 1
      /\ \A i \in 1 .. k - 1 : a[i] = q[i]
  <2>1. /\ a \in Seq(S)
        /\ Len(a) = IF 1 <= k - 1 THEN k - 1 - 1 + 1 ELSE 0
        /\ \A i \in 1 .. k - 1 - 1 + 1 : a[i] = q[1 + i - 1]
    BY <1>1, SubSeqProperties
  <2> HIDE DEF a
  <2> QED BY <1>1, <2>1
<1>3. /\ c \in Seq(S) /\ Len(c) = Len(q) - k + 1
      /\ \A i \in 1 .. Len(q) - k + 1 : c[i] = q[k + i - 1]
  <2>1. /\ c \in Seq(S)
        /\ Len(c) = IF k <= Len(q) THEN Len(q) - k + 1 ELSE 0
        /\ \A i \in 1 .. Len(q) - k + 1 : c[i] = q[k + i - 1]
    BY <1>1, SubSeqProperties
  <2> HIDE DEF c
  <2> QED BY <1>1, <2>1
<1>4. <<e>> \in Seq(S) /\ Len(<<e>>) = 1 /\ <<e>>[1] = e
  OBVIOUS
<1> DEFINE m == a \o <<e>>
<1> HIDE DEF a, c
<1>5. /\ m \in Seq(S) /\ Len(m) = k
      /\ \A i \in 1 .. k : m[i] = IF i <= k - 1 THEN a[i] ELSE e
  <2>1. /\ m \in Seq(S) /\ Len(m) = Len(a) + 1
        /\ \A i \in 1 .. Len(a) + 1 :
              m[i] = IF i <= Len(a) THEN a[i] ELSE <<e>>[i - Len(a)]
    BY <1>2, <1>4, ConcatProperties
  <2> HIDE DEF m
  <2>2. ASSUME NEW i \in 1 .. k, i > k - 1 PROVE <<e>>[i - Len(a)] = e
    <3>1. i - Len(a) = 1
      BY <1>1, <1>2, <2>2
    <3> QED BY <3>1, <1>4
  <2> QED BY <1>1, <1>2, <2>1, <2>2
<1> HIDE DEF m
<1>6. /\ m \o c \in Seq(S) /\ Len(m \o c) = Len(m) + Len(c)
      /\ \A i \in 1 .. Len(m) + Len(c) :
            (m \o c)[i] = IF i <= Len(m) THEN m[i] ELSE c[i - Len(m)]
  BY <1>3, <1>5, ConcatProperties
<1>7. InsertAt(q, k, e) = m \o c
  BY DEF InsertAt, m, a, c
<1>8. ASSUME NEW i \in 1 .. Len(q) + 1
      PROVE  (m \o c)[i] = IF i < k THEN q[i] ELSE IF i = k THEN e ELSE q[i - 1]
  <2>1. CASE i <= k
    BY <1>1, <1>2, <1>3, <1>5, <1>6, <2>1
  <2>2. CASE i > k
    <3>1. i - k \in 1 .. Len(q) - k + 1 /\ k + (i - k) - 1 = i - 1
      BY <1>1, <2>2
    <3>2. c[i - k] = q[i - 1]
      BY <1>3, <3>1
    <3>3. i \in 1 .. Len(m) + Len(c) /\ ~(i <= Len(m)) /\ i - Len(m) = i - k
      BY <1>1, <1>3, <1>5, <2>2
    <3>4. (m \o c)[i] = c[i - k]
      BY <1>6, <3>3
    <3> QED BY <1>1, <2>2, <3>2, <3>4
  <2>3. i <= k \/ i > k
    BY <1>1
  <2> QED BY <2>1, <2>2, <2>3, Zenon
<1> QED BY <1>1, <1>3, <1>5, <1>6, <1>7, <1>8

\* Whatever its place, a newcomer joins those that the queue holds.
LEMMA InsertHolds ==
    ASSUME NEW q, NEW S, Holds(q, S), NEW t \in Threads \ S, NEW k \in 1 .. Len(q) + 1
    PROVE  /\ Holds(InsertAt(q, k, t), S \cup {t})
           /\ InsertAt(q, k, t) # <<>>
           /\ k > 1 => Head(InsertAt(q, k, t)) = Head(q)
<1> DEFINE r == InsertAt(q, k, t)
<1>1. q \in Seq(Threads) /\ Len(q) \in Nat /\ DOMAIN q = 1 .. Len(q)
  BY DEF Holds
<1>2. /\ r \in Seq(Threads) /\ Len(r) = Len(q) + 1
      /\ \A i \in 1 .. Len(q) + 1 :
            r[i] = IF i < k THEN q[i] ELSE IF i = k THEN t ELSE q[i - 1]
  BY <1>1, InsertAtIs
<1> HIDE DEF r
<1>3. DOMAIN r = 1 .. Len(q) + 1
  BY <1>1, <1>2
<1>4. \A i \in 1 .. Len(q) : q[i] \in S
  BY <1>1 DEF Holds
<1>5. ASSUME NEW i \in 1 .. Len(q) + 1, NEW j \in 1 .. Len(q) + 1, r[i] = r[j]
      PROVE  i = j
  <2> DEFINE at(n) == IF n < k THEN n ELSE n - 1
  <2>1. ASSUME NEW n \in 1 .. Len(q) + 1, n # k
        PROVE  at(n) \in 1 .. Len(q) /\ r[n] = q[at(n)]
    BY <1>1, <1>2, <2>1
  <2>2. i = k <=> j = k
    BY <1>2, <1>4, <1>5, <2>1
  <2>3. CASE i # k
    <3>1. q[at(i)] = q[at(j)] /\ at(i) \in 1 .. Len(q) /\ at(j) \in 1 .. Len(q)
      BY <1>5, <2>1, <2>2, <2>3
    <3>2. at(i) = at(j)
      BY <1>1, <3>1 DEF Holds
    <3> QED BY <1>1, <2>2, <2>3, <3>2
  <2> QED BY <2>2, <2>3
<1>6. {r[i] : i \in DOMAIN r} = S \cup {t}
  <2>1. ASSUME NEW i \in 1 .. Len(q) + 1 PROVE r[i] \in S \cup {t}
    <3>1. CASE i = k
      BY <1>2, <3>1
    <3>2. CASE i < k
      BY <1>1, <1>2, <1>4, <3>2
    <3>3. CASE i > k
      <4>1. i - 1 \in 1 .. Len(q)
        BY <1>1, <3>3
      <4> QED BY <1>1, <1>2, <1>4, <3>3, <4>1
    <3> QED BY <1>1, <3>1, <3>2, <3>3
  <2>2. ASSUME NEW s \in S PROVE \E i \in 1 .. Len(q) + 1 : r[i] = s
    <3>1. PICK i \in 1 .. Len(q) : q[i] = s
      BY <1>1 DEF Holds
    <3>2. CASE i < k
      BY <1>1, <1>2, <3>1, <3>2
    <3>3. CASE i >= k
      <4>1. i + 1 \in 1 .. Len(q) + 1 /\ ~(i + 1 < k) /\ i + 1 # k /\ i + 1 - 1 = i
        BY <1>1, <3>3
      <4>2. r[i + 1] = s
        BY <1>2, <3>1, <4>1
      <4> QED BY <4>1, <4>2
    <3> QED BY <1>1, <3>2, <3>3
  <2>3. r[k] = t
    BY <1>2
  <2> QED BY <1>3, <2>1, <2>2, <2>3
<1>7. Holds(r, S \cup {t})
  BY <1>2, <1>3, <1>5, <1>6 DEF Holds
<1>8. r # <<>> /\ Head(r) = r[1]
  BY <1>1, <1>2
<1>9. ASSUME k > 1 PROVE Head(r) = Head(q)
  <2>1. Head(q) = q[1]
    BY <1>1, <1>9
  <2> QED BY <1>1, <1>2, <1>8, <1>9, <2>1
<1> QED BY <1>7, <1>8, <1>9 DEF r

LEMMA AppendHolds ==
    ASSUME NEW q, NEW S, Holds(q, S), NEW t \in Threads \ S
    PROVE  /\ Holds(Append(q, t), S \cup {t})
           /\ Append(q, t) # <<>>
           /\ Head(Append(q, t)) = IF q = <<>> THEN t ELSE Head(q)
<1> DEFINE r == Append(q, t)
<1>1. q \in Seq(Threads) /\ Len(q) \in Nat /\ DOMAIN q = 1 .. Len(q)
  BY DEF Holds
<1>2. /\ r \in Seq(Threads) /\ Len(r) = Len(q) + 1 /\ DOMAIN r = 1 .. Len(q) + 1
      /\ \A i \in 1 .. Len(q) : r[i] = q[i]
      /\ r[Len(q) + 1] = t
  BY <1>1
<1>3. r # <<>> /\ Head(r) = IF q = <<>> THEN t ELSE Head(q)
  <2>1. r # <<>>
    BY <1>1, AppendProperties
  <2> QED BY <1>1, <2>1, HeadTailAppend
<1> HIDE DEF r
<1>4. \A i \in 1 .. Len(q) : q[i] \in S
  BY <1>1 DEF Holds
<1>5. \A i, j \in DOMAIN r : r[i] = r[j] => i = j
  BY <1>1, <1>2, <1>4 DEF Holds
<1>6. {r[i] : i \in DOMAIN r} = S \cup {t}
  BY <1>1, <1>2, <1>4 DEF Holds
<1> QED BY <1>2, <1>3, <1>5, <1>6 DEF Holds, r

LEMMA TailHolds ==
    ASSUME NEW q, NEW S, Holds(q, S), q # <<>>
    PROVE  Head(q) \in S /\ Head(q) \in Threads /\ Holds(Tail(q), S \ {Head(q)})
<1> DEFINE r == Tail(q)
<1>1. /\ q \in Seq(Threads) /\ Len(q) \in Nat \ {0} /\ DOMAIN q = 1 .. Len(q)
      /\ Head(q) = q[1] /\ Head(q) \in Threads
  BY DEF Holds
<1>2. /\ r \in Seq(Threads) /\ DOMAIN r = 1 .. Len(q) - 1
      /\ \A i \in 1 .. Len(q) - 1 : r[i] = q[i + 1]
  BY <1>1
<1> HIDE DEF r
<1>3. ASSUME NEW i \in DOMAIN r, NEW j \in DOMAIN r, r[i] = r[j] PROVE i = j
  <2>1. i + 1 \in DOMAIN q /\ j + 1 \in DOMAIN q /\ q[i + 1] = q[j + 1]
    BY <1>1, <1>2, <1>3
  <2>2. i + 1 = j + 1
    BY <2>1 DEF Holds
  <2> QED BY <1>1, <1>2, <2>2
<1>4. ASSUME NEW i \in 1 .. Len(q) - 1 PROVE r[i] \in S \ {Head(q)}
  <2>1. i + 1 \in DOMAIN q /\ i + 1 # 1 /\ 1 \in DOMAIN q
    BY <1>1
  <2> QED BY <1>1, <1>2, <2>1 DEF Holds
<1>5. ASSUME NEW s \in S \ {Head(q)} PROVE \E i \in 1 .. Len(q) - 1 : r[i] = s
  <2>1. PICK i \in DOMAIN q : q[i] = s
    BY DEF Holds
  <2>2. i - 1 \in 1 .. Len(q) - 1 /\ (i - 1) + 1 = i
    BY <1>1, <2>1
  <2> QED BY <1>2, <2>1, <2>2
<1>6. {r[i] : i \in DOMAIN r} = S \ {Head(q)}
  BY ZenonT(30), <1>2, <1>4, <1>5
<1>7. Head(q) \in S
  BY <1>1 DEF Holds
<1> QED BY <1>1, <1>2, <1>3, <1>6, <1>7 DEF Holds, r

LEMMA EmptyHolds == \A S : Holds(<<>>, S) <=> S = {}
BY DEF Holds

\* The current thread, at the head, is what BlockThread and Exit take off.
LEMMA DequeuedIsTail ==
    ASSUME NEW S, Holds(runq, S), runq # <<>>
    PROVE  Dequeued(Head(runq)) = Tail(runq)
<1>1. /\ runq \in Seq(Threads) /\ Len(runq) \in Nat \ {0}
      /\ DOMAIN runq = 1 .. Len(runq) /\ Head(runq) = runq[1]
  BY DEF Holds
<1> DEFINE k == CHOOSE i \in DOMAIN runq : runq[i] = Head(runq)
<1>2. k = 1
  BY <1>1 DEF Holds
<1> HIDE DEF k
<1>3. SubSeq(runq, 1, k - 1) = <<>>
  BY <1>1, <1>2, SubSeqEmpty
<1>4. SubSeq(runq, k + 1, Len(runq)) = Tail(runq)
  BY <1>1, <1>2, TailIsSubSeq
<1>5. <<>> \o Tail(runq) = Tail(runq)
  BY <1>1, HeadTailProperties, ConcatEmptySeq
<1> QED BY <1>3, <1>4, <1>5 DEF Dequeued, RemoveAt, k

\* A set of positions has a last one.
LEMMA LastExists ==
    ASSUME NEW n \in Nat, NEW L \in SUBSET (1 .. n), L # {}
    PROVE  \E i \in L : \A j \in L : j <= i
<1> DEFINE T == {n - i : i \in L}
<1>1. T \subseteq Nat /\ T # {}
  <2>1. \A i \in L : n - i \in Nat
    OBVIOUS
  <2> QED BY <2>1
<1> HIDE DEF T
<1>2. PICK x \in T : \A y \in T : ~(<<y, x>> \in OpToRel(<, Nat))
  BY <1>1, NatLessThanWellFounded, WFMin
<1>3. \A y \in T : ~(y < x)
  BY <1>1, <1>2 DEF OpToRel
<1>4. PICK i \in L : x = n - i
  BY DEF T
<1>5. \A j \in L : n - j \in T
  BY DEF T
<1> QED BY <1>3, <1>4, <1>5

LEMMA LeadingIs ==
    ASSUME NEW q \in Seq(Threads), NEW crit \in [Threads -> Nat]
    PROVE  /\ LeadingCritical(q, crit) \in 0 .. Len(q)
           /\ q # <<>> /\ crit[Head(q)] > 0 => LeadingCritical(q, crit) > 0
<1> DEFINE lead == {i \in DOMAIN q : \A j \in 1 .. i : crit[q[j]] > 0}
<1>1. Len(q) \in Nat /\ DOMAIN q = 1 .. Len(q)
  OBVIOUS
<1>2. lead \in SUBSET (1 .. Len(q))
  BY <1>1
<1>3. LeadingCritical(q, crit) =
          IF lead = {} THEN 0 ELSE CHOOSE i \in lead : \A j \in lead : j <= i
  BY DEF LeadingCritical
<1>4. ASSUME q # <<>>, crit[Head(q)] > 0 PROVE lead # {}
  <2>1. 1 \in DOMAIN q /\ \A j \in 1 .. 1 : crit[q[j]] > 0
    BY <1>4
  <2> QED BY <2>1
<1> HIDE DEF lead
<1>5. CASE lead = {}
  BY <1>1, <1>3, <1>4, <1>5
<1>6. CASE lead # {}
  <2>1. LeadingCritical(q, crit) \in lead
    <3>1. \E i \in lead : \A j \in lead : j <= i
      BY <1>1, <1>2, <1>6, LastExists
    <3> QED BY <1>3, <1>6, <3>1
  <2>2. LeadingCritical(q, crit) \in 1 .. Len(q)
    BY <1>2, <2>1
  <2> QED BY <1>1, <2>2
<1> QED BY <1>5, <1>6

\* Whoever becomes able to run does not displace the head, unless it is
\* critical and the head is not.
LEMMA UnblockedHolds ==
    ASSUME NEW q, NEW S, Holds(q, S), NEW t \in Threads \ S,
           NEW cs \in BOOLEAN, NEW crit \in [Threads -> Nat]
    PROVE  /\ Holds(Unblocked(q, t, cs, crit), S \cup {t})
           /\ Unblocked(q, t, cs, crit) # <<>>
           /\ q # <<>> /\ (cs => crit[Head(q)] > 0)
                 => Head(Unblocked(q, t, cs, crit)) = Head(q)
<1> DEFINE k == IF cs THEN LeadingCritical(q, crit) + 1 ELSE Len(q) + 1
<1>1. q \in Seq(Threads) /\ Len(q) \in Nat /\ (q # <<>> => Len(q) > 0)
  BY EmptySeq DEF Holds
<1>2. /\ LeadingCritical(q, crit) \in 0 .. Len(q)
      /\ q # <<>> /\ crit[Head(q)] > 0 => LeadingCritical(q, crit) > 0
  BY <1>1, LeadingIs
<1>3. /\ k \in 1 .. Len(q) + 1
      /\ q # <<>> /\ (cs => crit[Head(q)] > 0) => k > 1
  BY <1>1, <1>2
<1>4. Unblocked(q, t, cs, crit) = InsertAt(q, k, t)
  BY DEF Unblocked
<1> HIDE DEF k
<1> QED BY <1>3, <1>4, InsertHolds

LEMMA PreemptedHolds ==
    ASSUME NEW q, NEW S, Holds(q, S)
    PROVE  Holds(Preempted(q), S) /\ (q = <<>> <=> Preempted(q) = <<>>)
<1>1. CASE Preemptive /\ q # <<>>
  <2>1. /\ Head(q) \in S /\ Head(q) \in Threads
        /\ Holds(Tail(q), S \ {Head(q)})
    BY <1>1, TailHolds
  <2>2. /\ Holds(Append(Tail(q), Head(q)), (S \ {Head(q)}) \cup {Head(q)})
        /\ Append(Tail(q), Head(q)) # <<>>
    BY <2>1, AppendHolds
  <2>3. (S \ {Head(q)}) \cup {Head(q)} = S
    BY <2>1
  <2> QED BY <1>1, <2>2, <2>3 DEF Preempted
<1>2. CASE ~(Preemptive /\ q # <<>>)
  BY <1>2 DEF Preempted
<1> QED BY <1>1, <1>2

-----------------------------------------------------------------------------
(* The invariant.                                                          *)

\* The threads that are in the queue.
Ready == {t \in Threads : state[t] \in {"Runable", "ending"}}

QueueInv == Holds(runq, Ready)

\* What critcx is for a current thread t.
Mark(t) == IF critical[t] > 0 THEN t ELSE NoThread

\* While no thread executes, either a handler runs, and a mark it finds is
\* that of the thread it interrupted, or the domain is idle.
CurrentInv ==
    /\ exec # NoThread =>
           /\ runq # <<>> /\ Head(runq) = exec /\ save = exec /\ ran = exec
           /\ ~yielded[exec] /\ critcx = Mark(exec)
    /\ exec = NoThread /\ critcx # NoThread =>
           /\ runq # <<>> /\ Head(runq) = critcx /\ critical[critcx] > 0
           /\ ~yielded[critcx] /\ ~act
    /\ exec = NoThread /\ act => runq = <<>>

SlotInv ==
    \A t \in Threads : t # exec /\ state[t] # "gone"
        => slot[t] = IF yielded[t] THEN "jmpbuf" ELSE "context"

\* The level of the section that the mark v, of vpcritical, stands for.
Level(v) == IF v < 0 THEN -v ELSE v

\* The count c and the mark v agree with the sections o: below the marked
\* one none asked for activations to be off, and it alone maps the stack.
Nested(c, v, o) ==
    /\ c = Len(o) /\ Level(v) <= c
    /\ v > 0 => o[Level(v)] = "vp"
    /\ v < 0 => o[Level(v)] = "map"
    /\ \A i \in DOMAIN o : /\ (v = 0 \/ i < Level(v)) => o[i] = "cs"
                           /\ v # 0 /\ i > Level(v) => o[i] # "map"

\* The activation mode m is one that a thread may have in these sections.
Fits(c, v, o, m) ==
    /\ v = 0 => m
    /\ v > 0 => ~m
    /\ v < 0 => /\ c = -v => m
                /\ (\E i \in DOMAIN o : o[i] = "vp") => ~m

\* The mode of t: the present one, or the one it will be resumed with.
Mode(t) == IF exec = t THEN act ELSE IF yielded[t] THEN back[t] ELSE TRUE

NestedIn(t) == Nested(critical[t], vpcritical[t], open[t])
FitsIn(t, m) == Fits(critical[t], vpcritical[t], open[t], m)

SectionInv == \A t \in Threads : NestedIn(t) /\ FitsIn(t, Mode(t))

BabyInv ==
    /\ \A t \in Threads : baby[t] # NoThread => state[baby[t]] = "forked"
    /\ \A t, u \in Threads : baby[t] = baby[u] /\ baby[t] # NoThread => t = u

\* The threads that count.
Live == {t \in Threads \ daemon : state[t] \in {"forked", "Runable", "Blocked"}}

CountInv ==
    /\ IsFiniteSet(Live) /\ active = Cardinality(Live)
    /\ \A t \in daemon : state[t] # "new"

LifeInv == BabyInv /\ CountInv

ThreadsInv ==
    ThreadsTypeOK /\ QueueInv /\ CurrentInv /\ SlotInv /\ SectionInv /\ LifeInv

LEMMA PropertiesHold ==
    ASSUME ThreadsInv
    PROVE  CurrentMarked /\ SlotsRestored /\ ModeKept /\ CountKept
<1> USE DEF ThreadsInv
<1>1. CurrentMarked
  <2>1. exec # NoThread => critical[exec] \in Nat
    BY DEF ThreadsTypeOK
  <2>2. critcx # NoThread => critical[critcx] \in Nat
    BY DEF ThreadsTypeOK
  <2> QED BY <2>1, <2>2 DEF CurrentMarked, QueueInv, Holds, Ready, CurrentInv, Mark, None
<1>2. SlotsRestored
  BY DEF SlotsRestored, SlotInv
<1>3. ModeKept
  <2> SUFFICES ASSUME exec # NoThread
               PROVE  IF Asked(exec) # {} THEN ~act
                      ELSE act \/ (vpcritical[exec] < 0 /\ Unmarkable(exec))
    BY DEF ModeKept
  <2>1. PICK t \in Threads : t = exec
    BY DEF ThreadsTypeOK
  <2> DEFINE c == critical[t]
             v == vpcritical[t]
             o == open[t]
  <2>2. Nested(c, v, o) /\ Fits(c, v, o, act)
    BY <2>1 DEF SectionInv, Mode, NestedIn, FitsIn
  <2>3. /\ o \in Seq({"cs", "vp", "map"}) /\ v \in Int /\ c \in Nat /\ act \in BOOLEAN
        /\ Asked(exec) = {i \in DOMAIN o : o[i] = "vp"}
        /\ Unmarkable(exec) <=> \E i \in DOMAIN o : i > -v /\ o[i] = "cs"
    BY <2>1 DEF ThreadsTypeOK, Asked, Unmarkable
  <2> HIDE DEF c, v, o
  <2>4. DOMAIN o = 1 .. c
    BY <2>2, <2>3 DEF Nested
  <2>5. CASE v = 0
    BY <2>2, <2>3, <2>5 DEF Nested, Fits
  <2>6. CASE v > 0
    <3>1. v \in Asked(exec)
      BY <2>2, <2>3, <2>4, <2>6 DEF Nested, Level
    <3> QED BY <2>2, <2>3, <2>6, <3>1 DEF Fits
  <2>7. CASE v < 0
    <3>1. CASE Asked(exec) # {}
      BY <2>2, <2>3, <2>7, <3>1 DEF Fits
    <3>2. CASE Asked(exec) = {} /\ c = -v
      BY <2>2, <2>3, <2>7, <3>2 DEF Fits
    <3>3. CASE Asked(exec) = {} /\ c # -v
      <4>1. c > -v /\ c \in DOMAIN o
        BY <2>2, <2>3, <2>4, <2>7, <3>3 DEF Nested, Level
      <4>2. o[c] # "map" /\ o[c] # "vp"
        BY <2>2, <2>3, <2>7, <3>3, <4>1 DEF Nested, Level
      <4>3. o[c] = "cs"
        BY <2>3, <2>4, <4>1, <4>2
      <4> QED BY <2>1, <2>3, <2>7, <3>3, <4>1, <4>3 DEF v
    <3> QED BY <3>1, <3>2, <3>3
  <2> QED BY <2>3, <2>5, <2>6, <2>7
<1>4. CountKept
  BY DEF CountKept, LifeInv, CountInv, Live
<1> QED BY <1>1, <1>2, <1>3, <1>4

-----------------------------------------------------------------------------
(* Sections.                                                               *)

SectionsTypeOK ==
    /\ critical \in [Threads -> Nat] /\ vpcritical \in [Threads -> Int]
    /\ open \in [Threads -> Seq({"cs", "vp", "map"})]
    /\ entered \in [Threads -> Nat]

OthersKept(t) ==
    \A u \in Threads \ {t} :
        /\ critical'[u] = critical[u] /\ vpcritical'[u] = vpcritical[u]
        /\ open'[u] = open[u]

\* The sections of t are still in order after a step.
Sectioned(t) == SectionsTypeOK' /\ OthersKept(t) /\ NestedIn(t)'

Kinds == {"cs", "vp", "map"}

\* A section within others, or the one whose stack page is to be mapped.
LEMMA PushNested ==
    ASSUME NEW c \in Nat, NEW v \in Int, NEW o \in Seq(Kinds), NEW m \in BOOLEAN,
           Nested(c, v, o), Fits(c, v, o, m)
    PROVE  /\ /\ Nested(c + 1, v, Append(o, "cs"))
              /\ Fits(c + 1, v, Append(o, "cs"), m)
           /\ v = 0 => /\ Nested(c + 1, -(c + 1), Append(o, "map"))
                       /\ Fits(c + 1, -(c + 1), Append(o, "map"), m)
           /\ v # 0 => /\ Nested(c + 1, v, Append(o, "vp"))
                       /\ Fits(c + 1, v, Append(o, "vp"), FALSE)
<1>1. c = Len(o) /\ DOMAIN o = 1 .. c
  BY DEF Nested
<1>2. ASSUME NEW k \in Kinds
      PROVE  /\ Len(Append(o, k)) = c + 1 /\ DOMAIN Append(o, k) = 1 .. c + 1
             /\ \A i \in 1 .. c : Append(o, k)[i] = o[i]
             /\ Append(o, k)[c + 1] = k
  BY <1>1
<1>3. "cs" \in Kinds /\ "vp" \in Kinds /\ "map" \in Kinds
  BY DEF Kinds
<1>4. /\ Nested(c + 1, v, Append(o, "cs")) /\ Fits(c + 1, v, Append(o, "cs"), m)
  <2> DEFINE p == Append(o, "cs")
  <2>1. /\ Len(p) = c + 1 /\ DOMAIN p = 1 .. c + 1
        /\ \A i \in 1 .. c : p[i] = o[i]
        /\ p[c + 1] = "cs"
    BY <1>2, <1>3
  <2> HIDE DEF p
  <2>2. Nested(c + 1, v, p)
    BY <1>1, <2>1 DEF Nested, Level
  <2>3. Fits(c + 1, v, p, m)
    BY <1>1, <2>1 DEF Fits, Nested, Level
  <2> QED BY <2>2, <2>3 DEF p
<1>5. ASSUME v = 0
      PROVE  /\ Nested(c + 1, -(c + 1), Append(o, "map"))
             /\ Fits(c + 1, -(c + 1), Append(o, "map"), m)
  <2> DEFINE p == Append(o, "map")
  <2>1. /\ Len(p) = c + 1 /\ DOMAIN p = 1 .. c + 1
        /\ \A i \in 1 .. c : p[i] = o[i]
        /\ p[c + 1] = "map"
    BY <1>2, <1>3
  <2> HIDE DEF p
  <2>2. Nested(c + 1, -(c + 1), p)
    BY <1>1, <1>5, <2>1 DEF Nested, Level
  <2>3. Fits(c + 1, -(c + 1), p, m)
    BY <1>1, <1>5, <2>1 DEF Fits, Nested, Level
  <2> QED BY <2>2, <2>3 DEF p
<1>6. ASSUME v # 0
      PROVE  /\ Nested(c + 1, v, Append(o, "vp"))
             /\ Fits(c + 1, v, Append(o, "vp"), FALSE)
  <2> DEFINE p == Append(o, "vp")
  <2>1. /\ Len(p) = c + 1 /\ DOMAIN p = 1 .. c + 1
        /\ \A i \in 1 .. c : p[i] = o[i]
        /\ p[c + 1] = "vp"
    BY <1>2, <1>3
  <2> HIDE DEF p
  <2>2. Nested(c + 1, v, p)
    BY <1>1, <1>6, <2>1 DEF Nested, Level
  <2>3. Fits(c + 1, v, p, FALSE)
    BY <1>1, <1>6, <2>1 DEF Fits, Nested, Level
  <2> QED BY <2>2, <2>3 DEF p
<1> QED BY <1>4, <1>5, <1>6

\* The page is mapped and the section marked.
LEMMA MarkNested ==
    ASSUME NEW c \in Nat, NEW o \in Seq(Kinds), c > 0, Nested(c, -c, o)
    PROVE  /\ [o EXCEPT ![c] = "vp"] \in Seq(Kinds)
           /\ Nested(c, c, [o EXCEPT ![c] = "vp"])
<1> DEFINE p == [o EXCEPT ![c] = "vp"]
<1>1. c = Len(o) /\ c \in 1 .. Len(o) /\ "vp" \in Kinds
  BY DEF Nested, Kinds
<1>2. /\ p \in Seq(Kinds) /\ Len(p) = c /\ DOMAIN p = 1 .. c
      /\ \A i \in 1 .. c : p[i] = IF i = c THEN "vp" ELSE o[i]
  BY <1>1, ExceptSeq
<1> HIDE DEF p
<1>3. Nested(c, c, p)
  BY <1>1, <1>2 DEF Nested, Level
<1> QED BY <1>2, <1>3 DEF p

\* The section is left, and with it perhaps the last that wanted activations
\* off.
LEMMA PopNested ==
    ASSUME NEW c \in Nat, NEW v \in Int, NEW o \in Seq(Kinds), NEW m \in BOOLEAN,
           Nested(c, v, o), Fits(c, v, o, m), c > 0, v # -c,
           NEW w, w = IF v = c THEN 0 ELSE v,
           NEW n \in BOOLEAN, n <=> (m \/ v = c \/ c - 1 = -v)
    PROVE  /\ Front(o) \in Seq(Kinds)
           /\ Nested(c - 1, w, Front(o)) /\ Fits(c - 1, w, Front(o), n)
<1> DEFINE p == SubSeq(o, 1, c - 1)
<1>1. c = Len(o) /\ DOMAIN o = 1 .. c /\ Front(o) = p /\ c - 1 \in Nat
  BY DEF Nested, Front
<1>2. /\ p \in Seq(Kinds) /\ Len(p) = c - 1
      /\ \A i \in 1 .. c - 1 : p[i] = o[i]
      /\ DOMAIN p = 1 .. c - 1
  <2>1. \A i \in 1 .. c - 1 : o[i] \in Kinds
    BY <1>1
  <2>2. /\ p \in Seq(Kinds)
        /\ Len(p) = IF 1 <= c - 1 THEN c - 1 - 1 + 1 ELSE 0
        /\ \A i \in 1 .. c - 1 - 1 + 1 : p[i] = o[1 + i - 1]
    BY <1>1, <2>1, SubSeqProperties
  <2> HIDE DEF p
  <2> QED BY <1>1, <2>2
<1> HIDE DEF p
<1>3. Nested(c - 1, w, p)
  BY <1>1, <1>2 DEF Nested, Level
<1>4. CASE v >= 0
  BY SMTT(30), <1>1, <1>2, <1>4 DEF Fits, Nested, Level
<1>5. CASE v < 0
  <2>1. w = v /\ -v < c /\ Level(v) = -v
    BY <1>1, <1>5 DEF Nested, Level
  <2>2. CASE c - 1 = -v
    <3>1. \A i \in 1 .. c - 1 : o[i] # "vp"
      BY <1>1, <1>5, <2>1, <2>2 DEF Nested
    <3> QED BY <1>1, <1>2, <1>3, <1>5, <2>1, <2>2, <3>1 DEF Fits
  <2>3. CASE c - 1 # -v
    BY <1>1, <1>2, <1>3, <1>5, <2>1, <2>3 DEF Fits
  <2> QED BY <2>2, <2>3
<1>6. v >= 0 \/ v < 0
  OBVIOUS
<1> QED BY <1>1, <1>2, <1>3, <1>4, <1>5, <1>6

\* The five steps of EnterCS and LeaveCS.
Sections(t) ==
    EnterCS(t) \/ EnterVP(t) \/ StackMapped(t) \/ EnterAgain(t) \/ LeaveCS(t)

LEMMA SectionFacts ==
    ASSUME ThreadsTypeOK, SectionInv, NEW t \in Threads, exec = t
    PROVE  /\ critical[t] \in Nat /\ vpcritical[t] \in Int
           /\ open[t] \in Seq(Kinds) /\ act \in BOOLEAN
           /\ Nested(critical[t], vpcritical[t], open[t])
           /\ Fits(critical[t], vpcritical[t], open[t], act)
BY DEF ThreadsTypeOK, Kinds, SectionInv, NestedIn, FitsIn, Mode

LEMMA EnteringTypes ==
    ASSUME ThreadsTypeOK, NEW t \in Threads, NEW k \in Kinds, Entering(t, k),
           vpcritical' \in [Threads -> Int],
           \A u \in Threads \ {t} : vpcritical'[u] = vpcritical[u]
    PROVE  /\ SectionsTypeOK' /\ OthersKept(t)
           /\ critical'[t] = critical[t] + 1 /\ open'[t] = Append(open[t], k)
<1>1. /\ critical' = [critical EXCEPT ![t] = @ + 1]
      /\ open' = [open EXCEPT ![t] = Append(@, k)]
      /\ entered' = [entered EXCEPT ![t] = @ + 1]
  BY DEF Entering
<1>2. open[t] \in Seq(Kinds) /\ critical[t] \in Nat /\ entered[t] \in Nat
  BY DEF ThreadsTypeOK, Kinds
<1>3. Append(open[t], k) \in Seq(Kinds) /\ critical[t] + 1 \in Nat /\ entered[t] + 1 \in Nat
  BY <1>2
<1>4. SectionsTypeOK'
  BY <1>1, <1>3 DEF ThreadsTypeOK, SectionsTypeOK, Kinds
<1>5. OthersKept(t) /\ critical'[t] = critical[t] + 1 /\ open'[t] = Append(open[t], k)
  BY <1>1 DEF ThreadsTypeOK, OthersKept
<1> QED BY <1>4, <1>5

LEMMA SectionsKept ==
    ASSUME ThreadsTypeOK, SectionInv, NEW t \in Threads, Sections(t)
    PROVE  Sectioned(t) /\ FitsIn(t, act)'
<1>1. exec = t
  BY DEF Sections, EnterCS, EnterVP, StackMapped, EnterAgain, LeaveCS, Executes
<1>2. /\ critical[t] \in Nat /\ vpcritical[t] \in Int
      /\ open[t] \in Seq(Kinds) /\ act \in BOOLEAN
      /\ Nested(critical[t], vpcritical[t], open[t])
      /\ Fits(critical[t], vpcritical[t], open[t], act)
  BY <1>1, SectionFacts
<1>3. "cs" \in Kinds /\ "vp" \in Kinds /\ "map" \in Kinds
  BY DEF Kinds
<1> USE DEF Sectioned, NestedIn, FitsIn
<1>4. CASE EnterCS(t)
  <2>1. Entering(t, "cs") /\ vpcritical' = vpcritical /\ act' = act
    BY <1>4 DEF EnterCS
  <2>2. /\ SectionsTypeOK' /\ OthersKept(t) /\ critical'[t] = critical[t] + 1
        /\ open'[t] = Append(open[t], "cs") /\ vpcritical'[t] = vpcritical[t]
    BY <1>3, <2>1, EnteringTypes DEF ThreadsTypeOK
  <2> QED BY <1>2, <2>1, <2>2, PushNested
<1>5. CASE EnterVP(t)
  <2>1. /\ Entering(t, "map") /\ act' = act /\ vpcritical[t] = 0
        /\ vpcritical' = [vpcritical EXCEPT ![t] = -(critical[t] + 1)]
    BY <1>5 DEF EnterVP
  <2>2. -(critical[t] + 1) \in Int
    BY <1>2
  <2>3. /\ vpcritical'[t] = -(critical[t] + 1) /\ vpcritical' \in [Threads -> Int]
        /\ \A u \in Threads \ {t} : vpcritical'[u] = vpcritical[u]
    BY <2>1, <2>2 DEF ThreadsTypeOK
  <2>4. /\ SectionsTypeOK' /\ OthersKept(t) /\ critical'[t] = critical[t] + 1
        /\ open'[t] = Append(open[t], "map")
    BY <1>3, <2>1, <2>3, EnteringTypes
  <2>5. /\ Nested(critical[t] + 1, -(critical[t] + 1), Append(open[t], "map"))
        /\ Fits(critical[t] + 1, -(critical[t] + 1), Append(open[t], "map"), act)
    BY <1>2, <2>1, PushNested
  <2> QED BY <2>1, <2>3, <2>4, <2>5
<1>6. CASE StackMapped(t)
  <2>1. /\ act' = FALSE /\ vpcritical[t] < 0 /\ vpcritical[t] = -critical[t]
        /\ vpcritical' = [vpcritical EXCEPT ![t] = critical[t]]
        /\ open' = [open EXCEPT ![t][critical[t]] = "vp"]
        /\ critical' = critical /\ entered' = entered
    BY <1>6 DEF StackMapped
  <2>2. critical[t] > 0
    BY <1>2, <2>1
  <2>3. open'[t] = [open[t] EXCEPT ![critical[t]] = "vp"] /\ vpcritical'[t] = critical[t]
    BY <2>1 DEF ThreadsTypeOK
  <2>4. open'[t] \in Seq(Kinds) /\ Nested(critical[t], critical[t], open'[t])
    BY <1>2, <2>1, <2>2, <2>3, MarkNested
  <2>5. SectionsTypeOK' /\ OthersKept(t)
    BY SMTT(30), <1>2, <2>1, <2>3, <2>4 DEF ThreadsTypeOK, SectionsTypeOK, OthersKept, Kinds
  <2>6. Fits(critical[t], critical[t], open'[t], FALSE)
    BY <1>2, <2>2 DEF Fits
  <2> QED BY <2>1, <2>3, <2>4, <2>5, <2>6
<1>7. CASE EnterAgain(t)
  <2>1. /\ Entering(t, "vp") /\ vpcritical' = vpcritical /\ act' = FALSE
        /\ vpcritical[t] # 0
    BY <1>7 DEF EnterAgain
  <2>2. /\ SectionsTypeOK' /\ OthersKept(t) /\ critical'[t] = critical[t] + 1
        /\ open'[t] = Append(open[t], "vp") /\ vpcritical'[t] = vpcritical[t]
    BY <1>3, <2>1, EnteringTypes DEF ThreadsTypeOK
  <2> QED BY <1>2, <2>1, <2>2, PushNested
<1>8. CASE LeaveCS(t)
  <2>1. /\ critical[t] > 0 /\ vpcritical[t] # -critical[t]
        /\ vpcritical' = [vpcritical EXCEPT ![t] = IF @ = critical[t] THEN 0 ELSE @]
        /\ critical' = [critical EXCEPT ![t] = @ - 1]
        /\ open' = [open EXCEPT ![t] = Front(@)]
        /\ entered' = [entered EXCEPT ![t] = IF critical[t] = 1 THEN 0 ELSE @]
        /\ act' = (act \/ LeavesVP(t))
    BY <1>8 DEF LeaveCS
  <2> DEFINE w == IF vpcritical[t] = critical[t] THEN 0 ELSE vpcritical[t]
             n == act \/ LeavesVP(t)
  <2>2. /\ vpcritical'[t] = w /\ critical'[t] = critical[t] - 1
        /\ open'[t] = Front(open[t]) /\ act' = n
    BY <2>1 DEF ThreadsTypeOK
  <2>3. n \in BOOLEAN /\ (n <=> (act \/ vpcritical[t] = critical[t]
                                     \/ critical[t] - 1 = -vpcritical[t]))
    BY <1>2 DEF LeavesVP
  <2>4. /\ Front(open[t]) \in Seq(Kinds)
        /\ Nested(critical[t] - 1, w, Front(open[t]))
        /\ Fits(critical[t] - 1, w, Front(open[t]), n)
    <3> HIDE DEF n
    <3> QED BY <1>2, <2>1, <2>3, PopNested
  <2>5. w \in Int /\ critical[t] - 1 \in Nat
    BY <1>2, <2>1
  <2>6. SectionsTypeOK' /\ OthersKept(t)
    BY <2>1, <2>4, <2>5 DEF ThreadsTypeOK, SectionsTypeOK, OthersKept, Kinds
  <2> HIDE DEF w, n
  <2> QED BY <2>2, <2>4, <2>6
<1> QED BY <1>4, <1>5, <1>6, <1>7, <1>8 DEF Sections

LEMMA OthersFit ==
    ASSUME NEW t \in Threads, OthersKept(t), NEW u \in Threads \ {t}
    PROVE  /\ NestedIn(u)' <=> NestedIn(u)
           /\ \A m \in BOOLEAN : FitsIn(u, m)' <=> FitsIn(u, m)
BY DEF OthersKept, NestedIn, FitsIn

\* A thread that enters or leaves a section keeps the invariant.
LEMMA SectionsInv ==
    ASSUME ThreadsInv, NEW t \in Threads, Sections(t)
    PROVE  ThreadsInv'
<1> USE DEF ThreadsInv
<1>1. /\ exec = t /\ act' \in BOOLEAN /\ critical[t] \in Nat
      /\ critical'[t] \in Nat
      /\ UNCHANGED <<runq, state, yielded, slot, back, save, exec, ran, lifeVars>>
  <2>1. /\ exec = t
        /\ UNCHANGED <<runq, state, yielded, slot, back, save, exec, ran, lifeVars>>
    BY DEF Sections, EnterCS, EnterVP, StackMapped, EnterAgain, LeaveCS, Executes, Entering
  <2>2. act' \in BOOLEAN
    BY DEF Sections, EnterCS, EnterVP, StackMapped, EnterAgain, LeaveCS, ThreadsTypeOK
  <2> QED BY <2>1, <2>2, SectionsKept DEF ThreadsTypeOK, Sectioned, SectionsTypeOK
<1>2. exec # NoThread
  BY <1>1, ThreadAssumption
<1>3. critcx' = Mark(t)'
  <2>1. critcx = Mark(t)
    BY <1>1, <1>2 DEF CurrentInv
  <2>2. CASE \E k \in Kinds : Entering(t, k)
    <3>1. /\ critical' = [critical EXCEPT ![t] = @ + 1]
          /\ critcx' = IF None(t) THEN t ELSE critcx
      BY <2>2 DEF Entering
    <3>2. critical'[t] = critical[t] + 1
      BY <3>1 DEF ThreadsTypeOK
    <3> QED BY <1>1, <2>1, <3>1, <3>2 DEF Mark, None
  <2>3. CASE StackMapped(t)
    BY <2>1, <2>3 DEF StackMapped, Mark
  <2>4. CASE LeaveCS(t)
    <3>1. /\ critical' = [critical EXCEPT ![t] = @ - 1] /\ critical[t] > 0
          /\ critcx' = IF critical[t] = 1 THEN NoThread ELSE critcx
      BY <2>4 DEF LeaveCS
    <3>2. critical'[t] = critical[t] - 1
      BY <3>1 DEF ThreadsTypeOK
    <3> QED BY <1>1, <2>1, <3>1, <3>2 DEF Mark
  <2> QED BY <2>2, <2>3, <2>4 DEF Sections, EnterCS, EnterVP, EnterAgain, Kinds
<1>4. critcx' \in Threads \cup {NoThread}
  BY <1>3 DEF Mark
<1>5. ThreadsTypeOK'
  BY <1>1, <1>4, SectionsKept
     DEF ThreadsTypeOK, Sectioned, SectionsTypeOK, lifeVars
<1>6. QueueInv' /\ SlotInv'
  BY <1>1 DEF QueueInv, Holds, Ready, SlotInv
<1>7. CurrentInv'
  BY <1>1, <1>2, <1>3 DEF CurrentInv
<1>8. SectionInv'
  <2> SUFFICES ASSUME NEW u \in Threads PROVE NestedIn(u)' /\ FitsIn(u, Mode(u))'
    BY DEF SectionInv
  <2>1. CASE u = t
    BY <1>1, <2>1, SectionsKept DEF Sectioned, Mode, FitsIn
  <2>2. CASE u # t
    <3>1. Mode(u)' = Mode(u) /\ Mode(u) \in BOOLEAN
      BY <1>1, <2>2 DEF Mode, ThreadsTypeOK
    <3>2. PICK m \in BOOLEAN : m = Mode(u)
      BY <3>1
    <3>3. NestedIn(u) /\ FitsIn(u, m)
      BY <3>2 DEF SectionInv, FitsIn
    <3>4. NestedIn(u)' /\ FitsIn(u, m)'
      BY <2>2, <3>3, OthersFit, SectionsKept DEF Sectioned
    <3> QED BY <3>1, <3>2, <3>4 DEF FitsIn
  <2> QED BY <2>1, <2>2
<1>9. LifeInv'
  BY <1>1 DEF LifeInv, BabyInv, CountInv, Live, lifeVars
<1> QED BY <1>5, <1>6, <1>7, <1>8, <1>9

-----------------------------------------------------------------------------
(* Who runs next.                                                          *)

\* Whoever the queue q puts in front is resumed as it was left.
LEMMA SwitchInv ==
    ASSUME ThreadsTypeOK, NEW q \in Seq(Threads), NEW y \in [Threads -> BOOLEAN],
           NEW modes \in [Threads -> BOOLEAN], NEW crit,
           RunNext(q, y, modes, crit, NoThread), back' = modes, critical' = crit,
           SectionsTypeOK',
           \A u \in Threads :
               NestedIn(u)' /\ FitsIn(u, IF y[u] THEN modes[u] ELSE TRUE)',
           \A u \in Threads : state'[u] # "gone"
               => slot'[u] = IF y[u] THEN "jmpbuf" ELSE "context"
    PROVE  /\ CurrentInv' /\ SectionInv' /\ SlotInv'
           /\ runq' = q /\ yielded' \in [Threads -> BOOLEAN]
           /\ critcx' \in Threads \cup {NoThread} /\ save' \in Threads
           /\ act' \in BOOLEAN /\ exec' \in Threads \cup {NoThread}
           /\ ran' \in Threads /\ (ran' # ran => ~yielded'[ran'])
           /\ \A u \in Threads : u # exec' => yielded'[u] = y[u]
           /\ exec' = NoThread => ran' = ran
<1>1. CASE q = <<>>
  <2>1. /\ runq' = <<>> /\ act' = TRUE /\ exec' = NoThread /\ critcx' = NoThread
        /\ yielded' = y /\ save' = save /\ ran' = ran
    BY <1>1 DEF RunNext
  <2>2. CurrentInv' /\ SlotInv'
    BY <2>1 DEF CurrentInv, SlotInv
  <2>3. SectionInv'
    <3>1. \A u \in Threads : Mode(u)' = IF y[u] THEN modes[u] ELSE TRUE
      BY <2>1, ThreadAssumption DEF Mode
    <3> QED BY <3>1 DEF SectionInv, FitsIn
  <2> QED BY <1>1, <2>1, <2>2, <2>3 DEF ThreadsTypeOK
<1>2. CASE q # <<>>
  <2>1. PICK to \in Threads : to = Head(q)
    BY <1>2
  <2>2. /\ runq' = q /\ save' = to /\ exec' = to /\ ran' = to
        /\ critcx' = IF crit[to] > 0 THEN to ELSE NoThread
        /\ act' = IF y[to] THEN modes[to] ELSE TRUE
        /\ yielded' = [y EXCEPT ![to] = FALSE]
    BY <1>2, <2>1 DEF RunNext, Marked
  <2>3. /\ yielded' \in [Threads -> BOOLEAN] /\ ~yielded'[to]
        /\ \A u \in Threads \ {to} : yielded'[u] = y[u]
    BY <2>2
  <2>4. to # NoThread
    BY ThreadAssumption
  <2>5. CurrentInv' /\ SlotInv'
    BY <1>2, <2>1, <2>2, <2>3, <2>4 DEF CurrentInv, SlotInv, Mark
  <2>6. SectionInv'
    <3>1. \A u \in Threads : Mode(u)' = IF y[u] THEN modes[u] ELSE TRUE
      BY <2>2, <2>3 DEF Mode
    <3> QED BY <3>1 DEF SectionInv, FitsIn
  <2>7. critcx' \in Threads \cup {NoThread} /\ act' \in BOOLEAN
    BY <2>2
  <2>8. (ran' # ran => ~yielded'[ran']) /\ (exec' = NoThread => ran' = ran)
    BY <2>2, <2>3, <2>4
  <2>9. \A u \in Threads : u # exec' => yielded'[u] = y[u]
    BY <2>2, <2>3
  <2>10. /\ runq' = q /\ save' \in Threads /\ exec' \in Threads \cup {NoThread}
         /\ ran' \in Threads
    BY <2>2
  <2> QED BY <2>3, <2>5, <2>6, <2>7, <2>8, <2>9, <2>10
<1> QED BY <1>1, <1>2

\* The thread t yields with mode m, to be resumed with it.
LEMMA InternalYieldInv ==
    ASSUME ThreadsInv, NEW t \in Threads, exec = t, NEW m \in BOOLEAN,
           NEW q \in Seq(Threads), NEW crit,
           InternalYield(t, q, m, crit), critical' = crit,
           Sectioned(t), FitsIn(t, m)',
           \A u \in Threads \ {t} : state'[u] # "gone" => state[u] # "gone"
    PROVE  /\ CurrentInv' /\ SectionInv' /\ SlotInv'
           /\ runq' = q /\ yielded' \in [Threads -> BOOLEAN]
           /\ critcx' \in Threads \cup {NoThread} /\ save' \in Threads
           /\ act' \in BOOLEAN /\ exec' \in Threads \cup {NoThread}
           /\ ran' \in Threads /\ (ran' # ran => yielded'[t])
           /\ slot' \in [Threads -> {"jmpbuf", "context"}]
           /\ back' \in [Threads -> BOOLEAN] /\ (exec' = NoThread => yielded'[t])
           /\ exec' = NoThread => ran' = t
<1> USE DEF ThreadsInv
<1>1. /\ slot' = [slot EXCEPT ![t] = "jmpbuf"] /\ back' = [back EXCEPT ![t] = m]
      /\ RunNext(q, Flagged(t), back', crit, NoThread)
  BY DEF InternalYield
<1>2. PICK modes \in [Threads -> BOOLEAN] : modes = back'
  BY <1>1 DEF ThreadsTypeOK
<1>3. PICK y \in [Threads -> BOOLEAN] : y = Flagged(t)
  BY DEF ThreadsTypeOK, Flagged
<1>4. /\ slot' \in [Threads -> {"jmpbuf", "context"}] /\ slot'[t] = "jmpbuf"
      /\ modes[t] = m /\ y[t]
      /\ \A u \in Threads \ {t} : slot'[u] = slot[u] /\ modes[u] = back[u]
                                  /\ y[u] = yielded[u]
  BY <1>1, <1>2, <1>3 DEF ThreadsTypeOK, Flagged
<1>5. RunNext(q, y, modes, crit, NoThread)
  BY <1>1, <1>2, <1>3
<1>6. ASSUME NEW u \in Threads
      PROVE  NestedIn(u)' /\ FitsIn(u, IF y[u] THEN modes[u] ELSE TRUE)'
  <2>1. CASE u = t
    BY <1>4, <2>1 DEF Sectioned, FitsIn
  <2>2. CASE u # t
    <3>1. Mode(u) = IF y[u] THEN modes[u] ELSE TRUE
      BY <1>4, <2>2 DEF Mode
    <3>2. PICK n \in BOOLEAN : n = IF y[u] THEN modes[u] ELSE TRUE
      OBVIOUS
    <3>3. NestedIn(u) /\ FitsIn(u, n)
      BY <3>1, <3>2 DEF SectionInv, FitsIn
    <3>4. NestedIn(u)' /\ FitsIn(u, n)'
      BY <2>2, <3>3, OthersFit DEF Sectioned
    <3> QED BY <3>2, <3>4 DEF FitsIn
  <2> QED BY <2>1, <2>2
<1>7. \A u \in Threads : state'[u] # "gone"
          => slot'[u] = IF y[u] THEN "jmpbuf" ELSE "context"
  BY <1>4 DEF SlotInv
<1>8. /\ CurrentInv' /\ SectionInv' /\ SlotInv'
      /\ runq' = q /\ yielded' \in [Threads -> BOOLEAN]
      /\ critcx' \in Threads \cup {NoThread} /\ save' \in Threads
      /\ act' \in BOOLEAN /\ exec' \in Threads \cup {NoThread}
      /\ ran' \in Threads
      /\ \A u \in Threads : u # exec' => yielded'[u] = y[u]
      /\ exec' = NoThread => ran' = ran
  BY <1>2, <1>5, <1>6, <1>7, SwitchInv DEF Sectioned
<1>9. ran = t /\ t # NoThread
  BY ThreadAssumption DEF CurrentInv
<1>10. exec' # NoThread => ran' = exec'
  BY <1>8 DEF CurrentInv
<1>11. (ran' # ran => yielded'[t]) /\ (exec' = NoThread => yielded'[t] /\ ran' = t)
  BY <1>4, <1>8, <1>9, <1>10
<1> QED BY <1>2, <1>4, <1>8, <1>11

\* Threads that block or go on count as before.
LEMMA LifeKept ==
    ASSUME LifeInv, ThreadsTypeOK, UNCHANGED lifeVars,
           \A v \in Threads : \/ state'[v] = state[v]
                              \/ /\ state[v] \in {"Runable", "Blocked"}
                                 /\ state'[v] \in {"Runable", "Blocked"}
    PROVE  LifeInv'
<1>1. daemon' = daemon /\ active' = active /\ baby' = baby
  BY DEF lifeVars
<1>2. Live' = Live
  BY <1>1 DEF Live
<1>3. CountInv'
  BY <1>1, <1>2 DEF LifeInv, CountInv, ThreadsTypeOK
<1>4. ASSUME NEW v \in Threads, baby[v] # NoThread
      PROVE  state'[baby[v]] = "forked"
  <2>1. baby[v] \in Threads /\ state[baby[v]] = "forked"
    BY <1>4 DEF LifeInv, BabyInv, ThreadsTypeOK
  <2> QED BY <2>1
<1>5. BabyInv'
  BY <1>1, <1>4 DEF LifeInv, BabyInv
<1> QED BY <1>3, <1>5 DEF LifeInv

\* The queue without its head.
LEMMA BlockedQueue ==
    ASSUME ThreadsTypeOK, QueueInv, runq # <<>>, NEW t, t = Head(runq),
           state' = [state EXCEPT ![t] = "Blocked"]
    PROVE  /\ t \in Threads /\ state[t] \in {"Runable", "ending"}
           /\ Dequeued(t) = Tail(runq)
           /\ Dequeued(t) \in Seq(Threads) /\ Holds(Dequeued(t), Ready')
<1>1. /\ t \in Ready /\ t \in Threads /\ Holds(Tail(runq), Ready \ {t})
      /\ Dequeued(t) = Tail(runq)
  BY TailHolds, DequeuedIsTail DEF QueueInv
<1>2. Ready' = Ready \ {t}
  BY <1>1 DEF Ready, ThreadsTypeOK
<1>3. Holds(Dequeued(t), Ready')
  BY <1>1, <1>2
<1>4. Dequeued(t) \in Seq(Threads)
  BY <1>3 DEF Holds
<1>5. state[t] \in {"Runable", "ending"}
  BY <1>1 DEF Ready
<1> QED BY <1>1, <1>3, <1>4, <1>5

\* A thread that blocks, in the section that its caller has put it in.
LEMMA BlockYieldInv ==
    ASSUME ThreadsInv, NEW t \in Threads, Executes(t), NEW m \in BOOLEAN, NEW crit,
           BlockYield(t, m, crit), critical' = crit,
           Sectioned(t), FitsIn(t, m)', UNCHANGED lifeVars
    PROVE  /\ ThreadsInv'
           /\ ran' # ran \/ exec' = NoThread => yielded'[t]
           /\ exec' = NoThread => ran' = t
<1> USE DEF ThreadsInv
<1>1. /\ exec = t /\ t # NoThread /\ state[t] = "Runable" /\ runq # <<>>
      /\ Head(runq) = t
  BY ThreadAssumption DEF Executes, CurrentInv
<1>2. /\ state' = [state EXCEPT ![t] = "Blocked"]
      /\ InternalYield(t, Dequeued(t), m, crit)
  BY DEF BlockYield
<1>3. Dequeued(t) \in Seq(Threads) /\ Holds(Dequeued(t), Ready')
  BY <1>1, <1>2, BlockedQueue
<1>4. PICK q \in Seq(Threads) : q = Dequeued(t)
  BY <1>3
<1>5. \A u \in Threads \ {t} : state'[u] # "gone" => state[u] # "gone"
  BY <1>2 DEF ThreadsTypeOK
<1>6. InternalYield(t, q, m, crit)
  BY <1>2, <1>4
<1>7. /\ CurrentInv' /\ SectionInv' /\ SlotInv'
      /\ runq' = q /\ yielded' \in [Threads -> BOOLEAN]
      /\ critcx' \in Threads \cup {NoThread} /\ save' \in Threads
      /\ act' \in BOOLEAN /\ exec' \in Threads \cup {NoThread}
      /\ ran' \in Threads /\ (ran' # ran => yielded'[t])
      /\ slot' \in [Threads -> {"jmpbuf", "context"}]
      /\ back' \in [Threads -> BOOLEAN] /\ (exec' = NoThread => yielded'[t])
      /\ exec' = NoThread => ran' = t
  BY <1>1, <1>5, <1>6, InternalYieldInv
<1>8. QueueInv'
  BY <1>3, <1>4, <1>7 DEF QueueInv
<1>9. LifeInv'
  BY <1>1, <1>2, LifeKept DEF ThreadsTypeOK
<1>10. ThreadsTypeOK'
  <2>1. state' \in [Threads -> States]
    BY <1>2 DEF ThreadsTypeOK, States
  <2> QED BY <1>4, <1>7, <2>1 DEF ThreadsTypeOK, Sectioned, SectionsTypeOK, lifeVars
<1> QED BY <1>7, <1>8, <1>9, <1>10

\* Another thread, that was blocked, joins the queue.
LEMMA UnblockedQueue ==
    ASSUME ThreadsTypeOK, QueueInv, NEW u \in Threads, state[u] = "Blocked",
           state' = [state EXCEPT ![u] = "Runable"],
           NEW cs \in BOOLEAN, NEW crit \in [Threads -> Nat]
    PROVE  /\ Holds(Unblocked(runq, u, cs, crit), Ready')
           /\ Unblocked(runq, u, cs, crit) \in Seq(Threads)
           /\ Unblocked(runq, u, cs, crit) # <<>>
           /\ runq # <<>> /\ (cs => crit[Head(runq)] > 0)
                 => Head(Unblocked(runq, u, cs, crit)) = Head(runq)
<1>1. u \notin Ready
  BY DEF Ready
<1>2. Ready' = Ready \cup {u}
  BY DEF Ready, ThreadsTypeOK
<1> DEFINE r == Unblocked(runq, u, cs, crit)
<1>3. /\ Holds(r, Ready \cup {u}) /\ r # <<>>
      /\ runq # <<>> /\ (cs => crit[Head(runq)] > 0) => Head(r) = Head(runq)
  BY <1>1, UnblockedHolds DEF QueueInv
<1> HIDE DEF r
<1>4. Holds(r, Ready') /\ r \in Seq(Threads)
  BY <1>2, <1>3 DEF Holds
<1> QED BY <1>3, <1>4 DEF r

\* A thread in a section lets another one go on, and goes on itself.
LEMMA UnblockYieldInv ==
    ASSUME ThreadsInv, NEW t \in Threads, Executes(t), NEW m \in BOOLEAN,
           NEW u \in Threads, state[u] = "Blocked", NEW cs \in BOOLEAN,
           NEW crit \in [Threads -> Nat], UnblockYield(t, u, cs, m, crit),
           critical' = crit, crit[t] > 0,
           Sectioned(t), FitsIn(t, m)', UNCHANGED lifeVars
    PROVE  ThreadsInv' /\ ran' = t /\ exec' = t
<1> USE DEF ThreadsInv
<1>1. /\ exec = t /\ t # NoThread /\ state[t] = "Runable" /\ runq # <<>>
      /\ Head(runq) = t
  BY ThreadAssumption DEF Executes, CurrentInv
<1>2. /\ state' = [state EXCEPT ![u] = "Runable"]
      /\ InternalYield(t, Unblocked(runq, u, cs, crit), m, crit)
  BY DEF UnblockYield
<1>3. PICK q \in Seq(Threads) : q = Unblocked(runq, u, cs, crit)
  BY <1>2, UnblockedQueue
<1>4. Holds(q, Ready') /\ q # <<>> /\ Head(q) = t
  BY <1>1, <1>2, <1>3, UnblockedQueue
<1>5. \A v \in Threads \ {t} : state'[v] # "gone" => state[v] # "gone"
  BY <1>2 DEF ThreadsTypeOK
<1>6. InternalYield(t, q, m, crit)
  BY <1>2, <1>3
<1>7. /\ CurrentInv' /\ SectionInv' /\ SlotInv'
      /\ runq' = q /\ yielded' \in [Threads -> BOOLEAN]
      /\ critcx' \in Threads \cup {NoThread} /\ save' \in Threads
      /\ act' \in BOOLEAN /\ exec' \in Threads \cup {NoThread}
      /\ ran' \in Threads
      /\ slot' \in [Threads -> {"jmpbuf", "context"}]
      /\ back' \in [Threads -> BOOLEAN]
  BY <1>1, <1>5, <1>6, InternalYieldInv
<1>8. exec' = t /\ ran' = t
  BY <1>4, <1>6 DEF InternalYield, RunNext
<1>9. QueueInv'
  BY <1>4, <1>7 DEF QueueInv
<1>10. LifeInv'
  BY <1>2, LifeKept DEF ThreadsTypeOK
<1>11. ThreadsTypeOK'
  <2>1. state' \in [Threads -> States]
    BY <1>2 DEF ThreadsTypeOK, States
  <2> QED BY <1>7, <2>1 DEF ThreadsTypeOK, Sectioned, SectionsTypeOK, lifeVars
<1> QED BY <1>7, <1>8, <1>9, <1>10, <1>11

LEMMA SameSections ==
    ASSUME ThreadsInv, UNCHANGED <<critical, vpcritical, open, entered>>
    PROVE  /\ SectionsTypeOK' /\ \A u \in Threads : NestedIn(u)'
           /\ \A u \in Threads : FitsIn(u, Mode(u)) /\ Mode(u) \in BOOLEAN
           /\ \A u \in Threads : \A m \in BOOLEAN : FitsIn(u, m)' <=> FitsIn(u, m)
           /\ \A u \in Threads : OthersKept(u)
BY DEF ThreadsInv, ThreadsTypeOK, SectionsTypeOK, SectionInv, NestedIn, FitsIn,
       OthersKept, Mode

LEMMA StutterInv ==
    ASSUME ThreadsInv, UNCHANGED threadVars PROVE ThreadsInv'
<1> USE DEF ThreadsInv, threadVars, runVars, csVars, lifeVars
<1>1. ThreadsTypeOK'
  BY DEF ThreadsTypeOK
<1>2. QueueInv'
  BY DEF QueueInv, Holds, Ready
<1>3. CurrentInv' /\ SlotInv'
  BY DEF CurrentInv, SlotInv, Mark
<1>4. SectionInv'
  BY DEF SectionInv, NestedIn, FitsIn, Mode
<1>5. LifeInv'
  BY DEF LifeInv, BabyInv, CountInv, Live
<1> QED BY <1>1, <1>2, <1>3, <1>4, <1>5

LEMMA YieldInv ==
    ASSUME ThreadsInv, NEW t \in Threads, Yield(t)
    PROVE  ThreadsInv' /\ (ran' # ran => yielded'[t]) /\ exec' # NoThread
<1> USE DEF ThreadsInv
<1> DEFINE r == Append(Dequeued(t), t)
<1>1. /\ exec = t /\ t # NoThread /\ state[t] = "Runable" /\ runq # <<>>
      /\ Head(runq) = t /\ t \in Ready
  BY ThreadAssumption DEF Yield, Executes, CurrentInv, Ready
<1>2. /\ UNCHANGED <<critical, vpcritical, open, entered, lifeVars>>
      /\ IF Head(r) = t THEN UNCHANGED <<runVars, critcx>>
                        ELSE InternalYield(t, r, act, critical) /\ UNCHANGED state
  BY DEF Yield
<1>3. state' = state /\ Ready' = Ready
  BY <1>2 DEF runVars, Ready
<1>4. Holds(r, Ready) /\ r # <<>>
  <2>1. Holds(Dequeued(t), Ready \ {t})
    BY <1>1, TailHolds, DequeuedIsTail DEF QueueInv
  <2>2. (Ready \ {t}) \cup {t} = Ready
    BY <1>1
  <2> QED BY <2>1, <2>2, AppendHolds
<1> HIDE DEF r
<1>5. CASE Head(r) = t
  <2>1. UNCHANGED threadVars
    BY <1>2, <1>5 DEF threadVars, runVars, csVars
  <2> QED BY <1>1, <2>1, StutterInv DEF threadVars, runVars
<1>6. CASE Head(r) # t
  <2>1. PICK q \in Seq(Threads) : q = r
    BY <1>4 DEF Holds
  <2>2. PICK m \in BOOLEAN : m = act
    BY DEF ThreadsTypeOK
  <2>3. PICK crit \in [Threads -> Nat] : crit = critical
    BY DEF ThreadsTypeOK
  <2>4. InternalYield(t, q, m, crit) /\ critical' = crit
    BY <1>2, <1>6, <2>1, <2>2, <2>3
  <2>5. Sectioned(t) /\ FitsIn(t, m)'
    <3>1. FitsIn(t, m)
      BY <1>1, <1>2, <2>2, SameSections DEF Mode, FitsIn
    <3> QED BY <1>2, <3>1, SameSections DEF Sectioned
  <2>6. /\ CurrentInv' /\ SectionInv' /\ SlotInv'
        /\ runq' = q /\ yielded' \in [Threads -> BOOLEAN]
        /\ critcx' \in Threads \cup {NoThread} /\ save' \in Threads
        /\ act' \in BOOLEAN /\ exec' \in Threads \cup {NoThread}
        /\ ran' \in Threads /\ (ran' # ran => yielded'[t])
        /\ slot' \in [Threads -> {"jmpbuf", "context"}]
        /\ back' \in [Threads -> BOOLEAN]
    BY <1>1, <1>3, <2>4, <2>5, InternalYieldInv
  <2>7. exec' # NoThread
    BY <1>4, <2>1, <2>4, ThreadAssumption, HeadTailProperties DEF InternalYield, RunNext
  <2>8. QueueInv'
    BY <1>3, <1>4, <2>1, <2>6 DEF QueueInv
  <2>9. LifeInv'
    BY <1>2, <1>3 DEF LifeInv, BabyInv, CountInv, Live, lifeVars
  <2>10. ThreadsTypeOK'
    BY <1>2, <1>3, <2>5, <2>6 DEF ThreadsTypeOK, Sectioned, SectionsTypeOK, lifeVars
  <2> QED BY <2>6, <2>7, <2>8, <2>9, <2>10
<1> QED BY <1>5, <1>6

-----------------------------------------------------------------------------
(* Threads that come and go.                                               *)

\* All that the queue, the mark, the slots and the modes depend on.
RunKept ==
    UNCHANGED <<yielded, slot, back, save, act, exec, ran, csVars>>

LEMMA RunKeptInv ==
    ASSUME ThreadsInv, RunKept
    PROVE  /\ SectionInv'
           /\ runq' = runq => CurrentInv'
           /\ runq # <<>> /\ runq' # <<>> /\ Head(runq') = Head(runq) => CurrentInv'
<1> USE DEF ThreadsInv, RunKept, csVars
<1>1. SectionInv'
  BY DEF SectionInv, NestedIn, FitsIn, Mode
<1>2. runq' = runq => CurrentInv'
  BY DEF CurrentInv, Mark
<1>3. runq # <<>> /\ runq' # <<>> /\ Head(runq') = Head(runq) => CurrentInv'
  BY DEF CurrentInv, Mark
<1> QED BY <1>1, <1>2, <1>3

LEMMA ForkCreateInv ==
    ASSUME ThreadsInv, NEW t \in Threads, NEW u \in Threads, ForkCreate(t, u)
    PROVE  ThreadsInv'
<1> USE DEF ThreadsInv
<1>1. /\ state[u] = "new" /\ baby[t] = NoThread
      /\ baby' = [baby EXCEPT ![t] = u] /\ state' = [state EXCEPT ![u] = "forked"]
      /\ active' = active + 1 /\ daemon' = daemon /\ ended' = ended /\ runq' = runq
      /\ RunKept
  BY DEF ForkCreate, Counted, RunKept
<1>2. /\ state'[u] = "forked" /\ \A v \in Threads \ {u} : state'[v] = state[v]
      /\ baby'[t] = u /\ \A v \in Threads \ {t} : baby'[v] = baby[v]
  BY <1>1 DEF ThreadsTypeOK
<1>3. QueueInv'
  <2>1. Ready' = Ready
    BY <1>1, <1>2 DEF Ready
  <2> QED BY <1>1, <2>1 DEF QueueInv
<1>4. CurrentInv' /\ SectionInv'
  BY <1>1, RunKeptInv
<1>5. SlotInv'
  BY <1>1, <1>2 DEF SlotInv, RunKept
<1>6. BabyInv'
  <2>1. \A v \in Threads : baby[v] # NoThread => baby[v] \in Threads \ {u}
    BY <1>1 DEF LifeInv, BabyInv, ThreadsTypeOK
  <2> QED BY <1>1, <1>2, <2>1 DEF LifeInv, BabyInv
<1>7. CountInv'
  <2>1. u \notin daemon /\ u \notin Live
    BY <1>1 DEF LifeInv, CountInv, Live
  <2>2. Live' = Live \cup {u}
    BY <1>1, <1>2, <2>1 DEF Live
  <2>3. IsFiniteSet(Live') /\ Cardinality(Live') = Cardinality(Live) + 1
    BY <2>1, <2>2, FS_AddElement DEF LifeInv, CountInv
  <2>4. \A v \in daemon' : state'[v] # "new"
    BY <1>1, <1>2 DEF LifeInv, CountInv, ThreadsTypeOK
  <2> QED BY <1>1, <2>3, <2>4 DEF LifeInv, CountInv
<1>8. ThreadsTypeOK'
  <2>1. state' \in [Threads -> States] /\ active' \in Int
    BY <1>1 DEF ThreadsTypeOK, States
  <2>2. baby' \in [Threads -> Threads \cup {NoThread}]
    BY <1>1 DEF ThreadsTypeOK
  <2> QED BY <1>1, <2>1, <2>2 DEF ThreadsTypeOK, RunKept, csVars
<1> QED BY <1>3, <1>4, <1>5, <1>6, <1>7, <1>8 DEF LifeInv

LEMMA ForkInsertInv ==
    ASSUME ThreadsInv, NEW t \in Threads, ForkInsert(t)
    PROVE  ThreadsInv'
<1> USE DEF ThreadsInv
<1>1. PICK u \in Threads : u = baby[t]
  BY DEF ForkInsert, ThreadsTypeOK
<1>2. /\ exec = t /\ u # NoThread
      /\ baby' = [baby EXCEPT ![t] = NoThread] /\ state' = [state EXCEPT ![u] = "Runable"]
      /\ runq' = InsertAt(runq, 2, u) /\ active' = active /\ daemon' = daemon
      /\ ended' = ended /\ RunKept
  BY <1>1 DEF ForkInsert, RunKept, Executes
<1>3. /\ state[u] = "forked" /\ state'[u] = "Runable"
      /\ \A v \in Threads \ {u} : state'[v] = state[v]
      /\ baby'[t] = NoThread /\ \A v \in Threads \ {t} : baby'[v] = baby[v]
  BY <1>1, <1>2 DEF ThreadsTypeOK, LifeInv, BabyInv
<1>4. /\ runq \in Seq(Threads) /\ runq # <<>> /\ 2 \in 1 .. Len(runq) + 1
  <2>1. runq \in Seq(Threads) /\ runq # <<>>
    BY <1>2, ThreadAssumption DEF CurrentInv, ThreadsTypeOK
  <2> QED BY <2>1
<1>5. QueueInv' /\ runq' # <<>> /\ Head(runq') = Head(runq)
  <2>1. u \notin Ready /\ Ready' = Ready \cup {u}
    BY <1>2, <1>3 DEF Ready
  <2> QED BY <1>2, <1>4, <2>1, InsertHolds DEF QueueInv
<1>6. CurrentInv' /\ SectionInv'
  BY <1>2, <1>4, <1>5, RunKeptInv
<1>7. SlotInv'
  BY <1>2, <1>3 DEF SlotInv, RunKept
<1>8. BabyInv'
  <2>1. \A v \in Threads \ {t} : baby[v] # NoThread => baby[v] \in Threads \ {u}
    BY <1>1, <1>2 DEF LifeInv, BabyInv, ThreadsTypeOK
  <2> QED BY <1>2, <1>3, <2>1 DEF LifeInv, BabyInv
<1>9. CountInv'
  <2>1. Live' = Live
    BY <1>2, <1>3 DEF Live
  <2>2. \A v \in daemon' : state'[v] # "new"
    BY <1>2, <1>3 DEF LifeInv, CountInv, ThreadsTypeOK
  <2> QED BY <1>2, <2>1, <2>2 DEF LifeInv, CountInv
<1>10. ThreadsTypeOK'
  <2>1. runq' \in Seq(Threads)
    BY <1>5 DEF QueueInv, Holds
  <2> QED BY <1>2, <2>1 DEF ThreadsTypeOK, RunKept, csVars, States
<1> QED BY <1>5, <1>6, <1>7, <1>8, <1>9, <1>10 DEF LifeInv

LEMMA SetDaemonInv ==
    ASSUME ThreadsInv, NEW t \in Threads, SetDaemon(t)
    PROVE  ThreadsInv'
<1> USE DEF ThreadsInv
<1>1. /\ t \notin daemon /\ state[t] = "Runable" /\ daemon' = daemon \cup {t}
      /\ active' = active - 1 /\ baby' = baby /\ state' = state /\ ended' = ended
      /\ runq' = runq /\ RunKept
  BY DEF SetDaemon, RunKept, runVars, Executes
<1>2. QueueInv' /\ SlotInv' /\ BabyInv'
  BY <1>1 DEF QueueInv, Ready, SlotInv, LifeInv, BabyInv, RunKept
<1>3. CurrentInv' /\ SectionInv'
  BY <1>1, RunKeptInv
<1>4. CountInv'
  <2>1. t \in Live /\ Live' = Live \ {t}
    BY <1>1 DEF Live
  <2>2. IsFiniteSet(Live') /\ Cardinality(Live') = Cardinality(Live) - 1
    BY <2>1, FS_RemoveElement DEF LifeInv, CountInv
  <2> QED BY <1>1, <2>2 DEF LifeInv, CountInv
<1>5. ThreadsTypeOK'
  <2>1. daemon' \subseteq Threads /\ active' \in Int
    BY <1>1 DEF ThreadsTypeOK
  <2> QED BY <1>1, <2>1 DEF ThreadsTypeOK, RunKept, csVars
<1> QED BY <1>2, <1>3, <1>4, <1>5 DEF LifeInv

LEMMA DestroyDomainInv ==
    ASSUME ThreadsInv, NEW t \in Threads, DestroyDomain(t)
    PROVE  ThreadsInv'
<1> USE DEF ThreadsInv, DestroyDomain, runVars, csVars
<1>1. ThreadsTypeOK'
  BY DEF ThreadsTypeOK
<1>2. QueueInv' /\ CurrentInv' /\ SlotInv'
  BY DEF QueueInv, Holds, Ready, CurrentInv, SlotInv, Mark
<1>3. SectionInv'
  BY DEF SectionInv, NestedIn, FitsIn, Mode
<1>4. LifeInv'
  BY DEF LifeInv, BabyInv, CountInv, Live
<1> QED BY <1>1, <1>2, <1>3, <1>4

LEMMA ExitInv ==
    ASSUME ThreadsInv, NEW t \in Threads, Exit(t)
    PROVE  ThreadsInv' /\ critical[t] = 0 /\ (exec' = NoThread => ran' = t)
<1> USE DEF ThreadsInv
<1> DEFINE left == IF t \in daemon THEN active ELSE active - 1
<1>1. /\ exec = t /\ critical[t] = 0 /\ act /\ baby[t] = NoThread
      /\ state[t] = "Runable" /\ active' = left
      /\ state' = [state EXCEPT ![t] = IF left = 0 THEN "ending" ELSE "gone"]
      /\ IF left = 0
         THEN UNCHANGED <<runq, yielded, slot, back, save, act, exec, ran, critcx>>
         ELSE RunNext(Dequeued(t), yielded, back, critical, critcx)
              /\ UNCHANGED <<slot, back>>
      /\ UNCHANGED <<critical, vpcritical, open, entered, daemon, baby, ended>>
  BY DEF Exit, Executes, None
<1>2. /\ t # NoThread /\ runq # <<>> /\ Head(runq) = t /\ ~yielded[t]
      /\ critcx = NoThread /\ t \in Ready /\ ran = t
  BY <1>1, ThreadAssumption DEF CurrentInv, Mark, Ready
<1>3. CountInv'
  <2>1. Live' = Live \ {t}
    BY <1>1 DEF Live, ThreadsTypeOK
  <2>2. IsFiniteSet(Live') /\ Cardinality(Live') = active'
    <3>1. t \in Live <=> t \notin daemon
      BY <1>1 DEF Live
    <3> QED BY <1>1, <2>1, <3>1, FS_RemoveElement DEF LifeInv, CountInv
  <2>3. \A v \in daemon' : state'[v] # "new"
    BY <1>1 DEF LifeInv, CountInv, ThreadsTypeOK
  <2> QED BY <2>2, <2>3 DEF CountInv
<1>4. BabyInv'
  <2>1. \A v \in Threads : baby[v] # NoThread => baby[v] \in Threads \ {t}
    BY <1>1 DEF LifeInv, BabyInv, ThreadsTypeOK
  <2> QED BY <1>1, <2>1 DEF LifeInv, BabyInv, ThreadsTypeOK
<1>5. /\ state' \in [Threads -> States] /\ active' \in Int
      /\ \A v \in Threads \ {t} : state'[v] = state[v]
      /\ state'[t] = IF left = 0 THEN "ending" ELSE "gone"
  <2>1. left \in Int
    BY DEF ThreadsTypeOK
  <2> HIDE DEF left
  <2> QED BY <1>1, <2>1 DEF ThreadsTypeOK, States
<1> HIDE DEF left
<1>6. CASE left = 0
  <2>1. RunKept /\ runq' = runq
    BY <1>1, <1>6 DEF RunKept, csVars
  <2>2. CurrentInv' /\ SectionInv'
    BY <2>1, RunKeptInv
  <2>3. Ready' = Ready
    BY <1>2, <1>5, <1>6 DEF Ready
  <2>4. QueueInv'
    BY <2>1, <2>3 DEF QueueInv
  <2>5. SlotInv'
    BY <1>1, <1>5, <2>1 DEF SlotInv, RunKept
  <2>6. ThreadsTypeOK'
    BY <1>1, <1>5, <2>1 DEF ThreadsTypeOK, RunKept, csVars
  <2> QED BY <1>1, <1>2, <1>3, <1>4, <1>6, <2>2, <2>4, <2>5, <2>6 DEF LifeInv
<1>7. CASE left # 0
  <2>1. Ready' = Ready \ {t}
    BY <1>2, <1>5, <1>7 DEF Ready
  <2>2. Holds(Dequeued(t), Ready')
    BY <1>2, <2>1, TailHolds, DequeuedIsTail DEF QueueInv
  <2>3. PICK q \in Seq(Threads) : q = Dequeued(t)
    BY <2>2 DEF Holds
  <2>4. PICK y \in [Threads -> BOOLEAN] : y = yielded
    BY DEF ThreadsTypeOK
  <2>5. PICK modes \in [Threads -> BOOLEAN] : modes = back
    BY DEF ThreadsTypeOK
  <2>6. PICK crit \in [Threads -> Nat] : crit = critical
    BY DEF ThreadsTypeOK
  <2>7. /\ RunNext(q, y, modes, crit, NoThread) /\ back' = modes /\ critical' = crit
    BY <1>1, <1>2, <1>7, <2>3, <2>4, <2>5, <2>6
  <2>8. ASSUME NEW u \in Threads
        PROVE  NestedIn(u)' /\ FitsIn(u, IF y[u] THEN modes[u] ELSE TRUE)'
    <3>1. PICK m \in BOOLEAN : m = IF y[u] THEN modes[u] ELSE TRUE
      OBVIOUS
    <3>2. Mode(u) = m
      BY <1>1, <1>2, <2>4, <2>5, <3>1 DEF Mode, ThreadsTypeOK
    <3>3. FitsIn(u, m)
      BY <3>2 DEF SectionInv, FitsIn
    <3> QED BY <1>1, <3>1, <3>3, SameSections DEF FitsIn
  <2>9. \A u \in Threads : state'[u] # "gone"
           => slot'[u] = IF y[u] THEN "jmpbuf" ELSE "context"
    BY <1>1, <1>5, <1>7, <2>4 DEF SlotInv
  <2>10. SectionsTypeOK'
    BY <1>1, SameSections
  <2>11. /\ CurrentInv' /\ SectionInv' /\ SlotInv'
         /\ runq' = q /\ yielded' \in [Threads -> BOOLEAN]
         /\ critcx' \in Threads \cup {NoThread} /\ save' \in Threads
         /\ act' \in BOOLEAN /\ exec' \in Threads \cup {NoThread}
         /\ ran' \in Threads /\ (exec' = NoThread => ran' = ran)
    BY <2>7, <2>8, <2>9, <2>10, SwitchInv
  <2>12. QueueInv'
    BY <2>2, <2>3, <2>11 DEF QueueInv
  <2>13. ThreadsTypeOK'
    BY <1>1, <1>5, <1>7, <2>10, <2>11 DEF ThreadsTypeOK, SectionsTypeOK
  <2> QED BY <1>1, <1>2, <1>3, <1>4, <2>11, <2>12, <2>13 DEF LifeInv
<1> QED BY <1>6, <1>7

-----------------------------------------------------------------------------
(* The handler.                                                            *)

LEMMA ActivateInv ==
    ASSUME ThreadsInv, Activate
    PROVE  /\ ThreadsInv' /\ exec' = NoThread /\ ~act' /\ ran' = ran
           /\ exec # NoThread => critcx' = Mark(exec) /\ ran = exec
           /\ exec = NoThread => critcx = NoThread /\ runq = <<>>
<1> USE DEF ThreadsInv
<1>1. /\ act /\ ~ended /\ act' = FALSE /\ exec' = NoThread
      /\ slot' = IF exec = NoThread THEN slot ELSE [slot EXCEPT ![save] = "context"]
      /\ UNCHANGED <<runq, state, yielded, back, save, ran, csVars, lifeVars>>
  BY DEF Activate
<1>2. ThreadsTypeOK'
  BY <1>1 DEF ThreadsTypeOK, csVars, lifeVars
<1>3. QueueInv' /\ LifeInv'
  BY <1>1 DEF QueueInv, Ready, LifeInv, BabyInv, CountInv, Live, lifeVars
<1>4. /\ exec # NoThread => critcx' = Mark(exec) /\ ran = exec
      /\ exec = NoThread => critcx = NoThread /\ runq = <<>>
  BY <1>1 DEF CurrentInv, csVars
<1>5. CurrentInv'
  BY <1>1 DEF CurrentInv, Mark, csVars
<1>6. SlotInv'
  BY <1>1 DEF SlotInv, CurrentInv, ThreadsTypeOK
<1>7. SectionInv'
  <2> SUFFICES ASSUME NEW u \in Threads PROVE NestedIn(u)' /\ FitsIn(u, Mode(u))'
    BY DEF SectionInv
  <2>1. Mode(u)' = Mode(u) /\ Mode(u) \in BOOLEAN
    BY <1>1, ThreadAssumption DEF Mode, CurrentInv, ThreadsTypeOK
  <2>2. PICK m \in BOOLEAN : m = Mode(u)
    BY <2>1
  <2>3. NestedIn(u) /\ FitsIn(u, m)
    BY <2>2 DEF SectionInv, FitsIn
  <2> QED BY <1>1, <2>1, <2>2, <2>3 DEF NestedIn, FitsIn, csVars
<1> QED BY <1>1, <1>2, <1>3, <1>4, <1>5, <1>6, <1>7

LEMMA ActivationGoInv ==
    ASSUME ThreadsInv, ActivationGo
    PROVE  /\ ThreadsInv'
           /\ critcx # NoThread => ran' = critcx /\ exec' = critcx
           /\ ran' # ran => yielded'[ran] = yielded[ran]
           /\ exec' = NoThread => ran' = ran /\ yielded'[ran] = yielded[ran]
<1> USE DEF ThreadsInv
<1>1. /\ exec = NoThread /\ ~act
      /\ UNCHANGED <<state, slot, back, critical, vpcritical, open, entered, lifeVars>>
  BY DEF ActivationGo, InHandler
<1>2. ran \in Threads /\ NoThread \notin Threads
  BY ThreadAssumption DEF ThreadsTypeOK
<1>3. Ready' = Ready /\ LifeInv'
  BY <1>1 DEF Ready, LifeInv, BabyInv, CountInv, Live, lifeVars
<1>4. CASE critcx # NoThread
  <2>1. /\ save' = critcx /\ exec' = critcx /\ ran' = critcx /\ act' = TRUE
        /\ UNCHANGED <<runq, yielded, critcx>>
    BY <1>4 DEF ActivationGo, CriticalFirst
  <2>2. PICK t \in Threads : t = critcx
    BY <1>4 DEF ThreadsTypeOK
  <2>3. CurrentInv'
    BY <1>1, <1>4, <2>1, <2>2 DEF CurrentInv, Mark
  <2>4. SlotInv' /\ QueueInv'
    BY <1>1, <1>2, <1>3, <2>1 DEF SlotInv, QueueInv
  <2>5. SectionInv'
    <3>1. \A u \in Threads : Mode(u)' = Mode(u)
      BY <1>1, <1>2, <1>4, <2>1, <2>2 DEF Mode, CurrentInv
    <3> QED BY <1>1, <3>1 DEF SectionInv, NestedIn, FitsIn
  <2>6. ThreadsTypeOK'
    BY <1>1, <2>1, <2>2 DEF ThreadsTypeOK, lifeVars
  <2> QED BY <1>2, <1>3, <1>4, <2>1, <2>3, <2>4, <2>5, <2>6
<1>5. CASE critcx = NoThread
  <2>1. RunNext(Preempted(runq), yielded, back, critical, NoThread)
    BY <1>5 DEF ActivationGo, CriticalFirst
  <2>2. Holds(Preempted(runq), Ready)
    BY PreemptedHolds DEF QueueInv
  <2>3. PICK q \in Seq(Threads) : q = Preempted(runq)
    BY <2>2 DEF Holds
  <2>4. PICK y \in [Threads -> BOOLEAN] : y = yielded
    BY DEF ThreadsTypeOK
  <2>5. PICK modes \in [Threads -> BOOLEAN] : modes = back
    BY DEF ThreadsTypeOK
  <2>6. PICK crit \in [Threads -> Nat] : crit = critical
    BY DEF ThreadsTypeOK
  <2>7. /\ RunNext(q, y, modes, crit, NoThread) /\ back' = modes /\ critical' = crit
    BY <1>1, <2>1, <2>3, <2>4, <2>5, <2>6
  <2>8. ASSUME NEW u \in Threads
        PROVE  NestedIn(u)' /\ FitsIn(u, IF y[u] THEN modes[u] ELSE TRUE)'
    <3>1. PICK m \in BOOLEAN : m = IF y[u] THEN modes[u] ELSE TRUE
      OBVIOUS
    <3>2. Mode(u) = m
      BY <1>1, <1>2, <2>4, <2>5, <3>1 DEF Mode
    <3>3. FitsIn(u, m)
      BY <3>2 DEF SectionInv, FitsIn
    <3> QED BY <1>1, <3>1, <3>3, SameSections DEF FitsIn
  <2>9. \A u \in Threads : state'[u] # "gone"
           => slot'[u] = IF y[u] THEN "jmpbuf" ELSE "context"
    BY <1>1, <1>2, <2>4 DEF SlotInv
  <2>10. SectionsTypeOK'
    BY <1>1, SameSections
  <2>11. /\ CurrentInv' /\ SectionInv' /\ SlotInv'
         /\ runq' = q /\ yielded' \in [Threads -> BOOLEAN]
         /\ critcx' \in Threads \cup {NoThread} /\ save' \in Threads
         /\ act' \in BOOLEAN /\ exec' \in Threads \cup {NoThread}
         /\ ran' \in Threads
         /\ \A u \in Threads : u # exec' => yielded'[u] = y[u]
         /\ exec' = NoThread => ran' = ran
    BY <2>7, <2>8, <2>9, <2>10, SwitchInv
  <2>12. QueueInv'
    BY <1>3, <2>2, <2>3, <2>11 DEF QueueInv
  <2>13. ThreadsTypeOK'
    BY <1>1, <2>10, <2>11 DEF ThreadsTypeOK, SectionsTypeOK, lifeVars
  <2>14. exec' # NoThread => ran' = exec'
    BY <2>11 DEF CurrentInv
  <2>15. /\ ran' # ran => yielded'[ran] = yielded[ran]
         /\ exec' = NoThread => yielded'[ran] = yielded[ran]
    BY <1>2, <2>4, <2>11, <2>14
  <2> QED BY <1>3, <1>5, <2>11, <2>12, <2>13, <2>15
<1> QED BY <1>4, <1>5

\* Someone who is not current is unblocked, with activations off.
LEMMA UnblockedInv ==
    ASSUME ThreadsInv, NEW u \in Threads, state[u] = "Blocked", ~act, RunKept,
           state' = [state EXCEPT ![u] = "Runable"], UNCHANGED lifeVars,
           runq' = Unblocked(runq, u, FALSE, critical)
    PROVE  /\ ThreadsInv'
           /\ runq # <<>> => runq' # <<>> /\ Head(runq') = Head(runq)
<1> USE DEF ThreadsInv
<1>1. PICK crit \in [Threads -> Nat] : crit = critical
  BY DEF ThreadsTypeOK
<1>2. /\ Holds(runq', Ready') /\ runq' \in Seq(Threads) /\ runq' # <<>>
      /\ runq # <<>> => Head(runq') = Head(runq)
  BY <1>1, UnblockedQueue
<1>3. CurrentInv'
  <2>1. CASE runq # <<>>
    BY <1>2, <2>1, RunKeptInv
  <2>2. CASE runq = <<>>
    BY <2>2 DEF CurrentInv, RunKept, csVars
  <2> QED BY <2>1, <2>2
<1>4. QueueInv' /\ SectionInv'
  BY <1>2, RunKeptInv DEF QueueInv
<1>7. LifeInv'
  BY LifeKept DEF ThreadsTypeOK
<1>5. SlotInv'
  BY DEF SlotInv, RunKept, ThreadsTypeOK
<1>6. ThreadsTypeOK'
  <2>1. state' \in [Threads -> States]
    BY DEF ThreadsTypeOK, States
  <2> QED BY <1>2, <2>1 DEF ThreadsTypeOK, RunKept, csVars, lifeVars
<1> QED BY <1>2, <1>3, <1>4, <1>5, <1>6, <1>7

-----------------------------------------------------------------------------
LEMMA ThreadsInitInv == ThreadsInit => ThreadsInv
<1> SUFFICES ASSUME ThreadsInit PROVE ThreadsInv
  OBVIOUS
<1> USE DEF ThreadsInit
<1> DEFINE S == {Started[i] : i \in DOMAIN Started}
<1>1. /\ Started \in Seq(Threads) /\ Started # <<>> /\ NoThread \notin Threads
      /\ DOMAIN Started = 1 .. Len(Started) /\ Len(Started) \in Nat
      /\ Head(Started) \in Threads
      /\ \A i, j \in DOMAIN Started : Started[i] = Started[j] => i = j
      /\ \A i \in DOMAIN Started : Started[i] \in Threads
      /\ Head(Started) = Started[1] /\ 1 \in DOMAIN Started
  BY ThreadAssumption
<1>2. ThreadsTypeOK
  <2>1. open \in [Threads -> Seq({"cs", "vp", "map"})]
    OBVIOUS
  <2>2. state \in [Threads -> States]
    BY DEF States
  <2>3. /\ yielded \in [Threads -> BOOLEAN] /\ back \in [Threads -> BOOLEAN]
        /\ slot \in [Threads -> {"jmpbuf", "context"}]
        /\ critical \in [Threads -> Nat] /\ vpcritical \in [Threads -> Int]
        /\ entered \in [Threads -> Nat]
        /\ baby \in [Threads -> Threads \cup {NoThread}]
    OBVIOUS
  <2>4. /\ runq \in Seq(Threads) /\ critcx \in Threads \cup {NoThread}
        /\ save \in Threads /\ exec \in Threads \cup {NoThread} /\ ran \in Threads
        /\ act \in BOOLEAN /\ daemon \subseteq Threads /\ active \in Int
        /\ ended \in BOOLEAN
    <3>1. /\ runq = Started /\ critcx = NoThread /\ save = Head(Started)
          /\ exec = Head(Started) /\ ran = Head(Started) /\ act = TRUE
          /\ daemon = {} /\ active = Len(Started) /\ ended = FALSE
      OBVIOUS
    <3>2. Len(Started) \in Int
      BY <1>1
    <3> QED BY ONLY <1>1, <3>1, <3>2
  <2> QED BY <2>1, <2>2, <2>3, <2>4 DEF ThreadsTypeOK
<1>3. \A t \in Threads : state[t] = IF t \in S THEN "Runable" ELSE "new"
  OBVIOUS
<1>4. S \subseteq Threads
  BY <1>1
<1> HIDE DEF S
<1>5. QueueInv
  <2>1. Ready = S
    BY <1>3, <1>4 DEF Ready
  <2> QED BY <1>1, <2>1 DEF QueueInv, Holds, S
<1>6. CurrentInv /\ SlotInv
  <2>1. PICK h \in Threads : h = Head(Started)
    BY <1>1
  <2>2. /\ runq # <<>> /\ Head(runq) = h /\ exec = h /\ save = h /\ ran = h
        /\ h # NoThread /\ critcx = NoThread /\ critical[h] = 0
        /\ \A t \in Threads : slot[t] = "jmpbuf" /\ (yielded[t] <=> t # h)
    BY <1>1, <2>1
  <2> QED BY <2>2 DEF CurrentInv, SlotInv, Mark
<1>7. SectionInv
  <2>1. Nested(0, 0, <<>>) /\ Fits(0, 0, <<>>, TRUE)
    BY DEF Nested, Fits, Level
  <2>2. \A t \in Threads : Mode(t) = TRUE
    BY DEF Mode
  <2> QED BY <2>1, <2>2 DEF SectionInv, NestedIn, FitsIn
<1>8. BabyInv
  BY DEF BabyInv
<1>9. CountInv
  <2>1. Live = S
    BY <1>3, <1>4 DEF Live
  <2> DEFINE f == [i \in 1 .. Len(Started) |-> Started[i]]
  <2>2. f \in Bijection(1 .. Len(Started), S)
    BY <1>1 DEF S, Bijection, Injection, Surjection, IsInjective
  <2>3. ExistsBijection(1 .. Len(Started), S)
    BY <2>2 DEF ExistsBijection
  <2>4. IsFiniteSet(S) /\ Cardinality(S) = Len(Started)
    BY <1>1, <2>3, FS_NatBijection, FS_CountingElements
  <2> QED BY <2>1, <2>4 DEF CountInv
<1> QED BY <1>2, <1>5, <1>6, <1>7, <1>8, <1>9 DEF ThreadsInv, LifeInv

-----------------------------------------------------------------------------
(* Page faults.                                                            *)

EntryTypeOK ==
    /\ faulty \in BOOLEAN /\ idle \in 0 .. MaxFaults
    /\ pending \in Seq([thread : Threads, incs : BOOLEAN])
    /\ pool \in Seq(Workers)
    /\ job \in [Workers -> [thread : Threads \cup {NoThread}, incs : BOOLEAN]]
    /\ wpc \in [Workers -> {"start", "check", "woken", "work", "leave"}]
    /\ stopped \in BOOLEAN

\* What the handler finds that has a fault to see to.
FaultInv ==
    faulty =>
        /\ exec = NoThread /\ ~act /\ runq # <<>> /\ Head(runq) = ran
        /\ state[ran] = "Runable" /\ critcx = Mark(ran) /\ ran \in Faulting

Fault_t == [thread : Threads, incs : BOOLEAN]

\* The threads whose faults are in the queue p.
Queued(p) == {p[i].thread : i \in DOMAIN p}

\* Each once.
Once(p) == \A i, j \in DOMAIN p : p[i].thread = p[j].thread => i = j

\* A fault is in the queue or with one worker, and its thread is blocked.
FaultedInv ==
    /\ Once(pending)
    /\ \A t \in Queued(pending) :
           /\ t \in Faulting /\ state[t] = "Blocked"
           /\ \A w \in Workers : job[w].thread # t
    /\ \A w \in Workers :
           /\ wpc[w] = "work" <=> job[w].thread # NoThread
           /\ wpc[w] = "work" =>
                  /\ job[w].thread \in Faulting /\ state[job[w].thread] = "Blocked"
                  /\ \A v \in Workers : job[v].thread = job[w].thread => v = w

Busy == {w \in Workers : wpc[w] = "work"}

\* No fault structure is lost.
StructuresInv ==
    IsFiniteSet(Busy) /\ idle + Len(pending) + Cardinality(Busy) = MaxFaults

\* The pool holds sleeping workers, each once.
PoolInv ==
    /\ \A i, j \in DOMAIN pool : pool[i] = pool[j] => i = j
    /\ \A i \in DOMAIN pool : state[pool[i]] = "Blocked" /\ wpc[pool[i]] = "woken"

\* A worker is in a section from where it sleeps to where it wakes, and from
\* where it unblocks a thread to where it leaves.
WorkerAt(w) ==
    IF wpc[w] \in {"woken", "leave"}
    THEN critical[w] = 1 /\ vpcritical[w] = 1 /\ open[w] = <<"vp">>
    ELSE critical[w] = 0 /\ vpcritical[w] = 0 /\ open[w] = <<>>

WorkerInv == ~stopped => \A w \in Workers : WorkerAt(w)

\* Whoever lost the processor in a section is marked, has yielded or faulted.
RanInv ==
    exec = NoThread /\ critical[ran] > 0
        => critcx = ran \/ yielded[ran] \/ ran \in Faulted

IInv ==
    /\ ThreadsInv /\ EntryTypeOK /\ FaultInv /\ FaultedInv /\ StructuresInv
    /\ PoolInv /\ WorkerInv /\ RanInv

\* What a step may not do to a thread that loses the processor.
StepKeeps ==
    ran' # ran /\ critical[ran] > 0 => yielded'[ran] \/ state'[ran] = "Blocked"

-----------------------------------------------------------------------------
(* The queues of faults and of workers.                                    *)

LEMMA AppendFault ==
    ASSUME NEW p \in Seq(Fault_t), Once(p), NEW f \in Fault_t, f.thread \notin Queued(p)
    PROVE  /\ Append(p, f) \in Seq(Fault_t) /\ Once(Append(p, f))
           /\ Queued(Append(p, f)) = Queued(p) \cup {f.thread}
           /\ Len(Append(p, f)) = Len(p) + 1
<1> DEFINE r == Append(p, f)
<1>1. /\ r \in Seq(Fault_t) /\ Len(r) = Len(p) + 1 /\ Len(p) \in Nat
      /\ DOMAIN p = 1 .. Len(p) /\ DOMAIN r = 1 .. Len(p) + 1
      /\ \A i \in 1 .. Len(p) : r[i] = p[i]
      /\ r[Len(p) + 1] = f
  OBVIOUS
<1> HIDE DEF r
<1>2. Once(r) /\ Queued(r) = Queued(p) \cup {f.thread}
  BY <1>1 DEF Once, Queued
<1> QED BY <1>1, <1>2 DEF r

LEMMA TailFault ==
    ASSUME NEW p \in Seq(Fault_t), Once(p), p # <<>>
    PROVE  /\ Tail(p) \in Seq(Fault_t) /\ Once(Tail(p))
           /\ Head(p) \in Fault_t /\ Head(p).thread \in Queued(p)
           /\ Queued(Tail(p)) = Queued(p) \ {Head(p).thread}
           /\ Len(Tail(p)) = Len(p) - 1 /\ Len(p) > 0
<1> DEFINE r == Tail(p)
<1>1. /\ r \in Seq(Fault_t) /\ Len(r) = Len(p) - 1 /\ Len(p) \in Nat \ {0}
      /\ DOMAIN p = 1 .. Len(p) /\ DOMAIN r = 1 .. Len(p) - 1
      /\ \A i \in 1 .. Len(p) - 1 : r[i] = p[i + 1]
      /\ Head(p) = p[1] /\ Head(p) \in Fault_t
  OBVIOUS
<1> HIDE DEF r
<1>2. Once(r)
  <2> SUFFICES ASSUME NEW i \in DOMAIN r, NEW j \in DOMAIN r, r[i].thread = r[j].thread
               PROVE  i = j
    BY DEF Once
  <2>1. i + 1 \in DOMAIN p /\ j + 1 \in DOMAIN p /\ p[i + 1].thread = p[j + 1].thread
    BY <1>1
  <2>2. i + 1 = j + 1
    BY <2>1 DEF Once
  <2> QED BY <1>1, <2>2
<1>3. Head(p).thread \in Queued(p)
  BY <1>1 DEF Queued
<1>4. ASSUME NEW i \in DOMAIN r PROVE r[i].thread \in Queued(p) \ {Head(p).thread}
  <2>1. i + 1 \in DOMAIN p /\ i + 1 # 1 /\ 1 \in DOMAIN p /\ r[i] = p[i + 1]
    BY <1>1
  <2> QED BY <1>1, <2>1 DEF Queued, Once
<1>5. ASSUME NEW t \in Queued(p) \ {Head(p).thread} PROVE \E i \in DOMAIN r : r[i].thread = t
  <2>1. PICK i \in DOMAIN p : p[i].thread = t
    BY DEF Queued
  <2>2. i - 1 \in DOMAIN r /\ r[i - 1] = p[i]
    <3>1. i # 1
      BY <1>1, <2>1
    <3>2. i - 1 \in 1 .. Len(p) - 1 /\ i - 1 + 1 = i
      BY <1>1, <2>1, <3>1
    <3> QED BY <1>1, <3>2
  <2> QED BY <2>1, <2>2
<1>6. Queued(r) = Queued(p) \ {Head(p).thread}
  BY <1>4, <1>5 DEF Queued
<1> QED BY <1>1, <1>2, <1>3, <1>6 DEF r

-----------------------------------------------------------------------------
(* Steps that leave faults, workers or both alone.                         *)

LEMMA FaultedTypes ==
    ASSUME EntryTypeOK, FaultedInv
    PROVE  /\ pending \in Seq(Fault_t) /\ Len(pending) \in Nat
           /\ Faulted \subseteq Faulting
           /\ \A t \in Faulted : state[t] = "Blocked"
           /\ \A t \in Queued(pending) : t \in Faulted
           /\ \A w \in Workers : wpc[w] = "work" => job[w].thread \in Faulted
<1>1. pending \in Seq(Fault_t) /\ Len(pending) \in Nat
  BY DEF EntryTypeOK, Fault_t
<1>2. Faulted = Queued(pending) \cup ({job[w].thread : w \in Workers} \ {NoThread})
  BY DEF Faulted, Queued
<1> QED BY <1>1, <1>2 DEF FaultedInv

\* The threads that faults and the pool keep blocked.
Kept == Faulted \cup {pool[i] : i \in DOMAIN pool}

LEMMA EntryKept ==
    ASSUME IInv, UNCHANGED entryVars, \A t \in Kept : state'[t] = "Blocked"
    PROVE  EntryTypeOK' /\ FaultedInv' /\ StructuresInv' /\ PoolInv' /\ Faulted' = Faulted
<1> USE DEF IInv, entryVars
<1>1. EntryTypeOK' /\ StructuresInv' /\ Faulted' = Faulted
  BY DEF EntryTypeOK, StructuresInv, Busy, Faulted
<1>2. FaultedInv'
  BY FaultedTypes DEF FaultedInv, Kept
<1>3. PoolInv'
  BY DEF PoolInv, Kept
<1> QED BY <1>1, <1>2, <1>3

LEMMA KeptBlocked ==
    ASSUME IInv
    PROVE  /\ Kept \subseteq Threads /\ \A t \in Kept : state[t] = "Blocked"
           /\ Workers \cap Faulting = {}
<1> USE DEF IInv
<1>1. Workers \cap Faulting = {} /\ Workers \subseteq Threads /\ Faulting \subseteq Threads
  BY WorkerAssumption DEF Clients
<1>2. \A i \in DOMAIN pool : pool[i] \in Workers
  BY DEF EntryTypeOK
<1> QED BY <1>1, <1>2, FaultedTypes DEF Kept, PoolInv

\* A step of a thread t that is no worker.
LEMMA ClientStep ==
    ASSUME IInv, ~stopped, NEW t \in Clients, exec = t, UNCHANGED entryVars,
           ThreadsInv', OthersKept(t), \A u \in Threads : state[u] = "Blocked"
                                           => state'[u] = "Blocked",
           exec' = NoThread => ran' = t /\ (critical'[t] = 0 \/ yielded'[t])
    PROVE  IInv'
<1> USE DEF IInv
<1>1. EntryTypeOK' /\ FaultedInv' /\ StructuresInv' /\ PoolInv'
  BY EntryKept, KeptBlocked
<1>2. exec # NoThread
  BY ThreadAssumption DEF Clients
<1>3. FaultInv'
  BY <1>2 DEF FaultInv, entryVars
<1>4. WorkerInv'
  <2>1. \A w \in Workers : w \in Threads \ {t}
    BY WorkerAssumption DEF Clients
  <2> QED BY <2>1 DEF WorkerInv, WorkerAt, OthersKept, entryVars
<1>5. RanInv'
  BY DEF RanInv
<1> QED BY <1>1, <1>3, <1>4, <1>5

LEMMA ClientInv ==
    ASSUME IInv, ~stopped, NEW t \in Clients, Client(t)
    PROVE  IInv' /\ StepKeeps
<1> USE DEF IInv
<1>1. t \in Threads /\ t # NoThread /\ exec = t /\ ran = t /\ UNCHANGED entryVars
  <2>1. t \in Threads /\ UNCHANGED entryVars
    BY DEF Clients, Client
  <2>2. exec = t
    BY DEF Client, Calls, Finishes, EnterCS, EnterVP, EnterAgain, Yield, Await,
           ForkCreate, Exit, StackMapped, LeaveCS, ForkInsert, DestroyDomain, Executes
  <2> QED BY <2>1, <2>2, ThreadAssumption DEF ThreadsInv, CurrentInv
<1>2. CASE Sections(t)
  <2>1. ThreadsInv' /\ OthersKept(t)
    BY <1>1, <1>2, SectionsInv, SectionsKept DEF ThreadsInv, Sectioned
  <2>2. UNCHANGED <<state, exec, ran>>
    BY <1>2 DEF Sections, EnterCS, EnterVP, StackMapped, EnterAgain, LeaveCS, Entering
  <2> QED BY <1>1, <2>1, <2>2, ClientStep DEF StepKeeps
<1>3. CASE Yield(t)
  <2>1. /\ ThreadsInv' /\ (ran' # ran => yielded'[t]) /\ exec' # NoThread
        /\ UNCHANGED <<critical, vpcritical, open, entered>>
    BY <1>1, <1>3, YieldInv DEF Yield
  <2>2. state' = state
    BY <1>3 DEF Yield, runVars
  <2> QED BY <1>1, <2>1, <2>2, ClientStep DEF StepKeeps, OthersKept
<1>4. CASE Await(t)
  <2>1. /\ Executes(t) /\ BlockYield(t, act, critical)
        /\ UNCHANGED <<critical, vpcritical, open, entered, lifeVars>>
    BY <1>4 DEF Await
  <2>2. PICK m \in BOOLEAN : m = act
    BY DEF ThreadsInv, ThreadsTypeOK
  <2>3. PICK crit \in [Threads -> Nat] : crit = critical
    BY DEF ThreadsInv, ThreadsTypeOK
  <2>4. BlockYield(t, m, crit) /\ critical' = crit
    BY <2>1, <2>2, <2>3
  <2>5. Sectioned(t) /\ FitsIn(t, m)'
    <3>1. FitsIn(t, m)
      BY <1>1, <2>1, <2>2, SameSections DEF Mode, FitsIn
    <3> QED BY <1>1, <2>1, <3>1, SameSections DEF Sectioned
  <2>6. /\ ThreadsInv' /\ (ran' # ran \/ exec' = NoThread => yielded'[t])
        /\ exec' = NoThread => ran' = t
    BY <1>1, <2>1, <2>4, <2>5, BlockYieldInv
  <2>7. \A u \in Threads : state[u] = "Blocked" => state'[u] = "Blocked"
    BY <2>1 DEF BlockYield, ThreadsInv, ThreadsTypeOK
  <2> QED BY <1>1, <2>5, <2>6, <2>7, ClientStep DEF StepKeeps, Sectioned
<1>5. CASE \E u \in Threads : ForkCreate(t, u)
  <2>1. PICK u \in Threads : ForkCreate(t, u)
    BY <1>5
  <2>2. /\ ThreadsInv' /\ UNCHANGED <<exec, ran, csVars>>
        /\ \A v \in Threads : state[v] = "Blocked" => state'[v] = "Blocked"
    BY <1>1, <2>1, ForkCreateInv DEF ForkCreate, ThreadsInv, ThreadsTypeOK
  <2> QED BY <1>1, <2>2, ClientStep DEF StepKeeps, OthersKept, csVars
<1>6. CASE Exit(t)
  <2>1. /\ ThreadsInv' /\ critical[t] = 0 /\ (exec' = NoThread => ran' = t)
        /\ UNCHANGED <<critical, vpcritical, open, entered>>
    BY <1>1, <1>6, ExitInv DEF Exit
  <2>2. \A v \in Threads : state[v] = "Blocked" => state'[v] = "Blocked"
    BY <1>6 DEF Exit, Executes, ThreadsInv, ThreadsTypeOK
  <2> QED BY <1>1, <2>1, <2>2, ClientStep DEF StepKeeps, OthersKept
<1>7. CASE ForkInsert(t)
  <2>1. /\ ThreadsInv' /\ UNCHANGED <<exec, ran, csVars>>
        /\ baby[t] # NoThread /\ state' = [state EXCEPT ![baby[t]] = "Runable"]
    BY <1>1, <1>7, ForkInsertInv DEF ForkInsert
  <2>2. state[baby[t]] = "forked"
    BY <1>1, <2>1 DEF ThreadsInv, LifeInv, BabyInv
  <2>3. \A v \in Threads : state[v] = "Blocked" => state'[v] = "Blocked"
    BY <2>1, <2>2 DEF ThreadsInv, ThreadsTypeOK
  <2> QED BY <1>1, <2>1, <2>3, ClientStep DEF StepKeeps, OthersKept, csVars
<1>8. CASE DestroyDomain(t)
  <2>1. ThreadsInv' /\ UNCHANGED <<state, exec, ran, csVars>>
    BY <1>1, <1>8, DestroyDomainInv DEF DestroyDomain, runVars
  <2> QED BY <1>1, <2>1, ClientStep DEF StepKeeps, OthersKept, csVars
<1> QED BY <1>2, <1>3, <1>4, <1>5, <1>6, <1>7, <1>8
        DEF Client, Calls, Finishes, Sections

-----------------------------------------------------------------------------
(* The handler.                                                            *)

\* An activation, with or without a fault of the thread it interrupts.
LEMMA InterruptedInv ==
    ASSUME IInv, Interrupted PROVE IInv' /\ StepKeeps
<1> USE DEF IInv
<1>1. Activate /\ UNCHANGED entryVars
  BY DEF Interrupted
<1>2. /\ ThreadsInv' /\ exec' = NoThread /\ ~act' /\ ran' = ran
      /\ exec # NoThread => critcx' = Mark(exec) /\ ran = exec
      /\ exec = NoThread => critcx = NoThread /\ runq = <<>>
      /\ UNCHANGED <<runq, state, yielded, csVars>>
  BY <1>1, ActivateInv DEF Activate
<1>3. EntryTypeOK' /\ FaultedInv' /\ StructuresInv' /\ PoolInv' /\ Faulted' = Faulted
  BY <1>1, <1>2, EntryKept, KeptBlocked
<1>4. FaultInv'
  BY <1>1 DEF FaultInv, entryVars, Activate
<1>5. WorkerInv'
  BY <1>1, <1>2 DEF WorkerInv, WorkerAt, entryVars, csVars
<1>6. RanInv'
  BY <1>2, <1>3 DEF RanInv, Mark, csVars
<1> QED BY <1>2, <1>3, <1>4, <1>5, <1>6 DEF StepKeeps

LEMMA FaultKeepsInv ==
    ASSUME IInv, NEW t \in Clients, Fault(t) PROVE IInv' /\ StepKeeps
<1> USE DEF IInv
<1>1. /\ Activate /\ exec = t /\ state[t] = "Runable" /\ t \in Faulting
      /\ faulty' = TRUE /\ UNCHANGED <<pending, idle, pool, job, wpc, stopped>>
  BY DEF Fault, Executes
<1>2. t \in Threads /\ t # NoThread
  BY ThreadAssumption DEF Clients
<1>3. /\ ThreadsInv' /\ exec' = NoThread /\ ~act' /\ ran' = ran /\ ran = t
      /\ critcx' = Mark(t) /\ UNCHANGED <<runq, state, yielded, csVars>>
  BY <1>1, <1>2, ActivateInv DEF Activate
<1>4. EntryTypeOK' /\ StructuresInv' /\ Faulted' = Faulted
  BY <1>1 DEF EntryTypeOK, StructuresInv, Busy, Faulted
<1>5. FaultedInv' /\ PoolInv'
  BY <1>1, <1>3 DEF FaultedInv, PoolInv
<1>6. FaultInv'
  <2>1. runq # <<>> /\ Head(runq) = t
    BY <1>1, <1>2 DEF ThreadsInv, CurrentInv
  <2> QED BY <1>1, <1>3, <2>1 DEF FaultInv, Mark, csVars
<1>7. WorkerInv'
  BY <1>1, <1>3 DEF WorkerInv, WorkerAt, csVars
<1>8. RanInv'
  BY <1>3 DEF RanInv, Mark, csVars
<1> QED BY <1>3, <1>4, <1>5, <1>6, <1>7, <1>8 DEF StepKeeps

LEMMA HandlerDoneInv ==
    ASSUME IInv, HandlerDone PROVE IInv' /\ StepKeeps
<1> USE DEF IInv
<1>1. ~faulty /\ ActivationGo /\ UNCHANGED entryVars
  BY DEF HandlerDone
<1>2. /\ ThreadsInv'
      /\ critcx # NoThread => ran' = critcx /\ exec' = critcx
      /\ ran' # ran => yielded'[ran] = yielded[ran]
      /\ exec' = NoThread => ran' = ran /\ yielded'[ran] = yielded[ran]
      /\ exec = NoThread
      /\ UNCHANGED <<state, critical, vpcritical, open>>
  BY <1>1, ActivationGoInv DEF ActivationGo, InHandler
<1>3. EntryTypeOK' /\ FaultedInv' /\ StructuresInv' /\ PoolInv' /\ Faulted' = Faulted
  BY <1>1, <1>2, EntryKept, KeptBlocked
<1>4. FaultInv'
  BY <1>1 DEF FaultInv, entryVars
<1>5. WorkerInv'
  BY <1>1, <1>2 DEF WorkerInv, WorkerAt, entryVars
<1>6. ran \in Threads /\ ran # NoThread
  BY ThreadAssumption DEF ThreadsInv, ThreadsTypeOK
<1>7. RanInv'
  BY <1>2, <1>3, <1>6 DEF RanInv
<1>8. StepKeeps
  BY <1>2, <1>6, FaultedTypes DEF StepKeeps, RanInv
<1> QED BY <1>2, <1>3, <1>4, <1>5, <1>7, <1>8

LEMMA UnblockInv ==
    ASSUME IInv, NEW u \in Clients, Unblock(u) PROVE IInv' /\ StepKeeps
<1> USE DEF IInv
<1>1. /\ ~act /\ u \in Threads /\ state[u] = "Blocked" /\ u \notin Faulted
      /\ state' = [state EXCEPT ![u] = "Runable"]
      /\ runq' = Unblocked(runq, u, FALSE, critical)
      /\ RunKept /\ UNCHANGED lifeVars /\ UNCHANGED entryVars
  BY DEF Unblock, RunKept, Clients
<1>2. /\ ThreadsInv'
      /\ runq # <<>> => runq' # <<>> /\ Head(runq') = Head(runq)
  BY <1>1, UnblockedInv
<1>3. EntryTypeOK' /\ FaultedInv' /\ StructuresInv' /\ PoolInv' /\ Faulted' = Faulted
  <2>1. u \notin Kept
    <3>1. \A i \in DOMAIN pool : pool[i] \in Workers
      BY DEF EntryTypeOK
    <3> QED BY <1>1, <3>1 DEF Kept, Clients
  <2>2. \A t \in Kept : state'[t] = "Blocked"
    BY <1>1, <2>1, KeptBlocked DEF ThreadsInv, ThreadsTypeOK
  <2> QED BY <1>1, <2>2, EntryKept
<1>4. FaultInv'
  <2>1. ASSUME faulty PROVE ran # u /\ ran \in Threads
    BY <1>1, <2>1 DEF FaultInv, ThreadsInv, ThreadsTypeOK
  <2>2. \A t \in Threads \ {u} : state'[t] = state[t]
    BY <1>1 DEF ThreadsInv, ThreadsTypeOK
  <2> QED BY <1>1, <1>2, <2>1, <2>2 DEF FaultInv, RunKept, csVars, entryVars, Mark
<1>5. WorkerInv'
  BY <1>1 DEF WorkerInv, WorkerAt, entryVars, RunKept, csVars
<1>6. RanInv' /\ StepKeeps
  BY <1>1, <1>3 DEF RanInv, RunKept, csVars, StepKeeps
<1> QED BY <1>2, <1>3, <1>4, <1>5, <1>6

\* Satisfy, with a structure and a worker for the fault or only a structure.
LEMMA SatisfyThreads ==
    ASSUME IInv, Satisfy, idle # 0
    PROVE  /\ ThreadsInv' /\ state[ran] = "Runable" /\ state'[ran] = "Blocked"
           /\ ran \in Threads /\ Head(runq) = ran
           /\ pool' = IF pool = <<>> THEN pool ELSE Tail(pool)
           /\ \A u \in Threads \ {ran} :
                 pool = <<>> \/ u # Head(pool) => state'[u] = state[u]
<1> USE DEF IInv
<1>1. PICK t \in Threads : t = ran
  BY DEF ThreadsInv, ThreadsTypeOK
<1>2. PICK crit \in [Threads -> Nat] : crit = critical
  BY DEF ThreadsInv, ThreadsTypeOK
<1>3. PICK incs \in BOOLEAN : incs <=> crit[t] > 0
  OBVIOUS
<1>4. /\ exec = NoThread /\ ~act /\ runq # <<>> /\ Head(runq) = t
      /\ state[t] = "Runable" /\ critcx = Mark(t)
  BY <1>1 DEF Satisfy, FaultInv
<1>5. /\ critcx' = IF crit[t] > 0 THEN NoThread ELSE critcx
      /\ UNCHANGED <<yielded, slot, back, save, act, exec, ran, critical, vpcritical,
                     open, entered, lifeVars>>
  BY <1>2, <1>4 DEF Satisfy
<1>6. critcx' = NoThread
  BY <1>2, <1>4, <1>5 DEF Mark
<1>7. Holds(Tail(runq), Ready \ {t})
  BY <1>4, TailHolds DEF ThreadsInv, QueueInv
<1>8. /\ QueueInv' /\ state' \in [Threads -> States]
      /\ pool' = IF pool = <<>> THEN pool ELSE Tail(pool)
      /\ state'[t] = "Blocked"
      /\ \A u \in Threads \ {t} : pool = <<>> \/ u # Head(pool) => state'[u] = state[u]
      /\ \A u \in Threads : \/ state'[u] = state[u]
                            \/ /\ state[u] \in {"Runable", "Blocked"}
                               /\ state'[u] \in {"Runable", "Blocked"}
  <2>1. CASE pool = <<>>
    <3>1. runq' = Tail(runq) /\ state' = [state EXCEPT ![t] = "Blocked"] /\ pool' = pool
      BY <1>4, <2>1 DEF Satisfy, WakesWorker
    <3>2. Ready' = Ready \ {t}
      BY <3>1 DEF Ready, ThreadsInv, ThreadsTypeOK
    <3> QED BY <1>4, <1>7, <2>1, <3>1, <3>2
            DEF QueueInv, ThreadsInv, ThreadsTypeOK, States
  <2>2. CASE pool # <<>>
    <3>1. PICK p \in Threads : p = Head(pool) /\ state[p] = "Blocked"
      <4>1. pool \in Seq(Workers) /\ 1 \in DOMAIN pool /\ Head(pool) = pool[1]
        BY <2>2 DEF EntryTypeOK
      <4>2. Head(pool) \in Threads
        BY <4>1, WorkerAssumption
      <4> QED BY <4>1, <4>2 DEF PoolInv
    <3>2. /\ runq' = Unblocked(Tail(runq), p, incs, crit)
          /\ state' = [state EXCEPT ![t] = "Blocked", ![p] = "Runable"]
          /\ pool' = Tail(pool)
      BY <1>2, <1>3, <1>4, <2>2, <3>1 DEF Satisfy, WakesWorker
    <3>3. p # t /\ p \notin Ready \ {t}
      BY <1>4, <3>1 DEF Ready
    <3>4. Ready' = (Ready \ {t}) \cup {p}
      BY <3>2, <3>3 DEF Ready, ThreadsInv, ThreadsTypeOK
    <3>5. QueueInv'
      BY <1>7, <3>2, <3>3, <3>4, UnblockedHolds DEF QueueInv
    <3> QED BY <1>4, <2>2, <3>1, <3>2, <3>3, <3>5 DEF ThreadsInv, ThreadsTypeOK, States
  <2> QED BY <2>1, <2>2
<1>9. CurrentInv'
  BY <1>4, <1>5, <1>6 DEF CurrentInv
<1>10. SlotInv'
  BY <1>5, <1>8 DEF SlotInv, ThreadsInv
<1>11. SectionInv'
  BY <1>5 DEF ThreadsInv, SectionInv, NestedIn, FitsIn, Mode
<1>12. LifeInv'
  BY <1>5, <1>8, LifeKept DEF ThreadsInv
<1>13. ThreadsTypeOK'
  BY <1>5, <1>6, <1>8 DEF ThreadsInv, ThreadsTypeOK, QueueInv, Holds, lifeVars
<1> QED BY <1>1, <1>4, <1>8, <1>9, <1>10, <1>11, <1>12, <1>13 DEF ThreadsInv

LEMMA SatisfyInv ==
    ASSUME IInv, Satisfy PROVE IInv' /\ StepKeeps
<1> USE DEF IInv
<1>1. faulty /\ faulty' = FALSE /\ exec = NoThread /\ runq # <<>>
  BY DEF Satisfy, InHandler, FaultInv
<1>2. CASE idle = 0
  <2>1. stopped' = TRUE /\ UNCHANGED <<threadVars, pending, idle, pool, job, wpc>>
    BY <1>2 DEF Satisfy
  <2>2. ThreadsInv' /\ StepKeeps /\ UNCHANGED <<state, critical, critcx, yielded, ran, exec>>
    BY <2>1, StutterInv DEF threadVars, runVars, csVars, StepKeeps
  <2>3. EntryTypeOK' /\ FaultedInv' /\ StructuresInv' /\ PoolInv'
    BY ZenonT(30), <1>1, <2>1, <2>2 DEF EntryTypeOK, FaultedInv, StructuresInv, PoolInv, Busy
  <2>4. FaultInv' /\ WorkerInv' /\ RanInv'
    BY <1>1, <2>1, <2>2 DEF FaultInv, WorkerInv, WorkerAt, RanInv, Faulted
  <2> QED BY <2>2, <2>3, <2>4
<1>3. CASE idle # 0
  <2>1. /\ ThreadsInv' /\ state[ran] = "Runable" /\ state'[ran] = "Blocked"
        /\ ran \in Threads /\ Head(runq) = ran
        /\ pool' = IF pool = <<>> THEN pool ELSE Tail(pool)
        /\ \A u \in Threads \ {ran} :
               pool = <<>> \/ u # Head(pool) => state'[u] = state[u]
    BY <1>3, SatisfyThreads
  <2>2. PICK f \in Fault_t : f = [thread |-> ran, incs |-> critical[ran] > 0]
    <3>1. PICK n \in Nat : n = critical[ran]
      BY <2>1 DEF ThreadsInv, ThreadsTypeOK
    <3>2. (n > 0) \in BOOLEAN
      BY <3>1
    <3>3. [thread |-> ran, incs |-> n > 0] \in Fault_t
      BY <2>1, <3>2 DEF Fault_t
    <3> QED BY <3>1, <3>3
  <2>3. /\ pending' = Append(pending, f) /\ idle' = idle - 1
        /\ UNCHANGED <<job, wpc, stopped, exec, act, ran, critical, vpcritical, open, yielded>>
    BY <1>3, <2>1, <2>2 DEF Satisfy, Taken
  <2>4. ran \notin Kept /\ ran \in Faulting /\ f.thread = ran
    BY <1>1, <2>1, <2>2, KeptBlocked DEF FaultInv
  <2>5. /\ pending' \in Seq(Fault_t) /\ Once(pending')
        /\ Queued(pending') = Queued(pending) \cup {ran}
        /\ Len(pending') = Len(pending) + 1 /\ Len(pending) \in Nat
    <3>1. pending \in Seq(Fault_t) /\ Len(pending) \in Nat /\ ran \notin Queued(pending)
      BY <2>4, FaultedTypes DEF Kept
    <3> QED BY <2>3, <2>4, <3>1, AppendFault DEF FaultedInv
  <2>6. /\ pool' \in Seq(Workers)
        /\ \A i, j \in DOMAIN pool' : pool'[i] = pool'[j] => i = j
        /\ \A i \in DOMAIN pool' : /\ \E j \in DOMAIN pool : pool'[i] = pool[j]
                                   /\ pool = <<>> \/ pool'[i] # Head(pool)
    <3>1. CASE pool = <<>>
      BY <2>1, <3>1 DEF EntryTypeOK
    <3>2. CASE pool # <<>>
      <4>1. /\ pool \in Seq(Workers) /\ Len(pool) \in Nat \ {0} /\ Head(pool) = pool[1]
            /\ DOMAIN pool = 1 .. Len(pool) /\ pool' = Tail(pool)
            /\ DOMAIN pool' = 1 .. Len(pool) - 1 /\ pool' \in Seq(Workers)
            /\ \A i \in 1 .. Len(pool) - 1 : pool'[i] = pool[i + 1]
        BY <2>1, <3>2 DEF EntryTypeOK
      <4>2. ASSUME NEW i \in DOMAIN pool', NEW j \in DOMAIN pool', pool'[i] = pool'[j]
            PROVE  i = j
        <5>1. i + 1 \in DOMAIN pool /\ j + 1 \in DOMAIN pool /\ pool[i + 1] = pool[j + 1]
          BY <4>1, <4>2
        <5>2. i + 1 = j + 1
          BY <5>1 DEF PoolInv
        <5> QED BY <4>1, <5>2
      <4>3. ASSUME NEW i \in DOMAIN pool'
            PROVE  /\ \E j \in DOMAIN pool : pool'[i] = pool[j]
                   /\ pool'[i] # Head(pool)
        <5>1. i + 1 \in DOMAIN pool /\ i + 1 # 1 /\ 1 \in DOMAIN pool
              /\ pool'[i] = pool[i + 1]
          BY <4>1
        <5> QED BY <4>1, <5>1 DEF PoolInv
      <4> QED BY <4>1, <4>2, <4>3
    <3> QED BY <3>1, <3>2
  <2>7. pool # <<>> => Head(pool) \in Workers
    BY DEF EntryTypeOK
  <2>8. ASSUME NEW u \in Kept, pool = <<>> \/ u # Head(pool) PROVE state'[u] = "Blocked"
    BY <2>1, <2>4, <2>8, KeptBlocked
  <2>9. \A u \in Faulted : state'[u] = "Blocked"
    BY <2>7, <2>8, FaultedTypes, KeptBlocked DEF Kept
  <2>10. PoolInv'
    <3>1. ASSUME NEW i \in DOMAIN pool'
          PROVE  state'[pool'[i]] = "Blocked" /\ wpc[pool'[i]] = "woken"
      <4>1. PICK j \in DOMAIN pool : pool'[i] = pool[j] /\ (pool = <<>> \/ pool[j] # Head(pool))
        BY <2>6
      <4>2. pool[j] \in Kept
        BY DEF Kept
      <4> QED BY <2>8, <4>1, <4>2 DEF PoolInv
    <3> QED BY <2>3, <2>6, <3>1 DEF PoolInv
  <2>11. FaultedInv'
    <3>1. \A w \in Workers : job[w].thread # ran
      <4>1. \A w \in Workers : job[w].thread # NoThread => job[w].thread \in Faulted
        BY DEF Faulted
      <4> QED BY <2>1, <2>4, <4>1, ThreadAssumption DEF Kept
    <3>2. \A t \in Queued(pending) : t \in Faulted
      BY FaultedTypes
    <3>3. \A t \in Queued(pending') :
             /\ t \in Faulting /\ state'[t] = "Blocked"
             /\ \A w \in Workers : job'[w].thread # t
      BY <2>1, <2>3, <2>4, <2>5, <2>9, <3>1, <3>2 DEF FaultedInv
    <3>4. \A w \in Workers : wpc[w] = "work" => state'[job[w].thread] = "Blocked"
      BY <2>9, FaultedTypes
    <3> QED BY <2>3, <2>5, <3>3, <3>4 DEF FaultedInv
  <2>12. StructuresInv' /\ EntryTypeOK'
    <3>1. idle' \in 0 .. MaxFaults /\ idle' + Len(pending') = idle + Len(pending)
      BY <1>3, <2>3, <2>5, WorkerAssumption DEF EntryTypeOK
    <3>2. StructuresInv'
      BY <2>3, <3>1 DEF StructuresInv, Busy
    <3> QED BY <1>1, <2>3, <2>5, <2>6, <3>1, <3>2 DEF EntryTypeOK, Fault_t
  <2>13. FaultInv' /\ WorkerInv' /\ StepKeeps
    BY <1>1, <2>3 DEF FaultInv, WorkerInv, WorkerAt, StepKeeps
  <2>14. RanInv'
    <3>1. ran \in Faulted'
      BY <2>5 DEF Faulted, Queued
    <3> QED BY <2>3, <3>1 DEF RanInv
  <2> QED BY <2>1, <2>10, <2>11, <2>12, <2>13, <2>14
<1> QED BY <1>2, <1>3

-----------------------------------------------------------------------------
(* The workers.                                                            *)

\* A worker that executes: no fault waits for the handler, it is not in the
\* pool, and no other thread is touched.
LEMMA WorkerFacts ==
    ASSUME IInv, NEW w \in Workers, Executes(w)
    PROVE  /\ w \in Threads /\ w # NoThread /\ exec = w /\ ran = w /\ ~faulty
           /\ runq # <<>> /\ Head(runq) = w /\ state[w] = "Runable"
           /\ w \notin Kept
           /\ wpc \in [Workers -> {"start", "check", "woken", "work", "leave"}]
<1> USE DEF IInv
<1>1. w \in Threads /\ w # NoThread /\ exec = w /\ state[w] = "Runable"
  BY WorkerAssumption, ThreadAssumption DEF Executes
<1> QED BY <1>1, KeptBlocked DEF FaultInv, ThreadsInv, CurrentInv, EntryTypeOK

LEMMA WorkerStep ==
    ASSUME IInv, ~stopped, NEW w \in Workers, Executes(w), faulty' = faulty,
           OthersKept(w), NEW p, wpc' = [wpc EXCEPT ![w] = p], WorkerAt(w)',
           exec' = NoThread => ran' = w /\ yielded'[w]
    PROVE  FaultInv' /\ WorkerInv' /\ RanInv'
<1> USE DEF IInv
<1>1. \A v \in Workers \ {w} : v \in Threads \ {w} /\ wpc'[v] = wpc[v]
  BY WorkerAssumption DEF EntryTypeOK
<1>2. \A v \in Workers \ {w} : WorkerAt(v) => WorkerAt(v)'
  BY <1>1 DEF WorkerAt, OthersKept
<1> QED BY <1>2, WorkerFacts DEF FaultInv, WorkerInv, RanInv

\* A worker that has no fault before nor after.
LEMMA FaultsKept ==
    ASSUME IInv, NEW w \in Workers, UNCHANGED <<pending, idle, job>>,
           NEW p \in {"check", "woken"}, wpc[w] # "work",
           wpc' = [wpc EXCEPT ![w] = p],
           \A t \in Faulted : state'[t] = "Blocked"
    PROVE  FaultedInv' /\ StructuresInv'
<1> USE DEF IInv
<1>1. \A v \in Workers : wpc'[v] = "work" <=> wpc[v] = "work"
  BY DEF EntryTypeOK
<1>2. Busy' = Busy
  BY <1>1 DEF Busy
<1> QED BY <1>1, <1>2, FaultedTypes DEF FaultedInv, StructuresInv

\* A worker takes the first fault of the queue.
LEMMA FaultTaken ==
    ASSUME IInv, NEW w \in Workers, wpc[w] \in {"check", "woken"}, pending # <<>>,
           w \notin Kept, job' = [job EXCEPT ![w] = Head(pending)],
           pending' = Tail(pending), wpc' = [wpc EXCEPT ![w] = "work"],
           UNCHANGED <<state, faulty, idle, pool, stopped>>
    PROVE  EntryTypeOK' /\ FaultedInv' /\ StructuresInv' /\ PoolInv'
<1> USE DEF IInv
<1> DEFINE t == Head(pending).thread
<1>1. /\ Tail(pending) \in Seq(Fault_t) /\ Once(Tail(pending))
      /\ Head(pending) \in Fault_t /\ t \in Queued(pending)
      /\ Queued(Tail(pending)) = Queued(pending) \ {t}
      /\ Len(Tail(pending)) = Len(pending) - 1 /\ Len(pending) > 0
      /\ Len(pending) \in Nat
  BY FaultedTypes, TailFault DEF FaultedInv
<1>2. /\ job'[w] = Head(pending) /\ wpc'[w] = "work"
      /\ \A v \in Workers \ {w} : job'[v] = job[v] /\ wpc'[v] = wpc[v]
  BY DEF EntryTypeOK
<1>3. Head(pending) \in [thread : Threads \cup {NoThread}, incs : BOOLEAN]
  BY <1>1 DEF Fault_t
<1>4. t # NoThread /\ t \in Faulting /\ state[t] = "Blocked"
      /\ \A v \in Workers : job[v].thread # t
  BY <1>1, ThreadAssumption DEF FaultedInv, Fault_t
<1>5. EntryTypeOK'
  BY <1>1, <1>3 DEF EntryTypeOK, Fault_t
<1>6. FaultedInv'
  <2>1. \A u \in Queued(pending') :
           /\ u \in Faulting /\ state'[u] = "Blocked"
           /\ \A v \in Workers : job'[v].thread # u
    BY <1>1, <1>2 DEF FaultedInv
  <2>2. ASSUME NEW v \in Workers
        PROVE  /\ wpc'[v] = "work" <=> job'[v].thread # NoThread
               /\ wpc'[v] = "work" =>
                     /\ job'[v].thread \in Faulting
                     /\ state'[job'[v].thread] = "Blocked"
                     /\ \A u \in Workers : job'[u].thread = job'[v].thread => u = v
    <3>1. CASE v = w
      BY <1>2, <1>4, <3>1
    <3>2. CASE v # w
      BY <1>2, <1>4, <3>2 DEF FaultedInv
    <3> QED BY <3>1, <3>2
  <2> QED BY <1>1, <2>1, <2>2 DEF FaultedInv
<1>7. StructuresInv'
  <2>1. Busy' = Busy \cup {w} /\ w \notin Busy
    BY <1>2 DEF Busy
  <2>2. IsFiniteSet(Busy') /\ Cardinality(Busy') = Cardinality(Busy) + 1
        /\ Cardinality(Busy) \in Nat
    BY <2>1, FS_AddElement, FS_CardinalityType DEF StructuresInv
  <2> QED BY <1>1, <2>2 DEF StructuresInv, EntryTypeOK
<1>8. PoolInv'
  BY <1>2 DEF PoolInv, Kept, EntryTypeOK
<1> QED BY <1>5, <1>6, <1>7, <1>8

\* The section a worker enters, with activations off.
LEMMA InSectionHolds ==
    ASSUME IInv, ~stopped, NEW w \in Workers, InSection(w),
           wpc[w] \notin {"woken", "leave"}
    PROVE  /\ Sectioned(w) /\ FitsIn(w, FALSE)' /\ critical' \in [Threads -> Nat]
           /\ critical'[w] = 1 /\ vpcritical'[w] = 1 /\ open'[w] = <<"vp">>
<1>1. w \in Threads /\ ThreadsTypeOK
  BY WorkerAssumption DEF IInv, ThreadsInv
<1>2. <<"vp">> \in Seq({"cs", "vp", "map"})
  OBVIOUS
<1>3. /\ SectionsTypeOK' /\ OthersKept(w) /\ critical' \in [Threads -> Nat]
      /\ critical'[w] = 1 /\ vpcritical'[w] = 1 /\ open'[w] = <<"vp">>
  <2>1. critical' \in [Threads -> Nat]
    BY <1>1 DEF InSection, ThreadsTypeOK
  <2>2. vpcritical' \in [Threads -> Int]
    BY <1>1 DEF InSection, ThreadsTypeOK
  <2>3. open' \in [Threads -> Seq({"cs", "vp", "map"})] /\ entered' \in [Threads -> Nat]
    BY <1>1, <1>2 DEF InSection, ThreadsTypeOK
  <2>4. OthersKept(w)
    BY <1>1 DEF InSection, ThreadsTypeOK, OthersKept
  <2>5. critical'[w] = 1 /\ vpcritical'[w] = 1 /\ open'[w] = <<"vp">>
    BY <1>1 DEF InSection, ThreadsTypeOK
  <2> QED BY <2>1, <2>2, <2>3, <2>4, <2>5 DEF SectionsTypeOK
<1>4. Nested(1, 1, <<"vp">>) /\ Fits(1, 1, <<"vp">>, FALSE)
  BY DEF Nested, Fits, Level
<1> QED BY <1>3, <1>4 DEF Sectioned, NestedIn, FitsIn

\* And leaves.
LEMMA LeftSection ==
    ASSUME ThreadsTypeOK, NEW w \in Threads, LeaveCS(w),
           critical[w] = 1, vpcritical[w] = 1, open[w] = <<"vp">>
    PROVE  critical'[w] = 0 /\ vpcritical'[w] = 0 /\ open'[w] = <<>>
<1>1. Front(<<"vp">>) = <<>>
  BY DEF Front
<1>2. critical'[w] = critical[w] - 1 /\ vpcritical'[w] = 0 /\ open'[w] = Front(open[w])
  BY DEF LeaveCS, ThreadsTypeOK
<1> QED BY <1>1, <1>2

LEMMA WorkerStartInv ==
    ASSUME IInv, ~stopped, NEW w \in Workers, WorkerStart(w)
    PROVE  IInv' /\ StepKeeps
<1> USE DEF IInv
<1>1. /\ Executes(w) /\ wpc[w] = "start" /\ SetDaemon(w)
      /\ wpc' = [wpc EXCEPT ![w] = "check"]
      /\ UNCHANGED <<faulty, pending, idle, pool, job, stopped, runVars, csVars>>
  BY DEF WorkerStart, At, SetDaemon
<1>2. w \in Threads /\ w # NoThread /\ exec = w /\ w \notin Kept
  BY <1>1, WorkerFacts
<1>3. ThreadsInv' /\ OthersKept(w) /\ exec' # NoThread /\ StepKeeps /\ state' = state
  BY <1>1, <1>2, SetDaemonInv DEF OthersKept, StepKeeps, runVars, csVars
<1>4. WorkerAt(w)'
  BY <1>1 DEF WorkerInv, WorkerAt, csVars, EntryTypeOK
<1>5. FaultInv' /\ WorkerInv' /\ RanInv'
  BY <1>1, <1>3, <1>4, WorkerStep
<1>6. FaultedInv' /\ StructuresInv'
  BY <1>1, <1>3, FaultsKept, FaultedTypes
<1>7. EntryTypeOK' /\ PoolInv'
  BY <1>1, <1>2, <1>3 DEF EntryTypeOK, PoolInv, Kept
<1> QED BY <1>3, <1>5, <1>6, <1>7

LEMMA WorkerLeaveInv ==
    ASSUME IInv, ~stopped, NEW w \in Workers, WorkerLeave(w)
    PROVE  IInv' /\ StepKeeps
<1> USE DEF IInv
<1>1. /\ Executes(w) /\ wpc[w] = "leave" /\ LeaveCS(w)
      /\ wpc' = [wpc EXCEPT ![w] = "check"]
      /\ UNCHANGED <<faulty, pending, idle, pool, job, stopped, state, exec, ran>>
  BY DEF WorkerLeave, At, LeaveCS
<1>2. w \in Threads /\ w # NoThread /\ exec = w /\ w \notin Kept
  BY <1>1, WorkerFacts
<1>3. ThreadsInv' /\ OthersKept(w) /\ exec' # NoThread /\ StepKeeps
  BY <1>1, <1>2, SectionsInv, SectionsKept DEF ThreadsInv, Sections, Sectioned, StepKeeps
<1>4. WorkerAt(w)'
  BY <1>1, <1>2, LeftSection DEF ThreadsInv, WorkerInv, WorkerAt, EntryTypeOK
<1>5. FaultInv' /\ WorkerInv' /\ RanInv'
  BY <1>1, <1>3, <1>4, WorkerStep
<1>6. FaultedInv' /\ StructuresInv'
  BY <1>1, <1>3, FaultsKept, FaultedTypes
<1>7. EntryTypeOK' /\ PoolInv'
  BY <1>1, <1>2, <1>3 DEF EntryTypeOK, PoolInv, Kept
<1> QED BY <1>3, <1>5, <1>6, <1>7

LEMMA TakeInv ==
    ASSUME IInv, ~stopped, NEW w \in Workers, Take(w)
    PROVE  IInv' /\ StepKeeps
<1> USE DEF IInv
<1>1. /\ Executes(w) /\ wpc[w] = "check" /\ pending # <<>>
      /\ job' = [job EXCEPT ![w] = Head(pending)] /\ pending' = Tail(pending)
      /\ wpc' = [wpc EXCEPT ![w] = "work"]
      /\ UNCHANGED threadVars /\ UNCHANGED <<faulty, idle, pool, stopped>>
  BY DEF Take, At
<1>2. w \in Threads /\ w # NoThread /\ exec = w /\ w \notin Kept
  BY <1>1, WorkerFacts
<1>3. ThreadsInv' /\ OthersKept(w) /\ exec' # NoThread /\ StepKeeps /\ state' = state
  BY <1>1, <1>2, StutterInv DEF OthersKept, StepKeeps, threadVars, runVars, csVars
<1>4. WorkerAt(w)'
  BY <1>1 DEF WorkerInv, WorkerAt, threadVars, csVars, EntryTypeOK
<1>5. FaultInv' /\ WorkerInv' /\ RanInv'
  BY <1>1, <1>3, <1>4, WorkerStep
<1>6. EntryTypeOK' /\ FaultedInv' /\ StructuresInv' /\ PoolInv'
  BY <1>1, <1>2, <1>3, FaultTaken
<1> QED BY <1>3, <1>5, <1>6

LEMMA WokenInv ==
    ASSUME IInv, ~stopped, NEW w \in Workers, Woken(w)
    PROVE  IInv' /\ StepKeeps
<1> USE DEF IInv
<1>1. /\ Executes(w) /\ wpc[w] = "woken" /\ LeaveCS(w)
      /\ UNCHANGED <<faulty, idle, pool, state, exec, ran>>
      /\ IF pending = <<>>
         THEN stopped' = TRUE /\ UNCHANGED <<pending, job, wpc>>
         ELSE /\ job' = [job EXCEPT ![w] = Head(pending)] /\ pending' = Tail(pending)
              /\ wpc' = [wpc EXCEPT ![w] = "work"] /\ UNCHANGED stopped
  BY DEF Woken, At, LeaveCS
<1>2. w \in Threads /\ w # NoThread /\ exec = w /\ w \notin Kept
  BY <1>1, WorkerFacts
<1>3. ThreadsInv' /\ OthersKept(w) /\ exec' # NoThread /\ StepKeeps
  BY <1>1, <1>2, SectionsInv, SectionsKept DEF ThreadsInv, Sections, Sectioned, StepKeeps
<1>4. CASE pending = <<>>
  <2>1. stopped' = TRUE /\ UNCHANGED <<pending, job, wpc>>
    BY <1>1, <1>4
  <2>2. FaultInv' /\ WorkerInv' /\ RanInv'
    BY <1>1, <1>2, <1>3, <2>1, WorkerFacts DEF FaultInv, WorkerInv, RanInv
  <2>3. EntryTypeOK' /\ FaultedInv' /\ StructuresInv' /\ PoolInv'
    BY <1>1, <2>1 DEF EntryTypeOK, FaultedInv, StructuresInv, Busy, PoolInv
  <2> QED BY <1>3, <2>2, <2>3
<1>5. CASE pending # <<>>
  <2>1. /\ job' = [job EXCEPT ![w] = Head(pending)] /\ pending' = Tail(pending)
        /\ wpc' = [wpc EXCEPT ![w] = "work"] /\ stopped' = stopped
    BY <1>1, <1>5
  <2>2. WorkerAt(w)'
    BY <1>1, <1>2, <2>1, LeftSection DEF ThreadsInv, WorkerInv, WorkerAt, EntryTypeOK
  <2>3. FaultInv' /\ WorkerInv' /\ RanInv'
    BY <1>1, <1>3, <2>1, <2>2, WorkerStep
  <2>4. EntryTypeOK' /\ FaultedInv' /\ StructuresInv' /\ PoolInv'
    BY <1>1, <1>2, <1>5, <2>1, FaultTaken
  <2> QED BY <1>3, <2>3, <2>4
<1> QED BY <1>4, <1>5

LEMMA SleepInv ==
    ASSUME IInv, ~stopped, NEW w \in Workers, Sleep(w)
    PROVE  IInv' /\ StepKeeps
<1> USE DEF IInv
<1>1. /\ Executes(w) /\ wpc[w] = "check" /\ InSection(w)
      /\ pool' = Append(pool, w) /\ BlockYield(w, FALSE, critical')
      /\ wpc' = [wpc EXCEPT ![w] = "woken"]
      /\ UNCHANGED <<lifeVars, faulty, pending, idle, job, stopped>>
  BY DEF Sleep, At
<1>2. w \in Threads /\ w # NoThread /\ exec = w /\ ran = w /\ w \notin Kept
  BY <1>1, WorkerFacts
<1>3. /\ Sectioned(w) /\ FitsIn(w, FALSE)' /\ critical' \in [Threads -> Nat]
      /\ critical'[w] = 1 /\ vpcritical'[w] = 1 /\ open'[w] = <<"vp">>
  BY <1>1, InSectionHolds
<1>4. PICK crit \in [Threads -> Nat] : critical' = crit
  BY <1>3
<1>5. /\ ThreadsInv' /\ (ran' # ran \/ exec' = NoThread => yielded'[w])
      /\ exec' = NoThread => ran' = w
  BY <1>1, <1>2, <1>3, <1>4, BlockYieldInv
<1>6. OthersKept(w) /\ StepKeeps
  BY <1>2, <1>3, <1>5 DEF Sectioned, StepKeeps
<1>7. state'[w] = "Blocked" /\ \A u \in Threads \ {w} : state'[u] = state[u]
  BY <1>1, <1>2 DEF BlockYield, ThreadsInv, ThreadsTypeOK
<1>8. wpc'[w] = "woken" /\ \A v \in Workers \ {w} : wpc'[v] = wpc[v]
  BY <1>1 DEF EntryTypeOK
<1>9. WorkerAt(w)'
  BY <1>3, <1>8 DEF WorkerAt
<1>10. FaultInv' /\ WorkerInv' /\ RanInv'
  BY <1>1, <1>5, <1>6, <1>9, WorkerStep
<1>11. \A u \in Kept : u \in Threads \ {w} /\ state'[u] = "Blocked"
  BY <1>2, <1>7, KeptBlocked
<1>12. FaultedInv' /\ StructuresInv'
  BY <1>1, <1>11, FaultsKept DEF Kept
<1>13. EntryTypeOK'
  BY <1>1 DEF EntryTypeOK
<1>14. PoolInv'
  <2>1. /\ Len(pool) \in Nat /\ DOMAIN pool = 1 .. Len(pool)
        /\ DOMAIN pool' = 1 .. Len(pool) + 1 /\ pool'[Len(pool) + 1] = w
        /\ \A i \in DOMAIN pool : pool'[i] = pool[i] /\ pool[i] \in Workers
    BY <1>1 DEF EntryTypeOK
  <2>2. \A i \in DOMAIN pool : pool[i] # w /\ state'[pool[i]] = "Blocked"
    BY <1>11 DEF Kept
  <2>3. \A i \in DOMAIN pool : wpc'[pool[i]] = "woken"
    BY <1>8, <2>1, <2>2 DEF PoolInv
  <2> QED BY <1>7, <1>8, <2>1, <2>2, <2>3 DEF PoolInv
<1> QED BY <1>5, <1>6, <1>10, <1>12, <1>13, <1>14

LEMMA MappedInv ==
    ASSUME IInv, ~stopped, NEW w \in Workers, Mapped(w)
    PROVE  IInv' /\ StepKeeps
<1> USE DEF IInv
<1>1. /\ Executes(w) /\ wpc[w] = "work" /\ InSection(w) /\ idle' = idle + 1
      /\ UnblockYield(w, job[w].thread, job[w].incs, FALSE, critical')
      /\ job' = [job EXCEPT ![w] = NoJob] /\ wpc' = [wpc EXCEPT ![w] = "leave"]
      /\ UNCHANGED <<lifeVars, faulty, pending, pool, stopped>>
  BY DEF Mapped, At
<1>2. w \in Threads /\ w # NoThread /\ exec = w /\ ran = w /\ w \notin Kept
  BY <1>1, WorkerFacts
<1>3. /\ Sectioned(w) /\ FitsIn(w, FALSE)' /\ critical' \in [Threads -> Nat]
      /\ critical'[w] = 1 /\ vpcritical'[w] = 1 /\ open'[w] = <<"vp">>
  BY <1>1, InSectionHolds
<1>4. PICK crit \in [Threads -> Nat] : critical' = crit
  BY <1>3
<1>5. PICK u \in Threads : u = job[w].thread /\ u \in Faulting /\ state[u] = "Blocked"
  BY <1>1, KeptBlocked, WorkerAssumption DEF FaultedInv, Clients
<1>6. PICK cs \in BOOLEAN : cs = job[w].incs
  BY DEF EntryTypeOK
<1>7. ThreadsInv' /\ ran' = w /\ exec' = w
  <2>1. UnblockYield(w, u, cs, FALSE, crit)
    BY ONLY <1>1, <1>4, <1>5, <1>6, Zenon
  <2>2. crit[w] > 0
    BY <1>3, <1>4
  <2> QED BY <1>1, <1>2, <1>3, <1>4, <1>5, <2>1, <2>2, UnblockYieldInv
<1>8. OthersKept(w) /\ StepKeeps
  BY <1>2, <1>3, <1>7 DEF Sectioned, StepKeeps
<1>9. \A v \in Threads \ {u} : state'[v] = state[v]
  BY <1>1, <1>5 DEF UnblockYield, ThreadsInv, ThreadsTypeOK
<1>10. /\ job'[w] = NoJob /\ wpc'[w] = "leave"
       /\ \A v \in Workers \ {w} : job'[v] = job[v] /\ wpc'[v] = wpc[v]
  BY <1>1 DEF EntryTypeOK
<1>11. FaultInv' /\ WorkerInv' /\ RanInv'
  <2>1. WorkerAt(w)'
    BY <1>3, <1>10 DEF WorkerAt
  <2> QED BY <1>1, <1>2, <1>7, <1>8, <2>1, WorkerStep
<1>12. StructuresInv' /\ idle' \in 0 .. MaxFaults
  <2>1. Busy' = Busy \ {w} /\ w \in Busy
    BY <1>1, <1>10 DEF Busy
  <2>2. /\ IsFiniteSet(Busy') /\ Cardinality(Busy') = Cardinality(Busy) - 1
        /\ Cardinality(Busy) \in Nat /\ Cardinality(Busy') \in Nat
    BY <2>1, FS_RemoveElement, FS_CardinalityType DEF StructuresInv
  <2>3. /\ idle + Len(pending) + Cardinality(Busy) = MaxFaults /\ Len(pending) \in Nat
        /\ idle \in 0 .. MaxFaults /\ MaxFaults \in Nat /\ Len(pending') = Len(pending)
    BY <1>1, FaultedTypes, WorkerAssumption DEF StructuresInv, EntryTypeOK
  <2>4. idle' \in 0 .. MaxFaults /\ idle' + Len(pending') + Cardinality(Busy') = MaxFaults
    BY <1>1, <2>2, <2>3
  <2> QED BY <2>2, <2>4 DEF StructuresInv
<1>13. EntryTypeOK'
  BY <1>1, <1>12 DEF EntryTypeOK, NoJob
<1>14. FaultedInv'
  <2>1. u \notin Queued(pending) /\ \A v \in Workers \ {w} : job[v].thread # u
    BY <1>1, <1>5 DEF FaultedInv
  <2>2. \A t \in Queued(pending') :
           /\ t \in Faulting /\ state'[t] = "Blocked"
           /\ \A v \in Workers : job'[v].thread # t
    <3>1. \A t \in Queued(pending) : t \in Threads \ {u} /\ t # NoThread
      BY <2>1, KeptBlocked, ThreadAssumption, WorkerAssumption DEF FaultedInv, Clients
    <3> QED BY <1>1, <1>9, <1>10, <3>1 DEF FaultedInv, NoJob
  <2>3. ASSUME NEW v \in Workers
        PROVE  /\ wpc'[v] = "work" <=> job'[v].thread # NoThread
               /\ wpc'[v] = "work" =>
                     /\ job'[v].thread \in Faulting
                     /\ state'[job'[v].thread] = "Blocked"
                     /\ \A x \in Workers : job'[x].thread = job'[v].thread => x = v
    <3>1. CASE v = w
      BY <1>10, <3>1 DEF NoJob
    <3>2. CASE v # w
      <4>1. job[v].thread \in Faulting => job[v].thread \in Threads \ {u}
        BY <2>1, <3>2, WorkerAssumption DEF Clients
      <4> QED BY <1>9, <1>10, <3>2, <4>1 DEF FaultedInv, NoJob
    <3> QED BY <3>1, <3>2
  <2> QED BY <1>1, <2>2, <2>3 DEF FaultedInv
<1>15. PoolInv'
  <2>1. \A i \in DOMAIN pool : pool[i] # u /\ pool[i] # w /\ pool[i] \in Workers
    BY <1>2, <1>5, KeptBlocked DEF EntryTypeOK, Kept
  <2>2. \A i \in DOMAIN pool : state'[pool[i]] = state[pool[i]] /\ wpc'[pool[i]] = wpc[pool[i]]
    BY <1>9, <1>10, <2>1, WorkerAssumption
  <2> QED BY <1>1, <2>2 DEF PoolInv
<1> QED BY <1>7, <1>8, <1>11, <1>12, <1>13, <1>14, <1>15

-----------------------------------------------------------------------------
(* The theorems.                                                           *)

LEMMA InitInv == Init => IInv
<1> SUFFICES ASSUME Init PROVE IInv
  OBVIOUS
<1>1. ThreadsInv /\ exec # NoThread
  BY ThreadsInitInv, ThreadAssumption DEF Init, ThreadsInit
<1>2. EntryTypeOK
  <2>1. pending \in Seq([thread : Threads, incs : BOOLEAN]) /\ pool \in Seq(Workers)
    BY DEF Init
  <2>2. idle \in 0 .. MaxFaults
    BY WorkerAssumption DEF Init
  <2>3. NoJob \in [thread : Threads \cup {NoThread}, incs : BOOLEAN]
    BY DEF NoJob
  <2> QED BY <2>1, <2>2, <2>3 DEF Init, EntryTypeOK
<1>3. FaultInv /\ PoolInv /\ RanInv
  BY <1>1 DEF Init, FaultInv, PoolInv, RanInv
<1>4. FaultedInv
  BY DEF Init, FaultedInv, Once, Queued, NoJob
<1>5. WorkerInv
  BY WorkerAssumption DEF Init, ThreadsInit, WorkerInv, WorkerAt
<1>6. StructuresInv
  <2>1. Busy = {} /\ Len(pending) = 0 /\ idle = MaxFaults
    BY DEF Init, Busy
  <2> QED BY <2>1, FS_EmptySet, WorkerAssumption DEF StructuresInv
<1> QED BY <1>1, <1>2, <1>3, <1>4, <1>5, <1>6 DEF IInv

LEMMA NextInv == IInv /\ [Next]_vars => IInv' /\ StepKeeps
<1> SUFFICES ASSUME IInv, [Next]_vars PROVE IInv' /\ StepKeeps
  OBVIOUS
<1>1. CASE Next
  <2>1. ~stopped
    BY <1>1 DEF Next
  <2>2. CASE \E t \in Clients : Client(t) \/ Fault(t) \/ Unblock(t)
    BY <2>1, <2>2, ClientInv, FaultKeepsInv, UnblockInv
  <2>3. CASE \E w \in Workers : Worker(w)
    BY <2>1, <2>3, WorkerStartInv, TakeInv, SleepInv, WokenInv, MappedInv,
       WorkerLeaveInv DEF Worker
  <2>4. CASE Satisfy \/ HandlerDone \/ Interrupted
    BY <2>4, SatisfyInv, HandlerDoneInv, InterruptedInv
  <2> QED BY <1>1, <2>2, <2>3, <2>4 DEF Next
<1>2. CASE UNCHANGED vars
  <2>1. UNCHANGED threadVars /\ UNCHANGED entryVars
    BY <1>2 DEF vars
  <2>2. ThreadsInv' /\ UNCHANGED <<state, critical, vpcritical, open, critcx, yielded, ran,
                                   exec, act, runq>>
    BY <2>1, StutterInv DEF IInv, threadVars, runVars, csVars
  <2>3. EntryTypeOK' /\ FaultedInv' /\ StructuresInv' /\ PoolInv' /\ Faulted' = Faulted
    BY <2>1, <2>2, EntryKept, KeptBlocked DEF IInv
  <2>4. FaultInv' /\ WorkerInv' /\ RanInv' /\ StepKeeps
    BY <2>1, <2>2, <2>3 DEF IInv, FaultInv, WorkerInv, WorkerAt, RanInv, StepKeeps,
                          Mark, entryVars
  <2> QED BY <2>2, <2>3, <2>4 DEF IInv
<1> QED BY <1>1, <1>2

\* The invariant holds in every state the domain reaches.
THEOREM InvariantHolds == Spec => []IInv
<1> QED BY InitInv, NextInv, PTL DEF Spec

\* Type correctness of threads, faults and workers.
THEOREM TypeCorrect == Spec => []TypeOK
<1>1. IInv => TypeOK
  BY DEF IInv, ThreadsInv, EntryTypeOK, TypeOK
<1> QED BY <1>1, InvariantHolds, PTL

\* What ActivationGo and InternalYield check before they stop the machine:
\* queue, mark and slot agree, in every state and for any threads.
THEOREM CurrentIsMarked == Spec => []CurrentMarked
<1>1. IInv => CurrentMarked
  BY PropertiesHold DEF IInv
<1> QED BY <1>1, InvariantHolds, PTL

\* No thread is resumed by longjmp from a slot that holds a context, or by
\* RFAResume from a slot that holds a jmp_buf.
THEOREM SlotsAreRestored == Spec => []SlotsRestored
<1>1. IInv => SlotsRestored
  BY PropertiesHold DEF IInv
<1> QED BY <1>1, InvariantHolds, PTL

\* Activations are off exactly in the sections that asked for it, with the
\* exception ModeKept names, to any depth and across any yield.
THEOREM ModesAreKept == Spec => []ModeKept
<1>1. IInv => ModeKept
  BY PropertiesHold DEF IInv
<1> QED BY <1>1, InvariantHolds, PTL

\* st->active_threads is the number of threads that count, so that the
\* domain is destroyed with its last one.
THEOREM CountIsKept == Spec => []CountKept
<1>1. IInv => CountKept
  BY PropertiesHold DEF IInv
<1> QED BY <1>1, InvariantHolds, PTL

\* No step, of a handler or of a thread, takes the processor from a thread in
\* a critical section that has not given it up.
THEOREM CriticalIsKept == Spec => CriticalKept
<1>1. IInv /\ [Next]_vars
          => [ran' # ran /\ critical[ran] > 0
                  => yielded'[ran] \/ state'[ran] = "Blocked"]_<<ran, critical>>
  BY NextInv DEF StepKeeps
<1> QED BY <1>1, InvariantHolds, PTL DEF Spec, CriticalKept
==============================================================================
