---------------------------- MODULE AtroposHeap ----------------------------
(***************************************************************************)
(* Atropos with the queues as the scheduler keeps them: three array heaps  *)
(* built by the macros of h/pqueues.h, one index field per sdom, and       *)
(* next_optm, an array index that selects a member of the wait queue.      *)
(* Whatever does not touch the queues is taken from Atropos, of which this *)
(* is meant to be an implementation.                                       *)
(***************************************************************************)
EXTENDS PQueue, Sequences

CONSTANTS Dom, NoDom, Nemesis, QoS, Removable, Tunable, Timeouts, Forever,
          TickLen, Quantum, QSize, NumOutEvs, Late

VARIABLES
    pq,            \* kernel_st.run, wait and blocked, and the sdoms' pq_index
    next_optm,     \* kernel_st.next_optm
    pc, cur, ran, alarm, domq, schst, sd, pending, outevs, setqos, due

\* The domain being charged for a stay on the wait queue: dequeue would
\* take what next_optm selects for it.
Optimistic == pc \in {"boot", "user", "deschedule"} /\ cur # NoDom
                 /\ sd[cur].state = "wait"

A == INSTANCE Atropos WITH
        run     <- Members(pq.run),
        wait    <- Members(pq.wait),
        blocked <- Members(pq.blocked),
        optm    <- IF Optimistic /\ next_optm \in 1..pq.wait.n
                   THEN pq.wait.q[next_optm] ELSE NoDom

\* What Atropos assumes of its constants; each domain has its slot in a queue.
ASSUME ContractAssumption ==
    /\ Nemesis \in Dom /\ NoDom \notin Dom
    /\ QoS \in [Dom -> SUBSET A!Contract] /\ QoS[Nemesis] # {}
    /\ Removable \subseteq Dom \ {Nemesis} /\ Tunable \subseteq Dom
ASSUME TimeAssumption ==
    /\ Timeouts \subseteq Int /\ Forever \in Nat \ {0}
    /\ TickLen \in Nat \ {0} /\ Quantum \in Nat \ {0} /\ Late \in Nat
ASSUME SizeAssumption ==
    IsFiniteSet(Dom) /\ QSize \in Nat \ {0} /\ NumOutEvs \in Nat

heaps  == <<pq, next_optm>>
common == <<pc, cur, ran, alarm, domq, schst, sd, pending, outevs, setqos,
            due>>
vars   == <<heaps, common>>

-----------------------------------------------------------------------------
(* sdomq_remove, sdomq_insert and sdomq_del on queue k of p.               *)

Deadlines(s) == [d \in Dom |-> s[d].deadline]
Heap(p, k)   == [n |-> p[k].n, q |-> p[k].q, ix |-> p.ix]
Put(p, k, h) == [p EXCEPT ![k] = [n |-> h.n, q |-> h.q], !.ix = h.ix]

RemoveHead(p, k)  == Put(p, k, PQRemove(Heap(p, k), Deadlines(sd)))
DeleteAt(p, k, i) == Put(p, k, PQDel(Heap(p, k), i, Deadlines(sd)))
InsertIn(p, k, d, s) ==
    Put(p, k, PQInsert(Heap(p, k), d, [Deadlines(sd) EXCEPT ![d] = s.deadline]))

\* Mutant for ImplementsAtropos: a period that ends now is not over yet.
HeadOverdue(k) == pq[k].n > 0 /\ sd[pq[k].q[1]].deadline < 0

HeadDue(k) == pq[k].n > 0 /\ sd[pq[k].q[1]].deadline <= 0

\* The queue an sdom in a given state is on.
QueueOf(s) == CASE s.state = "run" -> "run" [] s.state = "block" -> "blocked"
                [] OTHER -> "wait"

dequeue(d) ==
    CASE sd[d].state = "run"  -> RemoveHead(pq, "run")
      [] sd[d].state = "wait" -> DeleteAt(pq, "wait", next_optm)
      [] OTHER                -> DeleteAt(pq, QueueOf(sd[d]), pq.ix[d])

\* d, whose queue has been left as in p, goes with its sdom updated to s to
\* the queue for s.
Move(d, s, st, p) ==
    /\ sd' = [sd EXCEPT ![d] = s]
    /\ schst' = [schst EXCEPT ![d] = st]
    /\ pq' = InsertIn(p, QueueOf(s), d, s)

requeue(d, s, p) == Move(d, s, A!QueuedSt(s), p)

-----------------------------------------------------------------------------
Empty == [n |-> 0, q |-> [i \in 1..Cardinality(Dom) |-> NoDom]]

\* next_optm starts at 0, and moves on before it is used.
Init ==
    /\ next_optm = 0
    /\ \E q \in QoS[Nemesis] :
          sd = [d \in Dom |-> A!NewSDom(IF d = Nemesis THEN q ELSE A!Unset)]
    /\ pq = Put([run |-> Empty, wait |-> Empty, blocked |-> Empty,
                 ix |-> [d \in Dom |-> 0]], "run",
                PQInsert([n |-> 0, q |-> Empty.q, ix |-> [d \in Dom |-> 0]],
                         Nemesis, Deadlines(sd)))
    /\ pc = "boot" /\ cur = Nemesis /\ ran = 0 /\ alarm = sd[Nemesis].deadline
    /\ domq = <<>>
    /\ schst = [d \in Dom |-> IF d = Nemesis THEN "RUN" ELSE "STOPPED"]
    /\ pending = [d \in Dom |-> FALSE] /\ outevs = [d \in Dom |-> <<>>]
    /\ setqos = A!NoCall
    /\ due = [d \in Dom |-> sd[d].slice]

\* Steps of Atropos that leave the queues alone.
Elsewhere ==
    /\ UNCHANGED heaps
    /\ \/ A!Tick \/ A!TakeEvents \/ A!Yield \/ A!SetQoSStore \/ A!DrainDone
       \/ \E d \in Dom : A!PushEvent(d)
       \/ \E d \in Dom, put \in BOOLEAN : A!Interrupt(d, put)
       \/ \E d \in Dom, put \in BOOLEAN : A!SyscallSend(d, put)
       \/ \E put \in BOOLEAN : A!Deliver(put)
       \/ \E t \in Timeouts : A!Block(t)
       \/ \E d \in Dom : \E q \in QoS[d] : A!SetQoS(d, q)

-----------------------------------------------------------------------------
(* The domain manager.                                                     *)

AddContracted(d, q) ==
    /\ A!Executing /\ cur = Nemesis
    /\ schst[d] = "STOPPED"
    /\ LET new  == A!NewSDom(q)
           head == sd[pq.run.q[1]].deadline
       IN  Move(d, IF pq.run.n > 0 /\ head >= new.deadline
                   THEN [new EXCEPT !.deadline = head + 1] ELSE new, "RUN", pq)
    /\ due' = [due EXCEPT ![d] = q.s]
    /\ UNCHANGED <<next_optm, pc, cur, ran, alarm, domq, pending, outevs,
                   setqos>>

\* sdomq_delete searches the queue; not to find the sdom is only reported.
sdomq_delete(k, d) ==
    IF d \in Members(pq[k])
    THEN DeleteAt(pq, k, CHOOSE i \in 1..pq[k].n :
                            /\ pq[k].q[i] = d
                            /\ \A j \in 1..(i - 1) : pq[k].q[j] # d)
    ELSE pq

StopDomain(d, final) ==
    /\ A!Executing /\ cur = Nemesis
    /\ d \in Removable
    /\ schst[d] # "DYING"
    /\ pq' = IF schst[d] = "STOPPED" THEN pq
             ELSE sdomq_delete(QueueOf(sd[d]), d)
    /\ schst' = [schst EXCEPT ![d] = final]
    /\ UNCHANGED <<next_optm, pc, cur, ran, alarm, domq, sd, pending, outevs,
                   setqos, due>>

-----------------------------------------------------------------------------
(* ksched_scheduler.                                                       *)

Deschedule ==
    /\ pc = "deschedule" /\ outevs[cur] = <<>>
    /\ LET s == A!Charge(sd[cur])
       IN  \/ /\ A!Blocking(cur)
              /\ Move(cur, A!BlockSDom(s), "BLCKD", dequeue(cur))
           \/ /\ ~A!Blocking(cur) /\ A!Spent(cur)
              /\ Move(cur, [s EXCEPT !.state = "wait"], "WAIT", dequeue(cur))
           \/ /\ ~A!Blocking(cur) /\ ~A!Spent(cur)
              /\ sd' = [sd EXCEPT ![cur] = s]
              /\ UNCHANGED <<pq, schst>>
    /\ pc' = "alloc" /\ cur' = NoDom /\ ran' = 0
    /\ UNCHANGED <<next_optm, alarm, domq, pending, outevs, setqos, due>>

Allocate ==
    /\ pc = "alloc" /\ HeadDue("wait")
    /\ LET d == pq.wait.q[1]
           s == A!NewPeriod(sd[d])
       IN  /\ requeue(d, s, RemoveHead(pq, "wait"))
           /\ due' = [due EXCEPT ![d] = A!Granted(d)]
    /\ UNCHANGED <<next_optm, pc, cur, ran, alarm, domq, pending, outevs,
                   setqos>>

AllocDone ==
    /\ pc = "alloc" /\ ~HeadDue("wait")
    /\ pc' = "drain"
    /\ UNCHANGED <<heaps, cur, ran, alarm, domq, schst, sd, pending, outevs,
                   setqos, due>>

\* unblock, then requeue.
Unblock(d, p) ==
    LET s == A!UnblockSDom(sd[d])
    IN  /\ requeue(d, s, p)
        /\ due' = IF A!LongBlock(sd[d])
                    THEN [due EXCEPT ![d] = sd[d].slice] ELSE due

Drain ==
    /\ pc = "drain" /\ domq # <<>>
    /\ domq' = Tail(domq)
    /\ LET d == Head(domq)
       IN  IF schst[d] \notin {"STOPPED", "DYING"} /\ sd[d].state = "block"
           THEN Unblock(d, dequeue(d))
           ELSE UNCHANGED <<pq, schst, sd, due>>
    /\ UNCHANGED <<next_optm, pc, cur, ran, alarm, pending, outevs, setqos>>

Expire ==
    /\ pc = "timeouts" /\ HeadDue("blocked")
    /\ Unblock(pq.blocked.q[1], RemoveHead(pq, "blocked"))
    /\ UNCHANGED <<next_optm, pc, cur, ran, alarm, domq, pending, outevs,
                   setqos>>

ExpireDone ==
    /\ pc = "timeouts" /\ ~HeadDue("blocked")
    /\ pc' = "pick"
    /\ UNCHANGED <<heaps, cur, ran, alarm, domq, schst, sd, pending, outevs,
                   setqos, due>>

HeadTime(k, otherwise) ==
    IF pq[k].n = 0 THEN otherwise
    ELSE A!Min2(otherwise, sd[pq[k].q[1]].deadline)

RunNext(c, until) ==
    /\ cur' = c
    /\ alarm' = HeadTime("blocked", HeadTime("wait", until))
    /\ IF c = NoDom THEN UNCHANGED <<ran, schst>>
       ELSE ran' = 0 /\ schst' = [schst EXCEPT ![c] = "RUN"]

\* Slots of the wait queue that could be picked, and the order in which
\* next_optm visits them: on from where it is, and round at the end.
UnblockedAt == {i \in 1..pq.wait.n : sd[pq.wait.q[i]].state = "unblocked"}
ExtraAt     == {i \in 1..pq.wait.n : sd[pq.wait.q[i]].xtratime}
Start       == IF next_optm >= pq.wait.n THEN 0 ELSE next_optm
Visit(i)    == IF i > Start THEN i - Start ELSE i - Start + pq.wait.n
FirstUnblocked == CHOOSE i \in UnblockedAt : \A j \in UnblockedAt : i <= j
NextExtra == CHOOSE i \in ExtraAt : \A j \in ExtraAt : Visit(i) <= Visit(j)

\* With nobody to run on extra time next_optm goes right round.
Pick ==
    /\ pc = "pick"
    /\ pc' = "user"
    /\ CASE pq.run.n > 0 ->
              /\ RunNext(pq.run.q[1], sd[pq.run.q[1]].remain)
              /\ UNCHANGED next_optm
         [] pq.run.n = 0 /\ UnblockedAt # {} ->
              LET c == pq.wait.q[FirstUnblocked]
              IN  RunNext(c, sd[c].remain) /\ UNCHANGED next_optm
         [] pq.run.n = 0 /\ UnblockedAt = {} /\ ExtraAt # {} ->
              /\ next_optm' = NextExtra
              /\ RunNext(pq.wait.q[next_optm'], Quantum)
         [] OTHER ->
              /\ RunNext(NoDom, Forever)
              /\ next_optm' = IF pq.wait.n = 0 THEN next_optm
                              ELSE IF Start = 0 THEN pq.wait.n ELSE Start
    /\ UNCHANGED <<pq, domq, sd, pending, outevs, setqos, due>>

-----------------------------------------------------------------------------
Manager == \E d \in Dom : \/ \E q \in QoS[d] : AddContracted(d, q)
                          \/ \E final \in {"STOPPED", "DYING"} :
                                StopDomain(d, final)

Pass == \/ Deschedule \/ Allocate \/ AllocDone \/ Drain \/ Expire
        \/ ExpireDone \/ Pick

Next == Elsewhere \/ Manager \/ Pass
Spec == Init /\ [][Next]_vars

-----------------------------------------------------------------------------
(* Correctness.                                                            *)

\* The arrays, the index fields and the cursor do what Atropos says of the
\* queues as sets: the scheduler with its heaps is a scheduler that always
\* takes a member of least deadline and never loses, duplicates or misfiles
\* a domain (atropos.c with pqueues.h).
ImplementsAtropos == A!Spec

\* While a domain runs on extra time, st->next_optm gives its position in
\* the wait queue (the comment at atropos.c:409-413).
NextOptmIsRunning ==
    Optimistic => next_optm \in 1..pq.wait.n /\ pq.wait.q[next_optm] = cur

\* A domain that is off the queues is on none of the arrays, and one that is
\* on a queue is in one slot of it, the slot its index field records.
HeapsIndexed ==
    \A d \in Dom : \A k \in {"run", "wait", "blocked"} :
        {i \in 1..pq[k].n : pq[k].q[i] = d} =
            IF A!Known(d) /\ QueueOf(sd[d]) = k THEN {pq.ix[d]} ELSE {}
=============================================================================
