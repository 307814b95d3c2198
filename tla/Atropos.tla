------------------------------ MODULE Atropos ------------------------------
(***************************************************************************)
(* The Atropos CPU scheduler (ntsc/generic/atropos.c) with everything that *)
(* shares its state: the system calls and interrupts that enter it         *)
(* (ntsc/ix86/intel/syscalls.c, timer.c, kernel.c), the domain manager     *)
(* routines that edit its queues from outside (sys/domains/sched.c) and    *)
(* the run-time contract changes of sys/nemesis/schedctl.c.                *)
(*                                                                         *)
(* A pass through ksched_scheduler runs with interrupts off.  It is one    *)
(* action per loop iteration, sequenced by pc; pc = "user" is code         *)
(* executing outside the scheduler, or the idle loop when cur = NoDom, and *)
(* pc = "boot" is such code before the scheduler's first pass.             *)
(*                                                                         *)
(* Times are relative to the present, so "deadline <= time" reads          *)
(* "deadline <= 0"; they are counted in units of which one interrupt of    *)
(* the interval timer advances the clock by TickLen.                       *)
(*                                                                         *)
(* Queues are sets here: a heap is a set whose head is one of its members  *)
(* of least deadline.  AtroposHeap has the arrays.                         *)
(***************************************************************************)
EXTENDS Integers, Sequences, FiniteSets

CONSTANTS
    Dom,           \* domains: a dcb and the one sdom it points to
    NoDom,         \* the null dcb pointer
    Nemesis,       \* the system domain, which runs the domain manager
    QoS,           \* QoS[d]: contracts d may be given, [p, s, l, x]
    Removable,     \* domains the domain manager may be asked to stop
    Tunable,       \* domains whose contract is changed while they run
    Timeouts,      \* how far ahead a domain sets its block timeout
    Forever,       \* FOREVER: a time that never comes
    TickLen,       \* TICKER_INTERVAL
    Quantum,       \* BESTEFFORT_QUANTUM
    QSize,         \* CFG_UNBLOCK_QUEUE_SIZE
    NumOutEvs,     \* NUM_DCB_EVENTS
    Late           \* bound: a time further in the past is not told apart
                   \* (NumOutEvs = 0 leaves the events of VP$Send out)

States  == {"run", "wait", "block", "unblocked"}
SchSts  == {"STOPPED", "RUN", "WAIT", "BLOCK", "BLCKD", "WAKING", "YIELD",
            "DYING"}
Outside == {"boot", "user"}
Phases  == Outside \cup {"deschedule", "alloc", "drain", "timeouts", "pick"}
Contract == [p : Nat \ {0}, s : Nat, l : Nat \ {0}, x : BOOLEAN]
SDom    == [state : States, deadline : Int, timeout : Int, remain : Int,
            period : Nat, slice : Nat, latency : Nat, xtratime : BOOLEAN]

\* AddContracted refuses a contract whose period or latency is zero.
ASSUME ContractAssumption ==
    /\ Nemesis \in Dom /\ NoDom \notin Dom
    /\ QoS \in [Dom -> SUBSET Contract] /\ QoS[Nemesis] # {}
    /\ Removable \subseteq Dom \ {Nemesis} /\ Tunable \subseteq Dom
ASSUME TimeAssumption ==
    /\ Timeouts \subseteq Int /\ Forever \in Nat \ {0}
    /\ TickLen \in Nat \ {0} /\ Quantum \in Nat \ {0} /\ Late \in Nat
ASSUME SizeAssumption == QSize \in Nat \ {0} /\ NumOutEvs \in Nat

VARIABLES
    pc,            \* where the processor is
    cur,           \* kernel_st.cur_dcb and cur_sdom
    ran,           \* time since cur was scheduled: now - lastschd
    alarm,         \* the interval timer's alarm
    run, wait, blocked,  \* the three priority queues
    optm,          \* the member of wait that index next_optm selects, while
                   \* a domain runs on extra time
    domq,          \* domains with new events pending, oldest first
    schst,         \* dcb_ro.schst
    sd,            \* the sdom structures
    pending,       \* is the domain's event FIFO non-empty?
    outevs,        \* outgoing events, pushed and not yet processed
    setqos,        \* a SetQoS call in progress, and its stores still to come
    due            \* history: guaranteed time granted and not yet used

queues == <<run, wait, blocked, optm>>
vars   == <<pc, cur, ran, alarm, queues, domq, schst, sd, pending, outevs,
            setqos, due>>

-----------------------------------------------------------------------------
(* The queues and the sdom fields.                                         *)

Heads(q) == {d \in q : \A e \in q : sd[d].deadline <= sd[e].deadline}
HeadOf(q) == CHOOSE d \in Heads(q) : TRUE
Min2(a, b) == IF a <= b THEN a ELSE b
HeadTime(q, otherwise) == IF Heads(q) = {} THEN otherwise
                          ELSE Min2(otherwise, sd[HeadOf(q)].deadline)

Unset == [p |-> 1, s |-> 0, l |-> 1, x |-> FALSE]
NewSDom(q) ==
    [state |-> "run", deadline |-> q.p, timeout |-> 0, remain |-> q.s,
     period |-> q.p, slice |-> q.s, latency |-> q.l, xtratime |-> q.x]

\* Mutant for NoStarvation: the deadline is not moved to the end of the new
\* period.
NewPeriodSameDeadline(s) ==
    LET r == IF s.remain > 0 THEN s.slice ELSE s.remain + s.slice
    IN  [s EXCEPT !.remain = r, !.state = IF r > 0 THEN "run" ELSE "wait"]

\* What a domain is due at the head of the wait queue: a new period.  Unused
\* time is thrown away, an overrun is carried.
NewPeriod(s) ==
    LET r == IF s.remain > 0 THEN s.slice ELSE s.remain + s.slice
    IN  [s EXCEPT !.remain = r, !.deadline = s.deadline + s.period,
                  !.state = IF r > 0 THEN "run" ELSE "wait"]

\* block: queues are ordered by deadline, so the timeout takes its place.
BlockSDom(s) ==
    [s EXCEPT !.state = "block", !.deadline = s.timeout,
              !.timeout = s.deadline]

\* unblock: a long block earns a fresh slice, a short one keeps what is left.
LongBlock(s) == s.timeout < 0
UnblockSDom(s) ==
    IF LongBlock(s)
    THEN [s EXCEPT !.deadline = s.latency, !.remain = s.slice,
                   !.state = IF s.slice > 0 THEN "run" ELSE "wait"]
    ELSE [s EXCEPT !.deadline = s.timeout,
                   !.state = IF s.remain > 0 THEN "unblocked" ELSE "wait"]

\* Mutant for ContractKept: time run just after a wakeup is not charged.
ChargeRunOnly(s) ==
    IF s.state = "run" THEN [s EXCEPT !.remain = s.remain - ran] ELSE s

\* Deduct what the domain ran for, if it ran on guaranteed time.
Contracted(s) == s.state \in {"run", "unblocked"}
Charge(s) == IF Contracted(s) THEN [s EXCEPT !.remain = s.remain - ran] ELSE s

\* Mutant for TypeOK: schst set to "run" or "wait", an sdom state.
QueuedStOfSDom(s) == s.state

\* requeue: where a domain that is not blocked goes, and its schst.
OnRun(s)    == s.state = "run"
QueuedSt(s) == IF OnRun(s) THEN "RUN" ELSE "WAIT"

Elapse(t) == IF t >= Forever THEN t
             ELSE IF t - TickLen < -Late THEN -Late ELSE t - TickLen

NoCall == [by |-> NoDom, dom |-> Nemesis, qos |-> Unset, left |-> 0]

-----------------------------------------------------------------------------
(* Boot: Scheduler_AddDomain has put the first domain, the system domain,  *)
(* on the run queue and made it the current one; Arch_StartScheduler has   *)
(* set the timer for its deadline, and the primal has activated it.        *)

Init ==
    /\ \E q \in QoS[Nemesis] :
          sd = [d \in Dom |-> NewSDom(IF d = Nemesis THEN q ELSE Unset)]
    /\ pc = "boot" /\ cur = Nemesis /\ ran = 0 /\ alarm = sd[Nemesis].deadline
    /\ run = {Nemesis} /\ wait = {} /\ blocked = {} /\ optm = NoDom
    /\ domq = <<>>
    /\ schst = [d \in Dom |-> IF d = Nemesis THEN "RUN" ELSE "STOPPED"]
    /\ pending = [d \in Dom |-> FALSE] /\ outevs = [d \in Dom |-> <<>>]
    /\ setqos = NoCall
    /\ due = [d \in Dom |-> sd[d].slice]

-----------------------------------------------------------------------------
(* Event delivery: k_send and k_kick.  put says whether the endpoint was   *)
(* acknowledged, and so goes on the receiver's FIFO.  A kick that finds    *)
(* the domain queue full is lost.                                          *)

Kicks(d) == schst[d] = "BLCKD" /\ Len(domq) + 1 < QSize

Send(d, put) ==
    /\ pending' = [pending EXCEPT ![d] = @ \/ put]
    /\ domq'  = IF Kicks(d) THEN Append(domq, d) ELSE domq
    /\ schst' = IF Kicks(d) THEN [schst EXCEPT ![d] = "WAKING"] ELSE schst

Reenter == pc' = IF cur = NoDom THEN "alloc" ELSE "deschedule"

\* do_timer_irq: the clock advances; at the alarm the scheduler is entered.
Tick ==
    /\ pc \in Outside
    /\ sd' = [d \in Dom |-> [sd[d] EXCEPT !.deadline = Elapse(@),
                                          !.timeout = Elapse(@)]]
    /\ alarm' = Elapse(alarm)
    /\ ran' = IF cur = NoDom THEN 0 ELSE ran + TickLen
    /\ due' = IF cur # NoDom /\ Contracted(sd[cur])
              THEN [due EXCEPT ![cur] = @ - TickLen] ELSE due
    /\ IF alarm' <= 0 THEN Reenter ELSE UNCHANGED pc
    /\ UNCHANGED <<cur, domq, schst, pending, outevs, setqos, queues>>

\* k_irq: a device stub calls k_event; a kick makes k_irq reschedule.
Interrupt(d, put) ==
    /\ pc \in Outside
    /\ Send(d, put)
    /\ IF Kicks(d) THEN Reenter ELSE UNCHANGED pc
    /\ UNCHANGED <<cur, ran, alarm, sd, outevs, setqos, due, queues>>

-----------------------------------------------------------------------------
(* What the running domain may do, unless it is in the middle of SetQoS,   *)
(* which may be preempted but not abandoned for something else.            *)

Executing == pc \in Outside /\ cur # NoDom /\ setqos.by # cur

\* k_sc_send, and k_psc_kevent from the Plumber: no reschedule follows.
SyscallSend(d, put) ==
    /\ Executing
    /\ Send(d, put)
    /\ UNCHANGED <<pc, cur, ran, alarm, sd, outevs, setqos, due, queues>>

\* VP$Send: queue the event for the scheduler to deliver.
PushEvent(d) ==
    /\ Executing
    /\ Len(outevs[cur]) < NumOutEvs
    /\ outevs' = [outevs EXCEPT ![cur] = Append(@, d)]
    /\ UNCHANGED <<pc, cur, ran, alarm, domq, schst, sd, pending, setqos,
                   due, queues>>

\* VP$NextEvent takes the last event of the domain's FIFO.
TakeEvents ==
    /\ Executing
    /\ pending[cur]
    /\ pending' = [pending EXCEPT ![cur] = FALSE]
    /\ UNCHANGED <<pc, cur, ran, alarm, domq, schst, sd, outevs, setqos, due,
                   queues>>

\* k_sc_block, k_sc_rfa_block: with events pending the call returns, or
\* activates the domain, at once.
Block(t) ==
    /\ Executing
    /\ ~pending[cur]
    /\ schst' = [schst EXCEPT ![cur] = "BLOCK"]
    /\ sd' = [sd EXCEPT ![cur].timeout = t]
    /\ pc' = "deschedule"
    /\ UNCHANGED <<cur, ran, alarm, domq, pending, outevs, setqos, due,
                   queues>>

\* k_sc_yield
Yield ==
    /\ Executing
    /\ schst' = [schst EXCEPT ![cur] = "YIELD"]
    /\ pc' = "deschedule"
    /\ UNCHANGED <<cur, ran, alarm, domq, sd, pending, outevs, setqos, due,
                   queues>>

-----------------------------------------------------------------------------
(* The domain manager, running in the system domain with interrupts off.   *)

\* Mutant for QueuesConsistent: a newcomer may become the head of run.
DisplacesNobody(deadline) == FALSE

\* Scheduler_AddDomain, as AddContracted calls it with a fresh sdom: the
\* newcomer must not displace the running domain from the head of run.
Displaces(deadline) == \E h \in Heads(run) : sd[h].deadline >= deadline

AddContracted(d, q) ==
    /\ Executing /\ cur = Nemesis
    /\ schst[d] = "STOPPED"
    /\ sd' = [sd EXCEPT ![d] =
                  IF Displaces(q.p)
                  THEN [NewSDom(q) EXCEPT !.deadline =
                                               sd[HeadOf(run)].deadline + 1]
                  ELSE NewSDom(q)]
    /\ schst' = [schst EXCEPT ![d] = "RUN"]
    /\ run' = run \cup {d}
    /\ due' = [due EXCEPT ![d] = q.s]
    /\ UNCHANGED <<pc, cur, ran, alarm, wait, blocked, optm, domq, pending,
                   outevs, setqos>>

\* Scheduler_RemoveDomain: the queue the sdom's state names is searched.
\* Taking a member out of the middle of the wait heap moves others, so
\* next_optm may select any of them afterwards.
TakeOff(d) ==
    /\ run'     = IF sd[d].state = "run" THEN run \ {d} ELSE run
    /\ blocked' = IF sd[d].state = "block" THEN blocked \ {d} ELSE blocked
    /\ IF sd[d].state \in {"wait", "unblocked"}
       THEN /\ wait' = wait \ {d}
            /\ optm' \in IF optm = NoDom \/ wait' = {} THEN {optm} ELSE wait'
       ELSE UNCHANGED <<wait, optm>>

\* StopDomain, called by Remove (final = "STOPPED") and Destroy ("DYING").
StopDomain(d, final) ==
    /\ Executing /\ cur = Nemesis
    /\ d \in Removable
    /\ schst[d] # "DYING"
    /\ IF schst[d] = "STOPPED" THEN UNCHANGED queues ELSE TakeOff(d)
    /\ schst' = [schst EXCEPT ![d] = final]
    /\ UNCHANGED <<pc, cur, ran, alarm, domq, sd, pending, outevs, setqos,
                   due>>

\* SetQoS: four stores.  Its "kernel critical section" keeps activations
\* off, not interrupts, so the scheduler may run between any two of them.
SetQoS(d, q) ==
    /\ Executing
    /\ setqos.by = NoDom
    /\ d \in Tunable
    /\ sd' = [sd EXCEPT ![d].period = q.p]
    /\ setqos' = [by |-> cur, dom |-> d, qos |-> q, left |-> 3]
    /\ UNCHANGED <<pc, cur, ran, alarm, domq, schst, pending, outevs, due,
                   queues>>

SetQoSStore ==
    /\ pc \in Outside /\ cur # NoDom /\ setqos.by = cur
    /\ LET d == setqos.dom  q == setqos.qos
       IN  \/ /\ setqos.left = 3
              /\ sd' = [sd EXCEPT ![d].slice = q.s]
           \/ /\ setqos.left = 2
              /\ sd' = [sd EXCEPT ![d].latency = q.l]
           \/ /\ setqos.left = 1
              /\ sd' = [sd EXCEPT ![d].xtratime = q.x]
    /\ setqos' = IF setqos.left = 1 THEN NoCall
                 ELSE [setqos EXCEPT !.left = @ - 1]
    /\ UNCHANGED <<pc, cur, ran, alarm, domq, schst, pending, outevs, due,
                   queues>>

-----------------------------------------------------------------------------
(* ksched_scheduler.                                                       *)

\* Deliver the events the domain being descheduled has queued.
Deliver(put) ==
    /\ pc = "deschedule" /\ outevs[cur] # <<>>
    /\ Send(Head(outevs[cur]), put)
    /\ outevs' = [outevs EXCEPT ![cur] = Tail(@)]
    /\ UNCHANGED <<pc, cur, ran, alarm, sd, setqos, due, queues>>

\* dequeue: which sdom leaves the queue when c is to be taken off its own.
\* From run it is the head, from wait the one next_optm selects.
Dequeued(c) ==
    CASE sd[c].state = "run" -> IF c \in Heads(run) THEN {c} ELSE Heads(run)
      [] sd[c].state = "wait" -> {optm}
      [] OTHER -> {c}

\* Mutant for NoLostWakeup: the FIFO is not looked at again before a domain
\* that asked to block is put to sleep.
BlockingRegardless(c) == schst[c] = "BLOCK"

Blocking(c) == schst[c] = "BLOCK" /\ ~pending[c]

\* Mutant for DeadlinesMet: a slice used up to the last tick is not spent yet.
Overspent(c) == Contracted(sd[c]) /\ sd[c].remain - ran < 0

Spent(c) == Contracted(sd[c]) /\ sd[c].remain - ran <= 0

\* Charge the domain; move it to wait if its time is spent, to blocked if it
\* asked to block and no event has come in for it since.
Deschedule ==
    /\ pc = "deschedule" /\ outevs[cur] = <<>>
    /\ LET s == Charge(sd[cur])
       IN  IF Blocking(cur) \/ Spent(cur)
           THEN \E x \in Dequeued(cur) :
                 LET left == IF sd[cur].state = "run" THEN wait
                             ELSE wait \ {x}
                 IN  /\ run' = IF sd[cur].state = "run" THEN run \ {x} ELSE run
                     /\ IF Blocking(cur)
                        THEN /\ sd' = [sd EXCEPT ![cur] = BlockSDom(s)]
                             /\ schst' = [schst EXCEPT ![cur] = "BLCKD"]
                             /\ blocked' = blocked \cup {cur}
                             /\ wait' = left
                        ELSE /\ sd' = [sd EXCEPT ![cur] =
                                           [s EXCEPT !.state = "wait"]]
                             /\ schst' = [schst EXCEPT ![cur] = "WAIT"]
                             /\ blocked' = blocked
                             /\ wait' = left \cup {cur}
           ELSE /\ sd' = [sd EXCEPT ![cur] = s]
                /\ UNCHANGED <<run, wait, blocked, schst>>
    /\ pc' = "alloc" /\ cur' = NoDom /\ ran' = 0 /\ optm' = NoDom
    /\ UNCHANGED <<alarm, domq, pending, outevs, setqos, due>>

\* requeue d with its sdom updated to s, taken from queue fields already.
Requeue(d, s) ==
    /\ sd' = [sd EXCEPT ![d] = s]
    /\ schst' = [schst EXCEPT ![d] = QueuedSt(s)]
    /\ run' = IF OnRun(s) THEN run \cup {d} ELSE run

\* What a new period brings: the slice, less the overrun in the last one.
Granted(d) == sd[d].slice + (IF due[d] < 0 THEN due[d] ELSE 0)

\* A waiting domain whose deadline has come begins a new period.
Allocate ==
    /\ pc = "alloc"
    /\ \E d \in Heads(wait) :
          /\ sd[d].deadline <= 0
          /\ LET s == NewPeriod(sd[d])
             IN  /\ Requeue(d, s)
                 /\ wait' = IF OnRun(s) THEN wait \ {d} ELSE wait
                 /\ due' = [due EXCEPT ![d] = Granted(d)]
    /\ UNCHANGED <<pc, cur, ran, alarm, blocked, optm, domq, pending, outevs,
                   setqos>>

AllocDone ==
    /\ pc = "alloc"
    /\ \A d \in wait : sd[d].deadline > 0
    /\ pc' = "drain"
    /\ UNCHANGED <<cur, ran, alarm, domq, schst, sd, pending, outevs, setqos,
                   due, queues>>

\* unblock and requeue, for a domain just taken off the blocked queue.
Unblock(d) ==
    LET s == UnblockSDom(sd[d])
    IN  /\ Requeue(d, s)
        /\ wait' = IF OnRun(s) THEN wait ELSE wait \cup {d}
        /\ blocked' = blocked \ {d}
        /\ due' = IF LongBlock(sd[d]) THEN [due EXCEPT ![d] = sd[d].slice]
                  ELSE due

\* Domains that were sent events while blocked.  A stopped or dying domain
\* is on no queue, but may have been kicked before it was stopped.
Drain ==
    /\ pc = "drain" /\ domq # <<>>
    /\ domq' = Tail(domq)
    /\ LET d == Head(domq)
       IN  IF schst[d] \notin {"STOPPED", "DYING"} /\ sd[d].state = "block"
           THEN Unblock(d)
           ELSE UNCHANGED <<run, wait, blocked, schst, sd, due>>
    /\ UNCHANGED <<pc, cur, ran, alarm, optm, pending, outevs, setqos>>

DrainDone ==
    /\ pc = "drain" /\ domq = <<>>
    /\ pc' = "timeouts"
    /\ UNCHANGED <<cur, ran, alarm, domq, schst, sd, pending, outevs, setqos,
                   due, queues>>

\* Blocked domains whose timeout has come.
Expire ==
    /\ pc = "timeouts"
    /\ \E d \in Heads(blocked) : sd[d].deadline <= 0 /\ Unblock(d)
    /\ UNCHANGED <<pc, cur, ran, alarm, optm, domq, pending, outevs, setqos>>

ExpireDone ==
    /\ pc = "timeouts"
    /\ \A d \in blocked : sd[d].deadline > 0
    /\ pc' = "pick"
    /\ UNCHANGED <<cur, ran, alarm, domq, schst, sd, pending, outevs, setqos,
                   due, queues>>

Favoured == {d \in wait : sd[d].state = "unblocked"}
Extra    == {d \in wait : sd[d].xtratime}

\* Mutant for TimerCovers and SleepersWake: block timeouts set no alarm.
NextAlarmOfWait(until) == HeadTime(wait, until)

\* The timer is set for the end of the allocation, or for the next time a
\* domain on wait or blocked needs the scheduler, if that comes first.
NextAlarm(until) == HeadTime(blocked, HeadTime(wait, until))

RunNext(c, until) ==
    /\ cur' = c /\ ran' = 0
    /\ alarm' = NextAlarm(until)
    /\ schst' = [schst EXCEPT ![c] = "RUN"]

\* Contracted time first, by deadline; then domains just unblocked with time
\* left; then extra time, in turn; and otherwise the idle loop.
Pick ==
    /\ pc = "pick"
    /\ pc' = "user"
    /\ \/ \E c \in Heads(run) :
             RunNext(c, sd[c].remain) /\ UNCHANGED optm
       \/ /\ run = {}
          /\ \E c \in Favoured : RunNext(c, sd[c].remain) /\ UNCHANGED optm
       \/ /\ run = {} /\ Favoured = {}
          /\ \E c \in Extra : RunNext(c, Quantum) /\ optm' = c
       \/ /\ run = {} /\ Favoured = {} /\ Extra = {}
          /\ cur' = NoDom
          /\ alarm' = NextAlarm(Forever)
          /\ UNCHANGED <<ran, schst, optm>>
    /\ UNCHANGED <<run, wait, blocked, domq, sd, pending, outevs, setqos,
                   due>>

-----------------------------------------------------------------------------
User ==
    \/ \E d \in Dom, put \in BOOLEAN : SyscallSend(d, put)
    \/ \E d \in Dom : PushEvent(d)
    \/ TakeEvents \/ Yield
    \/ \E t \in Timeouts : Block(t)
    \/ \E d \in Dom : \E q \in QoS[d] : AddContracted(d, q) \/ SetQoS(d, q)
    \/ \E d \in Dom, final \in {"STOPPED", "DYING"} : StopDomain(d, final)

Pass == \/ Deschedule \/ Allocate \/ AllocDone \/ Drain \/ DrainDone
        \/ Expire \/ ExpireDone \/ Pick
        \/ \E put \in BOOLEAN : Deliver(put)

Next ==
    \/ Tick
    \/ \E d \in Dom, put \in BOOLEAN : Interrupt(d, put)
    \/ User \/ SetQoSStore \/ Pass

Spec == Init /\ [][Next]_vars

\* The ticker interrupts whatever runs, however often it enters the kernel,
\* a scheduler pass runs to its end, and a running domain gets on with the
\* call it is in.
FairSpec == Spec /\ SF_vars(Tick) /\ WF_vars(Pass)

-----------------------------------------------------------------------------
(* Correctness.                                                            *)

\* Types, for every variable.
TypeOK ==
    /\ pc \in Phases /\ cur \in Dom \cup {NoDom} /\ ran \in Nat /\ alarm \in Int
    /\ run \subseteq Dom /\ wait \subseteq Dom /\ blocked \subseteq Dom
    /\ optm \in Dom \cup {NoDom}
    /\ domq \in Seq(Dom)
    /\ schst \in [Dom -> SchSts] /\ sd \in [Dom -> SDom]
    /\ pending \in [Dom -> BOOLEAN] /\ outevs \in [Dom -> Seq(Dom)]
    /\ setqos \in [by : Dom \cup {NoDom}, dom : Dom, qos : Contract,
                   left : 0..3]
    /\ due \in [Dom -> Int]

Known(d)   == schst[d] \notin {"STOPPED", "DYING"}
Running(d) == cur = d /\ pc \in Outside \cup {"deschedule"}

\* d is on the queue its sdom's state names, if the scheduler knows it.
Placed(d) ==
    /\ d \in run <=> Known(d) /\ sd[d].state = "run"
    /\ d \in wait <=> Known(d) /\ sd[d].state \in {"wait", "unblocked"}
    /\ d \in blocked <=> Known(d) /\ sd[d].state = "block"
    /\ Known(d) => (sd[d].state = "block" <=> schst[d] \in {"BLCKD", "WAKING"})

\* d is not asleep, and dequeue would take d off its queue.
Dequeueable(d) ==
    /\ Known(d) /\ sd[d].state # "block"
    /\ sd[d].state = "run" => d \in Heads(run)
    /\ sd[d].state = "wait" => optm = d

\* Every domain the scheduler knows is on exactly the queue its sdom's state
\* names, and only those; its schst says it sleeps exactly when it is on the
\* blocked queue.  The running domain is not asleep, and dequeue would find
\* it: at the head of run, or where next_optm points (atropos.c:160-183).
QueuesConsistent ==
    \A d \in Dom : Placed(d) /\ (Running(d) => Dequeueable(d))

\* No lost wakeup: a domain with events in its FIFO is never left sleeping
\* unless it has been kicked, and then it is in the queue the scheduler
\* drains, which never overflows (the "lost wakeup" of k_kick).
NoLostWakeup ==
    \A d \in Dom : /\ schst[d] = "BLCKD" => ~pending[d]
                   /\ schst[d] = "WAKING" => \E i \in DOMAIN domq : domq[i] = d

\* Once the scheduler has run, the timer is set so that no period boundary,
\* no block timeout and no end of an allocation passes without a pass of it.
TimerCovers ==
    pc = "user" =>
      /\ \A d \in wait \cup blocked : alarm <= sd[d].deadline
      /\ cur # NoDom /\ Contracted(sd[cur])
            => alarm + ran <= sd[cur].remain

\* The system domain's first slice ends with its period: Arch_StartScheduler
\* sets the timer for its deadline (sched_intel.c:74).
BootDebt(d) == IF d = Nemesis THEN sd[d].period - sd[d].slice ELSE 0

\* A domain is charged for all the guaranteed time it uses, once, and uses
\* no more of it than it was granted, but for part of the tick that stops it;
\* however it blocks, yields or wakes, and whatever SetQoS does meanwhile.
\* What the system domain overruns at boot it pays back before it gets more.
ContractKept ==
    \A d \in Dom : Known(d) =>
        /\ sd[d].remain = due[d] + (IF Running(d) /\ Contracted(sd[d])
                                   THEN ran ELSE 0)
        /\ due[d] > -TickLen - BootDebt(d)

\* The point of Atropos: a domain that is owed guaranteed time has received
\* it by its deadline, if the contracts admitted fit the processor.
DeadlinesMet ==
    pc \in Outside => \A d \in run : sd[d].deadline >= 0

\* A domain that was kicked is unblocked (or stopped) by a later pass, and one
\* that sleeps until a given time does not sleep for ever.
SleepersWake ==
    \A d \in Dom :
        /\ (schst[d] = "WAKING") ~> (schst[d] # "WAKING")
        /\ (d \in blocked /\ sd[d].deadline # Forever) ~> (d \notin blocked)

\* Nobody with guaranteed time to spend is starved by the others, however
\* they block and wake.
NoStarvation ==
    \A d \in Dom : (d \in run) ~> (cur = d \/ d \notin run)
=============================================================================
