--------------------------- MODULE AtroposProofs ---------------------------
(***************************************************************************)
(* Theorems about Atropos, for any number of domains, any contracts and    *)
(* any clock: the queues of the scheduler, its domain queue, its timer and *)
(* the accounts of its domains.                                            *)
(***************************************************************************)
EXTENDS Atropos, FiniteSetTheorems, WellFoundedInduction, TLAPS

-----------------------------------------------------------------------------
(* What the updates of an sdom preserve.                                   *)

LEMMA NewSDomType == \A q \in Contract : NewSDom(q) \in SDom
  BY DEF NewSDom, Contract, SDom, States

LEMMA UnsetType == Unset \in Contract
  BY DEF Unset, Contract

LEMMA SDomUpdate ==
    ASSUME NEW s \in SDom, NEW r \in Int, NEW dl \in Int, NEW st \in States
    PROVE  [s EXCEPT !.remain = r, !.deadline = dl, !.state = st] \in SDom
  BY DEF SDom

LEMMA NewPeriodType == ASSUME NEW s \in SDom PROVE NewPeriod(s) \in SDom
<1> DEFINE r  == IF s.remain > 0 THEN s.slice ELSE s.remain + s.slice
           dl == s.deadline + s.period
           st == IF r > 0 THEN "run" ELSE "wait"
<1>1. r \in Int /\ dl \in Int /\ st \in States
  BY DEF SDom, States
<1>2. NewPeriod(s) = [s EXCEPT !.remain = r, !.deadline = dl, !.state = st]
  BY DEF NewPeriod
<1> HIDE DEF r, dl, st
<1>3. [s EXCEPT !.remain = r, !.deadline = dl, !.state = st] \in SDom
  BY ONLY <1>1, SDomUpdate, s \in SDom
<1> QED BY <1>2, <1>3

LEMMA BlockSDomType == ASSUME NEW s \in SDom PROVE BlockSDom(s) \in SDom
<1>1. s.timeout \in Int /\ s.deadline \in Int /\ "block" \in States
  BY DEF SDom, States
<1> QED BY <1>1 DEF BlockSDom, SDom

LEMMA UnblockSDomType == ASSUME NEW s \in SDom PROVE UnblockSDom(s) \in SDom
<1>1. CASE LongBlock(s)
  <2> DEFINE st == IF s.slice > 0 THEN "run" ELSE "wait"
  <2>1. s.latency \in Int /\ s.slice \in Int /\ st \in States
    BY DEF SDom, States
  <2>2. UnblockSDom(s) = [s EXCEPT !.remain = s.slice, !.deadline = s.latency,
                                   !.state = st]
    BY <1>1 DEF UnblockSDom
  <2> HIDE DEF st
  <2>3. [s EXCEPT !.remain = s.slice, !.deadline = s.latency, !.state = st]
         \in SDom
    BY ONLY <2>1, SDomUpdate, s \in SDom
  <2> QED BY <2>2, <2>3
<1>2. CASE ~LongBlock(s)
  <2> DEFINE st == IF s.remain > 0 THEN "unblocked" ELSE "wait"
  <2>1. s.timeout \in Int /\ st \in States
    BY DEF SDom, States
  <2>2. UnblockSDom(s) = [s EXCEPT !.deadline = s.timeout, !.state = st]
    BY <1>2 DEF UnblockSDom
  <2> HIDE DEF st
  <2> QED BY <2>1, <2>2 DEF SDom
<1> QED BY <1>1, <1>2

LEMMA ChargeType ==
    ASSUME ran \in Nat, NEW s \in SDom PROVE Charge(s) \in SDom
<1>1. s.remain - ran \in Int
  BY DEF SDom
<1>2. [s EXCEPT !.remain = s.remain - ran] \in SDom
  BY <1>1 DEF SDom
<1> QED BY <1>2 DEF Charge

LEMMA ElapseType == \A t \in Int : Elapse(t) \in Int
  BY TimeAssumption DEF Elapse

\* The passage of time does not reorder deadlines.
LEMMA ElapseMonotone ==
    \A t, u \in Int : t <= u => Elapse(t) <= Elapse(u)
<1> SUFFICES ASSUME NEW t \in Int, NEW u \in Int, t <= u
             PROVE  Elapse(t) <= Elapse(u)
  OBVIOUS
<1>1. TickLen \in Int /\ Late \in Int /\ Forever \in Nat /\ TickLen > 0
      /\ Late >= 0
  BY TimeAssumption
<1> QED BY <1>1 DEF Elapse

LEMMA HeadTimeType ==
    ASSUME TypeOK, NEW q \in SUBSET Dom, NEW t \in Int
    PROVE  HeadTime(q, t) \in Int
<1>1. CASE Heads(q) = {}
  BY <1>1 DEF HeadTime
<1>2. CASE Heads(q) # {}
  <2>1. HeadOf(q) \in q
    BY <1>2 DEF HeadOf, Heads
  <2>2. sd[HeadOf(q)].deadline \in Int
    BY <2>1 DEF TypeOK, SDom
  <2> QED BY <1>2, <2>2 DEF HeadTime, Min2
<1> QED BY <1>1, <1>2

\* Sending an event keeps the types of what it touches.
LEMMA SendType ==
    ASSUME TypeOK, NEW d \in Dom, NEW put \in BOOLEAN, Send(d, put)
    PROVE  /\ pending' \in [Dom -> BOOLEAN] /\ domq' \in Seq(Dom)
           /\ schst' \in [Dom -> SchSts]
<1>1. pending' \in [Dom -> BOOLEAN]
  BY DEF TypeOK, Send
<1>2. domq' \in Seq(Dom)
  BY DEF TypeOK, Send
<1>3. schst' \in [Dom -> SchSts]
  BY DEF TypeOK, Send, SchSts
<1> QED BY <1>1, <1>2, <1>3

LEMMA RequeueType ==
    ASSUME TypeOK, NEW d \in Dom, NEW s \in SDom, Requeue(d, s)
    PROVE  /\ sd' \in [Dom -> SDom] /\ schst' \in [Dom -> SchSts]
           /\ run' \subseteq Dom
  BY DEF TypeOK, Requeue, QueuedSt, SchSts

LEMMA UnblockType ==
    ASSUME TypeOK, NEW d \in Dom, Unblock(d)
    PROVE  /\ sd' \in [Dom -> SDom] /\ schst' \in [Dom -> SchSts]
           /\ run' \subseteq Dom /\ wait' \subseteq Dom
           /\ blocked' \subseteq Dom /\ due' \in [Dom -> Int]
<1> DEFINE s == UnblockSDom(sd[d])
<1>1. s \in SDom
  BY UnblockSDomType DEF TypeOK
<1>2. sd[d].slice \in Int
  BY DEF TypeOK, SDom
<1>3. Requeue(d, s)
  BY DEF Unblock
<1>4. /\ sd' \in [Dom -> SDom] /\ schst' \in [Dom -> SchSts]
      /\ run' \subseteq Dom
  BY <1>1, <1>3, RequeueType
<1>5. due' \in [Dom -> Int]
  BY <1>2 DEF Unblock, TypeOK
<1>6. wait' \subseteq Dom /\ blocked' \subseteq Dom
  BY DEF Unblock, TypeOK
<1> QED BY <1>4, <1>5, <1>6

-----------------------------------------------------------------------------
(* Type correctness.                                                       *)

LEMMA InitType == Init => TypeOK
<1> SUFFICES ASSUME Init PROVE TypeOK
  OBVIOUS
<1>1. PICK q \in QoS[Nemesis] :
         sd = [d \in Dom |-> NewSDom(IF d = Nemesis THEN q ELSE Unset)]
  BY DEF Init
<1>2. q \in Contract
  BY ContractAssumption
<1>3. sd \in [Dom -> SDom]
  BY <1>1, <1>2, NewSDomType, UnsetType
<1>4. \A d \in Dom : sd[d].slice \in Int /\ sd[d].deadline \in Int
  BY <1>3 DEF SDom
<1>5. due \in [Dom -> Int]
  BY <1>4 DEF Init
<1>6. schst \in [Dom -> SchSts]
  BY DEF Init, SchSts
<1>7. setqos \in [by : Dom \cup {NoDom}, dom : Dom, qos : Contract, left : 0..3]
  BY UnsetType, ContractAssumption DEF Init, NoCall
<1>8. alarm \in Int /\ ran \in Nat /\ pc \in Phases
  BY <1>4, ContractAssumption DEF Init, Phases, Outside
<1> QED
  BY <1>3, <1>5, <1>6, <1>7, <1>8, ContractAssumption DEF Init, TypeOK

\* Some domain is current exactly when code of one may be running.
Phased == /\ cur # NoDom => pc \in Outside \cup {"deschedule"}
          /\ pc = "deschedule" => cur # NoDom

LEMMA NextPhased == Phased /\ [Next]_vars => Phased'
<1> SUFFICES ASSUME Phased, [Next]_vars PROVE Phased'
  OBVIOUS
<1>1. CASE Tick
  BY <1>1 DEF Tick, Reenter, Phased
<1>2. ASSUME NEW d \in Dom, NEW put \in BOOLEAN, Interrupt(d, put)
      PROVE  Phased'
  BY <1>2 DEF Interrupt, Reenter, Phased
<1>3. CASE User
  BY <1>3 DEF User, SyscallSend, PushEvent, TakeEvents, Yield, Block,
     AddContracted, SetQoS, StopDomain, Executing, Phased
<1>4. CASE SetQoSStore
  BY <1>4 DEF SetQoSStore, Phased
<1>5. CASE Pass
  <2>1. CASE Pick
    BY <2>1 DEF Pick, Phased, Outside
  <2>2. CASE Deschedule
    BY <2>2 DEF Deschedule, Phased
  <2>3. CASE Allocate \/ AllocDone \/ Drain \/ DrainDone \/ Expire
             \/ ExpireDone
    BY <2>3 DEF Allocate, AllocDone, Drain, DrainDone, Expire, ExpireDone,
       Phased, Outside
  <2>4. ASSUME NEW put \in BOOLEAN, Deliver(put) PROVE Phased'
    BY <2>4 DEF Deliver, Phased
  <2> QED BY <1>5, <2>1, <2>2, <2>3, <2>4 DEF Pass
<1>6. CASE UNCHANGED vars
  BY <1>6 DEF vars, Phased
<1> QED BY <1>1, <1>2, <1>3, <1>4, <1>5, <1>6 DEF Next

LEMMA NextType == TypeOK /\ Phased /\ [Next]_vars => TypeOK'
<1> SUFFICES ASSUME TypeOK, Phased, [Next]_vars PROVE TypeOK'
  OBVIOUS
<1> USE DEF queues
<1>1. CASE Tick
  <2>1. sd' \in [Dom -> SDom]
    <3>1. ASSUME NEW d \in Dom
          PROVE  [sd[d] EXCEPT !.deadline = Elapse(sd[d].deadline),
                               !.timeout = Elapse(sd[d].timeout)] \in SDom
      <4>1. sd[d] \in SDom /\ sd[d].deadline \in Int /\ sd[d].timeout \in Int
        BY DEF TypeOK, SDom
      <4>2. Elapse(sd[d].deadline) \in Int /\ Elapse(sd[d].timeout) \in Int
        BY <4>1, ElapseType
      <4> QED BY <4>1, <4>2 DEF SDom
    <3> QED BY <1>1, <3>1 DEF Tick
  <2>2. alarm' \in Int
    BY <1>1, ElapseType DEF Tick, TypeOK
  <2>3. ran' \in Nat
    <3>1. ran + TickLen \in Nat
      BY TimeAssumption DEF TypeOK
    <3> QED BY <1>1, <3>1 DEF Tick
  <2>4. due' \in [Dom -> Int]
    <3>1. \A d \in Dom : due[d] - TickLen \in Int
      BY TimeAssumption DEF TypeOK
    <3> QED BY <1>1, <3>1 DEF Tick, TypeOK
  <2> QED BY <1>1, <2>1, <2>2, <2>3, <2>4 DEF Tick, Reenter, TypeOK, Phases, Outside
<1>2. ASSUME NEW d \in Dom, NEW put \in BOOLEAN, Interrupt(d, put)
      PROVE  TypeOK'
  <2>1. Send(d, put)
    BY <1>2 DEF Interrupt
  <2>2. /\ pending' \in [Dom -> BOOLEAN] /\ domq' \in Seq(Dom)
        /\ schst' \in [Dom -> SchSts]
    BY <2>1, SendType
  <2> QED BY <1>2, <2>2 DEF Interrupt, Reenter, TypeOK, Phases, Outside
<1>3. ASSUME NEW d \in Dom, NEW put \in BOOLEAN, SyscallSend(d, put)
      PROVE  TypeOK'
  <2>1. Send(d, put)
    BY <1>3 DEF SyscallSend
  <2>2. /\ pending' \in [Dom -> BOOLEAN] /\ domq' \in Seq(Dom)
        /\ schst' \in [Dom -> SchSts]
    BY <2>1, SendType
  <2> QED BY <1>3, <2>2 DEF SyscallSend, TypeOK
<1>4. ASSUME NEW d \in Dom, PushEvent(d) PROVE TypeOK'
  BY <1>4 DEF PushEvent, Executing, TypeOK
<1>5. CASE TakeEvents
  BY <1>5 DEF TakeEvents, TypeOK
<1>6. ASSUME NEW t \in Timeouts, Block(t) PROVE TypeOK'
  <2>1. t \in Int /\ cur \in Dom
    BY <1>6, TimeAssumption DEF Block, Executing, TypeOK
  <2>2. sd' \in [Dom -> SDom]
    BY ZenonT(30), <1>6, <2>1 DEF Block, TypeOK, SDom
  <2> QED BY <1>6, <2>2 DEF Block, TypeOK, Phases, Outside, SchSts
<1>7. CASE Yield
  BY <1>7 DEF Yield, TypeOK, Phases, Outside, SchSts
<1>8. ASSUME NEW d \in Dom, NEW q \in QoS[d], AddContracted(d, q)
      PROVE  TypeOK'
  <2>1. q \in Contract /\ q.s \in Int /\ NewSDom(q) \in SDom
    <3>1. q \in Contract
      BY ContractAssumption
    <3> QED BY <3>1, NewSDomType DEF Contract
  <2>2. ASSUME NEW h \in Heads(run)
        PROVE  sd[HeadOf(run)].deadline + 1 \in Int
    <3>1. HeadOf(run) \in Dom
      BY <2>2 DEF HeadOf, Heads, TypeOK
    <3>2. sd[HeadOf(run)] \in SDom
      BY <3>1 DEF TypeOK
    <3> QED BY <3>2 DEF SDom
  <2>3. sd' \in [Dom -> SDom]
    <3>1. CASE Displaces(q.p)
      <4>1. [NewSDom(q) EXCEPT !.deadline = sd[HeadOf(run)].deadline + 1]
               \in SDom
        BY <3>1, <2>1, <2>2 DEF SDom, Displaces
      <4> QED BY <1>8, <3>1, <4>1 DEF AddContracted, TypeOK
    <3>2. CASE ~Displaces(q.p)
      BY <1>8, <3>2, <2>1 DEF AddContracted, TypeOK
    <3> QED BY <3>1, <3>2
  <2>4. due' \in [Dom -> Int]
    BY <1>8, <2>1 DEF AddContracted, TypeOK
  <2> QED BY <1>8, <2>3, <2>4 DEF AddContracted, TypeOK, SchSts
<1>9. ASSUME NEW d \in Dom, NEW final \in {"STOPPED", "DYING"},
             StopDomain(d, final)
      PROVE  TypeOK'
  <2>1. /\ run' \subseteq Dom /\ wait' \subseteq Dom /\ blocked' \subseteq Dom
        /\ optm' \in Dom \cup {NoDom}
    BY <1>9 DEF StopDomain, TakeOff, TypeOK
  <2>2. schst' \in [Dom -> SchSts]
    BY <1>9 DEF StopDomain, TypeOK, SchSts
  <2> QED BY <1>9, <2>1, <2>2 DEF StopDomain, TypeOK
<1>10. ASSUME NEW d \in Dom, NEW q \in QoS[d], SetQoS(d, q) PROVE TypeOK'
  <2>1. q \in Contract /\ q.p \in Nat /\ cur \in Dom
    <3>1. q \in Contract
      BY ContractAssumption
    <3> QED BY <1>10, <3>1 DEF Contract, SetQoS, Executing, TypeOK
  <2>2. sd' \in [Dom -> SDom]
    BY ZenonT(30), <1>10, <2>1 DEF SetQoS, TypeOK, SDom
  <2>3. setqos' \in [by : Dom \cup {NoDom}, dom : Dom, qos : Contract,
                     left : 0..3]
    BY <1>10, <2>1 DEF SetQoS
  <2> QED BY <1>10, <2>2, <2>3 DEF SetQoS, TypeOK
<1>11. CASE SetQoSStore
  <2>1. setqos.dom \in Dom /\ setqos.qos \in Contract /\ setqos.left \in 0..3
    BY DEF TypeOK
  <2>2. sd' \in [Dom -> SDom]
    <3> DEFINE d == setqos.dom
    <3>1. /\ setqos.qos.s \in Nat /\ setqos.qos.l \in Nat
          /\ setqos.qos.x \in BOOLEAN
      BY <2>1 DEF Contract
    <3>2. sd[d] \in SDom
      BY <2>1 DEF TypeOK
    <3>3. [sd[d] EXCEPT !.slice = setqos.qos.s] \in SDom
      BY <3>1, <3>2 DEF SDom
    <3>4. [sd[d] EXCEPT !.latency = setqos.qos.l] \in SDom
      BY <3>1, <3>2 DEF SDom
    <3>5. [sd[d] EXCEPT !.xtratime = setqos.qos.x] \in SDom
      BY <3>1, <3>2 DEF SDom
    <3>6. \/ sd' = [sd EXCEPT ![d] = [sd[d] EXCEPT !.slice = setqos.qos.s]]
          \/ sd' = [sd EXCEPT ![d] = [sd[d] EXCEPT !.latency = setqos.qos.l]]
          \/ sd' = [sd EXCEPT ![d] = [sd[d] EXCEPT !.xtratime = setqos.qos.x]]
      BY <1>11 DEF SetQoSStore
    <3> HIDE DEF d
    <3> QED BY <3>3, <3>4, <3>5, <3>6 DEF TypeOK
  <2>3. setqos' \in [by : Dom \cup {NoDom}, dom : Dom, qos : Contract,
                     left : 0..3]
    <3>1. CASE setqos.left = 1
      BY <1>11, <3>1, UnsetType, ContractAssumption DEF SetQoSStore, NoCall
    <3>2. CASE setqos.left # 1
      <4>1. setqos.left - 1 \in 0..3
        BY <1>11, <2>1, <3>2 DEF SetQoSStore
      <4> QED BY <1>11, <3>2, <4>1 DEF SetQoSStore, TypeOK
    <3> QED BY <3>1, <3>2
  <2> QED BY <1>11, <2>2, <2>3 DEF SetQoSStore, TypeOK
<1>12. ASSUME NEW put \in BOOLEAN, Deliver(put) PROVE TypeOK'
  <2>1. cur \in Dom /\ outevs[cur] \in Seq(Dom) /\ outevs[cur] # <<>>
    BY <1>12 DEF Deliver, Phased, TypeOK
  <2>2. Head(outevs[cur]) \in Dom /\ Tail(outevs[cur]) \in Seq(Dom)
    BY <2>1
  <2>3. Send(Head(outevs[cur]), put)
    BY <1>12 DEF Deliver
  <2>4. /\ pending' \in [Dom -> BOOLEAN] /\ domq' \in Seq(Dom)
        /\ schst' \in [Dom -> SchSts]
    BY <2>2, <2>3, SendType
  <2>5. outevs' \in [Dom -> Seq(Dom)]
    BY <1>12, <2>2 DEF Deliver, TypeOK
  <2> QED BY <1>12, <2>4, <2>5 DEF Deliver, TypeOK
<1>13. CASE Deschedule
  <2> DEFINE s == Charge(sd[cur])
  <2>1. cur \in Dom
    BY <1>13 DEF Deschedule, Phased, TypeOK
  <2>2. s \in SDom
    BY <2>1, ChargeType DEF TypeOK
  <2>3. BlockSDom(s) \in SDom
    BY <2>2, BlockSDomType
  <2>4. [s EXCEPT !.state = "wait"] \in SDom
    BY <2>2 DEF SDom, States
  <2> HIDE DEF s
  <2>5. /\ pc' = "alloc" /\ cur' = NoDom /\ ran' = 0 /\ optm' = NoDom
        /\ UNCHANGED <<alarm, domq, pending, outevs, setqos, due>>
    BY <1>13 DEF Deschedule
  <2>6. sd' \in [Dom -> SDom]
    BY <1>13, <2>1, <2>2, <2>3, <2>4 DEF Deschedule, TypeOK, s
  <2>7. schst' \in [Dom -> SchSts]
    BY <1>13, <2>1 DEF Deschedule, TypeOK, SchSts
  <2>8. run' \subseteq Dom /\ wait' \subseteq Dom /\ blocked' \subseteq Dom
    BY <1>13, <2>1 DEF Deschedule, TypeOK
  <2> QED BY <2>5, <2>6, <2>7, <2>8 DEF TypeOK, Phases, Outside
<1>14. CASE Allocate
  <2>1. PICK d \in Heads(wait) :
          LET s == NewPeriod(sd[d])
          IN  /\ Requeue(d, s)
              /\ wait' = IF OnRun(s) THEN wait \ {d} ELSE wait
              /\ due' = [due EXCEPT ![d] = Granted(d)]
    BY <1>14 DEF Allocate
  <2> DEFINE s == NewPeriod(sd[d])
  <2>2. d \in Dom
    BY DEF Heads, TypeOK
  <2>3. s \in SDom
    BY <2>2, NewPeriodType DEF TypeOK
  <2>4. Requeue(d, s) /\ Granted(d) \in Int
    BY SMTT(30), <2>1, <2>2 DEF SDom, Granted, TypeOK
  <2>5. /\ sd' \in [Dom -> SDom] /\ schst' \in [Dom -> SchSts]
        /\ run' \subseteq Dom
    BY <2>2, <2>3, <2>4, RequeueType
  <2>6. due' \in [Dom -> Int] /\ wait' \subseteq Dom
    BY <2>1, <2>4 DEF TypeOK
  <2> QED BY <1>14, <2>5, <2>6 DEF Allocate, TypeOK
<1>15. CASE Drain
  <2>1. Head(domq) \in Dom /\ domq' \in Seq(Dom)
    BY <1>15 DEF Drain, TypeOK
  <2>2. CASE Unblock(Head(domq))
    <3>1. /\ sd' \in [Dom -> SDom] /\ schst' \in [Dom -> SchSts]
          /\ run' \subseteq Dom /\ wait' \subseteq Dom
          /\ blocked' \subseteq Dom /\ due' \in [Dom -> Int]
      BY <2>1, <2>2, UnblockType
    <3> QED BY <1>15, <2>1, <3>1 DEF Drain, TypeOK
  <2>3. CASE UNCHANGED <<run, wait, blocked, schst, sd, due>>
    BY <1>15, <2>1, <2>3 DEF Drain, TypeOK
  <2> QED BY <1>15, <2>2, <2>3 DEF Drain
<1>16. CASE Expire
  <2>1. PICK d \in Heads(blocked) : Unblock(d)
    BY <1>16 DEF Expire
  <2>2. d \in Dom
    BY DEF Heads, TypeOK
  <2>3. /\ sd' \in [Dom -> SDom] /\ schst' \in [Dom -> SchSts]
        /\ run' \subseteq Dom /\ wait' \subseteq Dom
        /\ blocked' \subseteq Dom /\ due' \in [Dom -> Int]
    BY <2>1, <2>2, UnblockType
  <2> QED BY <1>16, <2>3 DEF Expire, TypeOK
<1>17. CASE AllocDone \/ DrainDone \/ ExpireDone
  BY <1>17 DEF AllocDone, DrainDone, ExpireDone, TypeOK, Phases, Outside
<1>18. CASE Pick
  <2>1. ASSUME NEW c \in Dom, NEW u \in Int, RunNext(c, u)
        PROVE  /\ cur' \in Dom /\ ran' \in Nat /\ alarm' \in Int
               /\ schst' \in [Dom -> SchSts]
    <3>1. HeadTime(wait, u) \in Int
      BY HeadTimeType DEF TypeOK
    <3>2. HeadTime(blocked, HeadTime(wait, u)) \in Int
      BY <3>1, HeadTimeType DEF TypeOK
    <3> QED BY <2>1, <3>2 DEF RunNext, NextAlarm, TypeOK, SchSts
  <2>2. NextAlarm(Forever) \in Int
    <3>1. HeadTime(wait, Forever) \in Int
      BY HeadTimeType, TimeAssumption DEF TypeOK
    <3> QED BY <3>1, HeadTimeType DEF TypeOK, NextAlarm
  <2>3. \A c \in Dom : sd[c].remain \in Int
    BY DEF TypeOK, SDom
  <2>4. /\ cur' \in Dom \cup {NoDom} /\ ran' \in Nat /\ alarm' \in Int
        /\ schst' \in [Dom -> SchSts] /\ optm' \in Dom \cup {NoDom}
    <3>1. CASE \E c \in Heads(run) :
                  RunNext(c, sd[c].remain) /\ UNCHANGED optm
      BY <3>1, <2>1, <2>3 DEF Heads, TypeOK
    <3>2. CASE \E c \in Favoured :
                  RunNext(c, sd[c].remain) /\ UNCHANGED optm
      BY <3>2, <2>1, <2>3 DEF Favoured, TypeOK
    <3>3. CASE \E c \in Extra : RunNext(c, Quantum) /\ optm' = c
      BY <3>3, <2>1, TimeAssumption DEF Extra, TypeOK
    <3>4. CASE /\ cur' = NoDom
               /\ alarm' = NextAlarm(Forever)
               /\ UNCHANGED <<ran, schst, optm>>
      BY <3>4, <2>2 DEF TypeOK
    <3> QED BY <1>18, <3>1, <3>2, <3>3, <3>4 DEF Pick
  <2> QED BY <1>18, <2>4 DEF Pick, TypeOK, Phases, Outside
<1>19. CASE UNCHANGED vars
  BY <1>19 DEF vars, TypeOK
<1>20. CASE User
  BY <1>20, <1>3, <1>4, <1>5, <1>6, <1>7, <1>8, <1>9, <1>10 DEF User
<1>21. CASE Pass
  BY <1>21, <1>12, <1>13, <1>14, <1>15, <1>16, <1>17, <1>18 DEF Pass
<1> QED BY <1>1, <1>2, <1>11, <1>19, <1>20, <1>21 DEF Next

\* Every variable keeps its type, whatever the domains, interrupts and the
\* domain manager do.
THEOREM TypeCorrect == Spec => []TypeOK
<1>1. Init => TypeOK /\ Phased
  BY InitType DEF Init, Phased, Outside
<1>2. TypeOK /\ Phased /\ [Next]_vars => TypeOK' /\ Phased'
  BY NextType, NextPhased
<1> QED BY <1>1, <1>2, PTL DEF Spec

-----------------------------------------------------------------------------
(* The queues.  dequeue trusts next_optm, which the removal of a waiting    *)
(* domain may leave pointing elsewhere; domains are only removed by the     *)
(* system domain, so all is well if that never runs on extra time.          *)

CursorSafe == Removable = {} \/ \A q \in QoS[Nemesis] : ~q.x

CursorInv ==
    Removable # {} =>
        /\ ~sd[Nemesis].xtratime
        /\ setqos.dom = Nemesis => ~setqos.qos.x
        /\ Running(Nemesis) => sd[Nemesis].state # "wait"

QueueInv == TypeOK /\ Phased /\ QueuesConsistent /\ CursorInv

\* Steps that move no domain from queue to queue, nor from asleep to awake,
\* and keep the order of deadlines.
LEMMA Undisturbed ==
    ASSUME TypeOK, QueuesConsistent, UNCHANGED queues,
           \A d \in Dom : Running(d)' => Running(d),
           \A d \in Dom : /\ sd'[d].state = sd[d].state
                          /\ Known(d)' <=> Known(d)
                          /\ schst'[d] \in {"BLCKD", "WAKING"} <=>
                                schst[d] \in {"BLCKD", "WAKING"},
           \A d, e \in Dom : sd[d].deadline <= sd[e].deadline =>
                                sd'[d].deadline <= sd'[e].deadline
    PROVE  QueuesConsistent'
<1> SUFFICES ASSUME NEW d \in Dom
             PROVE  Placed(d)' /\ (Running(d)' => Dequeueable(d)')
  BY DEF QueuesConsistent
<1>1. Placed(d) /\ (Running(d) => Dequeueable(d))
  BY DEF QueuesConsistent
<1>2. Placed(d)'
  BY <1>1 DEF Placed, queues
<1>3. ASSUME Running(d)' PROVE Dequeueable(d)'
  <2>1. Dequeueable(d)
    BY <1>1, <1>3
  <2>2. d \in Heads(run) => d \in Heads(run)'
    BY DEF Heads, queues, TypeOK
  <2> QED BY <2>1, <2>2 DEF Dequeueable, queues
<1> QED BY <1>2, <1>3

\* A kick wakes only domains that sleep.
LEMMA SendWakes ==
    ASSUME TypeOK, NEW e \in Dom, NEW put \in BOOLEAN, Send(e, put)
    PROVE  \A d \in Dom : /\ Known(d)' <=> Known(d)
                          /\ schst'[d] \in {"BLCKD", "WAKING"} <=>
                                schst[d] \in {"BLCKD", "WAKING"}
  BY DEF TypeOK, Send, Kicks, Known

\* Domains on no queue but d's move nowhere when d is requeued.
LEMMA UnblockPlaces ==
    ASSUME TypeOK, QueuesConsistent, NEW e \in blocked, Unblock(e)
    PROVE  \A d \in Dom : Placed(d)'
<1> DEFINE s == UnblockSDom(sd[e])
<1>1. e \in Dom /\ Known(e)
  BY DEF TypeOK, QueuesConsistent, Placed
<1>2. s.state \in {"run", "unblocked", "wait"}
  <2>1. sd[e] \in SDom
    BY <1>1 DEF TypeOK
  <2> QED BY <2>1 DEF UnblockSDom, SDom
<1> HIDE DEF s
<1>3. /\ sd' = [sd EXCEPT ![e] = s]
      /\ schst' = [schst EXCEPT ![e] = QueuedSt(s)]
      /\ run' = (IF OnRun(s) THEN run \cup {e} ELSE run)
      /\ wait' = (IF OnRun(s) THEN wait ELSE wait \cup {e})
      /\ blocked' = blocked \ {e}
  BY DEF Unblock, Requeue, s
<1>4. sd \in [Dom -> SDom] /\ schst \in [Dom -> SchSts]
  BY DEF TypeOK
<1> TAKE d \in Dom
<1>5. Placed(d) /\ Placed(e)
  BY <1>1 DEF QueuesConsistent
<1>6. CASE d = e
  BY <1>1, <1>2, <1>3, <1>4, <1>5, <1>6 DEF Placed, Known, OnRun, QueuedSt
<1>7. CASE d # e
  BY <1>3, <1>4, <1>5, <1>7 DEF Placed, Known
<1> QED BY <1>6, <1>7

\* In the middle of a pass nobody runs.
LEMMA NobodyRuns ==
    ASSUME pc' \notin Outside \cup {"deschedule"}, \A d \in Dom : Placed(d)'
    PROVE  QueuesConsistent'
  BY DEF QueuesConsistent, Running

LEMMA AddedPlaced ==
    ASSUME QueueInv, NEW e \in Dom, NEW q \in QoS[e], AddContracted(e, q)
    PROVE  QueuesConsistent'
<1>1. sd \in [Dom -> SDom] /\ schst \in [Dom -> SchSts] /\ run \subseteq Dom
  BY DEF QueueInv, TypeOK
<1>2. /\ cur = Nemesis /\ Running(Nemesis) /\ Nemesis \in Dom
      /\ schst[e] = "STOPPED" /\ UNCHANGED <<pc, cur, wait, blocked, optm>>
      /\ run' = run \cup {e} /\ schst' = [schst EXCEPT ![e] = "RUN"]
  BY ContractAssumption DEF AddContracted, Executing, Running
<1>3. Dequeueable(Nemesis) /\ e # Nemesis
  BY <1>2 DEF QueueInv, QueuesConsistent, Dequeueable, Known
<1>4. PICK dl \in Int :
        /\ sd' = [sd EXCEPT ![e] = [NewSDom(q) EXCEPT !.deadline = dl]]
        /\ \A h \in Heads(run) : sd[h].deadline < dl
  <2>1. q \in Contract
    BY ContractAssumption
  <2>2. q.p \in Int /\ NewSDom(q).deadline = q.p
    BY <2>1 DEF Contract, NewSDom
  <2>3. \A h \in Heads(run) : sd[h].deadline \in Int
    BY <1>1 DEF Heads, SDom
  <2>4. CASE Displaces(q.p)
    <3>1. HeadOf(run) \in Heads(run)
      BY <2>4 DEF HeadOf, Displaces
    <3>2. \A h \in Heads(run) : sd[h].deadline <= sd[HeadOf(run)].deadline
      BY <3>1 DEF Heads
    <3>3. \A h \in Heads(run) :
             sd[h].deadline < sd[HeadOf(run)].deadline + 1
      BY <2>3, <3>1, <3>2
    <3>4. sd[HeadOf(run)].deadline + 1 \in Int
      BY <2>3, <3>1
    <3> QED BY <2>4, <3>3, <3>4 DEF AddContracted
  <2>5. CASE ~Displaces(q.p)
    <3>1. NewSDom(q) = [NewSDom(q) EXCEPT !.deadline = q.p]
      BY DEF NewSDom
    <3>2. \A h \in Heads(run) : sd[h].deadline < q.p
      BY <2>2, <2>3, <2>5 DEF Displaces
    <3>3. sd' = [sd EXCEPT ![e] = NewSDom(q)]
      BY <2>5 DEF AddContracted
    <3> QED BY <2>2, <3>1, <3>2, <3>3
  <2> QED BY <2>4, <2>5
<1>5. sd'[e].state = "run" /\ sd'[e].deadline = dl
  BY <1>1, <1>4 DEF NewSDom
<1>6. \A d \in Dom \ {e} : sd'[d] = sd[d] /\ schst'[d] = schst[d]
  BY <1>1, <1>2, <1>4
<1>7. ASSUME NEW d \in Dom PROVE Placed(d)'
  <2>1. Placed(d)
    BY DEF QueueInv, QueuesConsistent
  <2>2. CASE d = e
    BY <1>1, <1>2, <1>5, <2>1, <2>2 DEF Placed, Known
  <2>3. CASE d # e
    BY <1>2, <1>6, <2>1, <2>3 DEF Placed, Known
  <2> QED BY <2>2, <2>3
<1>8. Dequeueable(Nemesis)'
  <2>1. Nemesis \in Heads(run) => Nemesis \in Heads(run)'
    <3> SUFFICES ASSUME Nemesis \in Heads(run), NEW f \in run'
                 PROVE  sd'[Nemesis].deadline <= sd'[f].deadline
      BY <1>2 DEF Heads
    <3>1. sd'[Nemesis].deadline = sd[Nemesis].deadline
      BY <1>2, <1>3, <1>6
    <3>2. CASE f = e
      <4>1. sd[Nemesis].deadline \in Int
        BY <1>1, <1>2 DEF SDom
      <4> QED BY <1>4, <1>5, <3>1, <3>2, <4>1
    <3>3. CASE f # e
      BY <1>1, <1>2, <1>6, <3>1, <3>3 DEF Heads
    <3> QED BY <3>2, <3>3
  <2> QED BY <1>2, <1>3, <1>6, <2>1 DEF Dequeueable, Known
<1> QED BY <1>2, <1>7, <1>8 DEF QueuesConsistent, Running

LEMMA StopPlaced ==
    ASSUME QueueInv, NEW e \in Dom, NEW final \in {"STOPPED", "DYING"},
           StopDomain(e, final)
    PROVE  QueuesConsistent'
<1>1. schst \in [Dom -> SchSts] /\ run \subseteq Dom
  BY DEF QueueInv, TypeOK
<1>2. /\ cur = Nemesis /\ Running(Nemesis) /\ Nemesis \in Dom
      /\ e # Nemesis /\ e \in Removable
      /\ schst[e] # "DYING" /\ UNCHANGED <<pc, cur, sd>>
      /\ schst' = [schst EXCEPT ![e] = final]
  BY ContractAssumption DEF StopDomain, Executing, Running
<1>3. Dequeueable(Nemesis) /\ sd[Nemesis].state # "wait" /\ Placed(e)
  BY <1>2 DEF QueueInv, QueuesConsistent, CursorInv
<1>4. /\ run' = run \ {e} /\ wait' = wait \ {e}
      /\ blocked' = blocked \ {e}
  <2>1. CASE schst[e] = "STOPPED"
    BY <1>3, <2>1 DEF StopDomain, Placed, Known, queues
  <2>2. CASE schst[e] # "STOPPED"
    BY <1>3, <2>2 DEF StopDomain, TakeOff, Placed, Known
  <2> QED BY <2>1, <2>2
<1>5. ASSUME NEW d \in Dom PROVE Placed(d)'
  <2>1. Placed(d)
    BY DEF QueueInv, QueuesConsistent
  <2>2. CASE d = e
    BY <1>1, <1>2, <1>4, <2>2 DEF Placed, Known
  <2>3. CASE d # e
    BY <1>1, <1>2, <1>4, <2>1, <2>3 DEF Placed, Known
  <2> QED BY <2>2, <2>3
<1>6. Dequeueable(Nemesis)'
  <2>1. Nemesis \in Heads(run) => Nemesis \in Heads(run)'
    BY <1>2, <1>4 DEF Heads
  <2> QED BY <1>1, <1>2, <1>3, <2>1 DEF Dequeueable, Known
<1> QED BY <1>2, <1>5, <1>6 DEF QueuesConsistent, Running

LEMMA DescheduledPlaced ==
    ASSUME QueueInv, Deschedule
    PROVE  QueuesConsistent'
<1> DEFINE s == Charge(sd[cur])
<1>1. /\ cur \in Dom /\ Running(cur) /\ sd \in [Dom -> SDom]
      /\ schst \in [Dom -> SchSts]
  BY DEF QueueInv, TypeOK, Phased, Deschedule, Running
<1>2. Dequeueable(cur) /\ Placed(cur)
  BY <1>1 DEF QueueInv, QueuesConsistent
<1>3. Dequeued(cur) = {cur}
  BY <1>2 DEF Dequeued, Dequeueable
<1>4. s.state = sd[cur].state
  BY <1>1 DEF Charge, SDom
<1>5. BlockSDom(s).state = "block"
  <2>1. s \in SDom
    BY <1>1, ChargeType DEF QueueInv, TypeOK
  <2> QED BY <2>1 DEF BlockSDom, SDom
<1>6. [s EXCEPT !.state = "wait"].state = "wait"
  <2>1. s \in SDom
    BY <1>1, ChargeType DEF QueueInv, TypeOK
  <2> QED BY <2>1 DEF SDom
<1> HIDE DEF s
<1>7. \/ /\ run' = run \ {cur} /\ wait' = wait \ {cur}
         /\ blocked' = blocked \cup {cur}
         /\ sd' = [sd EXCEPT ![cur] = BlockSDom(s)]
         /\ schst' = [schst EXCEPT ![cur] = "BLCKD"]
      \/ /\ run' = run \ {cur} /\ wait' = wait \cup {cur}
         /\ blocked' = blocked
         /\ sd' = [sd EXCEPT ![cur] = [s EXCEPT !.state = "wait"]]
         /\ schst' = [schst EXCEPT ![cur] = "WAIT"]
      \/ /\ sd' = [sd EXCEPT ![cur] = s]
         /\ UNCHANGED <<run, wait, blocked, schst>>
  <2>1. CASE Blocking(cur)
    BY <1>2, <1>3, <2>1 DEF Deschedule, s, Placed
  <2>2. CASE ~Blocking(cur) /\ Spent(cur)
    BY <1>2, <1>3, <2>2 DEF Deschedule, s, Placed, Spent
  <2>3. CASE ~Blocking(cur) /\ ~Spent(cur)
    BY <2>3 DEF Deschedule, s
  <2> QED BY <2>1, <2>2, <2>3
<1>8. ASSUME NEW d \in Dom PROVE Placed(d)'
  <2>1. Placed(d)
    BY DEF QueueInv, QueuesConsistent
  <2>2. CASE d = cur
    <3>1. Known(cur) /\ sd[cur].state # "block"
      BY <1>2 DEF Dequeueable
    <3> QED BY <1>1, <1>4, <1>5, <1>6, <1>7, <2>1, <2>2, <3>1
            DEF Placed, Known
  <2>3. CASE d # cur
    BY <1>1, <1>7, <2>1, <2>3 DEF Placed, Known
  <2> QED BY <2>2, <2>3
<1>9. pc' = "alloc"
  BY DEF Deschedule
<1> QED BY <1>8, <1>9, NobodyRuns DEF Outside

LEMMA AllocatedPlaced ==
    ASSUME QueueInv, Allocate
    PROVE  QueuesConsistent'
<1>1. PICK e \in Heads(wait) :
        LET s == NewPeriod(sd[e])
        IN  /\ Requeue(e, s)
            /\ wait' = IF OnRun(s) THEN wait \ {e} ELSE wait
  BY DEF Allocate
<1> DEFINE s == NewPeriod(sd[e])
<1>2. e \in wait /\ e \in Dom /\ Placed(e)
  BY DEF Heads, QueueInv, TypeOK, QueuesConsistent
<1>3. s.state \in {"run", "wait"}
  <2>1. sd[e] \in SDom
    BY <1>2 DEF QueueInv, TypeOK
  <2> QED BY <2>1 DEF NewPeriod, SDom
<1> HIDE DEF s
<1>4. /\ sd' = [sd EXCEPT ![e] = s]
      /\ schst' = [schst EXCEPT ![e] = QueuedSt(s)]
      /\ run' = (IF OnRun(s) THEN run \cup {e} ELSE run)
      /\ wait' = (IF OnRun(s) THEN wait \ {e} ELSE wait)
      /\ UNCHANGED <<pc, blocked>>
  BY <1>1 DEF Requeue, s, Allocate
<1>5. sd \in [Dom -> SDom] /\ schst \in [Dom -> SchSts]
  BY DEF QueueInv, TypeOK
<1>6. ASSUME NEW d \in Dom PROVE Placed(d)'
  <2>1. Placed(d)
    BY DEF QueueInv, QueuesConsistent
  <2>2. CASE d = e
    BY <1>2, <1>3, <1>4, <1>5, <2>2 DEF Placed, Known, OnRun, QueuedSt
  <2>3. CASE d # e
    BY <1>4, <1>5, <2>1, <2>3 DEF Placed, Known
  <2> QED BY <2>2, <2>3
<1>7. pc' = "alloc"
  BY <1>4 DEF Allocate
<1> QED BY <1>6, <1>7, NobodyRuns DEF Outside

LEMMA PickedPlaced ==
    ASSUME QueueInv, Pick
    PROVE  QueuesConsistent'
<1>1. sd \in [Dom -> SDom] /\ schst \in [Dom -> SchSts] /\ NoDom \notin Dom
  BY ContractAssumption DEF QueueInv, TypeOK
<1>2. UNCHANGED <<run, wait, blocked, sd>> /\ pc' = "user"
  BY DEF Pick
<1>3. ASSUME NEW c \in run \cup wait, c = cur',
             schst' = [schst EXCEPT ![c] = "RUN"],
             c \in run => c \in Heads(run),
             sd[c].state = "wait" => optm' = c
      PROVE  QueuesConsistent'
  <2>1. c \in Dom /\ Placed(c)
    BY DEF QueueInv, TypeOK, QueuesConsistent
  <2>2. Known(c) /\ sd[c].state # "block"
    BY <2>1 DEF Placed
  <2>3. ASSUME NEW d \in Dom PROVE Placed(d)'
    <3>1. Placed(d)
      BY DEF QueueInv, QueuesConsistent
    <3> QED BY <1>1, <1>2, <1>3, <2>1, <2>2, <3>1 DEF Placed, Known
  <2>4. Heads(run)' = Heads(run)
    BY <1>2 DEF Heads
  <2>5. Dequeueable(c)'
    BY <1>1, <1>2, <1>3, <2>1, <2>2, <2>4 DEF Dequeueable, Known, Placed
  <2> QED BY <1>3, <2>3, <2>5 DEF QueuesConsistent, Running
<1>4. CASE \E c \in Heads(run) :
              RunNext(c, sd[c].remain) /\ UNCHANGED optm
  <2>1. PICK c \in Heads(run) : RunNext(c, sd[c].remain)
    BY <1>4
  <2>2. c \in run /\ Placed(c)
    BY DEF Heads, QueueInv, TypeOK, QueuesConsistent
  <2>3. sd[c].state # "wait"
    BY <2>2 DEF Placed
  <2> QED BY <1>3, <2>1, <2>2, <2>3 DEF RunNext
<1>5. CASE \E c \in Favoured :
              run = {} /\ RunNext(c, sd[c].remain) /\ UNCHANGED optm
  BY <1>3, <1>5 DEF Favoured, RunNext
<1>6. CASE \E c \in Extra : run = {} /\ RunNext(c, Quantum) /\ optm' = c
  BY <1>3, <1>6 DEF Extra, RunNext
<1>7. CASE cur' = NoDom /\ UNCHANGED schst
  <2>1. \A d \in Dom : ~Running(d)'
    BY <1>1, <1>7 DEF Running
  <2>2. ASSUME NEW d \in Dom PROVE Placed(d)'
    <3>1. Placed(d)
      BY DEF QueueInv, QueuesConsistent
    <3> QED BY <1>2, <1>7, <3>1 DEF Placed, Known
  <2> QED BY <2>1, <2>2 DEF QueuesConsistent
<1> QED BY <1>4, <1>5, <1>6, <1>7 DEF Pick

LEMMA NextQueues == QueueInv /\ [Next]_vars => QueuesConsistent'
<1> SUFFICES ASSUME QueueInv, [Next]_vars PROVE QueuesConsistent'
  OBVIOUS
<1>1. /\ TypeOK /\ QueuesConsistent /\ Phased
      /\ sd \in [Dom -> SDom] /\ schst \in [Dom -> SchSts]
  BY DEF QueueInv, TypeOK
<1>2. CASE Tick
  <2>1. \A d \in Dom :
          /\ sd'[d].state = sd[d].state
          /\ sd'[d].deadline = Elapse(sd[d].deadline)
    BY <1>1, <1>2 DEF Tick, SDom
  <2>2. \A d, e \in Dom : sd[d].deadline <= sd[e].deadline =>
                            sd'[d].deadline <= sd'[e].deadline
    <3>1. \A d \in Dom : sd[d].deadline \in Int
      BY <1>1 DEF SDom
    <3> QED BY <2>1, <3>1, ElapseMonotone
  <2>3. UNCHANGED queues /\ UNCHANGED schst
    BY <1>2 DEF Tick, queues
  <2>4. \A d \in Dom : Running(d)' => Running(d)
    BY <1>2 DEF Tick, Running
  <2> QED BY <1>1, <2>1, <2>2, <2>3, <2>4, Undisturbed DEF Known
<1>3. ASSUME NEW e \in Dom, NEW put \in BOOLEAN, Send(e, put),
             UNCHANGED <<cur, sd>>, UNCHANGED queues,
             pc \in Outside \/ UNCHANGED pc
      PROVE  QueuesConsistent'
  <2>1. \A d \in Dom : Running(d)' => Running(d)
    BY <1>3 DEF Running
  <2>2. \A d \in Dom : /\ Known(d)' <=> Known(d)
                       /\ schst'[d] \in {"BLCKD", "WAKING"} <=>
                             schst[d] \in {"BLCKD", "WAKING"}
    BY <1>1, <1>3, SendWakes
  <2> QED BY <1>1, <1>3, <2>1, <2>2, Undisturbed
<1>4. ASSUME NEW e \in Dom, NEW put \in BOOLEAN,
             Interrupt(e, put) \/ SyscallSend(e, put)
      PROVE  QueuesConsistent'
  BY <1>3, <1>4 DEF Interrupt, SyscallSend
<1>5. ASSUME NEW put \in BOOLEAN, Deliver(put) PROVE QueuesConsistent'
  <2>1. cur \in Dom /\ outevs[cur] \in Seq(Dom) /\ outevs[cur] # <<>>
    BY <1>1, <1>5 DEF Deliver, Phased, TypeOK
  <2>2. Head(outevs[cur]) \in Dom
    BY <2>1
  <2> QED BY <1>3, <1>5, <2>2 DEF Deliver
<1>6. CASE \/ \E d \in Dom : PushEvent(d)
           \/ TakeEvents \/ AllocDone \/ DrainDone \/ ExpireDone
           \/ UNCHANGED vars
  <2>1. UNCHANGED <<cur, sd, schst>> /\ UNCHANGED queues
    BY <1>6 DEF PushEvent, TakeEvents, AllocDone, DrainDone, ExpireDone,
       vars, queues
  <2>2. \A d \in Dom : Running(d)' => Running(d)
    BY <1>6 DEF PushEvent, TakeEvents, AllocDone, DrainDone, ExpireDone,
       vars, Running, Outside
  <2> QED BY <1>1, <2>1, <2>2, Undisturbed DEF Known
<1>7. CASE Yield \/ \E t \in Timeouts : Block(t)
  <2>1. /\ pc \in Outside /\ cur \in Dom /\ UNCHANGED cur
        /\ UNCHANGED queues
        /\ \/ schst' = [schst EXCEPT ![cur] = "YIELD"]
           \/ schst' = [schst EXCEPT ![cur] = "BLOCK"]
        /\ \/ UNCHANGED sd
           \/ \E t \in Timeouts : sd' = [sd EXCEPT ![cur].timeout = t]
    BY <1>1, <1>7 DEF Yield, Block, Executing, queues, TypeOK
  <2>2. Placed(cur) /\ Dequeueable(cur)
    BY <1>1, <2>1 DEF QueuesConsistent, Running
  <2>3. \A d \in Dom : /\ Known(d)' <=> Known(d)
                       /\ schst'[d] \in {"BLCKD", "WAKING"} <=>
                             schst[d] \in {"BLCKD", "WAKING"}
    BY <1>1, <2>1, <2>2 DEF Placed, Dequeueable, Known
  <2>4. \A d \in Dom : /\ sd'[d].state = sd[d].state
                       /\ sd'[d].deadline = sd[d].deadline
    BY <1>1, <2>1 DEF SDom
  <2>5. \A d \in Dom : Running(d)' => Running(d)
    BY <2>1 DEF Running
  <2> QED BY <1>1, <2>1, <2>3, <2>4, <2>5, Undisturbed
<1>8. CASE SetQoSStore \/ \E d \in Dom : \E q \in QoS[d] : SetQoS(d, q)
  <2>1. /\ UNCHANGED <<pc, cur, schst>> /\ UNCHANGED queues
        /\ \E d \in Dom : \E v \in SDom :
              /\ v.state = sd[d].state /\ v.deadline = sd[d].deadline
              /\ sd' = [sd EXCEPT ![d] = v]
    <3>1. CASE SetQoSStore
      <4> DEFINE d == setqos.dom
      <4>1. d \in Dom /\ setqos.qos \in Contract
        BY <1>1 DEF TypeOK
      <4>2. /\ sd[d] \in SDom /\ setqos.qos.s \in Nat
            /\ setqos.qos.l \in Nat /\ setqos.qos.x \in BOOLEAN
        BY <1>1, <4>1 DEF Contract
      <4> HIDE DEF d
      <4>3. PICK v \in {[sd[d] EXCEPT !.slice = setqos.qos.s],
                        [sd[d] EXCEPT !.latency = setqos.qos.l],
                        [sd[d] EXCEPT !.xtratime = setqos.qos.x]} :
               sd' = [sd EXCEPT ![d] = v]
        BY <3>1 DEF SetQoSStore, d
      <4>4. /\ v \in SDom
            /\ v.state = sd[d].state /\ v.deadline = sd[d].deadline
        BY <4>2, <4>3 DEF SDom
      <4> QED BY <3>1, <4>1, <4>3, <4>4 DEF SetQoSStore, queues, d
    <3>2. CASE \E d \in Dom : \E q \in QoS[d] : SetQoS(d, q)
      <4>0. PICK d \in Dom : \E q \in QoS[d] : SetQoS(d, q)
        BY <3>2
      <4>1. PICK q \in QoS[d] : SetQoS(d, q)
        BY <4>0
      <4>2. q.p \in Nat /\ sd[d] \in SDom
        <5>1. q \in Contract
          BY ContractAssumption
        <5> QED BY <1>1, <5>1 DEF Contract
      <4> DEFINE v == [sd[d] EXCEPT !.period = q.p]
      <4>3. /\ v \in SDom
            /\ v.state = sd[d].state /\ v.deadline = sd[d].deadline
        BY <4>2 DEF SDom
      <4>4. sd' = [sd EXCEPT ![d] = v]
        BY <4>1 DEF SetQoS
      <4> HIDE DEF v
      <4> QED BY <4>1, <4>3, <4>4 DEF SetQoS, queues
    <3> QED BY <1>8, <3>1, <3>2
  <2>2. \A d \in Dom : /\ sd'[d].state = sd[d].state
                       /\ sd'[d].deadline = sd[d].deadline
    BY <1>1, <2>1
  <2>3. \A d \in Dom : Running(d)' => Running(d)
    BY <2>1 DEF Running
  <2> QED BY <1>1, <2>1, <2>2, <2>3, Undisturbed DEF Known
<1>9. CASE Drain
  <2>1. Head(domq) \in Dom
    BY <1>1, <1>9 DEF Drain, TypeOK
  <2>2. CASE /\ schst[Head(domq)] \notin {"STOPPED", "DYING"}
             /\ sd[Head(domq)].state = "block"
    <3>1. Head(domq) \in blocked
      BY <1>1, <2>1, <2>2 DEF QueuesConsistent, Placed, Known
    <3>2. Unblock(Head(domq)) /\ pc' = "drain"
      BY <1>9, <2>2 DEF Drain
    <3> QED BY <1>1, <3>1, <3>2, UnblockPlaces, NobodyRuns DEF Outside
  <2>3. CASE ~(/\ schst[Head(domq)] \notin {"STOPPED", "DYING"}
               /\ sd[Head(domq)].state = "block")
    <3>1. UNCHANGED <<pc, cur, sd, schst>> /\ UNCHANGED queues
      BY <1>9, <2>3 DEF Drain, queues
    <3>2. \A d \in Dom : Running(d)' => Running(d)
      BY <3>1 DEF Running
    <3> QED BY <1>1, <3>1, <3>2, Undisturbed DEF Known
  <2> QED BY <2>2, <2>3
<1>10. CASE Expire
  <2>1. PICK d \in Heads(blocked) : Unblock(d)
    BY <1>10 DEF Expire
  <2>2. d \in blocked /\ pc' = "timeouts"
    BY <1>10 DEF Heads, Expire
  <2> QED BY <1>1, <2>1, <2>2, UnblockPlaces, NobodyRuns DEF Outside
<1>11. CASE Deschedule \/ Allocate \/ Pick
  BY <1>11, DescheduledPlaced, AllocatedPlaced, PickedPlaced
<1>12. ASSUME NEW d \in Dom, NEW q \in QoS[d], AddContracted(d, q)
       PROVE  QueuesConsistent'
  BY <1>12, AddedPlaced
<1>13. ASSUME NEW d \in Dom, NEW final \in {"STOPPED", "DYING"},
              StopDomain(d, final)
       PROVE  QueuesConsistent'
  BY <1>13, StopPlaced
<1>14. CASE User
  BY <1>14, <1>4, <1>6, <1>7, <1>8, <1>12, <1>13 DEF User
<1>15. CASE Pass
  BY <1>15, <1>5, <1>6, <1>9, <1>10, <1>11 DEF Pass
<1> QED BY <1>2, <1>4, <1>6, <1>8, <1>14, <1>15 DEF Next

\* Nothing but SetQoS changes the extra time flag.
LEMMA UpdatesKeepXtra ==
    ASSUME NEW s \in SDom
    PROVE  /\ NewPeriod(s).xtratime = s.xtratime
           /\ BlockSDom(s).xtratime = s.xtratime
           /\ UnblockSDom(s).xtratime = s.xtratime
           /\ Charge(s).xtratime = s.xtratime
           /\ [s EXCEPT !.state = "wait"].xtratime = s.xtratime
<1>1. NewPeriod(s).xtratime = s.xtratime
  BY DEF NewPeriod, SDom
<1>2. BlockSDom(s).xtratime = s.xtratime
  BY DEF BlockSDom, SDom
<1>3. UnblockSDom(s).xtratime = s.xtratime
  BY DEF UnblockSDom, SDom
<1>4. Charge(s).xtratime = s.xtratime
  BY DEF Charge, SDom
<1> QED BY <1>1, <1>2, <1>3, <1>4 DEF SDom

LEMMA InitCursor == Init /\ CursorSafe => CursorInv
<1> SUFFICES ASSUME Init, CursorSafe, Removable # {}
             PROVE  /\ ~sd[Nemesis].xtratime
                    /\ setqos.dom = Nemesis => ~setqos.qos.x
                    /\ Running(Nemesis) => sd[Nemesis].state # "wait"
  BY DEF CursorInv
<1>1. PICK q \in QoS[Nemesis] :
         sd = [d \in Dom |-> NewSDom(IF d = Nemesis THEN q ELSE Unset)]
  BY DEF Init
<1>2. sd[Nemesis] = NewSDom(q) /\ ~q.x
  BY <1>1, ContractAssumption DEF CursorSafe
<1>3. ~sd[Nemesis].xtratime /\ sd[Nemesis].state = "run"
  BY <1>2 DEF NewSDom
<1>4. ~setqos.qos.x
  BY DEF Init, NoCall, Unset
<1> QED BY <1>3, <1>4

LEMMA NextCursor == CursorSafe /\ QueueInv /\ [Next]_vars => CursorInv'
<1> SUFFICES ASSUME CursorSafe, QueueInv, [Next]_vars, Removable # {}
             PROVE  CursorInv'
  BY DEF CursorInv
<1>1. /\ ~sd[Nemesis].xtratime
      /\ setqos.dom = Nemesis => ~setqos.qos.x
      /\ Running(Nemesis) => sd[Nemesis].state # "wait"
      /\ Nemesis \in Dom /\ NoDom \notin Dom
      /\ sd \in [Dom -> SDom] /\ sd[Nemesis] \in SDom
      /\ \A q \in QoS[Nemesis] : ~q.x
  BY ContractAssumption DEF QueueInv, CursorInv, TypeOK, CursorSafe
\* It is enough that a step leaves the flag and a SetQoS call alone.
<1>2. ASSUME UNCHANGED setqos,
             sd'[Nemesis].xtratime = sd[Nemesis].xtratime,
             Running(Nemesis)' => sd'[Nemesis].state # "wait"
      PROVE  CursorInv'
  BY <1>1, <1>2 DEF CursorInv, Running
<1>3. ASSUME UNCHANGED setqos,
             sd'[Nemesis].xtratime = sd[Nemesis].xtratime,
             sd'[Nemesis].state = sd[Nemesis].state,
             Running(Nemesis)' => Running(Nemesis)
      PROVE  CursorInv'
  BY <1>1, <1>2, <1>3
<1>4. CASE Tick
  BY <1>1, <1>3, <1>4 DEF Tick, Running, SDom
<1>5. ASSUME NEW d \in Dom, NEW put \in BOOLEAN,
             Interrupt(d, put) \/ SyscallSend(d, put)
      PROVE  CursorInv'
  BY <1>3, <1>5 DEF Interrupt, SyscallSend, Running
<1>6. CASE \/ \E d \in Dom : PushEvent(d)
           \/ \E put \in BOOLEAN : Deliver(put)
           \/ \E d \in Dom, final \in {"STOPPED", "DYING"} :
                  StopDomain(d, final)
           \/ TakeEvents \/ Yield \/ AllocDone \/ DrainDone \/ ExpireDone
           \/ UNCHANGED vars
  <2>1. UNCHANGED <<sd, setqos, cur>>
    BY <1>6 DEF PushEvent, Deliver, StopDomain, TakeEvents, Yield,
       AllocDone, DrainDone, ExpireDone, vars
  <2>2. Running(Nemesis)' => Running(Nemesis)
    BY <1>6 DEF PushEvent, Deliver, StopDomain, TakeEvents, Yield,
       Executing, AllocDone, DrainDone, ExpireDone, vars, Running, Outside
  <2> QED BY <1>3, <2>1, <2>2
<1>7. ASSUME NEW t \in Timeouts, Block(t) PROVE CursorInv'
  <2>1. /\ sd'[Nemesis].xtratime = sd[Nemesis].xtratime
        /\ sd'[Nemesis].state = sd[Nemesis].state
    <3>1. sd' = [sd EXCEPT ![cur] = [sd[cur] EXCEPT !.timeout = t]]
      BY <1>7 DEF Block
    <3>2. /\ [sd[Nemesis] EXCEPT !.timeout = t].xtratime = sd[Nemesis].xtratime
          /\ [sd[Nemesis] EXCEPT !.timeout = t].state = sd[Nemesis].state
      BY <1>1 DEF SDom
    <3> QED BY <1>1, <3>1, <3>2
  <2> QED BY <1>3, <1>7, <2>1 DEF Block, Executing, Running
<1>8. ASSUME NEW d \in Dom, NEW q \in QoS[d], AddContracted(d, q)
      PROVE  CursorInv'
  <2>1. Running(Nemesis) /\ cur = Nemesis
    BY <1>1, <1>8 DEF AddContracted, Executing, Running
  <2>2. d # Nemesis
    BY <1>1, <1>8, <2>1 DEF AddContracted, QueueInv, QueuesConsistent,
       Dequeueable, Known
  <2>3. sd'[Nemesis] = sd[Nemesis]
    BY <1>1, <1>8, <2>2 DEF AddContracted
  <2> QED BY <1>3, <1>8, <2>3 DEF AddContracted, Running
<1>9. ASSUME NEW d \in Dom, NEW q \in QoS[d], SetQoS(d, q)
      PROVE  CursorInv'
  <2>1. /\ sd'[Nemesis].xtratime = sd[Nemesis].xtratime
        /\ sd'[Nemesis].state = sd[Nemesis].state
    BY <1>1, <1>9 DEF SetQoS, SDom
  <2>2. setqos'.dom = d /\ setqos'.qos = q /\ UNCHANGED <<pc, cur>>
    BY <1>9 DEF SetQoS
  <2>3. d = Nemesis => ~q.x
    BY <1>1
  <2> QED BY <1>1, <2>1, <2>2, <2>3 DEF CursorInv, Running
<1>10. CASE SetQoSStore
  <2>1. sd'[Nemesis].state = sd[Nemesis].state /\ UNCHANGED <<pc, cur>>
    BY <1>1, <1>10 DEF SetQoSStore, SDom
  <2>2. ~sd'[Nemesis].xtratime
    BY <1>1, <1>10 DEF SetQoSStore, SDom
  <2>3. setqos'.dom = Nemesis => ~setqos'.qos.x
    <3>1. CASE setqos.left = 1
      BY <1>10, <3>1 DEF SetQoSStore, NoCall, Unset
    <3>2. CASE setqos.left # 1
      <4>1. setqos'.dom = setqos.dom /\ setqos'.qos = setqos.qos
        BY <1>10, <3>2 DEF SetQoSStore, QueueInv, TypeOK
      <4> QED BY <1>1, <4>1
    <3> QED BY <3>1, <3>2
  <2> QED BY <1>1, <2>1, <2>2, <2>3 DEF CursorInv, Running
<1>11. CASE Deschedule
  <2>1. cur \in Dom /\ Charge(sd[cur]) \in SDom /\ sd[cur] \in SDom
    BY <1>1, <1>11, ChargeType DEF Deschedule, QueueInv, Phased, TypeOK
  <2>2. sd'[Nemesis].xtratime = sd[Nemesis].xtratime
    <3> DEFINE s == Charge(sd[cur])
    <3>1. /\ s.xtratime = sd[cur].xtratime
          /\ BlockSDom(s).xtratime = s.xtratime
          /\ [s EXCEPT !.state = "wait"].xtratime = s.xtratime
      BY <2>1, UpdatesKeepXtra
    <3>2. \/ sd' = [sd EXCEPT ![cur] = BlockSDom(s)]
          \/ sd' = [sd EXCEPT ![cur] = [s EXCEPT !.state = "wait"]]
          \/ sd' = [sd EXCEPT ![cur] = s]
      BY <1>11 DEF Deschedule
    <3> HIDE DEF s
    <3> QED BY <1>1, <2>1, <3>1, <3>2
  <2> QED BY <1>2, <1>11, <2>2 DEF Deschedule, Running, Outside
<1>12. ASSUME NEW d \in Dom, NEW s \in SDom, Requeue(d, s),
              s.xtratime = sd[d].xtratime, UNCHANGED <<cur, pc, setqos>>,
              pc \in {"alloc", "drain", "timeouts"}
       PROVE  CursorInv'
  <2>1. sd'[Nemesis].xtratime = sd[Nemesis].xtratime
    BY <1>1, <1>12 DEF Requeue
  <2> QED BY <1>2, <1>12, <2>1 DEF Running, Outside
<1>13. CASE Allocate
  <2>1. PICK d \in Heads(wait) : Requeue(d, NewPeriod(sd[d]))
    BY <1>13 DEF Allocate
  <2>2. d \in Dom
    BY DEF Heads, QueueInv, TypeOK
  <2>3. /\ NewPeriod(sd[d]) \in SDom
        /\ NewPeriod(sd[d]).xtratime = sd[d].xtratime
    BY <1>1, <2>2, NewPeriodType, UpdatesKeepXtra
  <2> QED BY <1>12, <1>13, <2>1, <2>2, <2>3 DEF Allocate
<1>14. ASSUME NEW d \in Dom, Unblock(d), UNCHANGED <<cur, pc, setqos>>,
              pc \in {"alloc", "drain", "timeouts"}
       PROVE  CursorInv'
  <2>1. /\ UnblockSDom(sd[d]) \in SDom
        /\ UnblockSDom(sd[d]).xtratime = sd[d].xtratime
    BY <1>1, UnblockSDomType, UpdatesKeepXtra
  <2> QED BY <1>12, <1>14, <2>1 DEF Unblock
<1>15. CASE Drain
  <2>1. CASE Unblock(Head(domq))
    <3>1. Head(domq) \in Dom
      BY <1>15 DEF Drain, QueueInv, TypeOK
    <3> QED BY <1>14, <1>15, <2>1, <3>1 DEF Drain
  <2>2. CASE UNCHANGED <<run, wait, blocked, schst, sd, due>>
    BY <1>3, <1>15, <2>2 DEF Drain, Running
  <2> QED BY <1>15, <2>1, <2>2 DEF Drain
<1>16. CASE Expire
  <2>1. PICK d \in Heads(blocked) : Unblock(d)
    BY <1>16 DEF Expire
  <2>2. d \in Dom
    BY DEF Heads, QueueInv, TypeOK
  <2> QED BY <1>14, <1>16, <2>1, <2>2 DEF Expire
<1>17. CASE Pick
  <2>1. UNCHANGED <<sd, setqos>>
    BY <1>17 DEF Pick
  <2>2. ASSUME Running(Nemesis)' PROVE sd[Nemesis].state # "wait"
    <3>1. Placed(Nemesis)
      BY <1>1 DEF QueueInv, QueuesConsistent
    <3>2. Nemesis \in run \/ Nemesis \in Favoured \/ Nemesis \in Extra
      BY <1>1, <1>17, <2>2 DEF Pick, RunNext, Running, Heads
    <3> QED BY <1>1, <3>1, <3>2 DEF Placed, Favoured, Extra
  <2> QED BY <1>2, <2>1, <2>2
<1>18. CASE User
  BY <1>18, <1>5, <1>6, <1>7, <1>8, <1>9 DEF User
<1>19. CASE Pass
  BY <1>19, <1>6, <1>11, <1>13, <1>15, <1>16, <1>17 DEF Pass
<1> QED BY <1>4, <1>5, <1>6, <1>10, <1>18, <1>19 DEF Next

LEMMA InitQueueInv == Init /\ CursorSafe => QueueInv
<1> SUFFICES ASSUME Init, CursorSafe PROVE QueueInv
  OBVIOUS
<1>1. \A d \in Dom : Placed(d)
  <2>1. ASSUME NEW d \in Dom PROVE sd[d].state = "run"
    BY <2>1 DEF Init, NewSDom
  <2> QED BY <2>1 DEF Init, Placed, Known
<1>2. TypeOK /\ CursorInv
  BY InitType, InitCursor
<1>3. Heads(run) = {Nemesis}
  <2>1. sd[Nemesis].deadline \in Int
    BY <1>2, ContractAssumption DEF TypeOK, SDom
  <2> QED BY <2>1 DEF Init, Heads
<1>4. ASSUME NEW d \in Dom, Running(d) PROVE Dequeueable(d)
  <2>1. d = Nemesis /\ sd[d].state = "run" /\ schst[d] = "RUN"
    BY <1>4 DEF Init, Running, NewSDom
  <2> QED BY <1>3, <2>1 DEF Dequeueable, Known
<1> QED BY <1>1, <1>2, <1>4
        DEF QueueInv, QueuesConsistent, Init, Phased, Outside

LEMMA NextQueueInv == CursorSafe /\ QueueInv /\ [Next]_vars => QueueInv'
<1> SUFFICES ASSUME CursorSafe, QueueInv, [Next]_vars PROVE QueueInv'
  OBVIOUS
<1>1. TypeOK' /\ Phased'
  BY NextType, NextPhased DEF QueueInv
<1> QED BY <1>1, NextQueues, NextCursor DEF QueueInv

\* However the domains block, wake, overrun, are added and are stopped, the
\* scheduler's queues hold the domains they should, and the running domain is
\* where dequeue looks for it; provided the system domain has no extra time
\* or no domain is ever stopped.
THEOREM QueuesSound == ASSUME CursorSafe PROVE Spec => []QueuesConsistent
<1>1. Init => QueueInv
  BY InitQueueInv
<1>2. QueueInv /\ [Next]_vars => QueueInv'
  BY NextQueueInv
<1>3. QueueInv => QueuesConsistent
  BY DEF QueueInv
<1> QED BY <1>1, <1>2, <1>3, PTL DEF Spec

-----------------------------------------------------------------------------
(* The domain queue: no wakeup is lost, for any number of domains that fit *)
(* it.                                                                     *)

\* CFG_UNBLOCK_QUEUE_SIZE is CFG_DOMAINS, the number of domains there can be.
QueueFits == IsFiniteSet(Dom) /\ Cardinality(Dom) <= QSize /\ 2 <= QSize

InDomq(d) == \E i \in DOMAIN domq : domq[i] = d

(* The queue holds each domain once, none that sleeps unkicked, and not    *)
(* the one that runs; nobody is left in it when a pass has drained it or   *)
(* the processor idles.                                                    *)
DomqInv ==
    /\ \A i, j \in DOMAIN domq : domq[i] = domq[j] => i = j
    /\ \A d \in Dom : InDomq(d) => schst[d] # "BLCKD" /\ ~Running(d)
    /\ pc \in {"timeouts", "pick"} \/ (cur = NoDom /\ pc \in Outside)
           => domq = <<>>

WakeInv == QueueInv /\ DomqInv /\ NoLostWakeup

-----------------------------------------------------------------------------
(* The queue never overflows: neither the domain that is kicked nor the    *)
(* one that runs is in it.                                                 *)

LEMMA DomqRoom ==
    ASSUME QueueFits, WakeInv, NEW d \in Dom, schst[d] = "BLCKD",
           pc \in Outside \cup {"deschedule"}
    PROVE  Kicks(d)
<1>1. domq \in Seq(Dom) /\ QSize \in Nat /\ Len(domq) \in Nat
  BY SizeAssumption DEF WakeInv, QueueInv, TypeOK
<1>2. CASE domq = <<>>
  BY <1>1, <1>2 DEF Kicks, QueueFits
<1>3. CASE domq # <<>>
  <2>1. cur \in Dom /\ Running(cur)
    BY <1>3 DEF WakeInv, DomqInv, QueueInv, Phased, TypeOK, Running
  <2>2. cur # d
    BY <2>1 DEF WakeInv, QueueInv, QueuesConsistent, Placed, Dequeueable
  <2> DEFINE others == (Dom \ {d}) \ {cur}
  <2>3. IsFiniteSet(others) /\ Cardinality(others) = Cardinality(Dom) - 2
    <3>1. /\ IsFiniteSet(Dom \ {d})
          /\ Cardinality(Dom \ {d}) = Cardinality(Dom) - 1
      BY FS_RemoveElement DEF QueueFits
    <3>2. /\ IsFiniteSet((Dom \ {d}) \ {cur})
          /\ Cardinality((Dom \ {d}) \ {cur}) = Cardinality(Dom \ {d}) - 1
      BY <2>1, <2>2, <3>1, FS_RemoveElement
    <3>3. Cardinality(Dom) \in Nat
      BY FS_CardinalityType DEF QueueFits
    <3> QED BY <3>1, <3>2, <3>3
  <2>4. \A i \in 1 .. Len(domq) : domq[i] \in others
    <3> SUFFICES ASSUME NEW i \in 1 .. Len(domq) PROVE domq[i] \in others
      OBVIOUS
    <3>1. domq[i] \in Dom /\ InDomq(domq[i])
      BY <1>1 DEF InDomq
    <3>2. schst[domq[i]] # "BLCKD" /\ ~Running(domq[i])
      BY <3>1 DEF WakeInv, DomqInv
    <3> QED BY <2>1, <3>1, <3>2
  <2> DEFINE f == [i \in 1 .. Len(domq) |-> domq[i]]
  <2>5. f \in [1 .. Len(domq) -> others]
    BY <2>4
  <2>6. \A i, j \in 1 .. Len(domq) : f[i] = f[j] => i = j
    BY <1>1 DEF WakeInv, DomqInv
  <2>7. /\ IsFiniteSet(1 .. Len(domq))
        /\ Cardinality(1 .. Len(domq)) = Len(domq)
    BY SMTT(30), <1>1, FS_Interval
  <2> HIDE DEF f, others
  <2>8. ~(Cardinality(others) < Cardinality(1 .. Len(domq)))
    <3> SUFFICES ASSUME Cardinality(others) < Cardinality(1 .. Len(domq))
                 PROVE  FALSE
      OBVIOUS
    <3>1. \E i, j \in 1 .. Len(domq) : i # j /\ f[i] = f[j]
      BY <2>3, <2>5, <2>7, FS_PigeonHole
    <3> QED BY <2>6, <3>1
  <2>9. Cardinality(others) \in Int /\ Cardinality(Dom) \in Int
    BY <2>3, FS_CardinalityType DEF QueueFits
  <2>10. Len(domq) + 1 < QSize
    BY <1>1, <2>3, <2>7, <2>8, <2>9 DEF QueueFits
  <2> QED BY <2>10 DEF Kicks
<1> QED BY <1>2, <1>3

\* An event for a sleeping domain kicks it, one for another changes nothing.
LEMMA SendKicks ==
    ASSUME QueueFits, WakeInv, NEW e \in Dom, NEW put \in BOOLEAN,
           Send(e, put), cur' = cur,
           pc \in Outside \cup {"deschedule"},
           pc' = pc \/ pc' \in {"deschedule", "alloc"},
           Kicks(e) /\ cur = NoDom => pc' = "alloc",
           \A d \in Dom : Running(d)' => Running(d)
    PROVE  DomqInv' /\ NoLostWakeup'
<1>1. /\ domq \in Seq(Dom) /\ schst \in [Dom -> SchSts]
      /\ pending \in [Dom -> BOOLEAN]
  BY DEF WakeInv, QueueInv, TypeOK
<1>2. CASE schst[e] = "BLCKD"
  <2>1. /\ domq' = Append(domq, e)
        /\ schst' = [schst EXCEPT ![e] = "WAKING"]
    BY <1>2, DomqRoom DEF Send
  <2>2. ~InDomq(e) /\ ~Running(e)
    BY <1>2 DEF WakeInv, DomqInv, QueueInv, QueuesConsistent, Placed, Dequeueable
  <2>3. /\ DOMAIN domq' = 1 .. Len(domq) + 1 /\ DOMAIN domq = 1 .. Len(domq)
        /\ \A i \in 1 .. Len(domq) : domq'[i] = domq[i]
        /\ domq'[Len(domq) + 1] = e /\ Len(domq) \in Nat
    BY <1>1, <2>1
  <2>4. \A i, j \in DOMAIN domq' : domq'[i] = domq'[j] => i = j
    <3>1. \A i \in 1 .. Len(domq) : domq'[i] # e
      BY <2>2, <2>3 DEF InDomq
    <3>2. \A i, j \in 1 .. Len(domq) : domq'[i] = domq'[j] => i = j
      BY <2>3 DEF WakeInv, DomqInv
    <3>3. \A i \in 1 .. Len(domq) + 1 :
             i \in 1 .. Len(domq) \/ i = Len(domq) + 1
      BY <2>3
    <3> QED BY <2>3, <3>1, <3>2, <3>3
  <2>5. \A d \in Dom : InDomq(d)' => d = e \/ InDomq(d)
    BY <2>3 DEF InDomq
  <2>6. \A d \in Dom : InDomq(d)' => schst'[d] # "BLCKD" /\ ~Running(d)'
    BY <1>1, <2>1, <2>2, <2>5 DEF WakeInv, DomqInv
  <2>7. \A d \in Dom : InDomq(d) => InDomq(d)'
    BY <2>3 DEF InDomq
  <2>8. InDomq(e)'
    BY <2>3 DEF InDomq
  <2>9. NoLostWakeup'
    <3> SUFFICES ASSUME NEW d \in Dom
                 PROVE  /\ schst'[d] = "BLCKD" => ~pending'[d]
                        /\ schst'[d] = "WAKING" => InDomq(d)'
      BY DEF NoLostWakeup, InDomq
    <3>1. CASE d = e
      BY <1>1, <2>1, <2>8, <3>1
    <3>2. CASE d # e
      <4>1. schst'[d] = schst[d] /\ pending'[d] = pending[d]
        BY <1>1, <2>1, <3>2 DEF Send
      <4>2. /\ schst[d] = "BLCKD" => ~pending[d]
            /\ schst[d] = "WAKING" => InDomq(d)
        BY DEF WakeInv, NoLostWakeup, InDomq
      <4> QED BY <2>7, <4>1, <4>2
    <3> QED BY <3>1, <3>2
  <2>10. ~(pc' \in {"timeouts", "pick"} \/ (cur' = NoDom /\ pc' \in Outside))
    <3>1. CASE cur = NoDom
      BY <1>2, <3>1, DomqRoom DEF Outside
    <3>2. CASE cur # NoDom
      BY <3>2 DEF Outside
    <3> QED BY <3>1, <3>2
  <2> QED BY <2>4, <2>6, <2>9, <2>10 DEF DomqInv
<1>3. CASE schst[e] # "BLCKD"
  <2>1. UNCHANGED <<domq, schst>>
    BY <1>3 DEF Send, Kicks
  <2>2. DomqInv'
    BY <2>1 DEF WakeInv, DomqInv, InDomq, Outside
  <2>3. NoLostWakeup'
    BY <1>1, <1>3, <2>1 DEF WakeInv, NoLostWakeup, Send
  <2> QED BY <2>2, <2>3
<1> QED BY <1>2, <1>3

\* Steps that deliver no event and leave the queue alone.
LEMMA DomqUnchanged ==
    ASSUME WakeInv, UNCHANGED domq,
           \A d \in Dom : InDomq(d) => ~Running(d)',
           \A d \in Dom : pending'[d] => pending[d],
           \A d \in Dom : schst'[d] = "WAKING" => schst[d] = "WAKING",
           \A d \in Dom : schst'[d] = "BLCKD" =>
                             schst[d] = "BLCKD" \/ (~InDomq(d) /\ ~pending[d]),
           pc' \in {"timeouts", "pick"} \/ (cur' = NoDom /\ pc' \in Outside)
               => domq = <<>>
    PROVE  DomqInv' /\ NoLostWakeup'
<1>1. \A d \in Dom : InDomq(d)' <=> InDomq(d)
  BY DEF InDomq
<1>2. DomqInv'
  BY <1>1 DEF WakeInv, DomqInv
<1>3. NoLostWakeup'
  BY DEF WakeInv, NoLostWakeup
<1> QED BY <1>2, <1>3

\* A drained domain is asleep no more.
LEMMA DrainedWakes ==
    ASSUME WakeInv, Drain
    PROVE  DomqInv' /\ NoLostWakeup'
<1>1. /\ domq \in Seq(Dom) /\ schst \in [Dom -> SchSts] /\ domq # <<>>
      /\ domq' = Tail(domq) /\ UNCHANGED <<pc, cur, pending>> /\ pc = "drain"
  BY DEF WakeInv, QueueInv, TypeOK, Drain
<1> DEFINE e == Head(domq)
<1>2. /\ e \in Dom /\ Len(domq) \in Nat /\ e = domq[1]
      /\ DOMAIN domq = 1 .. Len(domq) /\ DOMAIN domq' = 1 .. Len(domq) - 1
      /\ \A i \in 1 .. Len(domq) - 1 : domq'[i] = domq[i + 1]
  BY <1>1
<1>3. \A d \in Dom : schst'[d] # schst[d] => d = e /\ schst'[d] \in {"RUN", "WAIT"}
  <2>1. CASE Unblock(e)
    BY <1>1, <1>2, <2>1 DEF Unblock, Requeue, QueuedSt
  <2>2. CASE UNCHANGED schst
    BY <2>2
  <2> QED BY <2>1, <2>2 DEF Drain
<1>4. schst'[e] # "WAKING"
  <2>1. CASE schst[e] \notin {"STOPPED", "DYING"} /\ sd[e].state = "block"
    <3>1. Unblock(e)
      BY <2>1 DEF Drain
    <3> QED BY <1>1, <1>2, <3>1 DEF Unblock, Requeue, QueuedSt
  <2>2. CASE ~(schst[e] \notin {"STOPPED", "DYING"} /\ sd[e].state = "block")
    <3>1. UNCHANGED schst
      BY <2>2 DEF Drain
    <3>2. Placed(e)
      BY <1>2 DEF WakeInv, QueueInv, QueuesConsistent
    <3> QED BY <2>2, <3>1, <3>2 DEF Placed, Known
  <2> QED BY <2>1, <2>2
<1>5. \A d \in Dom : InDomq(d)' => InDomq(d)
  <2> SUFFICES ASSUME NEW d \in Dom, NEW i \in DOMAIN domq', domq'[i] = d
               PROVE  InDomq(d)
    BY DEF InDomq
  <2>1. i + 1 \in DOMAIN domq /\ domq[i + 1] = d
    BY <1>2
  <2> QED BY <2>1 DEF InDomq
<1>6. \A d \in Dom : InDomq(d) /\ d # e => InDomq(d)'
  <2> SUFFICES ASSUME NEW d \in Dom, d # e, NEW i \in DOMAIN domq, domq[i] = d
               PROVE  InDomq(d)'
    BY DEF InDomq
  <2>1. i \in 1 .. Len(domq) /\ i # 1
    BY <1>2
  <2>2. i - 1 \in DOMAIN domq' /\ domq'[i - 1] = d
    BY <1>2, <2>1
  <2> QED BY <2>2 DEF InDomq
<1>7. \A i, j \in DOMAIN domq' : domq'[i] = domq'[j] => i = j
  <2> SUFFICES ASSUME NEW i \in DOMAIN domq', NEW j \in DOMAIN domq',
                      domq'[i] = domq'[j]
               PROVE  i = j
    OBVIOUS
  <2>1. /\ i \in Int /\ j \in Int /\ i + 1 \in DOMAIN domq
        /\ j + 1 \in DOMAIN domq /\ domq[i + 1] = domq[j + 1]
    BY <1>2
  <2>2. i + 1 = j + 1
    BY <2>1 DEF WakeInv, DomqInv
  <2> QED BY <2>1, <2>2
<1> HIDE DEF e
<1>8. DomqInv'
  <2>1. \A d \in Dom : InDomq(d)' => schst'[d] # "BLCKD" /\ ~Running(d)'
    BY <1>1, <1>3, <1>5 DEF WakeInv, DomqInv, Running, Outside
  <2> QED BY <1>1, <1>7, <2>1 DEF DomqInv, Outside
<1>9. NoLostWakeup'
  <2> SUFFICES ASSUME NEW d \in Dom
               PROVE  /\ schst'[d] = "BLCKD" => ~pending'[d]
                      /\ schst'[d] = "WAKING" => InDomq(d)'
    BY DEF NoLostWakeup, InDomq
  <2>1. /\ schst[d] = "BLCKD" => ~pending[d]
        /\ schst[d] = "WAKING" => InDomq(d)
    BY DEF WakeInv, NoLostWakeup, InDomq
  <2> QED BY <1>1, <1>3, <1>4, <1>6, <2>1
<1> QED BY <1>8, <1>9

-----------------------------------------------------------------------------
LEMMA NextWakes ==
    ASSUME QueueFits, WakeInv, [Next]_vars
    PROVE  DomqInv' /\ NoLostWakeup'
<1>1. /\ schst \in [Dom -> SchSts] /\ pending \in [Dom -> BOOLEAN]
      /\ NoDom \notin Dom
  BY ContractAssumption DEF WakeInv, QueueInv, TypeOK
<1>2. \A d \in Dom : Running(d) => ~InDomq(d)
  BY DEF WakeInv, DomqInv
<1>3. CASE Tick
  <2>1. /\ UNCHANGED <<domq, pending, schst, cur>>
        /\ \A d \in Dom : Running(d)' => Running(d)
        /\ pc' = pc \/ pc' \in {"deschedule", "alloc"}
    BY <1>3 DEF Tick, Reenter, Running
  <2> QED BY <1>2, <2>1, DomqUnchanged DEF WakeInv, DomqInv, Outside
<1>4. ASSUME NEW d \in Dom, NEW put \in BOOLEAN, Interrupt(d, put)
      PROVE  DomqInv' /\ NoLostWakeup'
  <2>1. /\ Send(d, put) /\ cur' = cur /\ pc \in Outside
        /\ pc' = pc \/ pc' \in {"deschedule", "alloc"}
        /\ Kicks(d) /\ cur = NoDom => pc' = "alloc"
        /\ \A e \in Dom : Running(e)' => Running(e)
    BY <1>4 DEF Interrupt, Reenter, Running
  <2> QED BY <2>1, SendKicks
<1>5. ASSUME NEW d \in Dom, NEW put \in BOOLEAN, SyscallSend(d, put)
      PROVE  DomqInv' /\ NoLostWakeup'
  <2>1. /\ Send(d, put) /\ cur' = cur /\ cur # NoDom /\ pc \in Outside
        /\ pc' = pc
        /\ \A e \in Dom : Running(e)' => Running(e)
    BY <1>5 DEF SyscallSend, Executing, Running
  <2> QED BY <2>1, SendKicks
<1>6. ASSUME NEW put \in BOOLEAN, Deliver(put)
      PROVE  DomqInv' /\ NoLostWakeup'
  <2>1. cur \in Dom /\ outevs[cur] \in Seq(Dom) /\ outevs[cur] # <<>>
    BY <1>6 DEF Deliver, WakeInv, QueueInv, Phased, TypeOK
  <2>2. Head(outevs[cur]) \in Dom
    BY <2>1
  <2>3. /\ Send(Head(outevs[cur]), put) /\ cur' = cur /\ pc = "deschedule"
        /\ pc' = pc /\ \A e \in Dom : Running(e)' => Running(e)
    BY <1>6 DEF Deliver, Running
  <2> QED BY <1>1, <2>1, <2>2, <2>3, SendKicks
<1>7. CASE \/ \E d \in Dom : PushEvent(d)
           \/ \E d \in Dom : \E q \in QoS[d] : AddContracted(d, q) \/ SetQoS(d, q)
           \/ \E d \in Dom, final \in {"STOPPED", "DYING"} : StopDomain(d, final)
           \/ TakeEvents \/ Yield \/ \E t \in Timeouts : Block(t)
  <2>1. /\ UNCHANGED <<domq, cur>> /\ cur # NoDom /\ pc \in Outside
        /\ pc' = pc \/ pc' = "deschedule"
        /\ \A d \in Dom : pending'[d] => pending[d]
        /\ \A d \in Dom : schst'[d] \in {"BLCKD", "WAKING"} =>
                               schst'[d] = schst[d]
    BY <1>1, <1>7 DEF PushEvent, AddContracted, SetQoS, StopDomain, TakeEvents,
       Yield, Block, Executing
  <2>2. \A d \in Dom : Running(d)' => Running(d)
    BY <2>1 DEF Running
  <2> QED BY <1>2, <2>1, <2>2, DomqUnchanged DEF Outside
<1>8. CASE SetQoSStore
  <2>1. UNCHANGED <<domq, pending, schst, cur, pc>> /\ cur # NoDom
        /\ pc \in Outside
    BY <1>8 DEF SetQoSStore
  <2>2. \A d \in Dom : Running(d)' <=> Running(d)
    BY <2>1 DEF Running
  <2> QED BY <1>2, <2>1, <2>2, DomqUnchanged DEF Outside
<1>9. CASE Deschedule
  <2>1. /\ UNCHANGED <<domq, pending>> /\ pc' = "alloc" /\ Running(cur)
        /\ \A d \in Dom : schst'[d] # schst[d] =>
               /\ d = cur
               /\ \/ schst'[d] = "BLCKD" /\ ~pending[d]
                  \/ schst'[d] = "WAIT"
    <3>1. /\ UNCHANGED <<domq, pending>> /\ pc' = "alloc" /\ pc = "deschedule"
          /\ \/ /\ Blocking(cur) /\ schst' = [schst EXCEPT ![cur] = "BLCKD"]
             \/ schst' = [schst EXCEPT ![cur] = "WAIT"]
             \/ schst' = schst
      BY <1>9 DEF Deschedule
    <3> QED BY <1>1, <3>1 DEF Blocking, Running
  <2>2. \A d \in Dom : ~Running(d)'
    BY <2>1 DEF Running, Outside
  <2> QED BY <1>2, <2>1, <2>2, DomqUnchanged DEF Outside
<1>10. CASE Allocate
  <2>1. PICK e \in Heads(wait) : Requeue(e, NewPeriod(sd[e]))
    BY <1>10 DEF Allocate
  <2>2. /\ UNCHANGED <<domq, pending>> /\ pc' = "alloc"
        /\ \A d \in Dom : schst'[d] # schst[d] => schst'[d] \in {"RUN", "WAIT"}
    BY <1>1, <1>10, <2>1 DEF Allocate, Requeue, QueuedSt
  <2>3. \A d \in Dom : ~Running(d)'
    BY <2>2 DEF Running, Outside
  <2> QED BY <2>2, <2>3, DomqUnchanged DEF Outside
<1>11. CASE AllocDone \/ DrainDone \/ ExpireDone
  <2>1. /\ UNCHANGED <<domq, pending, schst>>
        /\ pc' = "drain" \/ (pc' \in {"timeouts", "pick"} /\ domq = <<>>)
    BY <1>11 DEF AllocDone, DrainDone, ExpireDone, WakeInv, DomqInv
  <2>2. \A d \in Dom : ~Running(d)'
    BY <2>1 DEF Running, Outside
  <2> QED BY <2>1, <2>2, DomqUnchanged DEF Outside
<1>12. CASE Expire
  <2>1. PICK e \in Heads(blocked) : Unblock(e)
    BY <1>12 DEF Expire
  <2>2. /\ UNCHANGED <<domq, pending>> /\ pc' = "timeouts" /\ domq = <<>>
        /\ \A d \in Dom : schst'[d] # schst[d] => schst'[d] \in {"RUN", "WAIT"}
    BY <1>1, <1>12, <2>1 DEF Expire, Unblock, Requeue, QueuedSt, WakeInv, DomqInv
  <2>3. \A d \in Dom : ~Running(d)'
    BY <2>2 DEF Running, Outside
  <2> QED BY <2>2, <2>3, DomqUnchanged DEF Outside
<1>13. CASE Pick
  <2>1. domq = <<>> /\ UNCHANGED <<domq, pending>>
    BY <1>13 DEF Pick, WakeInv, DomqInv
  <2>2. \A d \in Dom : ~InDomq(d)
    BY <2>1 DEF InDomq
  <2>3. \A d \in Dom : schst'[d] # schst[d] => schst'[d] = "RUN"
    BY <1>1, <1>13 DEF Pick, RunNext
  <2> QED BY <2>1, <2>2, <2>3, DomqUnchanged
<1>14. CASE UNCHANGED vars
  <2>1. UNCHANGED <<domq, pending, schst, cur, pc>>
    BY <1>14 DEF vars
  <2>2. \A d \in Dom : Running(d)' <=> Running(d)
    BY <2>1 DEF Running
  <2> QED BY <1>2, <2>1, <2>2, DomqUnchanged DEF WakeInv, DomqInv
<1>15. CASE User
  BY <1>15, <1>5, <1>7 DEF User
<1>16. CASE Pass
  BY <1>16, <1>6, <1>9, <1>10, <1>11, <1>12, <1>13, DrainedWakes DEF Pass
<1> QED BY <1>3, <1>4, <1>8, <1>14, <1>15, <1>16 DEF Next

\* No domain with events in its FIFO is left asleep, and no kick is forgotten,
\* however events arrive between a test of the scheduler and what it does,
\* and although a domain may be stopped and started again while it is queued
\* (k_kick, and the drain of the domain queue in ksched_scheduler): the ring
\* has a slot for each domain, and one that runs is not in it.
THEOREM WakeupsKept ==
    ASSUME CursorSafe, QueueFits PROVE Spec => []NoLostWakeup
<1>1. Init => WakeInv
  <2> SUFFICES ASSUME Init PROVE WakeInv
    OBVIOUS
  <2>1. QueueInv
    BY InitQueueInv
  <2>2. DomqInv
    BY DEF Init, DomqInv, InDomq
  <2>3. NoLostWakeup
    BY DEF Init, NoLostWakeup
  <2> QED BY <2>1, <2>2, <2>3 DEF WakeInv
<1>2. WakeInv /\ [Next]_vars => WakeInv'
  BY NextQueueInv, NextWakes DEF WakeInv
<1>3. WakeInv => NoLostWakeup
  BY DEF WakeInv
<1> QED BY <1>1, <1>2, <1>3, PTL DEF Spec

-----------------------------------------------------------------------------
(* The timer and the accounts of the scheduler, for any tick and any       *)
(* quantum.                                                                *)

\* Slices, like all times but FOREVER, come to an end.
SlicesEnd == \A d \in Dom : \A q \in QoS[d] : q.s < Forever

(* No allocation is longer than any time that comes.                       *)
Bounded ==
    /\ \A d \in Dom : sd[d].remain < Forever /\ sd[d].slice < Forever
    /\ setqos.qos.s < Forever

TimerInv == QueueInv /\ Bounded /\ TimerCovers

-----------------------------------------------------------------------------
(* Every queue has a head.                                                 *)

LEMMA HeadExists ==
    ASSUME IsFiniteSet(Dom), TypeOK, NEW q \in SUBSET Dom, q # {}
    PROVE  Heads(q) # {}
<1>1. \A d \in q : sd[d].deadline \in Int
  BY DEF TypeOK, SDom
<1> DEFINE sooner(d) == {e \in q : sd[e].deadline < sd[d].deadline}
           T == {sooner(d) : d \in q}
<1>2. IsFiniteSet(q)
  BY FS_Subset
<1>3. T \subseteq SUBSET q /\ T # {}
  OBVIOUS
<1>4. IsWellFoundedOn(StrictSubsetOrdering(q), SUBSET q)
  BY <1>2, FS_StrictSubsetOrderingWellFounded, FS_FiniteSubsetsOfFinite
<1> HIDE DEF T
<1>5. PICK x \in T : \A y \in T : ~ (<<y, x>> \in StrictSubsetOrdering(q))
  BY <1>3, <1>4, WFMin
<1>6. PICK d \in q : x = sooner(d)
  BY DEF T
<1>7. ASSUME NEW e \in q, ~(sd[d].deadline <= sd[e].deadline) PROVE FALSE
  <2>1. sd[e].deadline < sd[d].deadline
    BY <1>1, <1>7
  <2>2. sooner(e) \subseteq sooner(d) /\ e \in sooner(d) /\ e \notin sooner(e)
    BY <1>1, <2>1
  <2>3. sooner(e) \in T
    BY DEF T
  <2>4. <<sooner(e), x>> \in StrictSubsetOrdering(q)
    BY <1>6, <2>2 DEF StrictSubsetOrdering
  <2> QED BY <1>5, <2>3, <2>4
<1> QED BY <1>7 DEF Heads

\* The time of the head is no later than any in the queue.
LEMMA HeadTimeCovers ==
    ASSUME IsFiniteSet(Dom), TypeOK, NEW q \in SUBSET Dom, NEW t \in Int
    PROVE  /\ HeadTime(q, t) \in Int /\ HeadTime(q, t) <= t
           /\ \A d \in q : HeadTime(q, t) <= sd[d].deadline
<1>1. CASE q = {}
  BY <1>1 DEF HeadTime, Heads
<1>2. CASE q # {}
  <2>1. Heads(q) # {}
    BY <1>2, HeadExists
  <2>2. HeadOf(q) \in Heads(q)
    BY <2>1 DEF HeadOf
  <2>3. /\ HeadOf(q) \in q
        /\ \A d \in q : sd[HeadOf(q)].deadline <= sd[d].deadline
    BY <2>2 DEF Heads
  <2>4. \A d \in q : sd[d].deadline \in Int
    BY DEF TypeOK, SDom
  <2> QED BY <2>1, <2>3, <2>4 DEF HeadTime, Min2
<1> QED BY <1>1, <1>2

LEMMA AlarmCovers ==
    ASSUME IsFiniteSet(Dom), TypeOK, NEW t \in Int
    PROVE  /\ NextAlarm(t) \in Int /\ NextAlarm(t) <= t
           /\ \A d \in wait \cup blocked : NextAlarm(t) <= sd[d].deadline
<1>1. /\ HeadTime(wait, t) \in Int /\ HeadTime(wait, t) <= t
      /\ \A d \in wait : HeadTime(wait, t) <= sd[d].deadline
  BY HeadTimeCovers DEF TypeOK
<1>2. /\ NextAlarm(t) \in Int /\ NextAlarm(t) <= HeadTime(wait, t)
      /\ \A d \in blocked : NextAlarm(t) <= sd[d].deadline
  BY <1>1, HeadTimeCovers DEF TypeOK, NextAlarm
<1>3. \A d \in wait : sd[d].deadline \in Int
  BY DEF TypeOK, SDom
<1> QED BY <1>1, <1>2, <1>3

-----------------------------------------------------------------------------
(* Allocations are bounded.                                                *)

\* What the updates of an sdom do to the allocation.
LEMMA UpdatesBounded ==
    ASSUME NEW s \in SDom, s.remain < Forever, s.slice < Forever, ran \in Nat
    PROVE  /\ NewPeriod(s).remain < Forever /\ NewPeriod(s).slice < Forever
           /\ BlockSDom(s).remain = s.remain /\ BlockSDom(s).slice = s.slice
           /\ UnblockSDom(s).remain < Forever /\ UnblockSDom(s).slice < Forever
           /\ Charge(s).remain < Forever /\ Charge(s).slice < Forever
<1>1. s.remain \in Int /\ s.slice \in Nat /\ Forever \in Int
  BY TimeAssumption DEF SDom
<1>2. NewPeriod(s).remain < Forever /\ NewPeriod(s).slice < Forever
  BY <1>1 DEF NewPeriod, SDom
<1>3. BlockSDom(s).remain = s.remain /\ BlockSDom(s).slice = s.slice
  BY DEF BlockSDom, SDom
<1>4. UnblockSDom(s).remain < Forever /\ UnblockSDom(s).slice < Forever
  BY <1>1 DEF UnblockSDom, SDom
<1>5. Charge(s).remain < Forever /\ Charge(s).slice < Forever
  BY <1>1 DEF Charge, SDom
<1> QED BY <1>2, <1>3, <1>4, <1>5

\* It is enough that one domain's sdom changes to one with a bounded allocation.
LEMMA OneBounded ==
    ASSUME TypeOK, Bounded, UNCHANGED setqos, NEW d \in Dom, NEW s,
           sd' = [sd EXCEPT ![d] = s], s.remain < Forever, s.slice < Forever
    PROVE  Bounded'
  BY DEF Bounded, TypeOK

LEMMA NextBounded ==
    ASSUME SlicesEnd, QueueInv, Bounded, [Next]_vars
    PROVE  Bounded'
<1>1. /\ TypeOK /\ Phased /\ sd \in [Dom -> SDom] /\ ran \in Nat
      /\ \A d \in Dom : sd[d] \in SDom /\ sd[d].remain < Forever
                        /\ sd[d].slice < Forever
      /\ setqos.qos.s < Forever
      /\ Forever \in Nat /\ 0 < Forever
  BY TimeAssumption DEF QueueInv, Bounded, TypeOK
<1>2. CASE UNCHANGED <<sd, setqos>>
  BY <1>2 DEF Bounded
<1>3. CASE Tick
  <2>1. \A d \in Dom : sd'[d].remain = sd[d].remain /\ sd'[d].slice = sd[d].slice
    BY <1>1, <1>3 DEF Tick, SDom
  <2> QED BY <1>1, <1>3, <2>1 DEF Tick, Bounded
<1>4. ASSUME NEW d \in Dom, NEW put \in BOOLEAN,
             Interrupt(d, put) \/ SyscallSend(d, put) \/ Deliver(put)
      PROVE  Bounded'
  BY <1>2, <1>4 DEF Interrupt, SyscallSend, Deliver
<1>5. CASE \/ \E d \in Dom : PushEvent(d)
           \/ \E d \in Dom, final \in {"STOPPED", "DYING"} : StopDomain(d, final)
           \/ TakeEvents \/ Yield \/ AllocDone \/ DrainDone \/ ExpireDone
           \/ Pick \/ UNCHANGED vars
  BY <1>2, <1>5 DEF PushEvent, StopDomain, TakeEvents, Yield, AllocDone,
     DrainDone, ExpireDone, Pick, vars
<1>6. ASSUME NEW t \in Timeouts, Block(t) PROVE Bounded'
  <2>1. /\ cur \in Dom /\ UNCHANGED setqos
        /\ sd' = [sd EXCEPT ![cur] = [sd[cur] EXCEPT !.timeout = t]]
    BY <1>1, <1>6 DEF Block, Executing, TypeOK
  <2>2. /\ [sd[cur] EXCEPT !.timeout = t].remain = sd[cur].remain
        /\ [sd[cur] EXCEPT !.timeout = t].slice = sd[cur].slice
    BY <1>1, <2>1 DEF SDom
  <2> QED BY <1>1, <2>1, <2>2, OneBounded
<1>7. ASSUME NEW d \in Dom, NEW q \in QoS[d], AddContracted(d, q)
      PROVE  Bounded'
  <2>1. PICK s : /\ sd' = [sd EXCEPT ![d] = s]
                 /\ s.remain = q.s /\ s.slice = q.s
    <3>1. /\ NewSDom(q).remain = q.s /\ NewSDom(q).slice = q.s
          /\ \A dl : /\ [NewSDom(q) EXCEPT !.deadline = dl].remain = q.s
                     /\ [NewSDom(q) EXCEPT !.deadline = dl].slice = q.s
      BY DEF NewSDom
    <3> QED BY <1>7, <3>1 DEF AddContracted
  <2> QED BY <1>1, <1>7, <2>1, OneBounded DEF SlicesEnd, AddContracted
<1>8. ASSUME NEW d \in Dom, NEW q \in QoS[d], SetQoS(d, q) PROVE Bounded'
  <2>1. /\ sd' = [sd EXCEPT ![d] = [sd[d] EXCEPT !.period = q.p]]
        /\ setqos'.qos = q
    BY <1>8 DEF SetQoS
  <2>2. /\ [sd[d] EXCEPT !.period = q.p].remain = sd[d].remain
        /\ [sd[d] EXCEPT !.period = q.p].slice = sd[d].slice
    BY <1>1 DEF SDom
  <2> QED BY <1>1, <2>1, <2>2 DEF SlicesEnd, Bounded
<1>9. CASE SetQoSStore
  <2>1. setqos'.qos.s < Forever
    <3>1. CASE setqos.left = 1
      BY <1>1, <1>9, <3>1 DEF SetQoSStore, NoCall, Unset
    <3>2. CASE setqos.left # 1
      <4>1. setqos'.qos = setqos.qos
        BY <1>1, <1>9, <3>2 DEF SetQoSStore, TypeOK
      <4> QED BY <1>1, <4>1
    <3> QED BY <3>1, <3>2
  <2>2. \A d \in Dom : /\ sd'[d].remain = sd[d].remain
                       /\ sd'[d].slice \in {sd[d].slice, setqos.qos.s}
    <3>1. setqos.dom \in Dom
      BY <1>1 DEF TypeOK
    <3> QED BY <1>1, <1>9, <3>1 DEF SetQoSStore, SDom
  <2> QED BY <1>1, <2>1, <2>2 DEF Bounded
<1>10. CASE Deschedule
  <2> DEFINE s == Charge(sd[cur])
  <2>1. cur \in Dom /\ s \in SDom /\ s.remain < Forever /\ s.slice < Forever
    BY <1>1, <1>10, ChargeType, UpdatesBounded DEF Deschedule, Phased, TypeOK
  <2>2. BlockSDom(s).remain < Forever /\ BlockSDom(s).slice < Forever
    BY <1>1, <2>1, UpdatesBounded
  <2>3. /\ [s EXCEPT !.state = "wait"].remain = s.remain
        /\ [s EXCEPT !.state = "wait"].slice = s.slice
    BY <2>1 DEF SDom
  <2>4. /\ UNCHANGED setqos
        /\ \/ sd' = [sd EXCEPT ![cur] = BlockSDom(s)]
           \/ sd' = [sd EXCEPT ![cur] = [s EXCEPT !.state = "wait"]]
           \/ sd' = [sd EXCEPT ![cur] = s]
    BY <1>10 DEF Deschedule
  <2> HIDE DEF s
  <2> QED BY <1>1, <2>1, <2>2, <2>3, <2>4, OneBounded
<1>11. CASE Allocate
  <2>1. PICK d \in Heads(wait) : Requeue(d, NewPeriod(sd[d]))
    BY <1>11 DEF Allocate
  <2>2. d \in Dom
    BY <1>1 DEF Heads, TypeOK
  <2>3. sd' = [sd EXCEPT ![d] = NewPeriod(sd[d])] /\ UNCHANGED setqos
    BY <1>11, <2>1 DEF Requeue, Allocate
  <2> QED BY <1>1, <2>2, <2>3, UpdatesBounded, OneBounded
<1>12. ASSUME NEW d \in Dom, Unblock(d), UNCHANGED setqos PROVE Bounded'
  <2>1. sd' = [sd EXCEPT ![d] = UnblockSDom(sd[d])]
    BY <1>12 DEF Unblock, Requeue
  <2> QED BY <1>1, <1>12, <2>1, UpdatesBounded, OneBounded
<1>13. CASE Drain
  <2>1. Head(domq) \in Dom /\ UNCHANGED setqos
    BY <1>1, <1>13 DEF Drain, TypeOK
  <2> QED BY <1>2, <1>12, <1>13, <2>1 DEF Drain
<1>14. CASE Expire
  <2>1. PICK d \in Heads(blocked) : Unblock(d)
    BY <1>14 DEF Expire
  <2>2. d \in Dom /\ UNCHANGED setqos
    BY <1>1, <1>14 DEF Heads, TypeOK, Expire
  <2> QED BY <1>12, <2>1, <2>2
<1>15. CASE User
  <2>1. Dom # {}
    BY ContractAssumption
  <2> QED BY <1>15, <1>4, <1>5, <1>6, <1>7, <1>8 DEF User
<1>16. CASE Pass
  <2>1. Nemesis \in Dom
    BY ContractAssumption
  <2> QED BY <1>16, <2>1, <1>4, <1>5, <1>10, <1>11, <1>13, <1>14 DEF Pass
<1> QED BY <1>3, <1>4, <1>5, <1>9, <1>15, <1>16 DEF Next

-----------------------------------------------------------------------------
(* The timer.                                                              *)

\* Steps outside the scheduler that change no time it is set for.
LEMMA StillCovers ==
    ASSUME TimerCovers, pc = "user", UNCHANGED <<cur, ran, alarm>>,
           wait' \subseteq wait, blocked' \subseteq blocked,
           \A d \in wait \cup blocked : sd'[d].deadline = sd[d].deadline,
           cur # NoDom => /\ sd'[cur].state = sd[cur].state
                          /\ sd'[cur].remain = sd[cur].remain
    PROVE  TimerCovers'
  BY DEF TimerCovers, Contracted

LEMMA TickCovers == ASSUME TimerInv, Tick, pc' = "user" PROVE TimerCovers'
<1>1. /\ sd \in [Dom -> SDom] /\ alarm \in Int /\ ran \in Nat
      /\ wait \subseteq Dom /\ blocked \subseteq Dom
      /\ cur \in Dom \cup {NoDom} /\ NoDom \notin Dom
      /\ \A d \in Dom : /\ sd[d].deadline \in Int /\ sd[d].remain \in Int
                        /\ sd[d].remain < Forever
  BY ContractAssumption DEF TimerInv, Bounded, QueueInv, TypeOK, SDom
<1>2. /\ alarm' = Elapse(alarm) /\ alarm' > 0 /\ pc = "user"
      /\ UNCHANGED <<cur, wait, blocked>>
      /\ ran' = (IF cur = NoDom THEN 0 ELSE ran + TickLen)
  <2>1. /\ alarm' = Elapse(alarm) /\ UNCHANGED <<cur, wait, blocked>>
        /\ ran' = (IF cur = NoDom THEN 0 ELSE ran + TickLen)
        /\ IF alarm' <= 0 THEN Reenter ELSE UNCHANGED pc
    BY DEF Tick, queues
  <2>2. alarm' \in Int
    BY <1>1, <2>1, ElapseType
  <2>3. pc = "user" /\ ~(alarm' <= 0)
    BY <2>1 DEF Reenter
  <2> QED BY <2>1, <2>2, <2>3
<1>3. \A d \in Dom : /\ sd'[d].deadline = Elapse(sd[d].deadline)
                     /\ sd'[d].remain = sd[d].remain
                     /\ sd'[d].state = sd[d].state
  BY <1>1 DEF Tick, SDom
<1>4. \A d \in wait \cup blocked : alarm' <= sd'[d].deadline
  BY <1>1, <1>2, <1>3, ElapseMonotone DEF TimerInv, TimerCovers
<1>5. ASSUME cur # NoDom, Contracted(sd[cur])
      PROVE  alarm' + ran' <= sd[cur].remain
  <2>1. alarm + ran <= sd[cur].remain /\ sd[cur].remain < Forever
    BY <1>1, <1>2, <1>5 DEF TimerInv, TimerCovers
  <2>2. TickLen \in Int /\ Late \in Nat /\ Forever \in Int
    BY TimeAssumption
  <2>3. alarm < Forever
    BY <1>1, <1>5, <2>1, <2>2
  <2>4. alarm' = alarm - TickLen
    BY <1>1, <1>2, <2>2, <2>3 DEF Elapse
  <2> QED BY <1>1, <1>2, <1>5, <2>1, <2>2, <2>4
<1> QED BY <1>1, <1>2, <1>3, <1>4, <1>5 DEF TimerCovers, Contracted

LEMMA PickCovers ==
    ASSUME IsFiniteSet(Dom), TimerInv, Pick PROVE TimerCovers'
<1>1. /\ TypeOK /\ sd \in [Dom -> SDom] /\ NoDom \notin Dom
      /\ run \subseteq Dom /\ wait \subseteq Dom
      /\ \A d \in Dom : sd[d].remain \in Int
      /\ \A d \in Dom : Placed(d)
      /\ UNCHANGED <<wait, blocked, sd>>
  BY ContractAssumption
     DEF TimerInv, QueueInv, QueuesConsistent, TypeOK, SDom, Pick
<1>2. ASSUME NEW c \in Dom, NEW t \in Int, RunNext(c, t),
             Contracted(sd[c]) => t = sd[c].remain
      PROVE  TimerCovers'
  <2>1. /\ NextAlarm(t) \in Int /\ NextAlarm(t) <= t
        /\ \A d \in wait \cup blocked : NextAlarm(t) <= sd[d].deadline
    BY <1>1, AlarmCovers
  <2> QED BY <1>1, <1>2, <2>1 DEF RunNext, TimerCovers, Contracted
<1>3. CASE \E c \in Heads(run) : RunNext(c, sd[c].remain)
  BY <1>1, <1>2, <1>3 DEF Heads
<1>4. CASE \E c \in Favoured : RunNext(c, sd[c].remain)
  BY <1>1, <1>2, <1>4 DEF Favoured
<1>5. CASE Favoured = {} /\ \E c \in Extra : RunNext(c, Quantum)
  <2>1. PICK c \in Extra : RunNext(c, Quantum)
    BY <1>5
  <2>2. c \in wait /\ c \in Dom /\ sd[c].state # "unblocked"
    BY <1>1, <1>5 DEF Extra, Favoured
  <2>3. ~Contracted(sd[c])
    BY <1>1, <2>2 DEF Placed, Contracted
  <2> QED BY <1>2, <2>1, <2>2, <2>3, TimeAssumption
<1>6. CASE cur' = NoDom /\ alarm' = NextAlarm(Forever)
  <2>1. \A d \in wait \cup blocked : NextAlarm(Forever) <= sd[d].deadline
    BY <1>1, AlarmCovers, TimeAssumption
  <2> QED BY <1>1, <1>6, <2>1 DEF TimerCovers
<1> QED BY <1>3, <1>4, <1>5, <1>6 DEF Pick

LEMMA NextCovers ==
    ASSUME IsFiniteSet(Dom), TimerInv, [Next]_vars
    PROVE  TimerCovers'
<1> SUFFICES ASSUME pc' = "user" PROVE TimerCovers'
  BY DEF TimerCovers
<1>1. /\ TypeOK /\ sd \in [Dom -> SDom] /\ TimerCovers /\ NoDom \notin Dom
      /\ cur \in Dom \cup {NoDom} /\ wait \subseteq Dom /\ blocked \subseteq Dom
      /\ \A d \in Dom : sd[d] \in SDom
      /\ \A d \in Dom : Placed(d) /\ (Running(d) => Dequeueable(d))
  BY ContractAssumption DEF TimerInv, QueueInv, QueuesConsistent, TypeOK
<1>2. CASE Tick
  BY <1>2, TickCovers
<1>3. CASE UNCHANGED <<pc, cur, ran, alarm, wait, blocked, sd>>
  BY <1>1, <1>3, StillCovers
<1>4. CASE \/ \E d \in Dom, put \in BOOLEAN : Interrupt(d, put)
           \/ \E d \in Dom, put \in BOOLEAN : SyscallSend(d, put)
           \/ \E d \in Dom : PushEvent(d)
           \/ TakeEvents \/ UNCHANGED vars
  <2>1. UNCHANGED <<pc, cur, ran, alarm, wait, blocked, sd>>
    BY <1>4 DEF Interrupt, Reenter, SyscallSend, PushEvent, TakeEvents, vars,
       queues
  <2> QED BY <1>3, <2>1
<1>5. CASE Yield \/ \E t \in Timeouts : Block(t)
  BY <1>5 DEF Yield, Block
<1>6. ASSUME NEW d \in Dom, NEW q \in QoS[d], AddContracted(d, q)
      PROVE  TimerCovers'
  <2>1. d \notin wait \cup blocked /\ d # cur
    BY <1>1, <1>6, ContractAssumption
       DEF AddContracted, Executing, Placed, Dequeueable, Known, Running
  <2>2. \A e \in Dom \ {d} : sd'[e] = sd[e]
    BY <1>1, <1>6 DEF AddContracted
  <2> QED BY <1>1, <1>6, <2>1, <2>2, StillCovers DEF AddContracted
<1>7. ASSUME NEW d \in Dom, NEW final \in {"STOPPED", "DYING"},
             StopDomain(d, final)
      PROVE  TimerCovers'
  <2>1. /\ UNCHANGED <<pc, cur, ran, alarm, sd>>
        /\ wait' \subseteq wait /\ blocked' \subseteq blocked
    BY <1>7 DEF StopDomain, TakeOff, queues
  <2> QED BY <1>1, <2>1, StillCovers
<1>8. CASE SetQoSStore \/ \E d \in Dom : \E q \in QoS[d] : SetQoS(d, q)
  <2>1. /\ UNCHANGED <<pc, cur, ran, alarm, wait, blocked>>
        /\ \A d \in Dom : /\ sd'[d].state = sd[d].state
                          /\ sd'[d].remain = sd[d].remain
                          /\ sd'[d].deadline = sd[d].deadline
    <3>1. setqos.dom \in Dom
      BY <1>1 DEF TypeOK
    <3>2. CASE SetQoSStore
      BY <1>1, <3>1, <3>2 DEF SetQoSStore, SDom, queues
    <3>3. CASE \E d \in Dom : \E q \in QoS[d] : SetQoS(d, q)
      BY <1>1, <3>3 DEF SetQoS, SDom, queues
    <3> QED BY <1>8, <3>2, <3>3
  <2> QED BY <1>1, <2>1, StillCovers
<1>9. CASE Pass
  <2>1. Pick
    BY <1>9 DEF Pass, Deschedule, Allocate, AllocDone, Drain, DrainDone,
       Expire, ExpireDone, Deliver
  <2> QED BY <2>1, PickCovers
<1>10. CASE User
  BY <1>10, <1>4, <1>5, <1>6, <1>7, <1>8 DEF User
<1> QED BY <1>2, <1>4, <1>8, <1>9, <1>10 DEF Next

LEMMA InitTimer == SlicesEnd /\ CursorSafe /\ Init => TimerInv
<1> SUFFICES ASSUME SlicesEnd, CursorSafe, Init PROVE TimerInv
  OBVIOUS
<1>1. PICK q \in QoS[Nemesis] :
         sd = [d \in Dom |-> NewSDom(IF d = Nemesis THEN q ELSE Unset)]
  BY DEF Init
<1>2. q.s < Forever /\ 0 < Forever
  BY ContractAssumption, TimeAssumption DEF SlicesEnd
<1>3. \A d \in Dom : sd[d].remain < Forever /\ sd[d].slice < Forever
  BY <1>1, <1>2 DEF NewSDom, Unset
<1>4. setqos.qos.s < Forever
  BY <1>2 DEF Init, NoCall, Unset
<1>5. TimerCovers
  BY DEF Init, TimerCovers
<1> QED BY <1>3, <1>4, <1>5, InitQueueInv DEF TimerInv, Bounded

LEMMA NextTimer ==
    IsFiniteSet(Dom) /\ SlicesEnd /\ CursorSafe /\ TimerInv /\ [Next]_vars
        => TimerInv'
  BY NextQueueInv, NextBounded, NextCovers DEF TimerInv

\* While a domain or the idle loop runs, the timer is set so that the
\* scheduler is entered by the end of the allocation, and by the first period
\* and the first block timeout of the others, however contracts change and
\* domains come and go meanwhile (the choice of the alarm at the end of
\* ksched_scheduler).
THEOREM TimerIsSet ==
    ASSUME IsFiniteSet(Dom), CursorSafe, SlicesEnd PROVE Spec => []TimerCovers
<1>1. Init => TimerInv
  BY InitTimer
<1>2. TimerInv /\ [Next]_vars => TimerInv'
  BY NextTimer
<1>3. TimerInv => TimerCovers
  BY DEF TimerInv
<1> QED BY <1>1, <1>2, <1>3, PTL DEF Spec

-----------------------------------------------------------------------------
(* The accounts.  A contract gives some time; that of the system domain    *)
(* fits its period and is not changed at run time.                         *)

ContractsSound ==
    /\ SlicesEnd /\ \A d \in Dom : \A q \in QoS[d] : 0 < q.s
    /\ Nemesis \notin Tunable
    /\ \A q \in QoS[Nemesis] : q.s <= q.p /\ q.p < Forever

Used(d)  == IF Running(d) /\ Contracted(sd[d]) THEN ran ELSE 0
Exact(d) == sd[d].remain = due[d] + Used(d)
Kept(d)  == due[d] > -TickLen - BootDebt(d)

\* Who has a claim to run on guaranteed time has some.
Solvent(d) == Known(d) /\ Contracted(sd[d]) /\ ~Running(d) => sd[d].remain > 0

(* Until the alarm, the domain that runs has time left; at boot, until its *)
(* deadline.                                                               *)
TimeLeft ==
    /\ pc = "user" /\ cur # NoDom /\ Contracted(sd[cur]) => due[cur] > 0
    /\ pc = "boot" =>
           /\ cur = Nemesis /\ alarm > 0
           /\ alarm + ran <= sd[Nemesis].period
           /\ sd[Nemesis].remain = sd[Nemesis].slice

Untuned ==
    /\ sd[Nemesis].slice <= sd[Nemesis].period
    /\ sd[Nemesis].period < Forever
    /\ setqos.by # NoDom => setqos.dom \in Tunable

AccountInv ==
    /\ \A d \in Dom : Exact(d) /\ Kept(d) /\ Solvent(d)
    /\ TimeLeft /\ Untuned

ContractInv == TimerInv /\ AccountInv

\* Steps that change nobody's account.
LEMMA SameAccounts ==
    ASSUME TypeOK, AccountInv, UNCHANGED <<due, ran, alarm, cur>>,
           \A d \in Dom : /\ sd'[d].remain = sd[d].remain
                          /\ sd'[d].state = sd[d].state
                          /\ Known(d)' => Known(d)
                          /\ Running(d)' <=> Running(d),
           sd'[Nemesis].period = sd[Nemesis].period,
           sd'[Nemesis].slice = sd[Nemesis].slice,
           pc' = pc \/ pc' \notin Outside,
           setqos'.by # NoDom => setqos'.dom \in Tunable
    PROVE  AccountInv'
<1>1. Nemesis \in Dom /\ NoDom \notin Dom /\ cur \in Dom \cup {NoDom}
  BY ContractAssumption DEF TypeOK
<1>2. \A d \in Dom : BootDebt(d)' = BootDebt(d)
  BY DEF BootDebt
<1>3. \A d \in Dom : Contracted(sd[d])' <=> Contracted(sd[d])
  BY DEF Contracted
<1>4. \A d \in Dom : Exact(d)' /\ Kept(d)' /\ Solvent(d)'
  BY <1>2, <1>3 DEF AccountInv, Exact, Used, Kept, Solvent
<1>5. TimeLeft'
  BY <1>1, <1>3 DEF AccountInv, TimeLeft, Outside
<1>6. Untuned'
  BY DEF AccountInv, Untuned
<1> QED BY <1>4, <1>5, <1>6 DEF AccountInv

\* Steps that settle one domain's account, while nobody runs afterwards.
LEMMA OneAccount ==
    ASSUME TypeOK, AccountInv, NEW e \in Dom, NEW s \in SDom,
           sd' = [sd EXCEPT ![e] = s],
           s.period = sd[e].period, s.slice = sd[e].slice,
           \A d \in Dom \ {e} : /\ due'[d] = due[d] /\ ~Running(d)
                                /\ Known(d)' => Known(d),
           \A d \in Dom : ~Running(d)',
           s.remain = due'[e], due'[e] > -TickLen - BootDebt(e),
           Contracted(s) => s.remain > 0,
           UNCHANGED setqos, pc' \notin Outside
    PROVE  AccountInv'
<1>1. /\ Nemesis \in Dom /\ due \in [Dom -> Int] /\ sd \in [Dom -> SDom]
  BY ContractAssumption DEF TypeOK
<1>2. /\ sd'[e] = s /\ \A d \in Dom \ {e} : sd'[d] = sd[d]
      /\ sd'[Nemesis].period = sd[Nemesis].period
      /\ sd'[Nemesis].slice = sd[Nemesis].slice
  BY <1>1
<1>3. \A d \in Dom : BootDebt(d)' = BootDebt(d)
  BY <1>2 DEF BootDebt
<1>4. ASSUME NEW d \in Dom PROVE Exact(d)' /\ Kept(d)' /\ Solvent(d)'
  <2>0. sd[d].remain \in Int /\ due[d] \in Int /\ s.remain \in Int
    BY <1>1 DEF SDom
  <2>1. CASE d = e
    BY <1>2, <1>3, <2>0, <2>1 DEF Exact, Used, Kept, Solvent
  <2>2. CASE d # e
    <3>1. Exact(d) /\ Kept(d) /\ Solvent(d)
      BY DEF AccountInv
    <3> QED BY <1>2, <1>3, <2>0, <2>2, <3>1 DEF Exact, Used, Kept, Solvent
  <2> QED BY <2>1, <2>2
<1>5. TimeLeft'
  BY DEF TimeLeft, Outside
<1>6. Untuned'
  BY <1>2 DEF AccountInv, Untuned
<1> QED BY <1>4, <1>5, <1>6 DEF AccountInv

LEMMA UpdatesKeepContract ==
    ASSUME NEW s \in SDom
    PROVE  /\ NewPeriod(s).period = s.period /\ NewPeriod(s).slice = s.slice
           /\ BlockSDom(s).period = s.period /\ BlockSDom(s).slice = s.slice
           /\ UnblockSDom(s).period = s.period /\ UnblockSDom(s).slice = s.slice
           /\ Charge(s).period = s.period /\ Charge(s).slice = s.slice
<1>1. NewPeriod(s).period = s.period /\ NewPeriod(s).slice = s.slice
  BY DEF NewPeriod, SDom
<1>2. BlockSDom(s).period = s.period /\ BlockSDom(s).slice = s.slice
  BY DEF BlockSDom, SDom
<1>3. UnblockSDom(s).period = s.period /\ UnblockSDom(s).slice = s.slice
  BY DEF UnblockSDom, SDom
<1>4. Charge(s).period = s.period /\ Charge(s).slice = s.slice
  BY DEF Charge, SDom
<1> QED BY <1>1, <1>2, <1>3, <1>4

LEMMA TickAccounts ==
    ASSUME ContractsSound, ContractInv, Tick, TimerCovers' PROVE AccountInv'
<1>1. /\ TypeOK /\ sd \in [Dom -> SDom] /\ due \in [Dom -> Int]
      /\ ran \in Nat /\ alarm \in Int /\ cur \in Dom \cup {NoDom}
      /\ NoDom \notin Dom /\ Nemesis \in Dom
      /\ \A d \in Dom : /\ sd[d].remain \in Int /\ sd[d].period \in Nat
                        /\ sd[d].slice \in Nat
  BY ContractAssumption DEF ContractInv, TimerInv, QueueInv, TypeOK, SDom
<1>0. TickLen \in Nat /\ TickLen > 0 /\ Late \in Nat /\ Forever \in Nat
  BY TimeAssumption
<1>2. /\ UNCHANGED <<cur, schst, setqos>> /\ pc \in Outside
      /\ alarm' = Elapse(alarm)
      /\ ran' = (IF cur = NoDom THEN 0 ELSE ran + TickLen)
      /\ due' = (IF cur # NoDom /\ Contracted(sd[cur])
                 THEN [due EXCEPT ![cur] = @ - TickLen] ELSE due)
      /\ IF alarm' <= 0 THEN Reenter ELSE UNCHANGED pc
  BY DEF Tick
<1>3. \A d \in Dom : /\ sd'[d].remain = sd[d].remain
                     /\ sd'[d].state = sd[d].state
                     /\ sd'[d].period = sd[d].period
                     /\ sd'[d].slice = sd[d].slice
  BY <1>1 DEF Tick, SDom
<1>4. \A d \in Dom : /\ BootDebt(d)' = BootDebt(d)
                     /\ Contracted(sd[d])' <=> Contracted(sd[d])
                     /\ Known(d)' <=> Known(d)
                     /\ Running(d)' <=> Running(d)
                     /\ Running(d) <=> (d = cur)
  BY <1>0, <1>1, <1>2, <1>3 DEF BootDebt, Contracted, Known, Running, Reenter, Outside
<1>5. \A d \in Dom : Exact(d) /\ Kept(d) /\ Solvent(d)
  BY DEF ContractInv, AccountInv
<1>6. pc = "boot" => /\ cur = Nemesis /\ alarm > 0
                     /\ alarm + ran <= sd[Nemesis].period
                     /\ sd[Nemesis].remain = sd[Nemesis].slice
  BY DEF ContractInv, AccountInv, TimeLeft
<1>7. \A d \in Dom : BootDebt(d) \in Nat
  BY <1>0, <1>1 DEF BootDebt, ContractInv, AccountInv, Untuned
<1>8. ASSUME cur # NoDom, Contracted(sd[cur])
      PROVE  due[cur] > -BootDebt(cur)
  <2>1. cur \in Dom
    BY <1>0, <1>1, <1>8
  <2>2. CASE pc = "user"
    BY <1>0, <1>1, <1>7, <1>8, <2>1, <2>2 DEF ContractInv, AccountInv, TimeLeft
  <2>3. CASE pc = "boot"
    <3>1. sd[cur].remain = due[cur] + ran
      BY <1>4, <1>5, <1>8, <2>1 DEF Exact, Used
    <3>2. BootDebt(cur) = sd[cur].period - sd[cur].slice
      BY <1>6, <2>3 DEF BootDebt
    <3> QED BY <1>0, <1>1, <1>6, <2>1, <2>3, <3>1, <3>2
  <2> QED BY <1>2, <2>2, <2>3 DEF Outside
<1>9. ASSUME NEW d \in Dom PROVE Exact(d)' /\ Kept(d)' /\ Solvent(d)'
  <2>1. CASE d = cur /\ Contracted(sd[d])
    <3>1. due'[d] = due[d] - TickLen /\ ran' = ran + TickLen
      BY <1>0, <1>1, <1>2, <2>1
    <3>2. sd[d].remain = due[d] + ran
      BY <1>4, <1>5, <2>1 DEF Exact, Used
    <3>3. Exact(d)'
      BY <1>0, <1>1, <1>3, <1>4, <2>1, <3>1, <3>2 DEF Exact, Used
    <3>4. Kept(d)'
      BY <1>0, <1>1, <1>4, <1>7, <1>8, <2>1, <3>1 DEF Kept
    <3>5. Solvent(d)'
      BY <1>4, <2>1 DEF Solvent
    <3> QED BY <3>3, <3>4, <3>5
  <2>2. CASE ~(d = cur /\ Contracted(sd[d]))
    <3>1. due'[d] = due[d]
      BY <1>0, <1>1, <1>2, <2>2
    <3> QED BY <1>3, <1>4, <1>5, <2>2, <3>1 DEF Exact, Used, Kept, Solvent
  <2> QED BY <2>1, <2>2
<1>10. alarm' \in Int
  BY <1>0, <1>1, <1>2, ElapseType
<1>11. ASSUME pc' = "user", cur # NoDom, Contracted(sd[cur])' PROVE due'[cur] > 0
  <2>1. cur \in Dom /\ alarm' > 0
    BY <1>0, <1>1, <1>2, <1>10, <1>11 DEF Reenter
  <2>2. alarm' + ran' <= sd'[cur].remain
    BY <1>2, <1>11 DEF TimerCovers, Contracted
  <2>3. sd'[cur].remain = due'[cur] + ran'
    <3>1. PICK c \in Dom : c = cur
      BY <2>1
    <3>2. Exact(c)' /\ Running(c)' /\ Contracted(sd[c])'
      BY <1>2, <1>4, <1>9, <1>11, <3>1
    <3> QED BY <3>1, <3>2 DEF Exact, Used
  <2>4. due'[cur] \in Int /\ ran' \in Int
    BY <1>0, <1>1, <1>2, <2>1
  <2> QED BY <1>10, <2>1, <2>2, <2>3, <2>4
<1>12. ASSUME pc' = "boot"
       PROVE  /\ alarm' > 0 /\ alarm' + ran' <= sd[Nemesis].period
  <2>1. pc = "boot" /\ alarm' > 0 /\ ran' = ran + TickLen
    BY <1>0, <1>1, <1>2, <1>6, <1>10, <1>12 DEF Reenter
  <2>2. alarm < Forever
    BY <1>0, <1>1, <1>6, <2>1 DEF ContractInv, AccountInv, Untuned
  <2>3. alarm' = alarm - TickLen
    BY <1>0, <1>1, <1>2, <2>1, <2>2 DEF Elapse
  <2> QED BY <1>0, <1>1, <1>6, <2>1, <2>3
<1>13. TimeLeft'
  BY <1>0, <1>1, <1>2, <1>3, <1>6, <1>11, <1>12 DEF TimeLeft, Reenter
<1>14. Untuned'
  BY <1>0, <1>1, <1>2, <1>3 DEF ContractInv, AccountInv, Untuned
<1> QED BY <1>9, <1>13, <1>14 DEF AccountInv

LEMMA PickAccounts == ASSUME ContractInv, Pick PROVE AccountInv'
<1>1. /\ TypeOK /\ NoDom \notin Dom /\ Nemesis \in Dom
      /\ sd \in [Dom -> SDom] /\ due \in [Dom -> Int] /\ schst \in [Dom -> SchSts]
      /\ run \subseteq Dom /\ wait \subseteq Dom /\ ran \in Nat
      /\ \A d \in Dom : Placed(d) /\ Exact(d) /\ Kept(d) /\ Solvent(d)
      /\ Untuned
  BY ContractAssumption DEF ContractInv, TimerInv, QueueInv, QueuesConsistent,
     AccountInv, TypeOK
<1>2. /\ UNCHANGED <<sd, due, setqos>> /\ pc = "pick" /\ pc' = "user"
      /\ \A d \in Dom : ~Running(d)
  BY DEF Pick, Running, Outside
<1>3. \A d \in Dom : sd[d].remain = due[d] /\ due[d] \in Int
  BY <1>1, <1>2 DEF Exact, Used
<1>4. Untuned'
  BY <1>1, <1>2 DEF Untuned
<1>5. \A d \in Dom : Kept(d)'
  BY <1>1, <1>2 DEF Kept, BootDebt
<1>6. ASSUME NEW c \in Dom, NEW t, RunNext(c, t), Known(c) PROVE AccountInv'
  <2>1. cur' = c /\ ran' = 0 /\ schst' = [schst EXCEPT ![c] = "RUN"]
    BY <1>6 DEF RunNext
  <2>2. \A d \in Dom : Known(d)' => Known(d)
    BY <1>1, <1>6, <2>1 DEF Known
  <2>3. \A d \in Dom : Exact(d)' /\ Solvent(d)'
    BY <1>1, <1>2, <1>3, <2>1, <2>2 DEF Exact, Used, Solvent, Contracted
  <2>4. Contracted(sd[c]) => due[c] > 0
    BY <1>1, <1>2, <1>3, <1>6 DEF Solvent
  <2>5. TimeLeft'
    BY <1>2, <2>1, <2>4 DEF TimeLeft, Contracted
  <2> QED BY <1>4, <1>5, <2>3, <2>5 DEF AccountInv
<1>7. CASE \E c \in Heads(run) : RunNext(c, sd[c].remain)
  BY <1>1, <1>6, <1>7 DEF Heads, Placed
<1>8. CASE \E c \in Favoured : RunNext(c, sd[c].remain)
  BY <1>1, <1>6, <1>8 DEF Favoured, Placed
<1>9. CASE \E c \in Extra : RunNext(c, Quantum)
  BY <1>1, <1>6, <1>9 DEF Extra, Placed
<1>10. CASE cur' = NoDom /\ UNCHANGED schst
  <2>1. \A d \in Dom : Exact(d)' /\ Solvent(d)'
    BY <1>1, <1>2, <1>3, <1>10 DEF Exact, Used, Running, Solvent, Known,
       Contracted
  <2>2. TimeLeft'
    BY <1>2, <1>10 DEF TimeLeft
  <2> QED BY <1>4, <1>5, <2>1, <2>2 DEF AccountInv
<1> QED BY <1>7, <1>8, <1>9, <1>10 DEF Pick

LEMMA DescheduleAccounts == ASSUME ContractInv, Deschedule PROVE AccountInv'
<1>1. /\ TypeOK /\ AccountInv /\ NoDom \notin Dom
      /\ sd \in [Dom -> SDom] /\ due \in [Dom -> Int] /\ ran \in Nat
      /\ schst \in [Dom -> SchSts] /\ cur \in Dom
  BY ContractAssumption
     DEF ContractInv, TimerInv, QueueInv, TypeOK, Phased, Deschedule
<1>2. /\ pc = "deschedule" /\ pc' = "alloc" /\ cur' = NoDom
      /\ UNCHANGED <<setqos, due>>
  BY DEF Deschedule
<1>3. Exact(cur) /\ Kept(cur) /\ Running(cur)
  BY <1>1, <1>2 DEF AccountInv, Running
<1> DEFINE s == Charge(sd[cur])
           b == BlockSDom(s)
           w == [s EXCEPT !.state = "wait"]
<1>4. /\ s \in SDom /\ s.state = sd[cur].state /\ s.remain = due[cur]
      /\ s.period = sd[cur].period /\ s.slice = sd[cur].slice
  <2>1. sd[cur] \in SDom /\ s \in SDom
    BY <1>1, ChargeType DEF TypeOK
  <2>2. s.state = sd[cur].state /\ s.remain = due[cur]
    BY <1>1, <1>3, <2>1 DEF Charge, Exact, Used, SDom
  <2> QED BY <2>1, <2>2, UpdatesKeepContract
<1>5. /\ b \in SDom /\ b.remain = due[cur] /\ b.state = "block"
      /\ b.period = sd[cur].period /\ b.slice = sd[cur].slice
  <2>1. b \in SDom
    BY <1>4, BlockSDomType
  <2>2. b.remain = s.remain /\ b.state = "block"
    BY <1>4 DEF BlockSDom, SDom
  <2> QED BY <1>4, <2>1, <2>2, UpdatesKeepContract
<1>6. /\ w \in SDom /\ w.remain = due[cur] /\ w.state = "wait"
      /\ w.period = sd[cur].period /\ w.slice = sd[cur].slice
  BY <1>4 DEF SDom, States
<1>7. \/ sd' = [sd EXCEPT ![cur] = b] \/ sd' = [sd EXCEPT ![cur] = w]
      \/ sd' = [sd EXCEPT ![cur] = s] /\ ~Spent(cur)
  BY DEF Deschedule
<1>8. \A d \in Dom : Known(d)' => d = cur \/ Known(d)
  BY <1>1 DEF Deschedule, Known
<1>9. ~Spent(cur) /\ Contracted(s) => s.remain > 0
  BY <1>1, <1>3, <1>4 DEF Spent, Contracted, Exact, Used
<1>10. due'[cur] > -TickLen - BootDebt(cur)
  BY <1>2, <1>3 DEF Kept
<1>11. \A d \in Dom : ~Running(d)'
  BY <1>1, <1>2 DEF Running
<1>12. \A d \in Dom \ {cur} : /\ due'[d] = due[d] /\ ~Running(d)
                              /\ Known(d)' => Known(d)
  BY <1>2, <1>8 DEF Running
<1> HIDE DEF s, b, w
<1>13. UNCHANGED setqos /\ pc' \notin Outside /\ due'[cur] = due[cur]
  BY <1>2 DEF Outside
<1>14. CASE sd' = [sd EXCEPT ![cur] = b]
  BY <1>1, <1>5, <1>10, <1>11, <1>12, <1>13, <1>14, OneAccount DEF Contracted
<1>15. CASE sd' = [sd EXCEPT ![cur] = w]
  BY <1>1, <1>6, <1>10, <1>11, <1>12, <1>13, <1>15, OneAccount DEF Contracted
<1>16. CASE sd' = [sd EXCEPT ![cur] = s] /\ ~Spent(cur)
  BY <1>1, <1>4, <1>9, <1>10, <1>11, <1>12, <1>13, <1>16, OneAccount
<1> QED BY <1>7, <1>14, <1>15, <1>16

\* What the queues' heads are granted.
LEMMA RequeueAccounts ==
    ASSUME ContractInv, NEW e \in Dom, NEW s \in SDom, Requeue(e, s), Known(e),
           s.period = sd[e].period, s.slice = sd[e].slice,
           due' = [due EXCEPT ![e] = s.remain],
           s.remain > -TickLen - BootDebt(e), Contracted(s) => s.remain > 0,
           pc \in {"alloc", "drain", "timeouts"}, UNCHANGED <<pc, setqos>>
    PROVE  AccountInv'
<1>1. /\ TypeOK /\ AccountInv /\ due \in [Dom -> Int]
      /\ schst \in [Dom -> SchSts] /\ s.remain \in Int
  BY DEF ContractInv, TimerInv, QueueInv, TypeOK, SDom
<1>2. sd' = [sd EXCEPT ![e] = s]
  BY DEF Requeue
<1>3. \A d \in Dom : Known(d)' => Known(d)
  BY <1>1 DEF Requeue, Known
<1>4. \A d \in Dom : ~Running(d) /\ ~Running(d)'
  BY DEF Running, Outside
<1>5. due'[e] = s.remain /\ \A d \in Dom \ {e} : due'[d] = due[d]
  BY <1>1
<1>6. pc' \notin Outside
  BY DEF Outside
<1> QED BY <1>1, <1>2, <1>3, <1>4, <1>5, <1>6, OneAccount

LEMMA BootDebtType ==
    ASSUME TypeOK, AccountInv, NEW d \in Dom PROVE BootDebt(d) \in Nat
<1>1. sd[Nemesis].period \in Nat /\ sd[Nemesis].slice \in Nat
  BY ContractAssumption DEF TypeOK, SDom
<1> QED BY <1>1 DEF BootDebt, AccountInv, Untuned

LEMMA AllocateAccounts == ASSUME ContractInv, Allocate PROVE AccountInv'
<1>1. PICK d \in Heads(wait) : /\ Requeue(d, NewPeriod(sd[d]))
                               /\ due' = [due EXCEPT ![d] = Granted(d)]
  BY DEF Allocate
<1>2. pc = "alloc" /\ UNCHANGED <<pc, setqos>>
  BY DEF Allocate
<1>3. /\ d \in Dom /\ d \in wait /\ TypeOK /\ AccountInv /\ Placed(d)
      /\ sd[d] \in SDom /\ due[d] \in Int
  BY DEF Heads, ContractInv, TimerInv, QueueInv, QueuesConsistent, TypeOK
<1>4. Known(d) /\ ~Running(d) /\ Exact(d) /\ Kept(d)
  BY <1>2, <1>3 DEF Placed, Running, Outside, AccountInv
<1>5. sd[d].remain = due[d] /\ sd[d].slice \in Nat /\ sd[d].remain \in Int
  BY <1>3, <1>4 DEF Exact, Used, SDom
<1> DEFINE s == NewPeriod(sd[d])
<1>6. s \in SDom /\ s.period = sd[d].period /\ s.slice = sd[d].slice
  BY <1>3, NewPeriodType, UpdatesKeepContract
<1>7. s.remain = Granted(d) /\ (Contracted(s) => s.remain > 0)
  BY <1>3, <1>5 DEF NewPeriod, Granted, Contracted, SDom
<1>8. s.remain > -TickLen - BootDebt(d)
  <2>1. BootDebt(d) \in Nat /\ TickLen \in Nat /\ TickLen > 0
    BY <1>3, BootDebtType, TimeAssumption
  <2> QED BY <1>3, <1>4, <1>5, <1>7, <2>1 DEF Granted, Kept
<1>9. Requeue(d, s) /\ due' = [due EXCEPT ![d] = s.remain]
  BY <1>1, <1>7
<1> HIDE DEF s
<1> QED BY <1>2, <1>3, <1>4, <1>6, <1>7, <1>8, <1>9, RequeueAccounts

LEMMA UnblockAccounts ==
    ASSUME ContractInv, NEW d \in Dom, Unblock(d), Known(d),
           pc \in {"drain", "timeouts"}, UNCHANGED <<pc, setqos>>
    PROVE  AccountInv'
<1>1. /\ TypeOK /\ AccountInv /\ sd[d] \in SDom
      /\ due \in [Dom -> Int] /\ due[d] \in Int
  BY DEF ContractInv, TimerInv, QueueInv, TypeOK
<1>2. ~Running(d) /\ Exact(d) /\ Kept(d)
  BY <1>1 DEF Running, Outside, AccountInv
<1>3. sd[d].remain = due[d] /\ sd[d].slice \in Nat /\ sd[d].timeout \in Int
  BY <1>1, <1>2 DEF Exact, Used, SDom
<1> DEFINE s == UnblockSDom(sd[d])
<1>4. s \in SDom /\ s.period = sd[d].period /\ s.slice = sd[d].slice
  BY <1>1, UnblockSDomType, UpdatesKeepContract
<1>5. /\ s.remain = (IF LongBlock(sd[d]) THEN sd[d].slice ELSE due[d])
      /\ Contracted(s) => s.remain > 0
  BY <1>1, <1>3 DEF UnblockSDom, Contracted, SDom
<1>6. s.remain > -TickLen - BootDebt(d)
  <2>1. BootDebt(d) \in Nat /\ TickLen \in Nat /\ TickLen > 0
    BY <1>1, BootDebtType, TimeAssumption
  <2> QED BY <1>2, <1>3, <1>5, <2>1 DEF Kept
<1>7. due' = [due EXCEPT ![d] = s.remain]
  BY <1>1, <1>5 DEF Unblock
<1>8. Requeue(d, s)
  BY DEF Unblock
<1> HIDE DEF s
<1> QED BY <1>4, <1>5, <1>6, <1>7, <1>8, RequeueAccounts


LEMMA AddAccounts ==
    ASSUME ContractsSound, ContractInv, NEW d \in Dom, NEW q \in QoS[d],
           AddContracted(d, q)
    PROVE  AccountInv'
<1>1. /\ TypeOK /\ AccountInv /\ q \in Contract /\ 0 < q.s
      /\ sd \in [Dom -> SDom] /\ due \in [Dom -> Int] /\ schst \in [Dom -> SchSts]
      /\ Nemesis \in Dom /\ Running(Nemesis) /\ Dequeueable(Nemesis)
  BY ContractAssumption
     DEF ContractInv, TimerInv, QueueInv, QueuesConsistent, TypeOK,
         ContractsSound, AddContracted, Executing, Running
<1>2. /\ UNCHANGED <<pc, cur, ran, alarm, setqos>> /\ d # Nemesis
      /\ cur = Nemesis /\ due' = [due EXCEPT ![d] = q.s]
      /\ schst' = [schst EXCEPT ![d] = "RUN"]
  BY <1>1 DEF AddContracted, Dequeueable, Known
<1>3. /\ sd'[d].remain = q.s
      /\ \A e \in Dom \ {d} : sd'[e] = sd[e]
  <2>1. /\ NewSDom(q).remain = q.s
        /\ \A dl : [NewSDom(q) EXCEPT !.deadline = dl].remain = q.s
    BY DEF NewSDom
  <2> QED BY <1>1, <2>1 DEF AddContracted
<1>4. \A e \in Dom : /\ BootDebt(e)' = BootDebt(e)
                     /\ Running(e)' <=> Running(e)
  BY <1>1, <1>2, <1>3 DEF BootDebt, Running
<1>5. Exact(d)' /\ Kept(d)' /\ Solvent(d)'
  <2>1. ~Running(d)' /\ due'[d] = q.s /\ q.s \in Int
    BY <1>1, <1>2 DEF Running, Contract
  <2>2. BootDebt(d) \in Nat /\ TickLen \in Nat /\ TickLen > 0
    BY <1>1, BootDebtType, TimeAssumption
  <2> QED BY <1>1, <1>3, <1>4, <2>1, <2>2 DEF Exact, Used, Kept, Solvent
<1>6. ASSUME NEW e \in Dom \ {d} PROVE Exact(e)' /\ Kept(e)' /\ Solvent(e)'
  <2>1. Exact(e) /\ Kept(e) /\ Solvent(e) /\ due'[e] = due[e]
    BY <1>1, <1>2 DEF AccountInv
  <2>2. Known(e)' <=> Known(e)
    BY <1>1, <1>2 DEF Known
  <2> QED BY <1>2, <1>3, <1>4, <2>1, <2>2 DEF Exact, Used, Kept, Solvent
<1>7. TimeLeft'
  BY <1>1, <1>2, <1>3 DEF AccountInv, TimeLeft
<1>8. Untuned'
  BY <1>1, <1>2, <1>3 DEF AccountInv, Untuned
<1> QED BY <1>5, <1>6, <1>7, <1>8 DEF AccountInv

LEMMA TuneAccounts ==
    ASSUME ContractsSound, ContractInv,
           SetQoSStore \/ \E d \in Dom : \E q \in QoS[d] : SetQoS(d, q)
    PROVE  AccountInv'
<1>1. /\ TypeOK /\ AccountInv /\ Nemesis \notin Tunable /\ Nemesis \in Dom
      /\ sd \in [Dom -> SDom] /\ setqos.dom \in Dom
      /\ NoDom \notin Dom
  BY ContractAssumption
     DEF ContractInv, TimerInv, QueueInv, ContractsSound, TypeOK
<1>2. \A d \in Dom : /\ sd'[d].remain = sd[d].remain
                     /\ sd'[d].state = sd[d].state
  <2>1. CASE SetQoSStore
    BY <1>1, <2>1 DEF SetQoSStore, SDom
  <2>2. CASE \E d \in Dom : \E q \in QoS[d] : SetQoS(d, q)
    BY <1>1, <2>2 DEF SetQoS, SDom
  <2> QED BY <2>1, <2>2
<1>3. sd'[Nemesis] = sd[Nemesis] /\ (setqos'.by # NoDom => setqos'.dom \in Tunable)
  <2>1. CASE SetQoSStore
    <3>1. setqos.dom \in Tunable
      BY <1>1, <2>1 DEF SetQoSStore, AccountInv, Untuned
    <3>2. sd'[Nemesis] = sd[Nemesis]
      BY <1>1, <2>1, <3>1 DEF SetQoSStore
    <3>3. CASE setqos.left = 1
      BY <2>1, <3>2, <3>3 DEF SetQoSStore, NoCall
    <3>4. CASE setqos.left # 1
      <4>1. setqos'.dom = setqos.dom
        BY <1>1, <2>1, <3>4 DEF SetQoSStore, TypeOK
      <4> QED BY <3>1, <3>2, <4>1
    <3> QED BY <3>3, <3>4
  <2>2. CASE \E d \in Dom : \E q \in QoS[d] : SetQoS(d, q)
    BY <1>1, <2>2 DEF SetQoS
  <2> QED BY <2>1, <2>2
<1>4. UNCHANGED <<pc, cur, ran, alarm, due, schst>>
  BY DEF SetQoS, SetQoSStore
<1>5. \A d \in Dom : (Known(d)' <=> Known(d)) /\ (Running(d)' <=> Running(d))
  BY <1>4 DEF Known, Running
<1> QED BY <1>1, <1>2, <1>3, <1>4, <1>5, SameAccounts

\* Steps that leave the sdoms alone, but perhaps for a timeout.
LEMMA QuietAccounts ==
    ASSUME ContractInv,
           \/ \E d \in Dom, put \in BOOLEAN : Interrupt(d, put)
           \/ \E d \in Dom, put \in BOOLEAN : SyscallSend(d, put)
           \/ \E put \in BOOLEAN : Deliver(put)
           \/ \E d \in Dom : PushEvent(d)
           \/ \E d \in Dom, final \in {"STOPPED", "DYING"} : StopDomain(d, final)
           \/ \E t \in Timeouts : Block(t)
           \/ TakeEvents \/ Yield \/ AllocDone \/ DrainDone \/ ExpireDone
           \/ UNCHANGED vars
    PROVE  AccountInv'
<1>1. /\ TypeOK /\ AccountInv /\ Nemesis \in Dom /\ NoDom \notin Dom
      /\ cur \in Dom \cup {NoDom} /\ schst \in [Dom -> SchSts]
      /\ sd \in [Dom -> SDom]
      /\ \A d \in Dom : Running(d) => Known(d)
  BY ContractAssumption
     DEF ContractInv, TimerInv, QueueInv, QueuesConsistent, Dequeueable, TypeOK
<1>2. UNCHANGED <<due, ran, alarm, cur, setqos>>
  BY DEF Interrupt, SyscallSend, Deliver, PushEvent, StopDomain, Block,
     TakeEvents, Yield, AllocDone, DrainDone, ExpireDone, vars
<1>3. \/ UNCHANGED sd
      \/ \E t : /\ sd' = [sd EXCEPT ![cur].timeout = t] /\ cur # NoDom
  BY DEF Interrupt, SyscallSend, Deliver, PushEvent, StopDomain, Block,
     TakeEvents, Yield, AllocDone, DrainDone, ExpireDone, vars, Executing
<1>4. /\ \A d \in Dom : /\ sd'[d].remain = sd[d].remain
                        /\ sd'[d].state = sd[d].state
      /\ sd'[Nemesis].period = sd[Nemesis].period
      /\ sd'[Nemesis].slice = sd[Nemesis].slice
  BY <1>1, <1>3 DEF SDom
<1>5. /\ pc' = pc \/ pc' \notin Outside
      /\ \A d \in Dom : Running(d)' <=> Running(d)
  BY <1>1, <1>2 DEF Interrupt, SyscallSend, Deliver, PushEvent, StopDomain,
     Block, TakeEvents, Yield, AllocDone, DrainDone, ExpireDone, vars,
     Reenter, Running, Outside, Executing
<1>6. \A d \in Dom : Known(d)' => Known(d)
  <2>1. CASE UNCHANGED schst
    BY <2>1 DEF Known
  <2>2. ASSUME NEW d \in Dom, NEW put \in BOOLEAN, Send(d, put)
        PROVE  \A e \in Dom : Known(e)' => Known(e)
    BY <1>1, <2>2 DEF Send, Kicks, Known
  <2>3. CASE \/ \E d \in Dom, put \in BOOLEAN : Interrupt(d, put)
             \/ \E d \in Dom, put \in BOOLEAN : SyscallSend(d, put)
    BY <2>2, <2>3 DEF Interrupt, SyscallSend
  <2>4. CASE \E put \in BOOLEAN : Deliver(put)
    <3>1. cur \in Dom
      BY <1>1, <2>4 DEF Deliver, ContractInv, TimerInv, QueueInv, Phased
    <3>2. Head(outevs[cur]) \in Dom
      BY <1>1, <2>4, <3>1 DEF Deliver, TypeOK
    <3> QED BY <2>2, <2>4, <3>2 DEF Deliver
  <2>5. CASE \E d \in Dom, final \in {"STOPPED", "DYING"} : StopDomain(d, final)
    BY <1>1, <2>5 DEF StopDomain, Known
  <2>6. CASE Yield \/ \E t \in Timeouts : Block(t)
    <3>1. Running(cur) /\ cur \in Dom
      BY <1>1, <2>6 DEF Yield, Block, Executing, Running
    <3> QED BY <1>1, <2>6, <3>1 DEF Yield, Block, Known
  <2> QED BY <2>1, <2>3, <2>4, <2>5, <2>6
          DEF PushEvent, TakeEvents, AllocDone, DrainDone, ExpireDone, vars,
              queues
<1>7. setqos'.by # NoDom => setqos'.dom \in Tunable
  BY <1>1, <1>2 DEF AccountInv, Untuned
<1> QED BY <1>1, <1>2, <1>4, <1>5, <1>6, <1>7, SameAccounts

LEMMA NextAccounts ==
    ASSUME ContractsSound, ContractInv, TimerCovers', [Next]_vars
    PROVE  AccountInv'
<1>1. TypeOK /\ \A d \in Dom : Placed(d)
  BY DEF ContractInv, TimerInv, QueueInv, QueuesConsistent
<1>2. CASE Drain
  <2>1. Head(domq) \in Dom
    BY <1>1, <1>2 DEF Drain, TypeOK
  <2>2. pc = "drain" /\ UNCHANGED <<pc, setqos, cur, ran, alarm>>
    BY <1>2 DEF Drain
  <2>3. CASE Known(Head(domq)) /\ Unblock(Head(domq))
    BY <2>1, <2>2, <2>3, UnblockAccounts
  <2>4. CASE UNCHANGED <<schst, sd, due>>
    <3>1. \A d \in Dom : /\ Known(d)' <=> Known(d)
                         /\ Running(d)' <=> Running(d)
      BY <2>2, <2>4 DEF Known, Running
    <3> QED BY <1>1, <2>2, <2>4, <3>1, SameAccounts
            DEF ContractInv, AccountInv, Untuned
  <2> QED BY <1>2, <2>3, <2>4 DEF Drain, Known
<1>3. CASE Expire
  <2>1. PICK d \in Heads(blocked) : Unblock(d)
    BY <1>3 DEF Expire
  <2>2. d \in Dom /\ Known(d)
    BY <1>1 DEF Heads, TypeOK, Placed
  <2> QED BY <1>3, <2>1, <2>2, UnblockAccounts DEF Expire
<1>4. CASE User
  BY <1>4, QuietAccounts, AddAccounts, TuneAccounts DEF User
<1>5. CASE Pass
  BY <1>2, <1>3, <1>5, DescheduleAccounts, AllocateAccounts, PickAccounts,
     QuietAccounts DEF Pass
<1> QED BY <1>4, <1>5, TickAccounts, QuietAccounts, TuneAccounts DEF Next

LEMMA InitAccounts == ASSUME ContractsSound, Init PROVE AccountInv
<1>1. PICK q \in QoS[Nemesis] :
         sd = [d \in Dom |-> NewSDom(IF d = Nemesis THEN q ELSE Unset)]
  BY DEF Init
<1>2. /\ q \in Contract /\ q.p \in Nat /\ q.s \in Nat /\ q.p > 0
      /\ q.s <= q.p /\ q.p < Forever
  BY ContractAssumption DEF ContractsSound, Contract
<1>3. Nemesis \in Dom /\ NoDom \notin Dom /\ TickLen \in Nat /\ TickLen > 0
  BY ContractAssumption, TimeAssumption
<1>4. /\ sd[Nemesis].slice = q.s /\ sd[Nemesis].period = q.p
      /\ sd[Nemesis].remain = q.s /\ sd[Nemesis].deadline = q.p
      /\ \A d \in Dom : /\ sd[d].remain = sd[d].slice /\ sd[d].slice \in Nat
  BY <1>1, <1>2, <1>3 DEF NewSDom, Unset
<1>5. ASSUME NEW d \in Dom PROVE Exact(d) /\ Kept(d) /\ Solvent(d)
  <2>1. due[d] = sd[d].slice /\ ran = 0
    BY DEF Init
  <2>2. BootDebt(d) \in Nat
    BY <1>2, <1>4 DEF BootDebt
  <2>3. Known(d) => Running(d)
    BY DEF Init, Known, Running, Outside
  <2> QED BY <1>3, <1>4, <2>1, <2>2, <2>3 DEF Exact, Used, Kept, Solvent
<1>6. TimeLeft
  BY <1>2, <1>4 DEF Init, TimeLeft
<1>7. Untuned
  BY <1>2, <1>4 DEF Init, Untuned, NoCall
<1> QED BY <1>5, <1>6, <1>7 DEF AccountInv

\* Every domain is charged for exactly the guaranteed time it has used, and
\* has used no more than it was granted, but for less than a tick and what
\* the system domain overran at boot: at every point where it blocks, wakes,
\* yields, runs out of time or has its contract changed (block, unblock,
\* requeue and the accounting of ksched_scheduler).
THEOREM ContractsKept ==
    ASSUME IsFiniteSet(Dom), CursorSafe, ContractsSound
    PROVE  Spec => []ContractKept
<1>1. Init => ContractInv
  BY InitTimer, InitAccounts DEF ContractInv, ContractsSound
<1>2. ContractInv /\ [Next]_vars => ContractInv'
  <2> SUFFICES ASSUME ContractInv, [Next]_vars PROVE ContractInv'
    OBVIOUS
  <2>1. TimerInv'
    BY NextTimer DEF ContractInv, ContractsSound
  <2>2. AccountInv'
    BY <2>1, NextAccounts DEF TimerInv
  <2> QED BY <2>1, <2>2 DEF ContractInv
<1>3. ContractInv => ContractKept
  BY DEF ContractInv, AccountInv, ContractKept, Exact, Used, Kept
<1> QED BY <1>1, <1>2, <1>3, PTL DEF Spec
=============================================================================
