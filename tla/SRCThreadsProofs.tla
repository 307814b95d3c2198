-------------------------- MODULE SRCThreadsProofs --------------------------
(***************************************************************************)
(* Theorems about SRCThreads, for any number of threads and any bounds.    *)
(***************************************************************************)
EXTENDS SRCThreads, FiniteSetTheorems, TLAPS

\* A thread that waits for the mutex or holds it has a ticket outstanding.
Owes(t) == pc[t] = "lock" \/ t \in Holders

(* The tickets between the count and the sequencer are in different hands, *)
(* and the holder's is the one the count has come to.                      *)
Tickets ==
    /\ \A t \in Holders : tick[t] = mu.ec
    /\ \A t \in Thread : Owes(t) => mu.ec <= tick[t] /\ tick[t] < mu.sq
    /\ \A t, u \in Thread : Owes(t) /\ Owes(u) /\ tick[t] = tick[u] => t = u

\* The count of the condition only grows while a Broadcast is under way.
Casting == \A t \in Thread : pc[t] = "advance" => cast[t].from <= cv.ec

IInv == TypeOK /\ Tickets /\ Casting

-----------------------------------------------------------------------------
(* What the steps preserve.                                                *)

LEMMA InitInv == Init => IInv
  BY ThreadAssumption
     DEF Init, IInv, TypeOK, Tickets, Casting, Owes, Holders, Count, PCs, NoCast

\* A step that keeps the tickets and every thread's claim to one.
LEMMA SameClaims ==
    ASSUME Tickets, UNCHANGED lockVars, Holders' = Holders,
           \A t \in Thread : Owes(t)' <=> Owes(t)
    PROVE  Tickets'
  BY DEF Tickets, lockVars, Holders

LEMMA TicketStep ==
    ASSUME IInv, NEW t \in Thread, ~Owes(t), Ticket(t),
           pc' = [pc EXCEPT ![t] = "lock"], UNCHANGED cast
    PROVE  /\ mu' \in Count /\ mu'.ec <= mu'.sq
           /\ tick' \in [Thread -> Nat]
           /\ \A u \in Thread : pc'[u] = "lock" => tick'[u] < mu'.sq
           /\ Tickets'
<1>1. mu' = [ec |-> mu.ec, sq |-> mu.sq + 1] /\ mu.ec \in Nat /\ mu.sq \in Nat
  BY DEF IInv, TypeOK, Ticket, Count
<1>2. /\ tick \in [Thread -> Nat] /\ tick' = [tick EXCEPT ![t] = mu.sq]
      /\ pc \in [Thread -> PCs] /\ mu.ec <= mu.sq
  BY DEF IInv, TypeOK, Ticket
<1>3. Holders' = Holders /\ t \notin Holders
  BY <1>2 DEF Holders, Owes
<1>4. \A u \in Thread : Owes(u)' <=> Owes(u) \/ u = t
  BY <1>2, <1>3 DEF Owes
<1>5. Tickets'
  BY <1>1, <1>2, <1>3, <1>4 DEF IInv, Tickets, Holders
<1> QED BY <1>1, <1>2, <1>4, <1>5 DEF IInv, TypeOK, Count, Owes, Tickets

\* The holder's release lets the next one through.
LEMMA ReleaseStep ==
    ASSUME IInv, NEW t \in Thread, t \in Holders, NEW to \in {"out", "asleep"},
           mu' = [mu EXCEPT !.ec = @ + 1], UNCHANGED <<tick, cast>>,
           pc' = [pc EXCEPT ![t] = to]
    PROVE  mu' \in Count /\ mu'.ec <= mu'.sq /\ mu'.sq = mu.sq /\ Tickets'
<1>1. /\ mu' = [ec |-> mu.ec + 1, sq |-> mu.sq] /\ mu.ec \in Nat /\ mu.sq \in Nat
      /\ tick \in [Thread -> Nat] /\ tick' = tick
      /\ pc \in [Thread -> PCs]
  BY DEF IInv, TypeOK, Count
<1>2. tick[t] = mu.ec /\ mu.ec < mu.sq /\ Owes(t)
  BY DEF IInv, Tickets, Owes
<1>3. Holders = {t}
  BY <1>2 DEF IInv, Tickets, Owes, Holders
<1>4. Holders' = {} /\ ~Owes(t)'
  BY <1>1, <1>3 DEF Holders, Owes
<1>5. \A u \in Thread : Owes(u)' => Owes(u) /\ u # t
  BY <1>1, <1>4 DEF Owes
<1>6. \A u \in Thread : Owes(u)' => tick[u] > mu.ec
  <2> SUFFICES ASSUME NEW u \in Thread, Owes(u)' PROVE tick[u] > mu.ec
    OBVIOUS
  <2>1. Owes(u) /\ u # t
    BY <1>5
  <2>2. tick[u] # tick[t] /\ mu.ec <= tick[u]
    BY <1>2, <2>1 DEF IInv, Tickets
  <2> QED BY <1>1, <1>2, <2>2
<1>7. Tickets'
  BY <1>1, <1>4, <1>5, <1>6 DEF IInv, Tickets, Owes
<1>8. mu' \in Count /\ mu'.ec <= mu'.sq /\ mu'.sq = mu.sq
  BY ONLY <1>1, <1>2 DEF Count
<1> QED BY <1>7, <1>8

LEMMA LockInv == ASSUME IInv, NEW t \in Thread, Lock(t) PROVE IInv'
<1>1. ~Owes(t) /\ Ticket(t) /\ pc' = [pc EXCEPT ![t] = "lock"] /\ UNCHANGED cast
  BY DEF Lock, Goes, Owes, Holders
<1>2. TypeOK' /\ Tickets'
  BY <1>1, TicketStep DEF IInv, TypeOK, Lock, Goes, condVars, PCs
<1>3. Casting'
  BY <1>1 DEF IInv, TypeOK, Casting, Lock, condVars
<1> QED BY <1>2, <1>3 DEF IInv

LEMMA RelockInv == ASSUME IInv, NEW t \in Thread, Relock(t) PROVE IInv'
<1>1. ~Owes(t) /\ Ticket(t) /\ pc' = [pc EXCEPT ![t] = "lock"] /\ UNCHANGED cast
  BY DEF Relock, Goes, Owes, Holders
<1>2. TypeOK' /\ Tickets'
  BY <1>1, TicketStep DEF IInv, TypeOK, Relock, Goes, condVars, PCs
<1>3. Casting'
  BY <1>1 DEF IInv, TypeOK, Casting, Relock, condVars
<1> QED BY <1>2, <1>3 DEF IInv

LEMMA ReleaseInv == ASSUME IInv, NEW t \in Thread, Release(t) PROVE IInv'
<1>1. /\ t \in Holders /\ pc' = [pc EXCEPT ![t] = "out"]
      /\ mu' = [mu EXCEPT !.ec = @ + 1] /\ UNCHANGED <<tick, cast>>
  BY DEF Release, Goes, Holders
<1>2. mu' \in Count /\ mu'.ec <= mu'.sq /\ mu'.sq = mu.sq /\ Tickets'
  BY <1>1, ReleaseStep
<1>3. TypeOK'
  BY <1>1, <1>2 DEF IInv, TypeOK, Release, condVars, PCs
<1>4. Casting'
  BY <1>1 DEF IInv, TypeOK, Casting, Release, condVars
<1> QED BY <1>2, <1>3, <1>4 DEF IInv

LEMMA WaitReleaseInv == ASSUME IInv, NEW t \in Thread, WaitRelease(t) PROVE IInv'
<1>1. /\ t \in Holders /\ pc' = [pc EXCEPT ![t] = "asleep"]
      /\ mu' = [mu EXCEPT !.ec = @ + 1] /\ UNCHANGED <<tick, cast>>
  BY DEF WaitRelease, Goes, Holders
<1>2. mu' \in Count /\ mu'.ec <= mu'.sq /\ mu'.sq = mu.sq /\ Tickets'
  BY <1>1, ReleaseStep
<1>3. TypeOK'
  BY <1>1, <1>2 DEF IInv, TypeOK, WaitRelease, PCs
<1>4. Casting'
  BY <1>1 DEF IInv, TypeOK, Casting, WaitRelease
<1> QED BY <1>2, <1>3, <1>4 DEF IInv

LEMMA GrantedInv == ASSUME IInv, NEW t \in Thread, Granted(t) PROVE IInv'
<1>1. /\ pc[t] = "lock" /\ pc' = [pc EXCEPT ![t] = "in"]
      /\ UNCHANGED <<mu, tick, cv, turn, cast, timed, got>>
  BY DEF Granted, Goes, lockVars
<1>2. TypeOK'
  BY <1>1 DEF IInv, TypeOK, Granted, PCs
<1>3. Holders' = Holders \cup {t} /\ \A u \in Thread : Owes(u)' <=> Owes(u)
  BY <1>1 DEF IInv, TypeOK, Holders, Owes
<1>4. tick[t] = mu.ec
  BY SMTT(30), <1>1 DEF IInv, TypeOK, Count, Tickets, Owes, Granted, Due
<1>5. Tickets'
  BY <1>1, <1>3, <1>4 DEF IInv, Tickets, Holders
<1>6. Casting'
  BY <1>1 DEF IInv, TypeOK, Casting
<1> QED BY <1>2, <1>5, <1>6 DEF IInv

LEMMA WaitInv == ASSUME IInv, NEW t \in Thread, Wait(t) PROVE IInv'
<1>1. /\ pc[t] = "in" /\ pc' = [pc EXCEPT ![t] = "release"]
      /\ cv' = [ec |-> cv.ec, sq |-> cv.sq + 1] /\ cv.ec \in Nat /\ cv.sq \in Nat
      /\ turn' = [turn EXCEPT ![t] = cv.sq]
      /\ UNCHANGED <<lockVars, cast>>
  BY DEF Wait, Goes, IInv, TypeOK, Count
<1>2. TypeOK'
  BY <1>1 DEF IInv, TypeOK, Wait, PCs, Count, lockVars
<1>3. Holders' = Holders /\ \A u \in Thread : Owes(u)' <=> Owes(u)
  BY <1>1 DEF IInv, TypeOK, Holders, Owes
<1>4. Tickets'
  BY <1>1, <1>3, SameClaims DEF IInv
<1>5. Casting'
  BY <1>1 DEF IInv, TypeOK, Casting
<1> QED BY <1>2, <1>4, <1>5 DEF IInv

LEMMA WokenInv == ASSUME IInv, NEW t \in Thread, Woken(t) PROVE IInv'
<1>1. /\ pc[t] = "asleep" /\ pc' = [pc EXCEPT ![t] = "relock"]
      /\ UNCHANGED <<lockVars, cv, cast>>
  BY DEF Woken, Goes
<1>2. TypeOK'
  BY <1>1 DEF IInv, TypeOK, Woken, Reached, PCs, lockVars
<1>3. Holders' = Holders /\ \A u \in Thread : Owes(u)' <=> Owes(u)
  BY <1>1 DEF IInv, TypeOK, Holders, Owes
<1>4. Tickets'
  BY <1>1, <1>3, SameClaims DEF IInv
<1>5. Casting'
  BY <1>1 DEF IInv, TypeOK, Casting
<1> QED BY <1>2, <1>4, <1>5 DEF IInv

\* The condition's count advances, by any amount.
LEMMA AdvanceStep ==
    ASSUME IInv, NEW n \in Nat, cv' = [cv EXCEPT !.ec = @ + n]
    PROVE  /\ cv' \in Count /\ cv'.sq = cv.sq /\ cv'.ec = cv.ec + n
           /\ cv.ec \in Nat
  BY DEF IInv, TypeOK, Count

LEMMA SignalInv == ASSUME IInv, NEW t \in Thread, Signal(t) PROVE IInv'
<1>1. cv' \in Count /\ cv'.sq = cv.sq /\ cv'.ec = cv.ec + 1 /\ cv.ec \in Nat
  BY AdvanceStep DEF Signal
<1>2. UNCHANGED <<lockVars, pc, cast>>
  BY DEF Signal
<1>3. TypeOK'
  BY <1>1 DEF IInv, TypeOK, Signal, lockVars
<1>4. Tickets'
  BY <1>2, SameClaims DEF IInv, Holders, Owes
<1>5. Casting'
  BY <1>1, <1>2 DEF IInv, TypeOK, Casting
<1> QED BY <1>3, <1>4, <1>5 DEF IInv

LEMMA BroadcastInv == ASSUME IInv, NEW t \in Thread, Broadcast(t) PROVE IInv'
<1>1. PICK h \in {"in", "out"} :
         /\ pc[t] = h /\ pc' = [pc EXCEPT ![t] = "from"]
         /\ cast' = [cast EXCEPT ![t] = [to |-> cv.sq, from |-> 0,
                                         holds |-> h = "in"]]
         /\ UNCHANGED <<lockVars, condVars, timed>>
  BY DEF Broadcast, Goes
<1>2. TypeOK'
  BY <1>1 DEF IInv, TypeOK, PCs, Count, lockVars, condVars
<1>3. Holders' = Holders
  BY <1>1 DEF IInv, TypeOK, Holders
<1>4. \A u \in Thread : Owes(u)' <=> Owes(u)
  BY <1>1, <1>3 DEF IInv, TypeOK, Owes
<1>5. Tickets'
  BY <1>1, <1>3, <1>4, SameClaims DEF IInv
<1>6. Casting'
  BY <1>1 DEF IInv, TypeOK, Casting, condVars
<1> QED BY <1>2, <1>5, <1>6 DEF IInv

LEMMA BroadcastFromInv ==
    ASSUME IInv, NEW t \in Thread, BroadcastFrom(t) PROVE IInv'
<1>1. /\ pc[t] = "from" /\ pc' = [pc EXCEPT ![t] = "advance"]
      /\ cast' = [cast EXCEPT ![t] = [to |-> cast[t].to, from |-> cv.ec,
                                      holds |-> cast[t].holds]]
      /\ UNCHANGED <<lockVars, condVars, timed>>
  <2>1. /\ cast \in [Thread -> [to : Nat, from : Nat, holds : BOOLEAN]]
        /\ cast' = [cast EXCEPT ![t].from = cv.ec]
    BY DEF IInv, TypeOK, BroadcastFrom
  <2>2. [cast[t] EXCEPT !.from = cv.ec] =
            [to |-> cast[t].to, from |-> cv.ec, holds |-> cast[t].holds]
    BY <2>1
  <2> QED BY <2>1, <2>2 DEF BroadcastFrom, Goes
<1>2. TypeOK'
  BY <1>1 DEF IInv, TypeOK, PCs, Count, lockVars, condVars
<1>3. Holders' = Holders
  BY <1>1 DEF IInv, TypeOK, Holders
<1>4. \A u \in Thread : Owes(u)' <=> Owes(u)
  BY <1>1, <1>3 DEF IInv, TypeOK, Owes
<1>5. Tickets'
  BY <1>1, <1>3, <1>4, SameClaims DEF IInv
<1>6. Casting'
  BY <1>1 DEF IInv, TypeOK, Count, Casting, condVars
<1> QED BY <1>2, <1>5, <1>6 DEF IInv

LEMMA AmountType == ASSUME IInv, NEW t \in Thread PROVE Amount(cast[t]) \in Nat
  BY DEF IInv, TypeOK, Amount

LEMMA BroadcastAdvanceInv ==
    ASSUME IInv, NEW t \in Thread, BroadcastAdvance(t) PROVE IInv'
<1>1. cv' \in Count /\ cv'.sq = cv.sq /\ cv'.ec >= cv.ec /\ cv.ec \in Nat
      /\ cv'.ec \in Nat
  <2>1. Amount(cast[t]) \in Nat /\ cv' = [cv EXCEPT !.ec = @ + Amount(cast[t])]
    BY AmountType DEF BroadcastAdvance
  <2>2. cv' \in Count /\ cv'.sq = cv.sq /\ cv'.ec = cv.ec + Amount(cast[t])
        /\ cv.ec \in Nat
    BY <2>1, AdvanceStep
  <2> QED BY <2>1, <2>2
<1>2. /\ pc[t] = "advance"
      /\ pc' = [pc EXCEPT ![t] = IF cast[t].holds THEN "in" ELSE "out"]
      /\ cast' = [cast EXCEPT ![t] = NoCast]
      /\ UNCHANGED <<lockVars, turn, got, ret, waits, timed>>
  BY DEF BroadcastAdvance, Goes
<1>3. TypeOK'
  BY <1>1, <1>2 DEF IInv, TypeOK, PCs, NoCast, lockVars
<1>4. Holders' = Holders
  BY <1>2 DEF IInv, TypeOK, Holders
<1>5. \A u \in Thread : Owes(u)' <=> Owes(u)
  BY <1>2, <1>4 DEF IInv, TypeOK, Owes
<1>6. Tickets'
  BY <1>2, <1>4, <1>5, SameClaims DEF IInv
<1>7. Casting'
  BY <1>1, <1>2 DEF IInv, TypeOK, Casting
<1> QED BY <1>3, <1>6, <1>7 DEF IInv

LEMMA NextInv == IInv /\ [Next]_vars => IInv'
<1> SUFFICES ASSUME IInv, [Next]_vars PROVE IInv'
  OBVIOUS
<1>1. CASE UNCHANGED vars
  BY <1>1 DEF IInv, TypeOK, Tickets, Casting, Owes, Holders, vars, lockVars,
              condVars
<1>2. ASSUME NEW t \in Thread, Steps(t) PROVE IInv'
  BY <1>2, GrantedInv, WaitReleaseInv, RelockInv, BroadcastFromInv,
     BroadcastAdvanceInv DEF Steps
<1>3. CASE Next
  BY <1>2, <1>3, LockInv, ReleaseInv, WaitInv, WokenInv, SignalInv, BroadcastInv
     DEF Next
<1> QED BY <1>1, <1>3

LEMMA Invariant == Spec => []IInv
<1>1. Init => IInv
  BY InitInv
<1>2. IInv /\ [Next]_vars => IInv'
  BY NextInv
<1> QED BY <1>1, <1>2, PTL DEF Spec

-----------------------------------------------------------------------------
(* TypeOK is an invariant: counts never overtake their sequencers, and     *)
(* whoever waits for the mutex or on the condition has a ticket that was   *)
(* given out (InitMutex to Broadcast, srcthread.c).                        *)
THEOREM TypeCorrect == Spec => []TypeOK
<1>1. IInv => TypeOK
  BY DEF IInv
<1> QED BY <1>1, Invariant, PTL

(* The mutex is held by one thread at a time, and granted in the order of  *)
(* the calls of Lock (srcthread.c: Lock, Release, Wait, WaitUntil).        *)
THEOREM FirstComeIsFirstServed == Spec => []FirstComeFirstServed
<1>1. IInv => FirstComeFirstServed
  <2> SUFFICES ASSUME IInv, NEW t \in Holders, NEW u \in Thread, u # t,
                      u \in Holders \/ pc[u] = "lock"
               PROVE  tick[t] < tick[u]
    BY DEF FirstComeFirstServed
  <2>1. /\ t \in Thread /\ Owes(t) /\ Owes(u)
        /\ tick \in [Thread -> Nat] /\ mu.ec \in Nat
    BY DEF Owes, Holders, IInv, TypeOK, Count
  <2>2. tick[t] = mu.ec /\ mu.ec <= tick[u] /\ tick[t] # tick[u]
    BY <2>1 DEF IInv, Tickets
  <2> QED BY <2>1, <2>2
<1> QED BY <1>1, Invariant, PTL

\* Two threads never hold the mutex at once.
THEOREM MutualExclusion == Spec => [](\A t, u \in Holders : t = u)
<1>1. IInv => \A t, u \in Holders : t = u
  BY DEF IInv, Tickets, Owes, Holders
<1> QED BY <1>1, Invariant, PTL

(* Broadcast leaves nobody behind who waited when it read the sequencer,   *)
(* whatever other threads did between its three steps (Broadcast_m).       *)
THEOREM BroadcastWakesAll == Spec => BroadcastWakes
<1>1. ASSUME IInv, Next, NEW t \in Thread, NEW u \in Thread,
             pc[t] = "advance", pc'[t] # "advance", pc[u] = "asleep",
             turn[u] < cast[t].to
      PROVE  turn[u] <= cv'.ec
  <2>1. BroadcastAdvance(t)
    <3>1. PICK v \in Thread :
              Steps(v) \/ Lock(v) \/ Release(v) \/ Wait(v) \/ Woken(v)
                  \/ Signal(v) \/ Broadcast(v)
      BY <1>1 DEF Next
    <3>2. pc \in [Thread -> PCs]
      BY <1>1 DEF IInv, TypeOK
    <3>3. v = t
      BY <1>1, <3>1, <3>2
         DEF Steps, Granted, WaitRelease, Relock, BroadcastFrom,
             BroadcastAdvance, Lock, Release, Wait, Woken, Signal, Broadcast, Goes
    <3> QED BY <1>1, <3>1, <3>3
         DEF Steps, Granted, WaitRelease, Relock, BroadcastFrom,
             Lock, Release, Wait, Woken, Signal, Broadcast, Goes
  <2>2. /\ cast[t].to \in Nat /\ cast[t].from \in Nat /\ cast[t].from <= cv.ec
        /\ turn[u] \in Nat
    BY <1>1 DEF IInv, TypeOK, Casting
  <2>3. cv'.ec = cv.ec + Amount(cast[t]) /\ cv.ec \in Nat
    BY <1>1, <2>1, AmountType, AdvanceStep DEF BroadcastAdvance
  <2> QED BY <1>1, <2>2, <2>3 DEF Amount
<1>2. IInv /\ [Next]_vars =>
         [\A t, u \in Thread :
             pc[t] = "advance" /\ pc'[t] # "advance"
                 /\ pc[u] = "asleep" /\ turn[u] < cast[t].to
             => turn[u] <= cv'.ec]_vars
  BY <1>1
<1> QED BY <1>2, Invariant, PTL DEF Spec, BroadcastWakes

-----------------------------------------------------------------------------
(* The monitor.                                                            *)

\* The threads whose ticket of the condition counts.
Waits(t) == t \in waits \/ pc[t] = "release"

\* Who is where inside Wait.
Placed ==
    /\ \A t \in waits : pc[t] \in {"asleep", "relock", "lock"}
    /\ \A t \in Thread : pc[t] \in {"asleep", "relock"} => t \in waits

\* Nobody takes a ticket between the ticket and the release of a Wait.
LastTaken == \A t \in Thread : pc[t] = "release" => turn[t] + 1 = cv.sq

\* Whoever is to return False from WaitUntil may time out.
Answered ==
    \A t \in waits : pc[t] # "asleep" => IF got[t] THEN turn[t] <= cv.ec ELSE t \in timed

\* Tickets of the condition are in different hands.
Different ==
    \A t, u \in Thread : Waits(t) /\ Waits(u) /\ turn[t] = turn[u] => t = u

\* A ticket the count has not reached is lost only where threads time out.
NoneLost ==
    timed = {} => \A k \in Nat : cv.ec < k /\ k < cv.sq
                     => \E t \in Thread : Waits(t) /\ turn[t] = k

Conditions == Placed /\ LastTaken /\ Answered /\ Different /\ NoneLost

Inv == IInv /\ Conditions

\* m, c, in, ok, kept and lossy of the monitor.
Owner == IF Holders = {} THEN Nobody ELSE CHOOSE t \in Holders : TRUE
monitor == <<Owner, Waiting, waits, ret, KeptBack, timed>>

\* Who is about to wait with a ticket the count has reached.
Early == {t \in Thread : pc[t] = "release" /\ turn[t] <= cv.ec}

LEMMA HoldersOne ==
    ASSUME IInv, NEW t \in Holders PROVE Holders = {t} /\ Owner = t
<1>1. \A u \in Holders : u = t
  BY DEF IInv, Tickets, Owes, Holders
<1>2. Holders = {t}
  BY <1>1
<1> QED BY <1>2 DEF Owner

LEMMA KeptSum ==
    ASSUME NEW sq \in Nat, NEW ec \in Nat, NEW E, E = {} \/ \E t : E = {t}
    PROVE  Cardinality({i \in sq .. ec : TRUE}) + Cardinality(E)
               = (IF sq <= ec THEN ec - sq + 1 ELSE 0) + (IF E = {} THEN 0 ELSE 1)
<1> DEFINE I == {i \in sq .. ec : TRUE}
<1>1. I = sq .. ec
  OBVIOUS
<1> HIDE DEF I
<1>2. Cardinality(I) = IF sq <= ec THEN ec - sq + 1 ELSE 0
  BY <1>1, FS_Interval
<1>3. Cardinality(E) = IF E = {} THEN 0 ELSE 1
  BY FS_EmptySet, FS_Singleton
<1> QED BY <1>2, <1>3 DEF I

KeptFacts ==
    /\ KeptBack = (IF cv.sq <= cv.ec THEN cv.ec - cv.sq + 1 ELSE 0)
                      + (IF Early = {} THEN 0 ELSE 1)
    /\ Early = {} \/ \E t : Early = {t}
    /\ cv.sq \in Nat /\ cv.ec \in Nat

LEMMA KeptIs == IInv => KeptFacts
<1> SUFFICES ASSUME IInv PROVE KeptFacts
  OBVIOUS
<1>1. cv.sq \in Nat /\ cv.ec \in Nat
  BY DEF IInv, TypeOK, Count
<1>2. Early \subseteq Holders
  BY DEF Early, Holders
<1>3. Early = {} \/ \E t : Early = {t}
  BY <1>2, HoldersOne
<1>4. KeptBack = Cardinality({i \in cv.sq .. cv.ec : TRUE}) + Cardinality(Early)
  BY DEF KeptBack, Early
<1>5. KeptBack = (IF cv.sq <= cv.ec THEN cv.ec - cv.sq + 1 ELSE 0)
                     + (IF Early = {} THEN 0 ELSE 1)
  BY <1>1, <1>3, <1>4, KeptSum
<1> QED BY <1>1, <1>3, <1>5 DEF KeptFacts

LEMMA KeptWillBe == IInv' => KeptFacts'
  BY KeptIs, PTL

\* A step of t that touches nothing the monitor knows.
LEMMA Silent ==
    ASSUME Inv, IInv', NEW t \in Thread, UNCHANGED <<cv, turn, waits, ret, timed>>,
           Holders' = Holders, \A u \in Thread : pc'[u] = "release" <=> pc[u] = "release"
    PROVE  UNCHANGED monitor
<1>1. Early' = Early /\ Waiting' = Waiting
  BY DEF Early, Waiting
<1>2. KeptBack' = KeptBack
  BY <1>1, KeptIs, KeptWillBe DEF Inv, KeptFacts
<1> QED BY <1>1, <1>2 DEF monitor, Owner

\* A step that changes where t is, and nothing else of its wait.
LEMMA SameConditions ==
    ASSUME Inv, NEW t \in Thread, NEW p, pc' = [pc EXCEPT ![t] = p],
           UNCHANGED <<cv, turn, waits, got, timed>>, t \notin waits,
           p \notin {"release", "asleep", "relock"}, pc[t] # "release"
    PROVE  Conditions'
<1>1. /\ \A u \in Thread \ {t} : pc'[u] = pc[u]
      /\ pc'[t] = p /\ waits \subseteq Thread
  BY DEF Inv, IInv, TypeOK
<1>2. \A u \in Thread : Waits(u)' <=> Waits(u)
  BY <1>1 DEF Waits
<1>3. Placed' /\ LastTaken' /\ Answered'
  BY <1>1 DEF Inv, Conditions, Placed, LastTaken, Answered
<1>4. Different' /\ NoneLost'
  BY <1>2 DEF Inv, Conditions, Different, NoneLost
<1> QED BY <1>3, <1>4 DEF Conditions

LEMMA LockMonitor ==
    ASSUME Inv, IInv', NEW t \in Thread, Lock(t)
    PROVE  Conditions' /\ UNCHANGED monitor
<1>1. /\ pc[t] = "out" /\ pc' = [pc EXCEPT ![t] = "lock"]
      /\ UNCHANGED <<cv, turn, waits, got, ret, timed, cast>>
  BY DEF Lock, Goes, condVars
<1>2. t \notin waits
  BY <1>1 DEF Inv, Conditions, Placed
<1>3. Holders' = Holders /\ \A u \in Thread : pc'[u] = "release" <=> pc[u] = "release"
  BY <1>1 DEF Inv, IInv, TypeOK, Holders
<1> QED BY <1>1, <1>2, <1>3, SameConditions, Silent

LEMMA BroadcastMonitor ==
    ASSUME Inv, IInv', NEW t \in Thread, Broadcast(t)
    PROVE  Conditions' /\ UNCHANGED monitor
<1>1. PICK h \in {"in", "out"} :
         /\ pc[t] = h /\ pc' = [pc EXCEPT ![t] = "from"]
         /\ cast' = [cast EXCEPT ![t] = [to |-> cv.sq, from |-> 0,
                                         holds |-> h = "in"]]
         /\ UNCHANGED <<cv, turn, waits, got, ret, timed>>
  BY DEF Broadcast, Goes, condVars
<1>2. t \notin waits
  BY <1>1 DEF Inv, Conditions, Placed
<1>3. Holders' = Holders /\ \A u \in Thread : pc'[u] = "release" <=> pc[u] = "release"
  BY <1>1 DEF Inv, IInv, TypeOK, Holders
<1> QED BY <1>1, <1>2, <1>3, SameConditions, Silent

LEMMA BroadcastFromMonitor ==
    ASSUME Inv, IInv', NEW t \in Thread, BroadcastFrom(t)
    PROVE  Conditions' /\ UNCHANGED monitor
<1>1. /\ pc[t] = "from" /\ pc' = [pc EXCEPT ![t] = "advance"]
      /\ cast' = [cast EXCEPT ![t].from = cv.ec]
      /\ UNCHANGED <<cv, turn, waits, got, ret, timed>>
  BY DEF BroadcastFrom, Goes, condVars
<1>2. t \notin waits
  BY <1>1 DEF Inv, Conditions, Placed
<1>3. \A u \in Thread : cast'[u].holds = cast[u].holds
  BY <1>1 DEF Inv, IInv, TypeOK
<1>4. Holders' = Holders /\ \A u \in Thread : pc'[u] = "release" <=> pc[u] = "release"
  BY <1>1, <1>3 DEF Inv, IInv, TypeOK, Holders
<1> QED BY <1>1, <1>2, <1>4, SameConditions, Silent

LEMMA RelockMonitor ==
    ASSUME Inv, IInv', NEW t \in Thread, Relock(t)
    PROVE  Conditions' /\ UNCHANGED monitor
<1>1. /\ pc[t] = "relock" /\ pc' = [pc EXCEPT ![t] = "lock"]
      /\ UNCHANGED <<cv, turn, waits, got, ret, timed, cast>>
  BY DEF Relock, Goes, condVars
<1>2. Holders' = Holders /\ \A u \in Thread : pc'[u] = "release" <=> pc[u] = "release"
  BY <1>1 DEF Inv, IInv, TypeOK, Holders
<1>3. Placed' /\ LastTaken' /\ Answered'
  BY <1>1 DEF Inv, IInv, TypeOK, Conditions, Placed, LastTaken, Answered
<1>4. Different' /\ NoneLost'
  BY <1>1, <1>2 DEF Inv, Conditions, Different, NoneLost, Waits
<1> QED BY <1>1, <1>2, <1>3, <1>4, Silent DEF Conditions

LEMMA WokenMonitor ==
    ASSUME Inv, IInv', NEW t \in Thread, Woken(t)
    PROVE  Conditions' /\ UNCHANGED monitor
<1>1. /\ pc[t] = "asleep" /\ pc' = [pc EXCEPT ![t] = "relock"]
      /\ turn[t] <= cv.ec \/ t \in timed
      /\ got' = [got EXCEPT ![t] = turn[t] <= cv.ec]
      /\ UNCHANGED <<cv, turn, waits, ret, timed, cast>>
  BY DEF Woken, Goes, Reached
<1>2. Holders' = Holders /\ \A u \in Thread : pc'[u] = "release" <=> pc[u] = "release"
  BY <1>1 DEF Inv, IInv, TypeOK, Holders
<1>3. Placed' /\ LastTaken' /\ Answered'
  BY <1>1 DEF Inv, IInv, TypeOK, Conditions, Placed, LastTaken, Answered
<1>4. Different' /\ NoneLost'
  BY <1>1, <1>2 DEF Inv, Conditions, Different, NoneLost, Waits
<1> QED BY <1>1, <1>2, <1>3, <1>4, Silent DEF Conditions

\* The call of Wait: the ticket is for a signal that was kept, if there is one.
LEMMA WaitMonitor ==
    ASSUME Inv, IInv', NEW t \in Thread, Wait(t)
    PROVE  Conditions' /\ UNCHANGED monitor
<1>1. /\ pc[t] = "in" /\ pc' = [pc EXCEPT ![t] = "release"]
      /\ turn' = [turn EXCEPT ![t] = cv.sq]
      /\ cv' = [cv EXCEPT !.sq = @ + 1]
      /\ UNCHANGED <<waits, got, ret, timed, cast>>
  BY DEF Wait, Goes
<1>2. /\ cv'.sq = cv.sq + 1 /\ cv'.ec = cv.ec /\ cv.sq \in Nat /\ cv.ec \in Nat
      /\ pc'[t] = "release" /\ turn'[t] = cv.sq
      /\ \A u \in Thread \ {t} : pc'[u] = pc[u] /\ turn'[u] = turn[u]
      /\ \A u \in Thread : turn[u] \in Nat /\ turn[u] < cv.sq
      /\ waits \subseteq Thread
  BY <1>1 DEF Inv, IInv, TypeOK, Count
<1>3. t \in Holders /\ t \notin waits /\ Holders' = Holders
  BY <1>1, <1>2 DEF Holders, Inv, Conditions, Placed
<1>4. Holders = {t}
  BY <1>3, HoldersOne DEF Inv
<1>5. \A u \in Thread : pc[u] # "release" /\ (pc'[u] = "release" => u = t)
  BY <1>1, <1>2, <1>4 DEF Holders
<1>6. \A u \in Thread : Waits(u)' <=> Waits(u) \/ u = t
  BY <1>1, <1>2, <1>5 DEF Waits
<1>7. Placed' /\ LastTaken' /\ Answered'
  BY <1>1, <1>2, <1>3, <1>5 DEF Inv, Conditions, Placed, LastTaken, Answered
<1>8. Different'
  BY <1>2, <1>6 DEF Inv, Conditions, Different
<1>9. NoneLost'
  <2> SUFFICES ASSUME timed = {}, NEW k \in Nat, cv.ec < k, k < cv.sq + 1
               PROVE  \E u \in Thread : Waits(u)' /\ turn'[u] = k
    BY <1>1, <1>2 DEF NoneLost
  <2>1. CASE k = cv.sq
    BY <1>2, <1>6, <2>1
  <2>2. CASE k # cv.sq
    <3>1. PICK u \in Thread : Waits(u) /\ turn[u] = k
      BY <1>2, <2>2 DEF Inv, Conditions, NoneLost
    <3>2. u # t
      BY <1>1, <1>3, <3>1 DEF Waits
    <3> QED BY <1>2, <1>6, <3>1, <3>2
  <2> QED BY <2>1, <2>2
<1>10. Waiting' = Waiting
  BY <1>1, <1>2, <1>3 DEF Waiting
<1>11. KeptBack' = KeptBack
  <2>1. Early = {} /\ Early' = IF cv.sq <= cv.ec THEN {t} ELSE {}
    BY <1>2, <1>5 DEF Early
  <2> QED BY <1>2, <2>1, KeptIs, KeptWillBe DEF Inv, KeptFacts
<1> QED BY <1>1, <1>3, <1>7, <1>8, <1>9, <1>10, <1>11 DEF monitor, Owner, Conditions

LEMMA ReleaseMonitor ==
    ASSUME Inv, IInv', NEW t \in Thread, Release(t)
    PROVE  Conditions' /\ M!Release(t)
<1>1. /\ pc[t] = "in" /\ pc' = [pc EXCEPT ![t] = "out"]
      /\ UNCHANGED <<cv, turn, waits, got, ret, timed, cast>>
  BY DEF Release, Goes, condVars
<1>2. t \notin waits /\ t \in Holders
  BY <1>1 DEF Inv, Conditions, Placed, Holders
<1>3. Holders = {t} /\ Owner = t
  BY <1>2, HoldersOne DEF Inv
<1>4. Holders' = {}
  BY <1>1, <1>3 DEF Inv, IInv, TypeOK, Holders
<1>5. Waiting' = Waiting /\ Early' = Early
  BY <1>1 DEF Inv, IInv, TypeOK, Waiting, Early
<1>6. KeptBack' = KeptBack
  BY <1>1, <1>5, KeptIs, KeptWillBe DEF Inv, KeptFacts
<1>7. Conditions'
  BY <1>1, <1>2, SameConditions
<1> QED BY <1>1, <1>3, <1>4, <1>5, <1>6, <1>7 DEF M!Release, Owner

\* The release inside Wait is where the monitor's Enqueue takes effect.
LEMMA WaitReleaseMonitor ==
    ASSUME Inv, IInv', NEW t \in Thread, WaitRelease(t)
    PROVE  Conditions' /\ M!Enqueue(t)
<1>1. /\ pc[t] = "release" /\ pc' = [pc EXCEPT ![t] = "asleep"]
      /\ waits' = waits \cup {t}
      /\ UNCHANGED <<cv, turn, got, ret, timed, cast>>
  BY DEF WaitRelease, Goes
<1>2. /\ pc'[t] = "asleep" /\ \A u \in Thread \ {t} : pc'[u] = pc[u]
      /\ cv.sq \in Nat /\ cv.ec \in Nat
      /\ \A u \in Thread : turn[u] \in Nat
  BY <1>1 DEF Inv, IInv, TypeOK, Count
<1>3. t \notin waits /\ t \in Holders /\ turn[t] + 1 = cv.sq
  BY <1>1 DEF Inv, Conditions, Placed, LastTaken, Holders
<1>4. Holders = {t} /\ Owner = t
  BY <1>3, HoldersOne DEF Inv
<1>5. Holders' = {}
  BY <1>1, <1>2, <1>4 DEF Holders
<1>6. \A u \in Thread : Waits(u)' <=> Waits(u)
  BY <1>1, <1>2 DEF Waits
<1>7. Placed' /\ LastTaken' /\ Answered'
  BY <1>1, <1>2 DEF Inv, Conditions, Placed, LastTaken, Answered
<1>8. Different' /\ NoneLost'
  BY <1>1, <1>6 DEF Inv, Conditions, Different, NoneLost
<1>9. Early = (IF turn[t] <= cv.ec THEN {t} ELSE {}) /\ Early' = {}
  <2>1. \A u \in Thread \ {t} : pc[u] # "release"
    BY <1>4 DEF Holders
  <2> QED BY <1>1, <1>2, <2>1 DEF Early
<1>10. IF KeptBack = 0 THEN Waiting' = Waiting \cup {t} /\ KeptBack' = KeptBack
       ELSE KeptBack' = KeptBack - 1 /\ Waiting' = Waiting
  <2>1. CASE turn[t] <= cv.ec
    <3>1. Waiting' = Waiting
      BY <1>1, <1>2, <2>1 DEF Waiting
    <3>2. KeptBack # 0 /\ KeptBack' = KeptBack - 1
      BY <1>1, <1>2, <1>3, <1>9, <2>1, KeptIs, KeptWillBe DEF Inv, KeptFacts
    <3> QED BY <3>1, <3>2
  <2>2. CASE ~(turn[t] <= cv.ec)
    <3>1. Waiting' = Waiting \cup {t}
      BY <1>1, <1>2, <2>2 DEF Waiting
    <3>2. KeptBack = 0 /\ KeptBack' = 0
      BY <1>1, <1>2, <1>3, <1>9, <2>2, KeptIs, KeptWillBe DEF Inv, KeptFacts
    <3> QED BY <3>1, <3>2
  <2> QED BY <2>1, <2>2
<1> QED BY <1>1, <1>4, <1>5, <1>7, <1>8, <1>10 DEF M!Enqueue, Owner, Conditions

\* The mutex granted: to a Lock, or to a Wait that so returns.
LEMMA GrantedMonitor ==
    ASSUME Inv, IInv', NEW t \in Thread, Granted(t)
    PROVE  Conditions' /\ (M!Lock(t) \/ M!Resume(t) \/ M!TimeOut(t))
<1>1. /\ pc[t] = "lock" /\ pc' = [pc EXCEPT ![t] = "in"] /\ tick[t] <= mu.ec
      /\ waits' = waits \ {t}
      /\ ret' = [ret EXCEPT ![t] = IF t \in waits THEN got[t] ELSE @]
      /\ UNCHANGED <<cv, turn, got, timed, cast>>
  BY DEF Granted, Goes, Due
<1>2. /\ pc'[t] = "in" /\ \A u \in Thread \ {t} : pc'[u] = pc[u]
      /\ cv.sq \in Nat /\ cv.ec \in Nat /\ mu.ec \in Nat /\ tick[t] \in Nat
      /\ \A u \in Thread : turn[u] \in Nat /\ got[u] \in BOOLEAN
      /\ waits \subseteq Thread /\ ret \in [Thread -> BOOLEAN]
  BY <1>1 DEF Inv, IInv, TypeOK, Count
<1>3. Holders = {} /\ Owner = Nobody
  <2>1. t \notin Holders /\ tick[t] = mu.ec
    BY <1>1, <1>2 DEF Holders, Inv, IInv, Tickets, Owes
  <2>2. ASSUME NEW u \in Holders PROVE FALSE
    <3>1. tick[u] = mu.ec /\ u \in Thread
      BY DEF Inv, IInv, Tickets, Holders
    <3>2. u = t
      BY <1>1, <2>1, <3>1 DEF Inv, IInv, Tickets, Owes
    <3> QED BY <2>1, <3>2
  <2> QED BY <2>2 DEF Owner
<1>4. Owner' = t
  <2>1. Holders' = {t}
    BY <1>1, <1>2, <1>3 DEF Holders
  <2> QED BY <2>1 DEF Owner
<1>5. Placed' /\ LastTaken' /\ Answered'
  BY <1>1, <1>2 DEF Inv, Conditions, Placed, LastTaken, Answered
<1>6. Different'
  BY <1>1, <1>2 DEF Inv, Conditions, Different, Waits
<1>7. NoneLost'
  <2> SUFFICES ASSUME timed = {}, NEW k \in Nat, cv.ec < k, k < cv.sq
               PROVE  \E u \in Thread : Waits(u)' /\ turn'[u] = k
    BY <1>1 DEF NoneLost
  <2>1. PICK u \in Thread : Waits(u) /\ turn[u] = k
    BY DEF Inv, Conditions, NoneLost
  <2>2. u # t
    <3>1. t \in waits => turn[t] <= cv.ec
      BY <1>1, <1>2 DEF Inv, Conditions, Answered
    <3> QED BY <1>1, <1>2, <2>1, <3>1 DEF Waits
  <2> QED BY <1>1, <1>2, <2>1, <2>2 DEF Waits
<1>8. Early' = Early
  BY <1>1, <1>2 DEF Early
<1>9. KeptBack' = KeptBack
  BY <1>1, <1>8, KeptIs, KeptWillBe DEF Inv, KeptFacts
<1>10. Waiting' = Waiting \ {t}
  BY <1>1 DEF Waiting
<1>11. CASE t \notin waits
  <2>1. Waiting' = Waiting /\ waits' = waits /\ ret' = ret
    BY <1>1, <1>2, <1>11 DEF Waiting
  <2> QED BY <1>1, <1>3, <1>4, <1>5, <1>6, <1>7, <1>9, <1>11, <2>1
          DEF M!Lock, Owner, Conditions
<1>12. CASE t \in waits /\ got[t]
  <2>1. t \notin Waiting
    BY <1>1, <1>2, <1>12 DEF Waiting, Inv, Conditions, Answered
  <2>2. ret' = [ret EXCEPT ![t] = TRUE]
    BY <1>1, <1>2, <1>12
  <2> QED BY <1>1, <1>3, <1>4, <1>5, <1>6, <1>7, <1>9, <1>10, <1>12, <2>1, <2>2
          DEF M!Resume, Owner, Conditions
<1>13. CASE t \in waits /\ ~got[t]
  <2>1. t \in timed
    BY <1>1, <1>13 DEF Inv, Conditions, Answered
  <2>2. ret' = [ret EXCEPT ![t] = FALSE]
    BY <1>1, <1>2, <1>13
  <2> QED BY <1>1, <1>3, <1>4, <1>5, <1>6, <1>7, <1>9, <1>10, <1>13, <2>1, <2>2
          DEF M!TimeOut, Owner, Conditions
<1> QED BY <1>11, <1>12, <1>13

\* The count advances by n.
LEMMA AdvanceConditions ==
    ASSUME Inv, NEW n \in Nat, cv' = [cv EXCEPT !.ec = @ + n],
           UNCHANGED <<turn, waits, got, timed>>,
           \A u \in Thread : pc[u] \in {"release", "asleep", "relock", "lock"}
                                 \/ pc'[u] \in {"release", "asleep", "relock", "lock"}
                             => pc'[u] = pc[u]
    PROVE  Conditions' /\ Early \subseteq Early' /\ Waiting' \subseteq Waiting
<1>1. /\ cv'.sq = cv.sq /\ cv'.ec = cv.ec + n /\ cv.sq \in Nat /\ cv.ec \in Nat
      /\ waits \subseteq Thread /\ \A u \in Thread : turn[u] \in Nat
  BY DEF Inv, IInv, TypeOK, Count
<1>2. \A u \in Thread : Waits(u)' <=> Waits(u)
  BY DEF Waits
<1>3. Placed' /\ LastTaken' /\ Answered'
  BY <1>1 DEF Inv, Conditions, Placed, LastTaken, Answered
<1>4. Different' /\ NoneLost'
  BY <1>1, <1>2 DEF Inv, Conditions, Different, NoneLost
<1>5. Early \subseteq Early' /\ Waiting' \subseteq Waiting
  BY <1>1 DEF Early, Waiting
<1> QED BY <1>3, <1>4, <1>5 DEF Conditions

LEMMA SignalMonitor ==
    ASSUME Inv, IInv', NEW t \in Thread, Signal(t)
    PROVE  Conditions' /\ M!Signal
<1>1. /\ cv' = [cv EXCEPT !.ec = @ + 1]
      /\ UNCHANGED <<turn, got, ret, waits, pc, cast, timed>>
  BY DEF Signal
<1>2. /\ cv'.sq = cv.sq /\ cv'.ec = cv.ec + 1 /\ cv.sq \in Nat /\ cv.ec \in Nat
      /\ waits \subseteq Thread
      /\ \A u \in Thread : turn[u] \in Nat /\ turn[u] < cv.sq
  BY <1>1 DEF Inv, IInv, TypeOK, Count
<1>3. Conditions' /\ Early \subseteq Early' /\ Waiting' \subseteq Waiting
  BY <1>1, AdvanceConditions
<1>4. Owner' = Owner
  BY <1>1 DEF Owner, Holders
<1>5. \A u \in Thread : pc[u] = "release" => turn[u] + 1 = cv.sq
  BY DEF Inv, Conditions, LastTaken
<1>6. CASE \E u \in Waiting : turn[u] = cv.ec + 1
  <2>1. PICK u \in Waiting : turn[u] = cv.ec + 1
    BY <1>6
  <2>2. u \in waits /\ u \in Thread /\ cv.ec + 1 < cv.sq
    BY <1>2, <2>1 DEF Waiting
  <2>3. \A v \in Thread : Waits(v) /\ turn[v] = cv.ec + 1 => v = u
    BY <2>1, <2>2 DEF Inv, Conditions, Different, Waits
  <2>4. pc[u] # "release"
    BY <2>2 DEF Inv, Conditions, Placed
  <2>5. Waiting' = Waiting \ {u}
    BY <1>1, <1>2, <2>1, <2>2, <2>3 DEF Waiting, Waits
  <2>6. Early' = Early
    BY <1>1, <1>2, <2>3, <2>4 DEF Early, Waits
  <2>7. KeptBack' = KeptBack
    BY <1>2, <2>2, <2>6, KeptIs, KeptWillBe DEF Inv, KeptFacts
  <2> QED BY <1>1, <1>3, <1>4, <2>1, <2>5, <2>7 DEF M!Signal, Owner
<1>7. CASE ~\E u \in Waiting : turn[u] = cv.ec + 1
  <2>1. Waiting' = Waiting
    BY <1>1, <1>2, <1>7 DEF Waiting
  <2>2. CASE cv.sq <= cv.ec + 1
    <3>1. Waiting = {}
      BY <1>2, <2>2 DEF Waiting
    <3>2. Early' = Early
      BY <1>1, <1>2, <1>5, <2>2 DEF Early
    <3>3. KeptBack' = KeptBack + 1
      BY <1>2, <2>2, <3>2, KeptIs, KeptWillBe DEF Inv, KeptFacts
    <3> QED BY <1>1, <1>3, <1>4, <2>1, <3>1, <3>3 DEF M!Signal, Owner
  <2>3. CASE cv.ec + 1 < cv.sq /\ \E u \in Thread : pc[u] = "release" /\ turn[u] = cv.ec + 1
    <3>1. PICK u \in Thread : pc[u] = "release" /\ turn[u] = cv.ec + 1
      BY <2>3
    <3>2. cv.sq = cv.ec + 2
      BY <1>2, <1>5, <3>1
    <3>3. Waiting = {}
      <4> SUFFICES ASSUME NEW v \in Waiting PROVE FALSE
        OBVIOUS
      <4>1. v \in Thread /\ turn[v] > cv.ec /\ turn[v] < cv.sq
        BY <1>2 DEF Waiting
      <4>2. turn[v] = cv.ec + 1
        BY <1>2, <3>2, <4>1
      <4> QED BY <1>7, <4>2
    <3>4. Early = {} /\ u \in Early'
      BY <1>1, <1>2, <1>5, <3>1, <3>2 DEF Early
    <3>5. KeptBack' = KeptBack + 1
      BY <1>2, <3>2, <3>4, KeptIs, KeptWillBe DEF Inv, KeptFacts
    <3> QED BY <1>1, <1>3, <1>4, <2>1, <3>3, <3>5 DEF M!Signal, Owner
  <2>4. CASE cv.ec + 1 < cv.sq /\ ~\E u \in Thread : pc[u] = "release" /\ turn[u] = cv.ec + 1
    <3>1. timed # {}
      <4> SUFFICES ASSUME timed = {} PROVE FALSE
        OBVIOUS
      <4>1. PICK u \in Thread : Waits(u) /\ turn[u] = cv.ec + 1
        BY <1>2, <2>4 DEF Inv, Conditions, NoneLost
      <4> QED BY <1>2, <1>7, <2>4, <4>1 DEF Waits, Waiting
    <3>2. Early' = Early
      BY <1>1, <1>2, <2>4 DEF Early
    <3>3. KeptBack' = KeptBack
      BY <1>2, <2>4, <3>2, KeptIs, KeptWillBe DEF Inv, KeptFacts
    <3> QED BY <1>1, <1>3, <1>4, <2>1, <3>1, <3>3 DEF M!Signal, Owner
  <2> QED BY <1>2, <2>2, <2>3, <2>4
<1> QED BY <1>6, <1>7

LEMMA BroadcastAdvanceMonitor ==
    ASSUME Inv, IInv', NEW t \in Thread, BroadcastAdvance(t)
    PROVE  Conditions' /\ M!Broadcast
<1>1. PICK n \in Nat : n = Amount(cast[t])
  BY AmountType DEF Inv
<1>2. /\ pc[t] = "advance"
      /\ pc' = [pc EXCEPT ![t] = IF cast[t].holds THEN "in" ELSE "out"]
      /\ cv' = [cv EXCEPT !.ec = @ + n] /\ cast' = [cast EXCEPT ![t] = NoCast]
      /\ UNCHANGED <<turn, got, ret, waits, timed>>
  BY <1>1 DEF BroadcastAdvance, Goes
<1>3. /\ cv'.sq = cv.sq /\ cv'.ec = cv.ec + n /\ cv.sq \in Nat /\ cv.ec \in Nat
      /\ waits \subseteq Thread
      /\ \A u \in Thread : turn[u] \in Nat /\ turn[u] < cv.sq
  BY <1>2 DEF Inv, IInv, TypeOK, Count
<1>4. \A u \in Thread : pc[u] \in {"release", "asleep", "relock", "lock"}
                            \/ pc'[u] \in {"release", "asleep", "relock", "lock"}
                        => pc'[u] = pc[u]
  BY <1>2 DEF Inv, IInv, TypeOK
<1>5. Conditions' /\ Early \subseteq Early' /\ Waiting' \subseteq Waiting
  BY <1>2, <1>4, AdvanceConditions
<1>6. Holders' = Holders
  BY <1>2 DEF Inv, IInv, TypeOK, Holders
<1>7. KeptBack' >= KeptBack
  BY <1>3, <1>5, KeptIs, KeptWillBe DEF Inv, KeptFacts
<1>8. KeptBack' # KeptBack => Waiting' = {}
  <2>1. CASE cv.sq <= cv'.ec + 1
    BY <1>2, <1>3, <2>1 DEF Waiting
  <2>2. CASE ~(cv.sq <= cv'.ec + 1)
    <3>1. Early = {} /\ Early' = {}
      <4>1. \A u \in Thread : pc[u] = "release" => turn[u] + 1 = cv.sq
        BY DEF Inv, Conditions, LastTaken
      <4> QED BY <1>2, <1>3, <1>4, <2>2, <4>1 DEF Early
    <3> QED BY <1>3, <2>2, <3>1, KeptIs, KeptWillBe DEF Inv, KeptFacts
  <2> QED BY <2>1, <2>2
<1> QED BY <1>2, <1>5, <1>6, <1>7, <1>8 DEF M!Broadcast, Owner

LEMMA MonitorInit == Init => Conditions /\ M!Init
<1> SUFFICES ASSUME Init PROVE Conditions /\ M!Init
  OBVIOUS
<1>1. Conditions
  BY DEF Init, Conditions, Placed, LastTaken, Answered, Different, NoneLost, Waits
<1>2. Holders = {} /\ Early = {} /\ Waiting = {} /\ IInv
  BY InitInv DEF Init, Holders, Early, Waiting
<1>3. KeptBack = 0
  BY <1>2, KeptIs DEF KeptFacts, Init
<1>4. timed \subseteq Thread
  BY ThreadAssumption DEF Init
<1> QED BY <1>1, <1>2, <1>3, <1>4 DEF Init, M!Init

LEMMA MonitorNext == Inv /\ [Next]_vars => Conditions' /\ [M!Next]_(M!vars)
<1> SUFFICES ASSUME Inv, [Next]_vars PROVE Conditions' /\ [M!Next]_(M!vars)
  OBVIOUS
<1>1. IInv'
  BY NextInv DEF Inv
<1>2. UNCHANGED monitor => UNCHANGED M!vars
  BY DEF monitor, M!vars, Owner
<1>3. CASE UNCHANGED vars
  <2>1. UNCHANGED <<mu, cv, pc, tick, turn, got, ret, waits, cast, timed>>
    BY <1>3 DEF vars, lockVars, condVars
  <2>2. Holders' = Holders
    BY <2>1 DEF Holders
  <2>3. UNCHANGED monitor
    BY <2>1, <2>2 DEF monitor, Owner, Waiting, KeptBack
  <2>4. Conditions'
    BY <2>1 DEF Inv, Conditions, Placed, LastTaken, Answered, Different, NoneLost, Waits
  <2> QED BY <1>2, <2>3, <2>4
<1>4. ASSUME NEW t \in Thread, Steps(t) PROVE Conditions' /\ [M!Next]_(M!vars)
  BY <1>1, <1>2, <1>4, GrantedMonitor, WaitReleaseMonitor, RelockMonitor,
     BroadcastFromMonitor, BroadcastAdvanceMonitor DEF Steps, M!Next
<1>5. ASSUME NEW t \in Thread, Lock(t) \/ Release(t) \/ Wait(t) \/ Woken(t)
                                    \/ Signal(t) \/ Broadcast(t)
      PROVE  Conditions' /\ [M!Next]_(M!vars)
  BY <1>1, <1>2, <1>5, LockMonitor, ReleaseMonitor, WaitMonitor, WokenMonitor,
     SignalMonitor, BroadcastMonitor DEF M!Next
<1> QED BY <1>3, <1>4, <1>5 DEF Next

(* The mutex and the condition variable, each an event count and a         *)
(* sequencer, implement the monitor of SRCThread.if: every step of         *)
(* srcthread.c is a step of the monitor or none.  A signal that finds      *)
(* nobody is kept, and one may be lost only if threads time out.           *)
THEOREM MonitorImplemented == Spec => Implements
<1>1. Init => Inv /\ M!Init
  BY InitInv, MonitorInit DEF Inv
<1>2. Inv /\ [Next]_vars => Inv' /\ [M!Next]_(M!vars)
  BY NextInv, MonitorNext DEF Inv
<1> QED BY <1>1, <1>2, PTL DEF Spec, Implements, M!Spec
=============================================================================
