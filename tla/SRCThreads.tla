------------------------------ MODULE SRCThreads ------------------------------
(***************************************************************************)
(* A mutex and a condition variable of mod/nemesis/srcthreads/srcthread.c: *)
(* each is an event count and a sequencer.  The threads run in any order,  *)
(* as the user-level scheduler lets them; an operation on a count or a     *)
(* sequencer has activations off and is one step (mod/nemesis/events/      *)
(* events.c), and a thread that awaits a count goes on once it is reached. *)
(***************************************************************************)
EXTENDS Naturals, FiniteSets

CONSTANTS
    Thread,        \* the threads that use the mutex and the condition
    Nobody,        \* nobody holds the mutex
    Timed,         \* threads that may call WaitUntil instead of Wait
    Casters,       \* threads that may call Broadcast
    MaxLock,       \* bound on the tickets of the mutex
    MaxWait        \* bound on the condition's tickets, and on its count when a
                   \* Signal or a Broadcast begins

ASSUME ThreadAssumption ==
    /\ Nobody \notin Thread /\ Timed \subseteq Thread /\ Casters \subseteq Thread
    /\ MaxLock \in Nat /\ MaxWait \in Nat

VARIABLES
    mu,            \* the mutex: [ec, sq]
    cv,            \* the condition: [ec, sq]
    pc,            \* where each thread is
    tick,          \* its ticket of the mutex
    turn,          \* t of Wait: its ticket of the condition
    got,           \* WaitUntil: not EC_LT(ev, t)
    ret,           \* what WaitUntil last returned to the thread
    waits,         \* it is inside Wait or WaitUntil
    cast,          \* to and from of Broadcast, and whether it holds the mutex
    timed          \* the threads that call WaitUntil, chosen once

lockVars == <<mu, tick>>
condVars == <<cv, turn, got, ret, waits>>
vars == <<lockVars, condVars, pc, cast, timed>>

Count == [ec : Nat, sq : Nat]
PCs == {"out", "lock", "in", "release", "asleep", "relock", "from", "advance"}
NoCast == [to |-> 0, from |-> 0, holds |-> FALSE]

\* InitMutex and InitCond; it takes a ticket, "the first Wait should block".
Init ==
    /\ mu = [ec |-> 0, sq |-> 0] /\ cv = [ec |-> 0, sq |-> 1]
    /\ pc = [t \in Thread |-> "out"]
    /\ tick = [t \in Thread |-> 0] /\ turn = [t \in Thread |-> 0]
    /\ got = [t \in Thread |-> TRUE] /\ ret = [t \in Thread |-> TRUE]
    /\ waits = {}
    /\ cast = [t \in Thread |-> NoCast]
    /\ timed \in {{}, Timed}

Goes(t, from, to) == pc[t] = from /\ pc' = [pc EXCEPT ![t] = to]

(* -------------------------------- mutex ------------------------------- *)

\* Mutant for TypeOK: the ticket is the new value of the sequencer.
TicketAfter(t) == /\ tick' = [tick EXCEPT ![t] = mu.sq + 1]
                  /\ mu' = [mu EXCEPT !.sq = @ + 1]

Ticket(t) == /\ tick' = [tick EXCEPT ![t] = mu.sq]
             /\ mu' = [mu EXCEPT !.sq = @ + 1]

Lock(t) ==
    /\ Goes(t, "out", "lock") /\ mu.sq < MaxLock
    /\ Ticket(t)
    /\ UNCHANGED <<condVars, cast, timed>>

\* Mutant for FirstComeFirstServed: off by one.
DueEarly(t) == tick[t] <= mu.ec + 1

Due(t) == tick[t] <= mu.ec

(* Await returns.  For a thread inside Wait this is the end of it.         *)
Granted(t) ==
    /\ Goes(t, "lock", "in") /\ Due(t)
    /\ waits' = waits \ {t}
    /\ ret' = [ret EXCEPT ![t] = IF t \in waits THEN got[t] ELSE @]
    /\ UNCHANGED <<lockVars, cv, turn, got, cast, timed>>

Release(t) ==
    /\ Goes(t, "in", "out")
    /\ mu' = [mu EXCEPT !.ec = @ + 1]
    /\ UNCHANGED <<tick, condVars, cast, timed>>

(* ------------------------------ condition ----------------------------- *)

\* A bound: every wait needs a ticket of the mutex to come back with.
Room == mu.sq + Cardinality({t \in Thread :
                    pc[t] \in {"release", "asleep", "relock"}}) < MaxLock

(* Wait and WaitUntil: the ticket, the release, the wait, the lock.        *)
Wait(t) ==
    /\ Goes(t, "in", "release") /\ cv.sq < MaxWait /\ Room
    /\ turn' = [turn EXCEPT ![t] = cv.sq]
    /\ cv' = [cv EXCEPT !.sq = @ + 1]
    /\ UNCHANGED <<lockVars, got, ret, waits, cast, timed>>

\* Mutant for LockGranted: it goes to sleep with the mutex.
SleepsHolding(t) ==
    /\ Goes(t, "release", "asleep")
    /\ waits' = waits \cup {t}
    /\ UNCHANGED <<lockVars, cv, turn, got, ret, cast, timed>>

WaitRelease(t) ==
    /\ Goes(t, "release", "asleep")
    /\ mu' = [mu EXCEPT !.ec = @ + 1]
    /\ waits' = waits \cup {t}
    /\ UNCHANGED <<tick, cv, turn, got, ret, cast, timed>>

\* Mutant for Implements: off by one, a ticket that is next counts as reached.
ReachedEarly(t) == turn[t] <= cv.ec + 1

\* WaitUntil returns False if the count has not reached the ticket.
Reached(t) == turn[t] <= cv.ec

Woken(t) ==
    /\ Goes(t, "asleep", "relock")
    /\ turn[t] <= cv.ec \/ t \in timed
    /\ got' = [got EXCEPT ![t] = Reached(t)]
    /\ UNCHANGED <<lockVars, cv, turn, ret, waits, cast, timed>>

Relock(t) ==
    /\ Goes(t, "relock", "lock")
    /\ Ticket(t)
    /\ UNCHANGED <<condVars, cast, timed>>

Signal(t) ==
    /\ pc[t] \in {"in", "out"} /\ cv.ec < MaxWait
    /\ cv' = [cv EXCEPT !.ec = @ + 1]
    /\ UNCHANGED <<lockVars, turn, got, ret, waits, pc, cast, timed>>

(* Broadcast: SQ_READ, EC_READ, and the advance.                           *)
Broadcast(t) ==
    /\ t \in Casters /\ cv.ec < MaxWait
    /\ \E h \in {"in", "out"} :
           /\ Goes(t, h, "from")
           /\ cast' = [cast EXCEPT ![t] = [to |-> cv.sq, from |-> 0,
                                           holds |-> h = "in"]]
    /\ UNCHANGED <<lockVars, condVars, timed>>

BroadcastFrom(t) ==
    /\ Goes(t, "from", "advance")
    /\ cast' = [cast EXCEPT ![t].from = cv.ec]
    /\ UNCHANGED <<lockVars, condVars, timed>>

\* Mutant for BroadcastWakes: one less than the two comparisons allow.
OneTooFew(b) == IF b.to > b.from + 2 THEN b.to - b.from - 2 ELSE 0

\* "?? to - from - 1".
Amount(b) == IF b.to > b.from THEN b.to - b.from ELSE 0

BroadcastAdvance(t) ==
    /\ Goes(t, "advance", IF cast[t].holds THEN "in" ELSE "out")
    /\ cv' = [cv EXCEPT !.ec = @ + Amount(cast[t])]
    /\ cast' = [cast EXCEPT ![t] = NoCast]
    /\ UNCHANGED <<lockVars, turn, got, ret, waits, timed>>

Steps(t) == \/ Granted(t)
            \/ WaitRelease(t)
            \/ Relock(t)
            \/ BroadcastFrom(t)
            \/ BroadcastAdvance(t)

Next == \E t \in Thread :
    Steps(t) \/ Lock(t) \/ Release(t) \/ Wait(t) \/ Woken(t) \/ Signal(t)
        \/ Broadcast(t)

Spec == Init /\ [][Next]_vars

(* Every thread that can run does (the run queue is served in turn), and   *)
(* whoever holds the mutex releases it in the end.                         *)
Fairness == \A t \in Thread :
    /\ WF_vars(Steps(t)) /\ WF_vars(Woken(t)) /\ SF_vars(Release(t))

FairSpec == Spec /\ Fairness

-----------------------------------------------------------------------------
(* Every variable has its type, every ticket came from its sequencer, and  *)
(* the mutex's count is never ahead of its sequencer.                      *)
TypeOK ==
    /\ mu \in Count /\ cv \in Count /\ pc \in [Thread -> PCs]
    /\ tick \in [Thread -> Nat] /\ turn \in [Thread -> Nat]
    /\ got \in [Thread -> BOOLEAN] /\ ret \in [Thread -> BOOLEAN]
    /\ waits \subseteq Thread
    /\ cast \in [Thread -> [to : Nat, from : Nat, holds : BOOLEAN]]
    /\ timed \subseteq Timed
    /\ mu.ec <= mu.sq
    /\ \A t \in Thread : /\ pc[t] = "lock" => tick[t] < mu.sq
                         /\ turn[t] < cv.sq

Holders == {t \in Thread : \/ pc[t] \in {"in", "release"}
                           \/ pc[t] \in {"from", "advance"} /\ cast[t].holds}

(* The mutex is held by one thread at a time, and granted in the order of  *)
(* the calls, through waits, timeouts and broadcasts: a count and a        *)
(* sequencer stay in step, though nothing records who holds it.            *)
FirstComeFirstServed ==
    \A t \in Holders, u \in Thread :
        u # t /\ (u \in Holders \/ pc[u] = "lock") => tick[t] < tick[u]

(* Broadcast makes all threads that waited when it was called eligible to  *)
(* run, though it reads the sequencer and the count and advances the count *)
(* in three steps (SRCThread.if: "All threads waiting on c").              *)
BroadcastWakes ==
    [][\A t, u \in Thread :
           pc[t] = "advance" /\ pc'[t] # "advance"
               /\ pc[u] = "asleep" /\ turn[u] < cast[t].to
           => turn[u] <= cv'.ec]_vars

(* A thread that asks for the mutex gets it.                               *)
LockGranted == \A t \in Thread : (pc[t] = "lock") ~> (pc[t] = "in")

(* Threads whose ticket the condition's count has not reached wait on it,  *)
(* a thread that timed out until it holds the mutex again.                 *)
Waiting == {t \in waits : turn[t] > cv.ec}

\* Signals kept: advances beyond the last ticket, or for one not yet waiting.
KeptBack ==
    Cardinality({i \in cv.sq .. cv.ec : TRUE})
        + Cardinality({t \in Thread : pc[t] = "release" /\ turn[t] <= cv.ec})

M == INSTANCE Monitor WITH
         m <- IF Holders = {} THEN Nobody ELSE CHOOSE t \in Holders : TRUE,
         c <- Waiting, in <- waits, ok <- ret, kept <- KeptBack, lossy <- timed

(* The mutex and the condition are a monitor.                              *)
Implements == M!Spec
==============================================================================
