------------------------------- MODULE MMEntry -------------------------------
(***************************************************************************)
(* Page faults dealt with by the domain that takes them: the notification  *)
(* handler (mod/nemesis/mmentry/mmnotify.c) and the worker threads it      *)
(* hands faults to (mod/nemesis/mmentry/mmentry.c), over the user-level    *)
(* scheduler.  The other threads call the scheduler as they like, and      *)
(* sleep and are woken as by event counts (mod/nemesis/events/events.c).   *)
(***************************************************************************)
EXTENDS UserThreads

CONSTANTS
    Workers,       \* the threads of the pool, NWORKERS of them
    Faulting,      \* threads that take page faults
    Criticals,     \* of these, those that may fault in a critical section
    MaxFaults      \* st->maxf

Clients == Threads \ Workers

ASSUME WorkerAssumption ==
    /\ Workers \subseteq Threads /\ Faulting \subseteq Clients
    /\ Criticals \subseteq Faulting /\ MaxFaults \in Nat

VARIABLES
    faulty,        \* the handler has a fault of the current thread to see to
    pending,       \* st->pending: the faults, with thread and incs
    idle,          \* free fault structures in st->idle
    pool,          \* st->pool
    job,           \* what each worker has taken
    wpc,           \* where each worker is
    stopped        \* the machine was stopped by an assertion

entryVars == <<faulty, pending, idle, pool, job, wpc, stopped>>
vars == <<threadVars, entryVars>>

NoJob == [thread |-> NoThread, incs |-> FALSE]

Init ==
    /\ ThreadsInit
    /\ faulty = FALSE /\ pending = <<>> /\ idle = MaxFaults /\ pool = <<>>
    /\ job = [w \in Workers |-> NoJob]
    /\ wpc = [w \in Workers |-> "start"]
    /\ stopped = FALSE

(* ---------------------------- the handler ----------------------------- *)

(* A fault that cannot be satisfied with activations off.                  *)
Fault(t) ==
    /\ Executes(t) /\ t \in Faulting /\ (None(t) \/ t \in Criticals)
    /\ Activate
    /\ faulty' = TRUE
    /\ UNCHANGED <<pending, idle, pool, job, wpc, stopped>>

\* A worker of the pool is woken for every fault.
WakesWorker == pool # <<>>

\* Mutant for TypeOK: the structure stays on the idle queue.
TakenNone == idle

\* A free fault structure is taken.
Taken == idle - 1

(* Satisfy: the thread is blocked, a worker unblocked with the same cs.    *)
Satisfy ==
    LET t    == Head(runq)
        incs == critical[t] > 0
        q    == Tail(runq)
    IN  /\ InHandler /\ faulty
        /\ faulty' = FALSE
        /\ IF idle = 0
           THEN /\ stopped' = TRUE
                /\ UNCHANGED <<threadVars, pending, idle, pool, job, wpc>>
           ELSE /\ idle' = Taken
                /\ pending' = Append(pending, [thread |-> t, incs |-> incs])
                /\ critcx' = IF incs THEN NoThread ELSE critcx
                /\ IF WakesWorker
                   THEN /\ runq' = Unblocked(q, Head(pool), incs, critical)
                        /\ state' = [state EXCEPT ![t] = "Blocked",
                                                  ![Head(pool)] = "Runable"]
                        /\ pool' = Tail(pool)
                   ELSE /\ runq' = q
                        /\ state' = [state EXCEPT ![t] = "Blocked"]
                        /\ UNCHANGED pool
                /\ UNCHANGED <<yielded, slot, back, save, act, exec, ran,
                               critical, vpcritical, open, entered, lifeVars, job, wpc,
                               stopped>>

HandlerDone == ~faulty /\ ActivationGo /\ UNCHANGED entryVars

Interrupted == Activate /\ UNCHANGED entryVars

(* ------------------------------ workers ------------------------------- *)

At(w, where) == Executes(w) /\ wpc[w] = where

WorkerStart(w) ==
    /\ At(w, "start") /\ SetDaemon(w)
    /\ wpc' = [wpc EXCEPT ![w] = "check"]
    /\ UNCHANGED <<faulty, pending, idle, pool, job, stopped>>

\* The worker, in a section that holds activations off.
InSection(w) ==
    /\ critical' = [critical EXCEPT ![w] = 1]
    /\ vpcritical' = [vpcritical EXCEPT ![w] = 1]
    /\ open' = [open EXCEPT ![w] = <<"vp">>]
    /\ entered' = [entered EXCEPT ![w] = 1]

\* Mutant for FaultsServed: the worker sleeps without a look at the queue.
NothingLookedAt == TRUE

\* There is no fault to be taken.
NothingToDo == pending = <<>>

(* The worker takes a fault, if there is one, in a section entered and     *)
(* left; else it puts itself in the pool and sleeps in the section.        *)
Take(w) ==
    /\ At(w, "check") /\ act /\ pending # <<>>
    /\ job' = [job EXCEPT ![w] = Head(pending)] /\ pending' = Tail(pending)
    /\ wpc' = [wpc EXCEPT ![w] = "work"]
    /\ UNCHANGED <<threadVars, faulty, idle, pool, stopped>>

Sleep(w) ==
    /\ At(w, "check") /\ act /\ NothingToDo
    /\ InSection(w)
    /\ pool' = Append(pool, w)
    /\ BlockYield(w, FALSE, critical')
    /\ wpc' = [wpc EXCEPT ![w] = "woken"]
    /\ UNCHANGED <<lifeVars, faulty, pending, idle, job, stopped>>

(* It wakes for a fault: the assertion of mmentry.c:267-273.               *)
Woken(w) ==
    /\ At(w, "woken")
    /\ LeaveCS(w)
    /\ IF pending = <<>>
       THEN stopped' = TRUE /\ UNCHANGED <<pending, job, wpc>>
       ELSE /\ job' = [job EXCEPT ![w] = Head(pending)]
            /\ pending' = Tail(pending)
            /\ wpc' = [wpc EXCEPT ![w] = "work"]
            /\ UNCHANGED stopped
    /\ UNCHANGED <<faulty, idle, pool>>

(* The page is mapped, and the thread that faulted goes on.                *)
Mapped(w) ==
    /\ At(w, "work") /\ act
    /\ InSection(w)
    /\ idle' = idle + 1
    /\ UnblockYield(w, job[w].thread, job[w].incs, FALSE, critical')
    /\ job' = [job EXCEPT ![w] = NoJob]
    /\ wpc' = [wpc EXCEPT ![w] = "leave"]
    /\ UNCHANGED <<lifeVars, faulty, pending, pool, stopped>>

WorkerLeave(w) ==
    /\ At(w, "leave") /\ LeaveCS(w)
    /\ wpc' = [wpc EXCEPT ![w] = "check"]
    /\ UNCHANGED <<faulty, pending, idle, pool, job, stopped>>

Worker(w) == WorkerStart(w) \/ Take(w) \/ Sleep(w) \/ Woken(w) \/ Mapped(w)
                \/ WorkerLeave(w)

(* ------------------------------ clients ------------------------------- *)

\* Block of an event count, in the section that Await is in.
Await(t) ==
    /\ Executes(t) /\ vpcritical[t] > 0
    /\ BlockYield(t, act, critical)
    /\ UNCHANGED <<critical, vpcritical, open, entered, lifeVars>>

\* Faults that are being dealt with.
Faulted == {pending[i].thread : i \in DOMAIN pending}
               \cup ({job[w].thread : w \in Workers} \ {NoThread})

(* RealUnblockEvent, in a handler or in a thread with activations off.     *)
Unblock(u) ==
    /\ ~act /\ ~ended
    /\ u \in Clients /\ state[u] = "Blocked" /\ u \notin Faulted
    /\ state' = [state EXCEPT ![u] = "Runable"]
    /\ runq' = Unblocked(runq, u, FALSE, critical)
    /\ UNCHANGED <<yielded, slot, back, save, act, exec, ran, csVars, lifeVars,
                   entryVars>>

Calls(t) ==
    \/ EnterCS(t)
    \/ EnterVP(t)
    \/ EnterAgain(t)
    \/ Yield(t)
    \/ Await(t)
    \/ \E u \in Threads : ForkCreate(t, u)
    \/ Exit(t)

\* What a client that began something does to finish it.
Finishes(t) == StackMapped(t) \/ LeaveCS(t) \/ ForkInsert(t) \/ DestroyDomain(t)

Client(t) == (Calls(t) \/ Finishes(t)) /\ UNCHANGED entryVars

Next ==
    /\ ~stopped
    /\ \/ \E t \in Clients : Client(t) \/ Fault(t) \/ Unblock(t)
       \/ \E w \in Workers : Worker(w)
       \/ Satisfy \/ HandlerDone \/ Interrupted

Spec == Init /\ [][Next]_vars

(* The domain is activated again and again, and not only when a thread is  *)
(* critical; its handlers end, workers do their work, and a client         *)
(* finishes what it began.                                                 *)
Fairness ==
    /\ SF_vars(Interrupted /\ critcx = NoThread) /\ WF_vars(Satisfy \/ HandlerDone)
    /\ \A w \in Workers : SF_vars(Worker(w))
    /\ \A t \in Clients : SF_vars(Finishes(t) /\ UNCHANGED entryVars)

FairSpec == Spec /\ Fairness

-----------------------------------------------------------------------------
\* Every variable has its type.
TypeOK ==
    /\ ThreadsTypeOK
    /\ faulty \in BOOLEAN /\ idle \in 0 .. MaxFaults
    /\ pending \in Seq([thread : Threads, incs : BOOLEAN])
    /\ pool \in Seq(Workers)
    /\ job \in [Workers -> [thread : Threads \cup {NoThread}, incs : BOOLEAN]]
    /\ wpc \in [Workers -> {"start", "check", "woken", "work", "leave"}]
    /\ stopped \in BOOLEAN

(* A worker that is woken finds a fault.                                   *)
WokenForFault == ~stopped

(* A thread that can run does, sooner or later; unless others fault in     *)
(* critical sections for ever, each time to be put in front of it.         *)
CriticalFault == faulty /\ ~None(ran)
EverybodyRuns ==
    <>[]~CriticalFault =>
        \A t \in Clients \ Faulting :
            (state[t] = "Runable") ~> (ran = t \/ ended \/ stopped)

(* A thread that faults goes on, sooner or later.                          *)
FaultsServed ==
    \A t \in Faulting : (t \in Faulted) ~> (t \notin Faulted \/ ended \/ stopped)
=============================================================================
