----------------------------- MODULE UserThreads -----------------------------
(***************************************************************************)
(* The user-level thread scheduler of a domain (mod/nemesis/threads/       *)
(* threads.c), built with CONFIG_MEMSYS_EXPT: the run queue, context       *)
(* slots, the two kinds of critical section and the activation handler.    *)
(* The head of the run queue is the current thread.  A module that extends *)
(* this one says who calls what.                                           *)
(***************************************************************************)
EXTENDS Integers, Sequences, FiniteSets, SequencesExt

CONSTANTS
    Threads,       \* the threads there may ever be
    Started,       \* those that are there from the beginning, in run order
    NoThread,      \* NULL_CX, or nobody executes
    Preemptive,    \* st->preemptive
    MaxEntered     \* bound on the sections a thread enters before it is in
                   \* none again

ASSUME ThreadAssumption ==
    /\ Started \in Seq(Threads) /\ Started # <<>> /\ NoThread \notin Threads
    /\ \A i, j \in DOMAIN Started : Started[i] = Started[j] => i = j
    /\ Preemptive \in BOOLEAN /\ MaxEntered \in [Threads -> Nat]

VARIABLES
    runq,          \* st->run_queue
    state,         \* thread state; "new" and "forked" before it is queued
    yielded,       \* the context slot was written by setjmp
    critical,      \* count of critical sections
    vpcritical,    \* marks the section that holds activations off; negative
                   \* while its stack page is being mapped
    critcx,        \* the critical thread's context, or NoThread
    save,          \* the slot the kernel saves the context to
    slot,          \* what each slot holds: "jmpbuf" or "context"
    back,          \* the activation mode a thread yielded with
    act,           \* activations are on
    exec,          \* the thread that executes; NoThread in a handler or idle
    ran,           \* history: the thread that executed last
    open,          \* history: the sections each thread is in, by kind
    entered,       \* history: how many it has entered since it was in none
    daemon,        \* threads not counted
    active,        \* st->active_threads
    baby,          \* the thread each one is forking
    ended          \* the domain has been destroyed

runVars  == <<runq, state, yielded, slot, back, save, act, exec, ran>>
csVars   == <<critical, vpcritical, critcx, open, entered>>
lifeVars == <<daemon, active, baby, ended>>
threadVars == <<runVars, csVars, lifeVars>>

None(t) == critical[t] = 0

(* The threads at the head of the queue that are critical.                 *)
LeadingCritical(q, crit) ==
    LET lead == {i \in DOMAIN q : \A j \in 1 .. i : crit[q[j]] > 0}
    IN  IF lead = {} THEN 0 ELSE CHOOSE i \in lead : \A j \in lead : j <= i

(* UnblockThread and UnblockYield: a critical thread goes behind the       *)
(* critical threads at the head, another one to the tail.                  *)
Unblocked(q, t, cs, crit) ==
    InsertAt(q, IF cs THEN LeadingCritical(q, crit) + 1 ELSE Len(q) + 1, t)

\* Mutant for CurrentMarked: a critical thread that resumes is not marked.
Unmarked(to, crit, cx) == cx

\* A critical thread that resumes is marked.
Marked(to, crit, cx) == IF crit[to] > 0 THEN to ELSE cx

(* RunNext with the queue q, flags y, modes and counts crit: the head is   *)
(* resumed by longjmp with the activation mode it yielded with, or by      *)
(* RFAResume.  With nobody to run the domain blocks.                       *)

RunNext(q, y, modes, crit, cx) ==
    /\ runq' = q
    /\ IF q = <<>>
       THEN /\ act' = TRUE /\ exec' = NoThread /\ critcx' = cx
            /\ yielded' = y /\ UNCHANGED <<save, ran>>
       ELSE LET to == Head(q)
            IN  /\ save' = to /\ exec' = to /\ ran' = to
                /\ critcx' = Marked(to, crit, cx)
                /\ act' = IF y[to] THEN modes[to] ELSE TRUE
                /\ yielded' = [y EXCEPT ![to] = FALSE]

\* Mutant for SlotsRestored: the flag is forgotten.
NotFlagged(t) == yielded

\* InternalYield: the slot now holds a jmp_buf.
Flagged(t) == [yielded EXCEPT ![t] = TRUE]

(* InternalYield of t, called with activation mode m.                      *)
InternalYield(t, q, m, crit) ==
    /\ slot' = [slot EXCEPT ![t] = "jmpbuf"]
    /\ back' = [back EXCEPT ![t] = m]
    /\ RunNext(q, Flagged(t), back', crit, NoThread)

\* A thread runs its own code.
Executes(t) == exec = t /\ state[t] = "Runable" /\ ~ended

-----------------------------------------------------------------------------
(* The threads of Started are in the queue, the first one running.         *)
ThreadsInit ==
    /\ runq = Started
    /\ state = [t \in Threads |->
                   IF \E i \in DOMAIN Started : Started[i] = t
                   THEN "Runable" ELSE "new"]
    /\ yielded = [t \in Threads |-> t # Head(Started)]
    /\ slot = [t \in Threads |-> "jmpbuf"]
    /\ back = [t \in Threads |-> TRUE]
    /\ save = Head(Started) /\ exec = Head(Started) /\ ran = Head(Started)
    /\ act = TRUE
    /\ critical = [t \in Threads |-> 0] /\ vpcritical = [t \in Threads |-> 0]
    /\ critcx = NoThread /\ open = [t \in Threads |-> <<>>]
    /\ entered = [t \in Threads |-> 0]
    /\ daemon = {} /\ active = Len(Started)
    /\ baby = [t \in Threads |-> NoThread] /\ ended = FALSE

(* -------------------------- critical sections ------------------------- *)

\* A thread enters a section: the count, and the mark if it is the first.
Entering(t, kind) ==
    /\ critical' = [critical EXCEPT ![t] = @ + 1]
    /\ critcx' = IF None(t) THEN t ELSE critcx
    /\ open' = [open EXCEPT ![t] = Append(@, kind)]
    /\ entered' = [entered EXCEPT ![t] = @ + 1]
    /\ UNCHANGED <<runq, state, yielded, slot, back, save, exec, ran, lifeVars>>

(* EnterCS(False): activations stay as they are.                           *)
EnterCS(t) ==
    /\ Executes(t) /\ entered[t] < MaxEntered[t]
    /\ Entering(t, "cs")
    /\ UNCHANGED <<vpcritical, act>>

(* EnterCS(True), for the first time: the next page of the stack is mapped *)
(* with activations still on.                                              *)
EnterVP(t) ==
    /\ Executes(t) /\ entered[t] < MaxEntered[t] /\ vpcritical[t] = 0
    /\ Entering(t, "map")
    /\ vpcritical' = [vpcritical EXCEPT ![t] = -(critical[t] + 1)]
    /\ UNCHANGED act

(* Only then do activations go off.                                        *)
StackMapped(t) ==
    /\ Executes(t) /\ vpcritical[t] < 0 /\ vpcritical[t] = -critical[t]
    /\ vpcritical' = [vpcritical EXCEPT ![t] = critical[t]]
    /\ open' = [open EXCEPT ![t][critical[t]] = "vp"]
    /\ act' = FALSE
    /\ UNCHANGED <<runq, state, yielded, slot, back, save, exec, ran, critical,
                   critcx, entered, lifeVars>>

(* EnterCS(True) within such a section, or within the mapping.             *)
EnterAgain(t) ==
    /\ Executes(t) /\ entered[t] < MaxEntered[t] /\ vpcritical[t] # 0
    /\ Entering(t, "vp")
    /\ act' = FALSE
    /\ UNCHANGED vpcritical

\* Mutant for ModeKept: the mark is compared after the count is reduced.
LeavesLate(t) == \/ vpcritical[t] = critical[t] - 1
                 \/ critical[t] - 1 = -vpcritical[t]

\* LeaveCS turns activations on: it leaves the marked section, or one that
\* was entered while the stack was being mapped; or there was no such section.
LeavesVP(t) == \/ vpcritical[t] = critical[t]
               \/ critical[t] - 1 = -vpcritical[t]

LeaveCS(t) ==
    /\ Executes(t) /\ critical[t] > 0 /\ vpcritical[t] # -critical[t]
    /\ vpcritical' = [vpcritical EXCEPT ![t] =
                         IF @ = critical[t] THEN 0 ELSE @]
    /\ critical' = [critical EXCEPT ![t] = @ - 1]
    /\ open' = [open EXCEPT ![t] = Front(@)]
    /\ entered' = [entered EXCEPT ![t] = IF critical[t] = 1 THEN 0 ELSE @]
    /\ critcx' = IF critical[t] = 1 THEN NoThread ELSE critcx
    /\ act' = (act \/ LeavesVP(t))
    /\ UNCHANGED <<runq, state, yielded, slot, back, save, exec, ran, lifeVars>>

(* ------------------------- yield, block, unblock ---------------------- *)

\* The queue without t.
Dequeued(t) == RemoveAt(runq, CHOOSE i \in DOMAIN runq : runq[i] = t)

(* Yield: to the tail, and on to the new head if there is another one.     *)
Yield(t) ==
    LET q == Append(Dequeued(t), t)
    IN  /\ Executes(t)
        /\ IF Head(q) = t
           THEN UNCHANGED <<runVars, critcx>>
           ELSE InternalYield(t, q, act, critical) /\ UNCHANGED state
        /\ UNCHANGED <<critical, vpcritical, open, entered, lifeVars>>

(* BlockYield of t; crit is what the caller made of the critical counts.   *)
BlockYield(t, m, crit) ==
    /\ state' = [state EXCEPT ![t] = "Blocked"]
    /\ InternalYield(t, Dequeued(t), m, crit)

(* UnblockYield of u by t, which stays where it is.                        *)
UnblockYield(t, u, cs, m, crit) ==
    /\ state' = [state EXCEPT ![u] = "Runable"]
    /\ InternalYield(t, Unblocked(runq, u, cs, crit), m, crit)

(* -------------------------------- life -------------------------------- *)

\* Mutant for CountKept: the new thread is counted when it is queued.
CountedLater == active

\* CreateThread counts the thread, before Fork queues it.
Counted == active + 1

ForkCreate(t, u) ==
    /\ Executes(t) /\ state[u] = "new" /\ baby[t] = NoThread
    /\ baby' = [baby EXCEPT ![t] = u]
    /\ state' = [state EXCEPT ![u] = "forked"]
    /\ active' = Counted
    /\ UNCHANGED <<runq, yielded, slot, back, save, act, exec, ran, csVars,
                   daemon, ended>>

ForkInsert(t) ==
    LET u == baby[t]
    IN  /\ Executes(t) /\ u # NoThread
        /\ baby' = [baby EXCEPT ![t] = NoThread]
        /\ state' = [state EXCEPT ![u] = "Runable"]
        /\ runq' = InsertAt(runq, 2, u)
        /\ UNCHANGED <<yielded, slot, back, save, act, exec, ran, csVars,
                       daemon, active, ended>>

SetDaemon(t) ==
    /\ Executes(t) /\ t \notin daemon
    /\ daemon' = daemon \cup {t} /\ active' = active - 1
    /\ UNCHANGED <<runVars, csVars, baby, ended>>

(* Exit.  The last thread that counts stays in the queue, to run the hooks *)
(* and have the domain destroyed.                                          *)
Exit(t) ==
    LET left == IF t \in daemon THEN active ELSE active - 1
    IN  /\ Executes(t) /\ None(t) /\ act /\ baby[t] = NoThread
        /\ state[t] = "Runable"
        /\ active' = left
        /\ state' = [state EXCEPT ![t] = IF left = 0 THEN "ending" ELSE "gone"]
        /\ IF left = 0
           THEN UNCHANGED <<runq, yielded, slot, back, save, act, exec, ran,
                            critcx>>
           ELSE RunNext(Dequeued(t), yielded, back, critical, critcx)
                /\ UNCHANGED <<slot, back>>
        /\ UNCHANGED <<critical, vpcritical, open, entered, daemon, baby, ended>>

(* The call to the binder: nothing of the domain runs any more.            *)
DestroyDomain(t) ==
    /\ exec = t /\ state[t] = "ending" /\ ~ended
    /\ ended' = TRUE
    /\ UNCHANGED <<runVars, csVars, daemon, active, baby>>

(* ---------------------------- the handler ----------------------------- *)

(* An activation.  What ran is saved in its slot; an idle domain has       *)
(* nothing to save.                                                        *)
Activate ==
    /\ act /\ ~ended
    /\ act' = FALSE /\ exec' = NoThread
    /\ slot' = IF exec = NoThread THEN slot ELSE [slot EXCEPT ![save] = "context"]
    /\ UNCHANGED <<runq, state, yielded, back, save, ran, csVars, lifeVars>>

InHandler == exec = NoThread /\ ~act /\ ~ended

\* Mutant for EverybodyRuns: nobody is preempted.
Unpreempted(q) == q

\* Preempt: the head goes to the end.
Preempted(q) ==
    IF Preemptive /\ q # <<>> THEN Append(Tail(q), Head(q)) ELSE q

\* Mutant for CriticalKept: a preemptive scheduler preempts always.
CriticalUnlessPreemptive == critcx # NoThread /\ ~Preemptive

\* The thread that lost the processor is critical.
CriticalFirst == critcx # NoThread

(* ActivationGo, after the notification handlers have run: a critical      *)
(* thread goes on.                                                         *)
ActivationGo ==
    /\ InHandler
    /\ IF CriticalFirst
       THEN /\ save' = critcx /\ exec' = critcx /\ ran' = critcx /\ act' = TRUE
            /\ UNCHANGED <<runq, yielded, critcx>>
       ELSE RunNext(Preempted(runq), yielded, back, critical, critcx)
    /\ UNCHANGED <<state, slot, back, critical, vpcritical, open, entered, lifeVars>>

-----------------------------------------------------------------------------
States == {"new", "forked", "Runable", "Blocked", "ending", "gone"}

\* Every variable has its type.
ThreadsTypeOK ==
    /\ runq \in Seq(Threads) /\ state \in [Threads -> States]
    /\ yielded \in [Threads -> BOOLEAN] /\ back \in [Threads -> BOOLEAN]
    /\ slot \in [Threads -> {"jmpbuf", "context"}]
    /\ critical \in [Threads -> Nat] /\ vpcritical \in [Threads -> Int]
    /\ critcx \in Threads \cup {NoThread} /\ save \in Threads
    /\ act \in BOOLEAN /\ exec \in Threads \cup {NoThread} /\ ran \in Threads
    /\ open \in [Threads -> Seq({"cs", "vp", "map"})]
    /\ entered \in [Threads -> Nat]
    /\ daemon \subseteq Threads /\ active \in Int
    /\ baby \in [Threads -> Threads \cup {NoThread}] /\ ended \in BOOLEAN

(* A thread that executes is at the head of the queue, the kernel saves to *)
(* its slot, and it is marked as critical exactly if it is; when a handler *)
(* runs, the mark names the head of the queue: what ActivationGo and       *)
(* InternalYield check before they stop the machine (threads.c:896, 922,   *)
(* 1066).  The queue holds each thread that can run, once.                 *)
CurrentMarked ==
    /\ \A i, j \in DOMAIN runq : runq[i] = runq[j] => i = j
    /\ {runq[i] : i \in DOMAIN runq} =
           {t \in Threads : state[t] \in {"Runable", "ending"}}
    /\ exec # NoThread =>
           /\ runq # <<>> /\ Head(runq) = exec /\ save = exec
           /\ critcx = IF None(exec) THEN NoThread ELSE exec
    /\ exec = NoThread /\ critcx # NoThread =>
           runq # <<>> /\ Head(runq) = critcx /\ ~None(critcx)

(* Whoever does not execute is resumed the way its context was saved: a    *)
(* slot that holds a jmp_buf by longjmp, a context by RFAResume.           *)
SlotsRestored ==
    \A t \in Threads \ {exec} :
        state[t] \in {"Runable", "Blocked", "ending"}
            => slot[t] = IF yielded[t] THEN "jmpbuf" ELSE "context"

(* However sections are nested, yielded from and resumed, activations are  *)
(* off for a thread while it is in a section that asked for it, and on     *)
(* when it is in none.  LeaveCS keeps one mark, so there is an exception:  *)
(* a section that did not ask, entered while a stack page is being mapped, *)
(* may find them off after one within it is left, until it is left itself. *)
Asked(t) == {i \in DOMAIN open[t] : open[t][i] = "vp"}
Unmarkable(t) == \E i \in DOMAIN open[t] : i > -vpcritical[t] /\ open[t][i] = "cs"
ModeKept ==
    exec # NoThread =>
        IF Asked(exec) # {} THEN ~act
        ELSE act \/ (vpcritical[exec] < 0 /\ Unmarkable(exec))

(* The domain ends when its last thread that counts has left, and not      *)
(* before.                                                                 *)
CountKept ==
    active = Cardinality({t \in Threads \ daemon :
                 state[t] \in {"forked", "Runable", "Blocked"}})

(* A thread in a critical section keeps the processor until it yields or   *)
(* blocks, or a fault of its own blocks it.                                *)
CriticalKept ==
    [][ran' # ran /\ critical[ran] > 0
           => yielded'[ran] \/ state'[ran] = "Blocked"]_<<ran, critical>>
=============================================================================
