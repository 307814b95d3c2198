----------------------------- MODULE EventCounts -----------------------------
(***************************************************************************)
(* One event count of a domain and the event channel it is attached to:    *)
(* the kernel's delivery (ntsc/ix86/intel/syscalls.c), the Plumber that    *)
(* closes channels from another domain (sys/domains/Plumber.c), the        *)
(* activation handler (mod/nemesis/activations/activations.c), and the     *)
(* threads that await the count (mod/nemesis/events/events.c) under the    *)
(* user-level scheduler (mod/nemesis/threads/threads.c).                   *)
(*                                                                         *)
(* The domain executes one thing at a time, given by mode and thd: thread  *)
(* code with activations on, where the handler may cut in; a critical      *)
(* section of thread thd, the handler or the thread scheduler, all with    *)
(* activations off.  Deliveries and the Plumber interleave with all of     *)
(* them.  The order of the run queue is left open.                         *)
(***************************************************************************)
EXTENDS Integers, Sequences, FiniteSets, SequencesExt

CONSTANTS
    Threads,       \* threads that use the count
    NoThread,      \* the run queue is empty
    Timed,         \* threads that call AwaitUntil; the others call Await
    Maskers,       \* threads that call MaskEvent and UnmaskEvent
    Blankers,      \* threads that call MaskEvents and UnmaskEvents
    Kinds,         \* what the count may be: "channel" or "local"
    Closing,       \* how the peer ends: "never", "destroy" or "close"
    Words,         \* 2^w for an Event_Val of w bits
    Top,           \* bound: the count stops here; none if Top >= Words
    MaxStep,       \* bound on one increment
    MaxAhead,      \* bound on how far above the count a thread waits, by kind
    Window         \* bound: how far the channel may run ahead of a value
                   \* it is compared with

Vals     == 0 .. (Words - 1)
States   == {"Connected", "Dead"}
Endpoint == [val : Vals, ack : Vals, state : States, peer : BOOLEAN]
Modes    == {"on", "cs", "handler", "sched"}
PCs      == {"run", "enter", "query", "yielded", "ack", "blocked", "woken",
             "attach", "unmask"}
Closings == {"never", "destroy", "close"}

ASSUME ThreadAssumption ==
    /\ Threads # {} /\ IsFiniteSet(Threads) /\ NoThread \notin Threads
    /\ Timed \subseteq Threads /\ Maskers \subseteq Threads
    /\ Blankers \subseteq Threads
    /\ Kinds \subseteq {"channel", "local"} /\ Closing \in Closings
ASSUME ValueAssumption ==
    /\ Words \in Nat \ {0} /\ Words % 2 = 0 /\ Top \in Nat
    /\ MaxStep \in Nat \ {0} /\ MaxAhead \in [Kinds -> Nat \ {0}] /\ Window \in Nat
    \* the assumption of ecs.h:32-34
    /\ \A k \in Kinds : /\ 2 * (Window + MaxAhead[k]) < Words
                        /\ MaxStep + Window + MaxAhead[k] < Words

VARIABLES
    sent,          \* the TX end's count: the value of the last event
    chan,          \* the RX endpoint: ep_ro and ep_rw of the dcb
    fifo,          \* how often the endpoint is in the event FIFO of the dcb
    plumb,         \* how far the Plumber is with Disconnect
    kind,          \* what the count is for, chosen once
    cnt,           \* ect->val
    hooked,        \* ect->ep # NULL_EP, and ECNotify is attached
    waitq,         \* ect->wait_queue
    timeq,         \* evt_st->time_queue
    timeouts,      \* ActivationF's time_queue
    masked,        \* attachment_t.masked
    pending,       \* attachment_t.pending
    emasked,       \* ActivationF_st.emasked
    mode,          \* what the domain executes
    thd,           \* the current thread
    pc,            \* where each thread is
    want,          \* qlink.waitVal, or val of Await
    due,           \* threads whose until has passed
    seen           \* what QueryChannel returned to each thread, [v, st]

kernelVars == <<kind, sent, chan, fifo, plumb>>
countVars  == <<cnt, waitq, timeq, timeouts>>
maskVars   == <<masked, pending, emasked>>
cpuVars    == <<mode, thd>>
vars == <<kernelVars, countVars, hooked, maskVars, cpuVars, pc, want, due,
          seen>>

-----------------------------------------------------------------------------
(* Values wrap around (ecs.h).                                             *)

Plus(x, k)  == (x + k) % Words
EC_LE(x, y) == (x - y) % Words \in {0} \cup (Words \div 2) .. (Words - 1)
EC_GT(x, y) == ~EC_LE(x, y)

\* The values the channel's is compared with.
Compared == {cnt} \cup {want[t] : t \in {u \in Threads :
                            pc[u] \notin {"run", "woken", "unmask", "attach"}}}
InWindow(v) == \A x \in Compared : \/ (v - x) % Words <= Window
                                   \/ (x - v) % Words <= MaxAhead[kind]

Waiters == {waitq[i] : i \in DOMAIN waitq}

\* Mutant for NoneOverdue: a thread is put at the end of the queue.
BehindAll(t, q) == DOMAIN q

(* Block puts a thread behind those that wait for no more than it does,    *)
(* compared as unsigned words.                                             *)
Behind(t, q) == {i \in DOMAIN q : \A j \in 1 .. i : want[q[j]] <= want[t]}
InsertInto(q, t) == InsertAt(q, Cardinality(Behind(t, q)) + 1, t)

(* What is left of a queue without the threads of S, in its order.         *)
Without(q, S) ==
    LET kept == {i \in DOMAIN q : q[i] \notin S}
    IN  [n \in 1 .. Cardinality(kept) |->
             q[CHOOSE i \in kept : Cardinality(kept \cap 1 .. i) = n]]

\* Mutant for EventsWake: a thread that waits for the very value stays.
ReleasedBelow(c) ==
    {waitq[i] : i \in {k \in DOMAIN waitq :
                           \A j \in 1 .. k : EC_GT(c, want[waitq[j]])}}

(* RealUnblockEvent takes threads from the head of the queue.              *)
Released(c) ==
    {waitq[i] : i \in {k \in DOMAIN waitq :
                           \A j \in 1 .. k : EC_LE(want[waitq[j]], c)}}

\* CheckTimeouts and TimeNotify: those whose time has come.
Expired == timeouts \cap due

\* Mutant for SleepersQueued: the timeout of a thread released by an event
\* is left behind.
CancelledNone(gone) == {}

\* ActivationF$DelTimeout for threads released by an event.
Cancelled(gone) == gone

\* Mutant for TypeOK: whoever blocks gets a timeout, until or no until.
RequeueTimed(gone, late, stay) ==
    /\ waitq' = LET q == Without(waitq, gone \cup late)
                IN  IF stay = {} THEN q
                    ELSE InsertInto(q, CHOOSE t \in stay : TRUE)
    /\ timeq' = (timeq \ (gone \cup late)) \cup stay
    /\ timeouts' = (timeouts \ (Cancelled(gone) \cup late)) \cup stay

(* The threads of gone are released by an event, those of late by a        *)
(* timeout; those of stay (one at most) block.                             *)
Requeue(gone, late, stay) ==
    /\ waitq' = LET q == Without(waitq, gone \cup late)
                IN  IF stay = {} THEN q
                    ELSE InsertInto(q, CHOOSE t \in stay : TRUE)
    /\ timeq' = (timeq \ (gone \cup late)) \cup (stay \cap Timed)
    /\ timeouts' = (timeouts \ (Cancelled(gone) \cup late))
                       \cup (stay \cap Timed)

\* LEAVE and LeaveCS: activations come on, and RFA if an event is pending.
Left == IF fifo > 0 THEN "handler" ELSE "on"

Running(t) == mode = "on" /\ thd = t
Inside(t)  == mode = "cs" /\ thd = t

-----------------------------------------------------------------------------
Init ==
    /\ kind \in Kinds /\ sent = 0
    /\ chan = [val |-> 0, ack |-> 0, state |-> "Connected", peer |-> TRUE]
    /\ fifo = 0 /\ plumb = "idle"
    /\ cnt = 0 /\ hooked = FALSE /\ waitq = <<>>
    /\ timeq = {} /\ timeouts = {}
    /\ masked = FALSE /\ pending = FALSE /\ emasked = FALSE
    /\ mode = "on" /\ thd \in Threads
    /\ pc = [t \in Threads |-> "run"]
    /\ want = [t \in Threads |-> 0]
    /\ due = {}
    /\ seen = [t \in Threads |-> [v |-> 0, st |-> "Connected"]]

(* ------------------------------ the kernel ---------------------------- *)

\* Mutant for FifoBound: every event lists the endpoint.
ListedAlways == fifo + 1

\* k_send: the endpoint is listed when it goes from not pending to pending.
Listed == IF chan.val = chan.ack THEN fifo + 1 ELSE fifo

(* An event is delivered.  A destroyed peer has been stopped by the time   *)
(* its channels are closed; one that closes them itself can still send     *)
(* until its own end is closed.                                            *)
Send(k) ==
    /\ kind = "channel"
    /\ plumb = "idle" \/ (Closing = "close" /\ plumb # "done")
    /\ Top >= Words \/ sent + k <= Top
    /\ InWindow(Plus(sent, k))
    /\ sent' = Plus(sent, k)
    /\ fifo' = Listed
    /\ chan' = [chan EXCEPT !.val = sent']
    /\ UNCHANGED <<kind, plumb, countVars, hooked, maskVars, cpuVars, pc, want,
                   due, seen>>

(* ------------------------------ the Plumber --------------------------- *)

(* Disconnect of the TX end, from the system domain, with interrupts on.   *)
Plumb(from, to, ep, f) ==
    /\ kind = "channel" /\ Closing # "never"
    /\ plumb = from /\ plumb' = to
    /\ chan' = ep /\ fifo' = f
    /\ UNCHANGED <<kind, sent, countVars, hooked, maskVars, cpuVars, pc, want,
                   due, seen>>

ClearPeer == Plumb("idle", "cleared", [chan EXCEPT !.peer = FALSE, !.val = 0],
                   fifo)

\* Mutant for EnlistedWhenDead: the acknowledgement is not reset.
MarkDeadOnly == Plumb("cleared", "dead", [chan EXCEPT !.state = "Dead"], fifo)

MarkDead  == Plumb("cleared", "dead", [chan EXCEPT !.ack = 0, !.state = "Dead"],
                   fifo)
Kick      == Plumb("dead", "kicked", chan, Listed)
CloseTX   == Plumb("kicked", "done", chan, fifo)

(* ------------------------- the activation handler --------------------- *)

(* The domain is given the processor with activations on.                  *)
Activate ==
    /\ mode = "on" /\ mode' = "handler"
    /\ UNCHANGED <<kernelVars, countVars, hooked, maskVars, thd, pc, want, due,
                   seen>>

\* Mutant for WakesOnClose: the state of the channel is not looked at.
NotifiedAlive(v, st) == Released(v)

(* ECNotify: the threads it releases.                                      *)
Notified(v, st) == IF st = "Dead" THEN Waiters ELSE Released(v)
Notify(v, st) ==
    /\ cnt' = IF st = "Dead" THEN cnt ELSE v
    /\ Requeue(Notified(v, st), {}, {})
    /\ pc' = [t \in Threads |->
                  IF t \in Notified(v, st) THEN "woken" ELSE pc[t]]

(* CheckEvents: one turn of its loop, with VP$NextEvent.                   *)
TakeEvent ==
    /\ mode = "handler" /\ ~emasked /\ fifo > 0
    /\ fifo' = fifo - 1
    /\ \/ ~hooked /\ UNCHANGED <<countVars, pending, pc>>
       \/ hooked /\ masked /\ pending' = TRUE /\ UNCHANGED <<countVars, pc>>
       \/ hooked /\ ~masked /\ Notify(chan.val, chan.state)
          /\ UNCHANGED pending
    /\ UNCHANGED <<kind, sent, chan, plumb, hooked, masked, emasked, cpuVars,
                   want, due, seen>>

(* CheckTimeouts, then on to the thread scheduler.                         *)
RunTimeouts ==
    /\ Requeue({}, Expired, {})
    /\ pc' = [t \in Threads |-> IF t \in Expired THEN "woken" ELSE pc[t]]

HandlerDone ==
    /\ mode = "handler" /\ (emasked \/ fifo = 0)
    /\ mode' = "sched"
    /\ RunTimeouts
    /\ UNCHANGED <<kernelVars, cnt, hooked, maskVars, thd, want, due, seen>>

(* --------------------------- the thread scheduler --------------------- *)

(* RunNext: a thread that lost the processor involuntarily is resumed by   *)
(* RFAResume, which activates again if an event is pending.  One that      *)
(* yielded resumes with activations off: in the loop of AwaitUntil, or at  *)
(* the end of Block, to leave the critical section.                        *)
Resume(t) ==
    /\ mode = "sched" /\ pc[t] # "blocked"
    /\ thd' = t
    /\ IF pc[t] = "yielded"
       THEN mode' = "cs" /\ pc' = [pc EXCEPT ![t] = "ack"]
       ELSE mode' = Left
            /\ pc' = [pc EXCEPT ![t] = IF @ = "woken" THEN "run" ELSE @]
    /\ UNCHANGED <<kernelVars, countVars, hooked, maskVars, want, due, seen>>

(* Reactivate: look once more, else RFABlock.                              *)
Reactivate ==
    /\ mode = "sched" /\ \A t \in Threads : pc[t] = "blocked"
    /\ IF fifo > 0 THEN mode' = "handler"
       ELSE mode' = IF Expired = {} THEN "on" ELSE "sched"
    /\ IF fifo > 0 \/ Expired = {} THEN UNCHANGED <<waitq, timeq, timeouts, pc>>
       ELSE RunTimeouts
    /\ thd' = NoThread
    /\ UNCHANGED <<kernelVars, cnt, hooked, maskVars, want, due, seen>>

(* -------------------------------- Await ------------------------------- *)

(* A thread calls Await or AwaitUntil for a value it does not see reached. *)
Await(t, k) ==
    /\ Running(t) /\ pc[t] = "run"
    /\ want' = [want EXCEPT ![t] = Plus(cnt, k)]
    /\ due' = due \ {t}
    /\ pc' = [pc EXCEPT ![t] = "enter"]
    /\ UNCHANGED <<kernelVars, countVars, hooked, maskVars, cpuVars, seen>>

EnterCS(t) ==
    /\ Running(t) /\ pc[t] = "enter"
    /\ mode' = "cs"
    /\ pc' = [pc EXCEPT ![t] = "query"]
    /\ UNCHANGED <<kernelVars, countVars, hooked, maskVars, thd, want, due,
                   seen>>

\* until has passed.
Late(t) == t \in Timed /\ t \in due

(* The end of Await, which found the value v: bring the count up to it,    *)
(* then block if it is too low.  AddTimeout runs what timeouts are due.    *)
Conclude(t, v) ==
    LET stay == IF EC_GT(want[t], v) /\ ~Late(t) THEN {t} ELSE {}
        gone == IF hooked THEN Released(v) ELSE {}
        late == IF stay \cap Timed = {} THEN {} ELSE Expired \ gone
    IN  /\ cnt' = v
        /\ Requeue(gone, late, stay)
        /\ pc' = [u \in Threads |-> IF u \in stay THEN "blocked"
                                    ELSE IF u = t THEN "run"
                                    ELSE IF u \in gone \cup late THEN "woken"
                                    ELSE pc[u]]
        /\ mode' = IF stay = {} THEN Left ELSE "sched"

\* Mutant for NoLostEvent: the value is taken at once, never acknowledged.
SettledAtOnce(t) == TRUE

(* One turn of the loop that reads the channel's value and its             *)
(* acknowledgement.  A local count has no loop.                            *)
Settled(t) == \/ EC_GT(chan.val, want[t]) \/ chan.val = chan.ack \/ Late(t)

Query(t) ==
    /\ Inside(t) /\ pc[t] = "query"
    /\ IF ~hooked
       THEN Conclude(t, cnt) /\ UNCHANGED seen
       ELSE IF Settled(t)
       THEN Conclude(t, chan.val) /\ UNCHANGED seen
       ELSE /\ seen' = [seen EXCEPT ![t].v = chan.val]
            /\ IF t \in Timed
               THEN mode' = "sched" /\ pc' = [pc EXCEPT ![t] = "yielded"]
               ELSE mode' = mode /\ pc' = [pc EXCEPT ![t] = "ack"]
            /\ UNCHANGED countVars
    /\ UNCHANGED <<kernelVars, hooked, maskVars, thd, want, due>>

(* VP$Ack with the value read above.                                       *)
Ack(t) ==
    /\ Inside(t) /\ pc[t] = "ack"
    /\ chan' = [chan EXCEPT !.ack = seen[t].v]
    /\ pc' = [pc EXCEPT ![t] = "query"]
    /\ UNCHANGED <<kind, sent, fifo, plumb, countVars, hooked, maskVars,
                   cpuVars, want, due, seen>>

\* Time passes a thread's until.
Expire(t) ==
    /\ t \in Timed \ due /\ pc[t] \notin {"run", "woken"}
    /\ due' = due \cup {t}
    /\ UNCHANGED <<kernelVars, countVars, hooked, maskVars, cpuVars, pc, want,
                   seen>>

(* --------------------------- other operations ------------------------- *)

(* Read of a count on a channel polls it, and wakes nobody.                *)
Read(t) ==
    /\ Running(t) /\ pc[t] = "run" /\ hooked
    /\ cnt' = chan.val
    /\ UNCHANGED <<kernelVars, waitq, timeq, timeouts, hooked, maskVars,
                   cpuVars, pc, want, due, seen>>

(* Advance of a local count, by a thread or by some handler of the domain. *)
Advance(k) ==
    /\ kind = "local"
    /\ \/ mode = "handler" /\ mode' = mode
       \/ \E t \in Threads : Running(t) /\ pc[t] = "run" /\ mode' = Left
    /\ Top >= Words \/ cnt + k <= Top
    /\ InWindow(Plus(cnt, k))
    /\ Notify(Plus(cnt, k), "Connected")
    /\ UNCHANGED <<kernelVars, hooked, maskVars, thd, want, due, seen>>

(* Attach an RX endpoint: query it, put ECNotify on it and take its value. *)
Attach(t) ==
    /\ Running(t) /\ pc[t] = "run" /\ kind = "channel" /\ ~hooked
    /\ chan.state = "Connected" /\ chan.peer
    /\ \A u \in Threads : pc[u] # "attach"
    /\ mode' = "cs" /\ pc' = [pc EXCEPT ![t] = "attach"]
    /\ seen' = [seen EXCEPT ![t].v = chan.val]
    /\ UNCHANGED <<kernelVars, countVars, hooked, maskVars, thd, want, due>>

AttachDone(t) ==
    LET gone == Released(seen[t].v)
    IN  /\ Inside(t) /\ pc[t] = "attach"
        /\ hooked' = TRUE /\ masked' = FALSE
        /\ cnt' = seen[t].v
        /\ Requeue(gone, {}, {})
        /\ pc' = [u \in Threads |-> IF u = t THEN "run"
                                    ELSE IF u \in gone THEN "woken" ELSE pc[u]]
        /\ mode' = Left
        /\ UNCHANGED <<kernelVars, pending, emasked, thd, want, due, seen>>

(* MaskEvent and UnmaskEvent.  Unmask queries the channel first, with      *)
(* activations on, and passes on what it read then.                        *)
Mask(t) ==
    /\ Running(t) /\ pc[t] = "run" /\ t \in Maskers /\ hooked
    /\ masked' = TRUE /\ mode' = Left
    /\ UNCHANGED <<kernelVars, countVars, hooked, pending, emasked, thd, pc,
                   want, due, seen>>

Unmask(t) ==
    /\ Running(t) /\ pc[t] = "run" /\ t \in Maskers /\ hooked
    /\ seen' = [seen EXCEPT ![t] =
                    [v |-> chan.val,
                     st |-> IF chan.peer THEN chan.state ELSE "Dead"]]
    /\ pc' = [pc EXCEPT ![t] = "unmask"]
    /\ UNCHANGED <<kernelVars, countVars, hooked, maskVars, cpuVars, want, due>>

\* Mutant for Monotone: notified whether or not an event was held back.
ToldAnyway == ~emasked

\* The notification that Unmask makes up for.
Told == masked /\ pending /\ ~emasked

UnmaskDone(t) ==
    LET told == Told
        gone == IF told THEN Notified(seen[t].v, seen[t].st) ELSE {}
    IN  /\ Running(t) /\ pc[t] = "unmask"
        /\ masked' = FALSE
        /\ pending' = (pending /\ ~told)
        /\ cnt' = IF told /\ seen[t].st # "Dead" THEN seen[t].v ELSE cnt
        /\ Requeue(gone, {}, {})
        /\ pc' = [u \in Threads |-> IF u = t THEN "run"
                                    ELSE IF u \in gone THEN "woken" ELSE pc[u]]
        /\ mode' = Left
        /\ UNCHANGED <<kernelVars, hooked, emasked, thd, want, due, seen>>

MaskAll(t) ==
    /\ Running(t) /\ pc[t] = "run" /\ t \in Blankers /\ ~emasked
    /\ emasked' = TRUE /\ mode' = Left
    /\ UNCHANGED <<kernelVars, countVars, hooked, masked, pending, thd, pc,
                   want, due, seen>>

UnmaskAll(t) ==
    LET told == pending /\ ~masked
        st   == IF chan.peer THEN chan.state ELSE "Dead"
    IN  /\ Running(t) /\ pc[t] = "run" /\ t \in Blankers /\ emasked
        /\ emasked' = FALSE /\ pending' = (pending /\ ~told)
        /\ IF told THEN Notify(chan.val, st) ELSE UNCHANGED <<countVars, pc>>
        /\ mode' = Left
        /\ UNCHANGED <<kernelVars, hooked, masked, thd, want, due, seen>>

-----------------------------------------------------------------------------
Plumber == ClearPeer \/ MarkDead \/ Kick \/ CloseTX
Handler == TakeEvent \/ HandlerDone
Critical(t) == Query(t) \/ Ack(t) \/ AttachDone(t)
Calls(t) ==
    \/ \E k \in 1 .. MaxAhead[kind] : Await(t, k)
    \/ EnterCS(t)
    \/ Read(t)
    \/ Attach(t)
    \/ Mask(t)
    \/ Unmask(t)
    \/ UnmaskDone(t)
    \/ MaskAll(t)
    \/ UnmaskAll(t)

Next ==
    \/ \E k \in 1 .. MaxStep : Send(k) \/ Advance(k)
    \/ Plumber \/ Activate \/ Handler \/ Reactivate
    \/ \E t \in Threads : Resume(t) \/ Critical(t) \/ Calls(t) \/ Expire(t)

Spec == Init /\ [][Next]_vars

(* The domain gets the processor when an event or a timeout is pending     *)
(* (Atropos), runs its handlers and the critical sections of its threads,  *)
(* and the Plumber finishes what it began.  A thread that is not blocked   *)
(* is run again and again, as the run queue is served in turn.             *)
Fairness ==
    /\ WF_vars(MarkDead \/ Kick \/ CloseTX) /\ WF_vars(Activate)
    /\ WF_vars(Handler) /\ WF_vars(Reactivate)
    /\ \A t \in Threads : SF_vars(Resume(t)) /\ WF_vars(Critical(t))

FairSpec == Spec /\ Fairness

-----------------------------------------------------------------------------
(* Every variable has its type.                                            *)
TypeOK ==
    /\ kind \in Kinds /\ sent \in Vals /\ chan \in Endpoint /\ fifo \in Nat
    /\ plumb \in {"idle", "cleared", "dead", "kicked", "done"}
    /\ cnt \in Vals /\ hooked \in BOOLEAN /\ waitq \in Seq(Threads)
    /\ timeq \subseteq Timed /\ timeouts \subseteq Timed
    /\ masked \in BOOLEAN /\ pending \in BOOLEAN /\ emasked \in BOOLEAN
    /\ mode \in Modes /\ thd \in Threads \cup {NoThread}
    /\ pc \in [Threads -> PCs] /\ want \in [Threads -> Vals]
    /\ due \subseteq Timed /\ seen \in [Threads -> [v : Vals, st : States]]

Blocked == {t \in Threads : pc[t] = "blocked"}

(* A thread that sleeps for a value the channel has already reached is     *)
(* about to be told: the endpoint is in the FIFO, or the event is held     *)
(* back by a mask.  This is what the loop in Await establishes:            *)
(* "guaranteed that the FIFO will register the count going above that      *)
(* value" (events.c:668-670).                                              *)
NoLostEvent ==
    \A t \in Waiters :
        hooked /\ plumb = "idle" /\ EC_LE(want[t], chan.val)
            => fifo > 0 \/ pending

(* The blocked threads, the wait queue of the count and the two timeout    *)
(* queues, one in events.c and one in activations.c, agree: nobody sleeps  *)
(* where no event finds him, and no timeout is left for a thread that was  *)
(* woken by an event, whose later sleep it would cut short.                *)
SleepersQueued ==
    /\ Waiters = Blocked /\ Len(waitq) = Cardinality(Blocked)
    /\ timeq = Blocked \cap Timed
    /\ timeouts = timeq

(* An endpoint may be in the FIFO more than once: the loop in Await        *)
(* acknowledges without taking it out.  EP_FIFO_PUT does not check for     *)
(* room, so the number has to be bounded by the loop ending.               *)
FifoBound == plumb = "idle" => fifo <= MaxAhead[kind] + 2

(* No thread sleeps in the queue of a count that has reached its value,    *)
(* unless the handler is still to be run because Read was first to see the *)
(* value: RealUnblockEvent looks at the head only, and relies on Block's   *)
(* order.                                                                  *)
NoneOverdue ==
    \A t \in Waiters :
        EC_GT(want[t], cnt) \/ (hooked /\ (fifo > 0 \/ pending \/ plumb # "idle"))

(* When the Plumber closes a channel on which threads wait, the endpoint   *)
(* is put on the list of those that need attention, as VP.if:191-195       *)
(* promises; nothing else will ever wake them.                             *)
EnlistedWhenDead ==
    [][hooked /\ Waiters # {} /\ plumb = "dead" /\ plumb' = "kicked"
            => fifo' > 0]_vars

(* While its channel is open a count never goes back, although handler,    *)
(* Await, Read and the unmasking operations all store values in it that    *)
(* they read at different times.                                           *)
Monotone == [][plumb' = "idle" /\ hooked => EC_LE(cnt, cnt')]_cnt

\* A thread that waits with its events not masked.
Exposed(t) == t \in Waiters /\ hooked /\ ~masked /\ ~emasked

(* A thread that waits for a value the channel has reached wakes, unless   *)
(* its events are masked.                                                  *)
EventsWake ==
    \A t \in Threads :
        (Exposed(t) /\ plumb = "idle" /\ EC_LE(want[t], chan.val))
            ~> t \notin Waiters

(* A thread that waits on a channel while it is closed wakes, unless its   *)
(* events are masked.                                                      *)
WakesOnClose ==
    \A t \in Threads :
        (Exposed(t) /\ plumb = "cleared") ~> t \notin Waiters

=============================================================================
