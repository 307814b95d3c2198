-------------------------------- MODULE Entry --------------------------------
(***************************************************************************)
(* An entry (mod/nemesis/entry/entry.c): bindings on which events arrive   *)
(* are queued by a notification handler and served by threads in a loop of *)
(* Rendezvous.  What is under ENTRY_Lock has activations off and is one    *)
(* step, as the handler is.  Each binding is known by its receiving        *)
(* endpoint; what a thread does in Dispatch is left to a module that       *)
(* extends this one.                                                       *)
(***************************************************************************)
EXTENDS Naturals, Sequences, FiniteSets, SequencesExt

CONSTANTS
    Bindings,      \* the bindings there may be
    Servers,       \* the threads that run Apply
    NoBinding      \* todo == NULL

ASSUME EntryAssumption == NoBinding \notin Bindings

VARIABLES
    pending,       \* st->pending
    estate,        \* b->state; "Unbound" before Bind and after Unbind
    in,            \* the event count st->events_in
    out,           \* st->events_out
    todo,          \* what each thread serves
    at,            \* where it is in Rendezvous
    seen,          \* v1 of the loop; before that, in as it read it
    wild,          \* a thread took the head of the list for a binding, or
                   \* touched one that has been freed
    ep             \* the receiving endpoints: [val, ack, listed, dead]

entryVars == <<pending, estate, in, out, todo, at, seen, wild>>

NewEp == [val |-> 0, ack |-> 0, listed |-> 0, dead |-> FALSE]

EntryInit ==
    /\ pending = <<>> /\ in = 0 /\ out = 0 /\ wild = FALSE
    /\ estate = [b \in Bindings |-> "Unbound"]
    /\ todo = [s \in Servers |-> NoBinding]
    /\ at = [s \in Servers |-> "look"]
    /\ seen = [s \in Servers |-> 0]
    /\ ep = [b \in Bindings |-> NewEp]

(* --------------------------- the endpoints ---------------------------- *)

\* k_send puts an endpoint in the FIFO if all that came is acknowledged.
Lists(e) == IF e.val = e.ack THEN 1 ELSE 0

Sent(e) == [e EXCEPT !.val = @ + 1, !.listed = @ + Lists(e)]

\* Mutant for ClosedIsBuried: nothing is sent when the other end closes.
ClosedQuietly(e) == [val |-> 0, ack |-> 0, listed |-> e.listed, dead |-> TRUE]

(* Plumber's Disconnect of the transmitting end, with its kevent.          *)
Closed(e) == [val |-> 0, ack |-> 0, listed |-> e.listed + 1, dead |-> TRUE]

(* ------------------------------ the lists ----------------------------- *)

Bind(b) ==
    /\ estate[b] = "Unbound"
    /\ estate' = [estate EXCEPT ![b] = "Idle"]
    /\ UNCHANGED <<pending, in, out, todo, at, seen, wild>>

\* The handler puts b at the end of the pending list, and advances events_in.
Queued(b, state) ==
    /\ pending' = Append(RemoveFirst(pending, b), b)
    /\ estate' = [estate EXCEPT ![b] = state]
    /\ in' = in + 1

(* Notify of the next endpoint in the FIFO.  Events for a binding that is  *)
(* not idle are left to whoever serves it.  An endpoint that is bound no   *)
(* longer has no handler.                                                  *)
Notify(b) ==
    /\ ep[b].listed > 0
    /\ ep' = [ep EXCEPT ![b].listed = @ - 1]
    /\ CASE estate[b] = "Unbound"            -> UNCHANGED <<pending, estate, in>>
         [] estate[b] # "Unbound" /\ ep[b].dead -> Queued(b, "Dead")
         [] ~ep[b].dead /\ estate[b] = "Idle" -> Queued(b, "Pending")
         [] OTHER                            -> UNCHANGED <<pending, estate, in>>
    /\ UNCHANGED <<out, todo, at, seen, wild>>

(* ----------------------------- Rendezvous ----------------------------- *)

Steps(s, from, to) == at[s] = from /\ at' = [at EXCEPT ![s] = to]

Waits(s) ==
    /\ at' = [at EXCEPT ![s] = "await"]
    /\ seen' = [seen EXCEPT ![s] = in]

\* The first look, without the lock.
Look(s) ==
    /\ at[s] = "look"
    /\ IF in > out THEN at' = [at EXCEPT ![s] = "take"] /\ UNCHANGED seen
                   ELSE Waits(s)
    /\ UNCHANGED <<pending, estate, in, out, todo, wild, ep>>

\* Mutant for OneServer: the head of the queue is not taken off it.
StaysQueued(q) == q

TakenFrom(q) == Tail(q)

\* Mutant for QueueCounted: what was seen without the lock is believed.
AsSeen == TRUE

Work == in > out

(* The second one, with it.  With in ahead of the queue it would be the    *)
(* head of the list that is taken for a binding.                           *)
Take(s) ==
    /\ at[s] = "take"
    /\ IF Work /\ pending # <<>>
       THEN LET b == Head(pending)
            IN  /\ todo' = [todo EXCEPT ![s] = b]
                /\ pending' = TakenFrom(pending)
                /\ estate' = [estate EXCEPT ![b] =
                                 IF @ = "Dead" THEN @ ELSE "Active"]
                /\ at' = [at EXCEPT ![s] =
                             IF estate[b] = "Dead" THEN "bury" ELSE "poll"]
                /\ out' = out + 1
                /\ UNCHANGED <<seen, wild>>
       ELSE /\ UNCHANGED <<todo, pending, estate, out>>
            /\ IF Work THEN wild' = TRUE /\ UNCHANGED <<at, seen>>
                       ELSE Waits(s) /\ UNCHANGED wild
    /\ UNCHANGED <<in, ep>>

\* EC_AWAIT_UNTIL returns; Apply never times out.
Wake(s) ==
    /\ Steps(s, "await", "look") /\ in > seen[s]
    /\ UNCHANGED <<pending, estate, in, out, todo, seen, wild, ep>>

\* v1 = Poll, on into Dispatch.
Poll(s) ==
    /\ Steps(s, "poll", "dispatch")
    /\ seen' = [seen EXCEPT ![s] = ep[todo[s]].val]
    /\ UNCHANGED <<pending, estate, in, out, todo, wild, ep>>

\* Mutant for NoCallLost: what came while Dispatch ran counts as seen.
SeenAfter(s) == ep[todo[s]].val

\* The value that is acknowledged is the one read before Dispatch.
SeenBefore(s) == seen[s]

(* After Dispatch: acknowledge v1; back to idle if no more has come.       *)
AckBack(s) ==
    LET b == todo[s] IN
    /\ at[s] = "ack"
    /\ ep' = [ep EXCEPT ![b].ack = SeenBefore(s)]
    /\ IF ep[b].val = SeenBefore(s)
       THEN /\ at' = [at EXCEPT ![s] = "look"]
            /\ todo' = [todo EXCEPT ![s] = NoBinding]
            /\ pending' = RemoveFirst(pending, b)
            /\ estate' = [estate EXCEPT ![b] = IF @ = "Unbound" THEN @ ELSE "Idle"]
            /\ wild' = (wild \/ estate[b] = "Unbound")
       ELSE /\ at' = [at EXCEPT ![s] = "poll"]
            /\ UNCHANGED <<todo, pending, estate, wild>>
    /\ UNCHANGED <<in, out, seen>>

(* Unbind, and the end of Rendezvous.  The server binding is destroyed.    *)
Bury(s) ==
    LET b == todo[s] IN
    /\ Steps(s, "bury", "look")
    /\ todo' = [todo EXCEPT ![s] = NoBinding]
    /\ pending' = RemoveFirst(pending, b)
    /\ estate' = [estate EXCEPT ![b] = "Unbound"]
    /\ UNCHANGED <<in, out, seen, wild, ep>>

(* An exception leaves Rendezvous: the binding stays as it is.             *)
Abandon(s) ==
    /\ todo' = [todo EXCEPT ![s] = NoBinding]
    /\ at' = [at EXCEPT ![s] = "look"]
    /\ UNCHANGED <<pending, estate, in, out, seen, wild, ep>>

Rendezvous(s) == Look(s) \/ Take(s) \/ Wake(s) \/ Poll(s) \/ AckBack(s)

-----------------------------------------------------------------------------
\* Every variable of the entry has its type.
EntryTypeOK ==
    /\ pending \in Seq(Bindings)
    /\ estate \in [Bindings -> {"Unbound", "Idle", "Pending", "Active", "Dead"}]
    /\ in \in Nat /\ out \in Nat /\ wild \in BOOLEAN
    /\ todo \in [Servers -> Bindings \cup {NoBinding}]
    /\ at \in [Servers -> {"look", "take", "await", "poll", "dispatch", "reply",
                           "ack", "bury"}]
    /\ seen \in [Servers -> Nat]
    /\ ep \in [Bindings -> [val : Nat, ack : Nat, listed : Nat, dead : BOOLEAN]]

(* The two counts say how long the queue is, which holds every pending     *)
(* binding once ("we use an event count to keep track of insertions into   *)
(* the pending queue; we also keep a count of removals", entry.c:94-98).   *)
QueueCounted ==
    /\ in - out = Len(pending) /\ ~wild
    /\ \A i, j \in DOMAIN pending : pending[i] = pending[j] => i = j
    /\ \A b \in Bindings :
          /\ estate[b] = "Pending" => b \in Range(pending)
          /\ b \in Range(pending) => estate[b] \in {"Pending", "Dead"}

(* An active binding is served by a single thread (Entry.if), which has it *)
(* to itself: nobody frees it meanwhile.                                   *)
OneServer ==
    \A b \in Bindings :
        LET serve == {s \in Servers : todo[s] = b}
        IN  /\ Cardinality(serve) <= 1
            /\ estate[b] = "Active" => serve # {}
            /\ serve # {} => estate[b] \in {"Active", "Dead"}
=============================================================================
