---------------------------- MODULE ShmTransport ----------------------------
(***************************************************************************)
(* Calls between domains by shared memory (mod/nemesis/idc/ShmTransport.c, *)
(* with the stubs of mod/nemesis/sgen/engine.c): the threads of a client   *)
(* share a binding, its buffers and its mutex; the server's threads serve  *)
(* bindings through an entry.  The bindings to the Binder itself           *)
(* (sys/domains/Binder.c) work alike.                                      *)
(***************************************************************************)
EXTENDS Entry

CONSTANTS
    Clients,       \* client threads
    BindingOf,     \* the binding each one uses
    Nobody,        \* nobody holds a mutex; nothing is in a buffer
    Settled,       \* a client closes a binding only when the server has come
                   \* to rest on it
    MaxCalls       \* bound on the calls each thread makes

ASSUME ShmAssumption ==
    /\ BindingOf \in [Clients -> Bindings] /\ Nobody \notin Clients
    /\ Settled \in BOOLEAN /\ MaxCalls \in [Clients -> Nat]

VARIABLES
    cpc,           \* where each client thread is
    calls,         \* how many calls it made
    result,        \* whose reply it read
    mu,            \* who holds conn->mu
    ccall,         \* the client's conn->call
    replies,       \* the value of the client's receiving endpoint
    alive,         \* the client's transmitting and the server's transmitting
                   \* end are connected: "both", "closing", "none"
    call,          \* the server's conn->call
    request,       \* the client's transmit buffer
    reply,         \* the server's transmit buffer
    executed       \* history: calls executed for each client thread

clientVars == <<cpc, calls, result, mu, ccall, alive>>
bufferVars == <<replies, call, request, reply, executed>>
vars == <<entryVars, ep, clientVars, bufferVars>>

Init ==
    /\ EntryInit
    /\ cpc = [c \in Clients |-> "out"]
    /\ calls = [c \in Clients |-> 0] /\ executed = [c \in Clients |-> 0]
    /\ result = [c \in Clients |-> Nobody]
    /\ mu = [b \in Bindings |-> Nobody] /\ alive = [b \in Bindings |-> "none"]
    /\ ccall = [b \in Bindings |-> 0] /\ call = [b \in Bindings |-> 0]
    /\ replies = [b \in Bindings |-> 0]
    /\ request = [b \in Bindings |-> Nobody]
    /\ reply = [b \in Bindings |-> Nobody]

(* ------------------------------- client ------------------------------- *)

(* Offer's Bind, with the server's ServiceBind.                            *)
Open(b) ==
    /\ alive[b] = "none" /\ ~ep[b].dead
    /\ Bind(b)
    /\ alive' = [alive EXCEPT ![b] = "both"]
    /\ UNCHANGED <<ep, cpc, calls, result, mu, ccall, bufferVars>>

Goes(c, from, to) == cpc[c] = from /\ cpc' = [cpc EXCEPT ![c] = to]

\* Mutant for CallsImplemented: threads do not wait for each other.
AnyTurn(c) == TRUE

\* InitCall takes the mutex of the connection.
MyTurn(c) == mu[BindingOf[c]] = Nobody

InitCall(c) ==
    LET b == BindingOf[c] IN
    /\ Goes(c, "out", "marshal") /\ calls[c] < MaxCalls[c] /\ alive[b] = "both"
    /\ MyTurn(c)
    /\ mu' = [mu EXCEPT ![b] = c]
    /\ calls' = [calls EXCEPT ![c] = @ + 1]
    /\ UNCHANGED <<entryVars, ep, result, ccall, alive, bufferVars>>

\* The arguments go into the buffer, and the event is sent.
SendCall(c) ==
    LET b == BindingOf[c] IN
    /\ Goes(c, "marshal", "sent")
    /\ request' = [request EXCEPT ![b] = c]
    /\ ep' = [ep EXCEPT ![b] = Sent(@)]
    /\ UNCHANGED <<entryVars, calls, result, mu, ccall, alive, replies, call,
                   reply, executed>>

ReceiveReply(c) ==
    LET b == BindingOf[c] IN
    /\ Goes(c, "sent", "received") /\ replies[b] > ccall[b]
    /\ ccall' = [ccall EXCEPT ![b] = replies[b]]
    /\ UNCHANGED <<entryVars, ep, calls, result, mu, alive, bufferVars>>

\* The results are read, and the buffers given back.
AckReceive(c) ==
    LET b == BindingOf[c] IN
    /\ Goes(c, "received", "out")
    /\ result' = [result EXCEPT ![c] = reply[b]]
    /\ mu' = [mu EXCEPT ![b] = Nobody]
    /\ UNCHANGED <<entryVars, ep, calls, ccall, alive, bufferVars>>

AtRest(b) == /\ estate[b] = "Idle" /\ ep[b].listed = 0
             /\ \A s \in Servers : todo[s] # b

(* CltDestroy, when no thread uses the binding: the Binder disconnects the *)
(* receiving end, then the transmitting one.                               *)
CloseRx(b) ==
    /\ alive[b] = "both" /\ mu[b] = Nobody
    /\ Settled => AtRest(b)
    /\ alive' = [alive EXCEPT ![b] = "closing"]
    /\ replies' = [replies EXCEPT ![b] = 0]
    /\ UNCHANGED <<entryVars, ep, cpc, calls, result, mu, ccall, call, request,
                   reply, executed>>

CloseTx(b) ==
    /\ alive[b] = "closing"
    /\ alive' = [alive EXCEPT ![b] = "none"]
    /\ ep' = [ep EXCEPT ![b] = Closed(@)]
    /\ UNCHANGED <<entryVars, cpc, calls, result, mu, ccall, bufferVars>>

(* ------------------------------- server ------------------------------- *)

\* Mutant for CallsReturn: off by one, the last call is not received.
NewCallAfter(b) == call[b] + 1 < ep[b].val

\* SvrReceiveCall: a call has come that was not received yet.
NewCall(b) == call[b] < ep[b].val

(* The dispatch loop: ReceiveCall, and the operation.                      *)
Receive(s) ==
    LET b == todo[s] IN
    /\ at[s] = "dispatch"
    /\ IF NewCall(b)
       THEN /\ at' = [at EXCEPT ![s] = "reply"]
            /\ call' = [call EXCEPT ![b] = @ + 1]
            /\ executed' = [executed EXCEPT ![request[b]] = @ + 1]
       ELSE at' = [at EXCEPT ![s] = "ack"] /\ UNCHANGED <<call, executed>>
    /\ UNCHANGED <<pending, estate, in, out, todo, seen, wild, ep, clientVars,
                   replies, request, reply>>

(* InitReply and SendReply, or for an operation that raised an exception   *)
(* InitExcept and SendReply, which leaves the dispatch loop.  On a channel *)
(* that is closed the event raises BadState, which the stub passes on.     *)
SendReply(s) ==
    LET b == todo[s] IN
    /\ at[s] = "reply"
    /\ reply' = [reply EXCEPT ![b] = request[b]]
    /\ IF alive[b] = "both"
       THEN /\ Steps(s, "reply", "dispatch") \/ Steps(s, "reply", "ack")
            /\ replies' = [replies EXCEPT ![b] = @ + 1]
            /\ UNCHANGED <<pending, estate, in, out, todo, seen, wild, ep>>
       ELSE Abandon(s) /\ UNCHANGED replies
    /\ UNCHANGED <<clientVars, call, request, executed>>

Serve(s) ==
    \/ Rendezvous(s) /\ UNCHANGED <<clientVars, bufferVars>>
    \/ Receive(s)
    \/ SendReply(s)
    \/ Bury(s) /\ UNCHANGED <<clientVars, bufferVars>>

Notified(b) == Notify(b) /\ UNCHANGED <<clientVars, bufferVars>>

Proceed(c) == SendCall(c) \/ ReceiveReply(c) \/ AckReceive(c)

Next ==
    /\ ~wild
    /\ \/ \E b \in Bindings : Open(b) \/ CloseRx(b) \/ CloseTx(b) \/ Notified(b)
       \/ \E c \in Clients : InitCall(c) \/ Proceed(c)
       \/ \E s \in Servers : Serve(s)

Spec == Init /\ [][Next]_vars

(* Threads that can run do, handlers run, and whoever began to close a     *)
(* binding goes through with it.                                           *)
FairSpec ==
    /\ Spec
    /\ \A b \in Bindings : WF_vars(Notified(b)) /\ WF_vars(CloseTx(b))
    /\ \A c \in Clients : WF_vars(Proceed(c))
    /\ \A s \in Servers : WF_vars(Serve(s))

-----------------------------------------------------------------------------
\* Every variable has its type.
TypeOK ==
    /\ EntryTypeOK
    /\ cpc \in [Clients -> {"out", "marshal", "sent", "received"}]
    /\ calls \in [Clients -> Nat] /\ executed \in [Clients -> Nat]
    /\ \A c \in Clients : executed[c] <= calls[c] /\ calls[c] <= MaxCalls[c]
    /\ result \in [Clients -> Clients \cup {Nobody}]
    /\ mu \in [Bindings -> Clients \cup {Nobody}]
    /\ alive \in [Bindings -> {"both", "closing", "none"}]
    /\ ccall \in [Bindings -> Nat] /\ call \in [Bindings -> Nat]
    /\ replies \in [Bindings -> Nat]
    /\ request \in [Bindings -> Clients \cup {Nobody}]
    /\ reply \in [Bindings -> Clients \cup {Nobody}]

(* A call that has come and was not received is still to be noticed: its   *)
(* endpoint is in the FIFO, its binding is pending, or the thread that     *)
(* serves it will look again before it acknowledges.                       *)
NoCallLost ==
    \A b \in Bindings :
        ~ep[b].dead /\ call[b] < ep[b].val =>
            \/ ep[b].listed > 0 /\ estate[b] = "Idle"
            \/ estate[b] = "Pending"
            \/ \E s \in Servers :
                   /\ todo[s] = b
                   /\ \/ at[s] \in {"poll", "dispatch", "reply"}
                      \/ at[s] = "ack" /\ seen[s] # ep[b].val

(* A remote call, as its caller sees it.                                   *)
Phase(c) == IF cpc[c] \in {"out", "marshal"} THEN "idle"
            ELSE IF executed[c] = calls[c] THEN "done" ELSE "called"

R == INSTANCE RemoteCall WITH
         phase <- [c \in Clients |-> Phase(c)], answer <- result

(* Each call is executed once, between its sending and its return, and     *)
(* returns its own results, though buffers are shared and neither side     *)
(* looks whether they were read.                                           *)
CallsImplemented == R!Spec

(* Every call returns.                                                     *)
CallsReturn == \A c \in Clients : (cpc[c] = "sent") ~> (cpc[c] = "out")

(* A binding the client has closed is unbound and destroyed.               *)
ClosedIsBuried ==
    \A b \in Bindings : ep[b].dead ~> (estate[b] = "Unbound")
=============================================================================
