----------------------------- MODULE RemoteCall -----------------------------
(***************************************************************************)
(* What a call to another domain promises its caller: it is executed once, *)
(* after it was made and before it returns, and it is its own results that *)
(* it returns (sys/interfaces/idc/IDCClientBinding.if,                     *)
(* IDCServerBinding.if).                                                   *)
(***************************************************************************)
CONSTANTS Clients, Nobody

VARIABLES
    phase,         \* of the call of each thread: "idle", "called", "done"
    answer         \* whose results each thread last got

Init == /\ phase = [c \in Clients |-> "idle"]
        /\ answer = [c \in Clients |-> Nobody]

Goes(c, from, to) == phase[c] = from /\ phase' = [phase EXCEPT ![c] = to]

Call(c)    == Goes(c, "idle", "called") /\ UNCHANGED answer
Execute(c) == Goes(c, "called", "done") /\ UNCHANGED answer
Return(c)  == Goes(c, "done", "idle") /\ answer' = [answer EXCEPT ![c] = c]

Next == \E c \in Clients : Call(c) \/ Execute(c) \/ Return(c)

Spec == Init /\ [][Next]_<<phase, answer>>
=============================================================================
