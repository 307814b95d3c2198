------------------------------- MODULE Monitor -------------------------------
(***************************************************************************)
(* What a mutex and a condition variable promise: the specification in     *)
(* sys/interfaces/central/SRCThread.if:48-158, whose WaitUntil is given    *)
(* there by the atomic actions Enqueue, Resume and TimeOut.  Two things    *)
(* the code does and the text does not say are allowed for: a signal that  *)
(* finds nobody waiting is kept for the next who waits, and with timeouts  *)
(* a signal may wake nobody.                                               *)
(***************************************************************************)
EXTENDS Naturals

CONSTANTS Thread, Nobody

VARIABLES
    m,             \* who holds the mutex
    c,             \* the threads waiting on the condition
    in,            \* the threads inside Wait or WaitUntil
    ok,            \* what WaitUntil returned to each thread
    kept,          \* signals and broadcasts kept for later waiters
    lossy          \* the threads that time out; chosen once

vars == <<m, c, in, ok, kept, lossy>>

Init ==
    /\ m = Nobody /\ c = {} /\ in = {} /\ kept = 0
    /\ ok = [t \in Thread |-> TRUE]
    /\ lossy \subseteq Thread

Lock(t)    == t \notin in /\ m = Nobody /\ m' = t
                  /\ UNCHANGED <<c, in, ok, kept, lossy>>
Release(t) == m = t /\ m' = Nobody /\ UNCHANGED <<c, in, ok, kept, lossy>>

Enqueue(t) ==
    /\ m = t /\ m' = Nobody
    /\ in' = in \cup {t}
    /\ IF kept = 0 THEN c' = c \cup {t} /\ kept' = kept
       ELSE kept' = kept - 1 /\ c' = c
    /\ UNCHANGED <<ok, lossy>>

Resume(t) ==
    /\ t \in in /\ m = Nobody /\ t \notin c
    /\ m' = t /\ in' = in \ {t} /\ ok' = [ok EXCEPT ![t] = TRUE]
    /\ UNCHANGED <<c, kept, lossy>>

TimeOut(t) ==
    /\ t \in in \cap lossy /\ m = Nobody
    /\ m' = t /\ in' = in \ {t} /\ ok' = [ok EXCEPT ![t] = FALSE]
    /\ c' = c \ {t}
    /\ UNCHANGED <<kept, lossy>>

\* One thread becomes eligible to run.
Signal ==
    /\ \/ \E t \in c : c' = c \ {t} /\ kept' = kept
       \/ c = {} /\ c' = c /\ kept' = kept + 1
       \/ lossy # {} /\ UNCHANGED <<c, kept>>
    /\ UNCHANGED <<m, in, ok, lossy>>

\* Several do; those that matter are the subject of SRCThreads!BroadcastWakes.
Broadcast ==
    /\ c' \subseteq c /\ kept' >= kept
    /\ kept' # kept => c' = {}
    /\ UNCHANGED <<m, in, ok, lossy>>

Next == \/ \E t \in Thread : Lock(t) \/ Release(t) \/ Enqueue(t) \/ Resume(t)
                                \/ TimeOut(t)
        \/ Signal \/ Broadcast

Spec == Init /\ [][Next]_vars
==============================================================================
