----------------------------- MODULE MCAtropos -----------------------------
(* Instances of Atropos small enough for TLC.                               *)
EXTENDS Atropos

CONSTANTS nem, a, b

C(p, s, l, x) == [p |-> p, s |-> s, l |-> l, x |-> x]

\* Two contracts and a domain that lives on extra time; nem never does.
QueueQoS == [d \in {nem, a, b} |->
               CASE d = nem -> {C(3, 1, 3, FALSE)}
                 [] d = a   -> {C(2, 1, 1, TRUE)}
                 [] d = b   -> {C(2, 0, 2, TRUE)}]
\* Contracts that fill the processor: 1/2 + 1/4 + 1/4.
FullQoS == [d \in {nem, a, b} |->
              CASE d = nem -> {C(4, 2, 4, TRUE)}
                [] d = a   -> {C(4, 1, 4, FALSE)}
                [] d = b   -> {C(4, 1, 4, TRUE)}]
\* Contracts longer than a tick, changed while they run.
TunedQoS == [d \in {nem, a} |->
               CASE d = nem -> {C(4, 1, 4, TRUE)}
                 [] d = a   -> {C(5, 3, 4, TRUE), C(4, 1, 2, FALSE)}]
\* Two contracts whose periods drift past each other, not needing all the time.
LiveQoS == [d \in {nem, a} |-> IF d = nem THEN {C(2, 1, 2, TRUE)}
                               ELSE {C(3, 1, 2, FALSE)}]
\* What the future depends on.  Left out: the sdom of a domain the scheduler
\* does not know, the timeout field of a domain that is not asleep nor about to
\* be, and the schst values that nothing but a debugger reads.
LiveSD(d) == IF ~Known(d) THEN <<>>
             ELSE IF sd[d].state = "block" \/ (schst[d] = "BLOCK" /\ Running(d))
                  THEN sd[d]
             ELSE [sd[d] EXCEPT !.timeout = 0]
LiveSt(d) == IF schst[d] \in {"RUN", "WAIT", "YIELD"}
                \/ (schst[d] = "BLOCK" /\ ~Running(d))
             THEN "RUN" ELSE schst[d]
LiveState ==
    <<pc, cur, ran, alarm, queues, domq,
      [d \in Dom |-> LiveSt(d)], [d \in Dom |-> LiveSD(d)], pending, outevs,
      setqos,
      [d \in Dom |-> IF Known(d) THEN due[d] ELSE 0]>>
============================================================================
