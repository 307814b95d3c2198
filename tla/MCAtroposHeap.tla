--------------------------- MODULE MCAtroposHeap ---------------------------
(* Instances of AtroposHeap small enough for TLC.                           *)
EXTENDS AtroposHeap

CONSTANTS nem, a, b

C(p, s, l, x) == [p |-> p, s |-> s, l |-> l, x |-> x]

\* The system domain keeps to its guaranteed time.
StopQoS == [d \in {nem, a, b} |->
              CASE d = nem -> {C(2, 1, 2, FALSE)}
                [] d = a   -> {C(2, 1, 1, TRUE)}
                [] d = b   -> {C(1, 0, 1, TRUE)}]
\* As glue/packages/ccore.py configures it: a short slice and extra time.
ExtraQoS == [d \in {nem, a, b} |->
               CASE d = nem -> {C(2, 1, 2, TRUE)}
                 [] d = a   -> {C(2, 1, 1, TRUE)}
                 [] d = b   -> {C(2, 0, 2, TRUE)}]

\* Slots in use and the slot next_optm names; the rest is as in MCAtropos.
InUse(k) == [i \in 1..pq[k].n |-> pq[k].q[i]]
LiveSD(d) == IF ~A!Known(d) THEN <<>>
             ELSE IF sd[d].state = "block" \/ (schst[d] = "BLOCK" /\ A!Running(d))
                  THEN sd[d]
             ELSE [sd[d] EXCEPT !.timeout = 0]
LiveSt(d) == IF schst[d] \in {"RUN", "WAIT", "YIELD"}
                \/ (schst[d] = "BLOCK" /\ ~A!Running(d))
             THEN "RUN" ELSE schst[d]
LiveState ==
    <<InUse("run"), InUse("wait"), InUse("blocked"), next_optm, pc, cur, ran,
      alarm, domq, [d \in Dom |-> LiveSt(d)], [d \in Dom |-> LiveSD(d)],
      pending, outevs, setqos, [d \in Dom |-> IF A!Known(d) THEN pq.ix[d] ELSE 0],
      [d \in Dom |-> IF A!Known(d) THEN due[d] ELSE 0]>>
============================================================================
