---------------------------- MODULE PeriodClock -----------------------------
(***************************************************************************)
(* What the shared period count of cl_mem_reg.c promises, without timers   *)
(* or atomics: every core moves through the aggregation periods in order,  *)
(* entering one only while no other core is more than Slack + 1 periods    *)
(* behind it.  With Slack = 0 the cores march in lock step and none of     *)
(* them passes over a period.                                              *)
(***************************************************************************)
EXTENDS Naturals

CONSTANTS Core, Slack

VARIABLE period

Init == period = [c \in Core |-> 0]

Enter(c, n) ==
    /\ n \in period[c] + 1 .. period[c] + Slack + 1
    /\ \A d \in Core : n <= period[d] + Slack + 1
    /\ period' = [period EXCEPT ![c] = n]

Next == \E c \in Core : \E n \in period[c] + 1 .. period[c] + Slack + 1 : Enter(c, n)

Spec == Init /\ [][Next]_period
=============================================================================
