---------------------------- MODULE MCModuleLoad ----------------------------
(* Four of eight cores online; a second of 60, a megabyte of 32 bytes.     *)
EXTENDS ModuleLoad

ThreeOfCl1 == {0, 1, 3}
FourOfEight == {0, 1, 3, 7}

Line(T_R, T_A, cl1, cl2, core1, core2, logging) ==
    [g_regulation_period_us |-> T_R, g_aggregation_period_us |-> T_A,
     bandwidth_budget |-> [k \in Clusters |-> IF k = "cl1" THEN cl1 ELSE cl2],
     profiling_core |-> [k \in Clusters |-> IF k = "cl1" THEN core1 ELSE core2],
     g_logging |-> logging]

InsmodLines ==
    { Line(20, 6, 10, 5, 3, 7, FALSE),   \* as documented
      Line(40, 20, 10, 0, -1, -1, TRUE), \* no GPU, logging; 40 does not divide 60
      Line(60, 60, 20, 10, 7, 7, FALSE), \* a whole second; one core for both
      Line(7, 3, 3, 1, 8, -1, FALSE),    \* core 8 is accepted, and is not there
      Line(20, 250, 1, 1, -1, -1, FALSE),  \* ceiling overflows its int
      Line(20, 0, 1, 1, -1, -1, FALSE),
      Line(0, 5, 1, 1, -1, -1, FALSE),
      Line(61, 5, 1, 1, -1, -1, FALSE),
      Line(-1, 5, 1, 1, -1, -1, FALSE),
      Line(20, 5, 1, 1, -2, 7, FALSE),
      Line(20, 5, 1, 1, 3, 9, FALSE) }
=============================================================================
