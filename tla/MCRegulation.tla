---------------------------- MODULE MCRegulation ----------------------------
(* Instances of Regulation for TLC. *)
EXTENDS Regulation

CONSTANTS c1, c2, cl1

OneCluster == [c \in Core |-> cl1]
FirstLeads == [k \in Cluster |-> c1]
NoGpu == [k \in Cluster |-> NoCore]
GpuOnSecond == [k \in Cluster |-> c2]
BudgetOfOne == [k \in Cluster |-> 1]
=============================================================================
