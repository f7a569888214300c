------------------------------ MODULE MCUnload ------------------------------
EXTENDS Unload

TwoCores == {0, 1}
ThreeCores == {0, 1, 2}

OneCluster == [c \in Core |-> 1]
CoreZeroLeads == [k \in Cluster |-> 0]
NoReceiver == [k \in Cluster |-> NoCore]
ReceiverOnCoreOne == [k \in Cluster |-> 1]
=============================================================================
