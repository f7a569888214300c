--------------------------- MODULE OnePlaceBuffer ---------------------------
(***************************************************************************)
(* What the GPU beats mailbox promises: a sample is put into an empty      *)
(* place, never a second time, and taken out once, so every sample put is  *)
(* taken exactly once and in order.                                        *)
(***************************************************************************)
EXTENDS Naturals, Sequences

CONSTANTS Item, Empty

VARIABLES place, put, taken

vars == <<place, put, taken>>

Init == place = Empty /\ put = <<>> /\ taken = <<>>

Put(i) ==
    /\ place = Empty
    /\ \A n \in 1..Len(put) : put[n] # i
    /\ place' = i
    /\ put' = Append(put, i)
    /\ UNCHANGED taken

Take ==
    /\ place # Empty
    /\ taken' = Append(taken, place)
    /\ place' = Empty
    /\ UNCHANGED put

Next == Take \/ \E i \in Item : Put(i)

Spec == Init /\ [][Next]_vars
=============================================================================
