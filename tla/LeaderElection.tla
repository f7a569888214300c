--------------------------- MODULE LeaderElection ---------------------------
(***************************************************************************)
(* __start_counter in cl_mem_reg.c, run on every core at once by           *)
(* on_each_cpu: each core arms its timer, publishes when it did, and walks *)
(* over the cores of its cluster to find the one that did so first.  The   *)
(* cores share g_hrtimer_start, g_leader_hrtimer_start and leader_core     *)
(* without a lock: one action per access.  The two clusters run the same   *)
(* code on disjoint variables; this is one of them.  Stores are seen in    *)
(* the order they are made.                                                *)
(***************************************************************************)
EXTENDS Integers

CONSTANTS
    min_cpu, max_cpu, \* the cluster's cores, in cpu_mask
    Online,           \* those that are online, hence run __start_counter
    KTIME_MAX         \* bound on the clock; also the time of a core not started

ASSUME ElectionAssumption ==
    /\ min_cpu \in Nat
    /\ max_cpu \in Nat
    /\ min_cpu <= max_cpu
    /\ Online \subseteq min_cpu..max_cpu
    /\ KTIME_MAX \in Nat \ {0}

VARIABLES
    now,                  \* what ktime_get returns
    phase,                \* per online core: where __start_counter stands
    armed_at,             \* per online core: the time it read, not yet stored
    cpu,                  \* per online core: the loop variable
    g_hrtimer_start,      \* per core of the cluster
    leader_hrtimer_start, \* g_leader_hrtimer_start_clX
    leader_core

vars == <<now, phase, armed_at, cpu, g_hrtimer_start, leader_hrtimer_start,
          leader_core>>

NoLeader == -1
Phases == {"called", "publish", "compare", "store", "lead", "done"}

TypeOK ==
    /\ now \in 0..KTIME_MAX
    /\ phase \in [Online -> Phases]
    /\ armed_at \in [Online -> 0..KTIME_MAX]
    /\ cpu \in [Online -> min_cpu..max_cpu]
    /\ g_hrtimer_start \in [min_cpu..max_cpu -> 0..KTIME_MAX]
    /\ leader_hrtimer_start \in 0..KTIME_MAX
    /\ leader_core \in Online \union {NoLeader}

-----------------------------------------------------------------------------

Tick ==
    /\ now < KTIME_MAX - 1
    /\ now' = now + 1
    /\ UNCHANGED <<phase, armed_at, cpu, g_hrtimer_start, leader_hrtimer_start,
                   leader_core>>

(* hrtimer_start for global_info.start_time, then ktime_get. *)
ArmTimer(c) ==
    /\ phase[c] = "called"
    /\ armed_at' = [armed_at EXCEPT ![c] = now]
    /\ phase' = [phase EXCEPT ![c] = "publish"]
    /\ UNCHANGED <<now, cpu, g_hrtimer_start, leader_hrtimer_start, leader_core>>

Publish(c) ==
    /\ phase[c] = "publish"
    /\ g_hrtimer_start' = [g_hrtimer_start EXCEPT ![c] = armed_at[c]]
    /\ phase' = [phase EXCEPT ![c] = "compare"]
    /\ UNCHANGED <<now, armed_at, cpu, leader_hrtimer_start, leader_core>>

(* Variant: the comparison is turned round. *)
StartedLater(i) == g_hrtimer_start[i] > leader_hrtimer_start

StartedEarlier(i) == g_hrtimer_start[i] < leader_hrtimer_start

(* The loop's next round, or its end. *)
NextRound(c) ==
    IF cpu[c] < max_cpu
    THEN /\ cpu' = [cpu EXCEPT ![c] = @ + 1]
         /\ phase' = [phase EXCEPT ![c] = "compare"]
    ELSE /\ phase' = [phase EXCEPT ![c] = "done"]
         /\ UNCHANGED cpu

Compare(c) ==
    /\ phase[c] = "compare"
    /\ IF StartedEarlier(cpu[c])
       THEN /\ phase' = [phase EXCEPT ![c] = "store"]
            /\ UNCHANGED cpu
       ELSE NextRound(c)
    /\ UNCHANGED <<now, armed_at, g_hrtimer_start, leader_hrtimer_start,
                   leader_core>>

StoreStart(c) ==
    /\ phase[c] = "store"
    /\ leader_hrtimer_start' = g_hrtimer_start[cpu[c]]
    /\ phase' = [phase EXCEPT ![c] = "lead"]
    /\ UNCHANGED <<now, armed_at, cpu, g_hrtimer_start, leader_core>>

StoreLeader(c) ==
    /\ phase[c] = "lead"
    /\ leader_core' = cpu[c]
    /\ NextRound(c)
    /\ UNCHANGED <<now, armed_at, g_hrtimer_start, leader_hrtimer_start>>

-----------------------------------------------------------------------------

(* What cl_mem_reg_init leaves before on_each_cpu(__start_counter). *)
Init ==
    /\ now = 0
    /\ phase = [c \in Online |-> "called"]
    /\ armed_at = [c \in Online |-> 0]
    /\ cpu = [c \in Online |-> min_cpu]
    /\ g_hrtimer_start = [c \in min_cpu..max_cpu |-> KTIME_MAX]
    /\ leader_hrtimer_start = KTIME_MAX
    /\ leader_core = NoLeader

StartCounter(c) ==
    \/ ArmTimer(c) \/ Publish(c) \/ Compare(c) \/ StoreStart(c) \/ StoreLeader(c)

Next == Tick \/ \E c \in Online : StartCounter(c)

Spec == Init /\ [][Next]_vars

-----------------------------------------------------------------------------
(* Properties. *)

Started(c) == phase[c] = "done"

(* regulation_period_func resets a cluster's usage on its leader only.     *)
(* When every core has left __start_counter, leader_core is one of the     *)
(* cores whose timer was armed, however the unlocked stores interleaved.   *)
LeaderElected ==
    (Online # {} /\ \A c \in Online : Started(c)) => leader_core \in Online
=============================================================================
