----------------------------- MODULE Regulation -----------------------------
(***************************************************************************)
(* The regulation loop of cl_mem_reg.c: the per-core timer callbacks that  *)
(* charge memory traffic to a cluster, the throttling they trigger through *)
(* inter-processor interrupts, the kthrottle threads that burn the cycles  *)
(* of a throttled core, and the GPU receiver threads that charge the GPU's *)
(* share of the traffic.                                                   *)
(*                                                                         *)
(* Time is counted in whole aggregation periods (T_A) since                *)
(* global_info.start_time.  A core's timer is armed for the start time     *)
(* plus aggregation_period_cnt * T_A, so the counter is also the tick the  *)
(* timer expires at.  A callback runs with interrupts disabled on its own  *)
(* core and is cut where it touches memory other cores write: one action   *)
(* per shared access.  LateTicks is the number of whole aggregation        *)
(* periods an expired timer may wait before its interrupt is served; the   *)
(* order of the cores inside one tick is always free.                      *)
(***************************************************************************)
EXTENDS Integers, FiniteSets

CONSTANTS
    Core,                     \* online cores in some cluster's cpu_mask
    Cluster,                  \* _cluster_info_cl1, _cluster_info_cl2
    cluster_of,               \* core_info->cluster_info
    leader_core,              \* cluster_info->leader_core after the election
    gpu_core,                 \* g_gpu_profiling_core_clX, NoCore for -1
    NoCore,
    cur_bandwidth_budget,     \* cluster_info->cur_bandwidth_budget, in events
    g_manage_period_interval, \* aggregation periods per regulation period
    g_logging,                \* logging on: a record is allocated, or is not
    LateTicks,                \* bound on how late a timer interrupt is served
    LastTick,                 \* bound on the clock
    MaxUnread,                \* bound on a core's events between two readings,
                              \* which a regulation tick may lie between
    GpuBursts                 \* event counts one GPU sample may carry

ASSUME CoreAssumption == IsFiniteSet(Core)

ASSUME ClusterAssumption ==
    /\ cluster_of \in [Core -> Cluster]
    /\ leader_core \in [Cluster -> Core]
    /\ \A k \in Cluster : cluster_of[leader_core[k]] = k
    /\ cur_bandwidth_budget \in [Cluster -> Int]

ASSUME GpuAssumption ==
    /\ gpu_core \in [Cluster -> Core \union {NoCore}]
    /\ NoCore \notin Core
    /\ GpuBursts \subseteq Nat

ASSUME PeriodAssumption ==
    /\ g_manage_period_interval \in Nat \ {0}
    /\ g_logging \in BOOLEAN
    /\ LateTicks \in Nat
    /\ LastTick \in Nat
    /\ MaxUnread \in Nat

VARIABLES
    now,                    \* ticks of T_A since global_info.start_time
    count,                  \* global_info.count
    aggregation_period_cnt, \* per core; also the tick its timer is armed for
    phase,                  \* per core: where its timer callback stands
    event_count,            \* per core: read_event->count
    old_read_val,           \* per core: the part of it already charged
    throttled_task,         \* per core: throttled_task # NULL
    throttled_time,         \* per core: tick of the last __throttle_core
    kthrottle,              \* per core: its throttle thread waits or spins
    ipi,                    \* per core: a __throttle_core call is in flight
    bandwidth_usage,        \* per cluster, in events
    gpu_usage,              \* per cluster: the part of it charged for the GPU,
                            \* which the program does not keep apart
    is_throttled,           \* per cluster, the flag the log prints
    regulation_period_cnt,  \* per cluster
    log_lost,               \* per cluster: since the last reset, a record could
                            \* not be allocated and its writer returned
    sigusr1,                \* per cluster: SIGUSR1 pending at its profiler
    gpu_beats_ready,        \* per cluster: a sample lies in the mailbox
    receiver                \* per cluster: where the receiver thread stands

clockVars == <<now, count, aggregation_period_cnt>>
eventVars == <<event_count, old_read_val>>
throttleVars == <<throttled_task, throttled_time, kthrottle, ipi>>
clusterVars ==
    <<bandwidth_usage, gpu_usage, is_throttled, regulation_period_cnt, log_lost>>
gpuVars == <<sigusr1, gpu_beats_ready, receiver>>
vars == <<clockVars, phase, eventVars, throttleVars, clusterVars, gpuVars>>

Phases ==
    {"thread", "fired", "unthrottle", "reset", "account", "check", "throttle"}
ReceiverPhases == {"wait", "clean", "check", "throttle", "dead"}

TypeOK ==
    /\ now \in 0..LastTick
    /\ count \in Nat
    /\ aggregation_period_cnt \in [Core -> Nat]
    /\ phase \in [Core -> Phases]
    /\ event_count \in [Core -> Nat]
    /\ old_read_val \in [Core -> Nat]
    /\ throttled_task \in [Core -> BOOLEAN]
    /\ throttled_time \in [Core -> Nat]
    /\ kthrottle \in [Core -> {"wait", "spin"}]
    /\ ipi \in [Core -> BOOLEAN]
    /\ bandwidth_usage \in [Cluster -> Nat]
    /\ gpu_usage \in [Cluster -> Nat]
    /\ is_throttled \in [Cluster -> BOOLEAN]
    /\ regulation_period_cnt \in [Cluster -> Nat]
    /\ log_lost \in [Cluster -> BOOLEAN]
    /\ sigusr1 \in [Cluster -> BOOLEAN]
    /\ gpu_beats_ready \in [Cluster -> BOOLEAN]
    /\ receiver \in [Cluster -> ReceiverPhases]

-----------------------------------------------------------------------------

CoresOf(k) == {c \in Core : cluster_of[c] = k}

IsLeader(c) == leader_core[cluster_of[c]] = c

(* core_info->profile_gpu_bandwidth.  The callback signals the profiler of *)
(* the cluster the core belongs to, whichever cluster named the core.      *)
ProfilesGpu(c) == \E k \in Cluster : gpu_core[k] = c

Signalled(c) ==
    IF ProfilesGpu(c) /\ gpu_core[cluster_of[c]] # NoCore
    THEN [sigusr1 EXCEPT ![cluster_of[c]] = TRUE] ELSE sigusr1

UnreadEvents(c) == event_count[c] - old_read_val[c]

Exceeds(k) == bandwidth_usage[k] > cur_bandwidth_budget[k]

(* Variant: the interval is forgotten. *)
IsFirstTick(n) == n = 1

IsRegulationTick(n) == n % g_manage_period_interval = 1

(* Variant: every core increments the global count. *)
AlwaysIncremented(c) == count + 1

(* atomic64_cmpxchg(&global->count, aggregation_period_cnt, ... + 1) *)
ExchangedCount(c) ==
    IF count = aggregation_period_cnt[c] THEN count + 1 ELSE count

(* Variant: the counter read is added to old_read_val instead of the       *)
(* difference.                                                             *)
ChargedTotal(c) == old_read_val[c] + event_count[c]

(* core_info->old_read_val += cur_cpu_bandwidth_usage *)
Charged(c) == old_read_val[c] + UnreadEvents(c)

(* aggregation_period_func goes on to the budget check, or returns because *)
(* it could not allocate the log record.                                   *)
AfterAccounting(c) == {"check"} \union (IF g_logging THEN {"thread"} ELSE {})

RecordFailed(next) == g_logging /\ next \in {"thread", "dead"}

OtherCores(c, k) == CoresOf(k) \ {c}

(* Variant: smp_call_function_many alone, which leaves the caller out. *)
NeverLocally(c, k) == {}

CalledLocally(c, k) == CoresOf(k) \intersect {c}

(* cl_mem_reg_on_each_cpu_mask(cpu_mask, __throttle_core, NULL, 0) called  *)
(* on core c for cluster k: the other cores get an interrupt nobody waits  *)
(* for, c calls the function itself when it is in the mask.                *)
ThrottleCluster(c, k) ==
    /\ ipi' = [d \in Core |-> ipi[d] \/ d \in OtherCores(c, k)]
    /\ throttled_task' = [d \in Core |->
                             throttled_task[d] \/ d \in CalledLocally(c, k)]
    /\ throttled_time' = [d \in Core |-> IF d \in CalledLocally(c, k)
                                         THEN now ELSE throttled_time[d]]
    /\ UNCHANGED kthrottle

-----------------------------------------------------------------------------
(* Time and the load on the cores.                                         *)

(* Time moves on unless some core's timer would then be overdue by more    *)
(* than LateTicks.  A core whose timer is not overdue has its interrupts   *)
(* enabled between callbacks and takes an interrupt before the next tick.  *)
Advance ==
    /\ now < LastTick
    /\ \A c \in Core :
          /\ now < aggregation_period_cnt[c] + LateTicks
          /\ ipi[c] /\ phase[c] = "thread" => now >= aggregation_period_cnt[c]
    /\ now' = now + 1
    /\ UNCHANGED <<count, aggregation_period_cnt, phase, eventVars,
                   throttleVars, clusterVars, gpuVars>>

(* A task on c causes one LLC miss.  No ordinary task runs on a core whose *)
(* real-time kthrottle thread was woken or still spins.                    *)
Run(c) ==
    /\ phase[c] = "thread"
    /\ ~throttled_task[c]
    /\ kthrottle[c] = "wait"
    /\ UnreadEvents(c) < MaxUnread
    /\ event_count' = [event_count EXCEPT ![c] = @ + 1]
    /\ UNCHANGED <<clockVars, phase, old_read_val, throttleVars,
                   clusterVars, gpuVars>>

-----------------------------------------------------------------------------
(* timer_callback_master: the first core to serve a tick moves the global  *)
(* count, the others fail the compare-and-exchange.                        *)
TimerFire(c) ==
    /\ phase[c] = "thread"
    /\ now >= aggregation_period_cnt[c]
    /\ count' = ExchangedCount(c)
    /\ phase' = [phase EXCEPT ![c] = "fired"]
    /\ UNCHANGED <<now, aggregation_period_cnt, eventVars, throttleVars,
                   clusterVars, gpuVars>>

(* The core adopts the global count, re-arms its timer for it and picks    *)
(* the handler by it.                                                      *)
AdoptCount(c) ==
    /\ phase[c] = "fired"
    /\ aggregation_period_cnt' = [aggregation_period_cnt EXCEPT ![c] = count]
    /\ phase' = [phase EXCEPT ![c] =
                    IF IsRegulationTick(count) THEN "unthrottle" ELSE "account"]
    /\ UNCHANGED <<now, count, eventVars, throttleVars, clusterVars, gpuVars>>

(* regulation_period_func, the part every core runs. *)
Unthrottle(c) ==
    /\ phase[c] = "unthrottle"
    /\ throttled_task' = [throttled_task EXCEPT ![c] = FALSE]
    /\ is_throttled' = [is_throttled EXCEPT ![cluster_of[c]] = FALSE]
    /\ phase' = [phase EXCEPT ![c] = IF IsLeader(c) THEN "reset" ELSE "thread"]
    /\ UNCHANGED <<clockVars, eventVars, throttled_time, kthrottle, ipi,
                   bandwidth_usage, gpu_usage, regulation_period_cnt, log_lost,
                   gpuVars>>

(* Variant: the usage is carried over into the next regulation period. *)
CarriesOver(c) ==
    /\ phase[c] = "reset"
    /\ regulation_period_cnt' =
           [regulation_period_cnt EXCEPT ![cluster_of[c]] = @ + 1]
    /\ log_lost' = [log_lost EXCEPT ![cluster_of[c]] = FALSE]
    /\ phase' = [phase EXCEPT ![c] = "thread"]
    /\ UNCHANGED <<clockVars, eventVars, throttleVars, bandwidth_usage,
                   gpu_usage, is_throttled, gpuVars>>

(* regulation_period_func, the leader's part: a plain store of zero. *)
ResetUsage(c) ==
    /\ phase[c] = "reset"
    /\ bandwidth_usage' = [bandwidth_usage EXCEPT ![cluster_of[c]] = 0]
    /\ gpu_usage' = [gpu_usage EXCEPT ![cluster_of[c]] = 0]
    /\ regulation_period_cnt' =
           [regulation_period_cnt EXCEPT ![cluster_of[c]] = @ + 1]
    /\ log_lost' = [log_lost EXCEPT ![cluster_of[c]] = FALSE]
    /\ phase' = [phase EXCEPT ![c] = "thread"]
    /\ UNCHANGED <<clockVars, eventVars, throttleVars, is_throttled, gpuVars>>

(* aggregation_period_func up to the check: charge what the core read      *)
(* since its last reading, ask the profiler for a GPU sample, log.  When   *)
(* the log record cannot be allocated the function returns here.           *)
AccountUsage(c) ==
    /\ phase[c] = "account"
    /\ bandwidth_usage' =
           [bandwidth_usage EXCEPT ![cluster_of[c]] = @ + UnreadEvents(c)]
    /\ old_read_val' = [old_read_val EXCEPT ![c] = Charged(c)]
    /\ sigusr1' = Signalled(c)
    /\ \E next \in AfterAccounting(c) :
           /\ phase' = [phase EXCEPT ![c] = next]
           /\ log_lost' = [log_lost EXCEPT
                             ![cluster_of[c]] = @ \/ RecordFailed(next)]
    /\ UNCHANGED <<clockVars, event_count, throttleVars, gpu_usage, is_throttled,
                   regulation_period_cnt, gpu_beats_ready, receiver>>

(* Variant: the check is left to the cluster's leader. *)
OnlyLeaderChecks(c) ==
    /\ phase[c] = "check"
    /\ throttled_task[c] \/ ~Exceeds(cluster_of[c]) \/ ~IsLeader(c)
    /\ phase' = [phase EXCEPT ![c] = "thread"]
    /\ UNCHANGED <<clockVars, eventVars, throttleVars, clusterVars, gpuVars>>

(* The end of aggregation_period_func: a core that is already throttled,   *)
(* or a cluster within its budget, is left alone.                          *)
CheckPasses(c) ==
    /\ phase[c] = "check"
    /\ throttled_task[c] \/ ~Exceeds(cluster_of[c])
    /\ phase' = [phase EXCEPT ![c] = "thread"]
    /\ UNCHANGED <<clockVars, eventVars, throttleVars, clusterVars, gpuVars>>

CheckExceeds(c) ==
    /\ phase[c] = "check"
    /\ ~throttled_task[c]
    /\ Exceeds(cluster_of[c])
    /\ phase' = [phase EXCEPT ![c] = "throttle"]
    /\ UNCHANGED <<clockVars, eventVars, throttleVars, clusterVars, gpuVars>>

(* By now another core may have reset the usage that was read.  The flag,  *)
(* which only the log shows, is set on the way.                            *)
ThrottleCores(c) ==
    /\ phase[c] = "throttle"
    /\ is_throttled' = [is_throttled EXCEPT ![cluster_of[c]] = @ \/ IsLeader(c)]
    /\ ThrottleCluster(c, cluster_of[c])
    /\ phase' = [phase EXCEPT ![c] = "thread"]
    /\ UNCHANGED <<clockVars, eventVars, bandwidth_usage, gpu_usage,
                   regulation_period_cnt, log_lost, gpuVars>>

-----------------------------------------------------------------------------
(* __throttle_core as the interrupt a remote caller sent: taken whenever   *)
(* the core has interrupts enabled, whatever the cluster's usage is then.  *)
TakeIpi(c) ==
    /\ phase[c] = "thread"
    /\ ipi[c]
    /\ ipi' = [ipi EXCEPT ![c] = FALSE]
    /\ throttled_task' = [throttled_task EXCEPT ![c] = TRUE]
    /\ throttled_time' = [throttled_time EXCEPT ![c] = now]
    /\ UNCHANGED <<clockVars, phase, eventVars, kthrottle, clusterVars, gpuVars>>

(* throttle_thread_func: leave the wait queue and spin, or stop spinning. *)
StartSpin(c) ==
    /\ phase[c] = "thread"
    /\ kthrottle[c] = "wait"
    /\ throttled_task[c]
    /\ kthrottle' = [kthrottle EXCEPT ![c] = "spin"]
    /\ UNCHANGED <<clockVars, phase, eventVars, throttled_task, throttled_time,
                   ipi, clusterVars, gpuVars>>

StopSpin(c) ==
    /\ phase[c] = "thread"
    /\ kthrottle[c] = "spin"
    /\ ~throttled_task[c]
    /\ kthrottle' = [kthrottle EXCEPT ![c] = "wait"]
    /\ UNCHANGED <<clockVars, phase, eventVars, throttled_task, throttled_time,
                   ipi, clusterVars, gpuVars>>

-----------------------------------------------------------------------------
(* The GPU's share.  The profiler is pinned to gpu_core[k] at kthrottle's  *)
(* own FIFO priority, so it gets no time while kthrottle spins there; the  *)
(* receiver thread has the highest priority and does.                      *)

ProfilerSamples(k) ==
    /\ sigusr1[k]
    /\ phase[gpu_core[k]] = "thread"
    /\ kthrottle[gpu_core[k]] = "wait"
    /\ sigusr1' = [sigusr1 EXCEPT ![k] = FALSE]
    /\ gpu_beats_ready' = [gpu_beats_ready EXCEPT ![k] = TRUE]
    /\ UNCHANGED <<clockVars, phase, eventVars, throttleVars, clusterVars,
                   receiver>>

(* Variant: back to the wait queue without a look at the budget. *)
WaitsAfterCleaning == "wait"

AfterCleaning == "check"

ReceiverRuns(k, at) ==
    /\ gpu_core[k] # NoCore
    /\ phase[gpu_core[k]] = "thread"
    /\ receiver[k] = at

(* A record that cannot be allocated ends the thread with -1. *)
ReceiverAccounts(k) ==
    /\ ReceiverRuns(k, "wait")
    /\ gpu_beats_ready[k]
    /\ \E burst \in GpuBursts :
           /\ bandwidth_usage' = [bandwidth_usage EXCEPT ![k] = @ + burst]
           /\ gpu_usage' = [gpu_usage EXCEPT ![k] = @ + burst]
    /\ \E next \in {"clean"} \union (IF g_logging THEN {"dead"} ELSE {}) :
           /\ receiver' = [receiver EXCEPT ![k] = next]
           /\ log_lost' = [log_lost EXCEPT ![k] = @ \/ RecordFailed(next)]
    /\ UNCHANGED <<clockVars, phase, eventVars, throttleVars, is_throttled,
                   regulation_period_cnt, sigusr1, gpu_beats_ready>>

ReceiverCleans(k) ==
    /\ ReceiverRuns(k, "clean")
    /\ gpu_beats_ready' = [gpu_beats_ready EXCEPT ![k] = FALSE]
    /\ receiver' = [receiver EXCEPT ![k] = AfterCleaning]
    /\ UNCHANGED <<clockVars, phase, eventVars, throttleVars, clusterVars,
                   sigusr1>>

(* The budget is read with interrupts enabled: the callback of the same    *)
(* core may run before the interrupts below are sent.                      *)
ReceiverChecks(k) ==
    /\ ReceiverRuns(k, "check")
    /\ receiver' = [receiver EXCEPT
                       ![k] = IF Exceeds(k) THEN "throttle" ELSE "wait"]
    /\ UNCHANGED <<clockVars, phase, eventVars, throttleVars, clusterVars,
                   sigusr1, gpu_beats_ready>>

ReceiverThrottles(k) ==
    /\ ReceiverRuns(k, "throttle")
    /\ ThrottleCluster(gpu_core[k], k)
    /\ receiver' = [receiver EXCEPT ![k] = "wait"]
    /\ UNCHANGED <<clockVars, phase, eventVars, clusterVars, sigusr1,
                   gpu_beats_ready>>

-----------------------------------------------------------------------------

(* What __start_counter leaves on every core, one second before the first  *)
(* tick.  The performance counters were enabled while the module loaded,   *)
(* so a core may Run, and hold unread events, before that tick.            *)
Init ==
    /\ now = 0
    /\ count = 0
    /\ aggregation_period_cnt = [c \in Core |-> 0]
    /\ phase = [c \in Core |-> "thread"]
    /\ event_count = [c \in Core |-> 0]
    /\ old_read_val = [c \in Core |-> 0]
    /\ throttled_task = [c \in Core |-> FALSE]
    /\ throttled_time = [c \in Core |-> 0]
    /\ kthrottle = [c \in Core |-> "wait"]
    /\ ipi = [c \in Core |-> FALSE]
    /\ bandwidth_usage = [k \in Cluster |-> 0]
    /\ gpu_usage = [k \in Cluster |-> 0]
    /\ is_throttled = [k \in Cluster |-> FALSE]
    /\ regulation_period_cnt = [k \in Cluster |-> 0]
    /\ log_lost = [k \in Cluster |-> FALSE]
    /\ sigusr1 = [k \in Cluster |-> FALSE]
    /\ gpu_beats_ready = [k \in Cluster |-> FALSE]
    /\ receiver = [k \in Cluster |-> "wait"]

TimerCallback(c) ==
    \/ TimerFire(c) \/ AdoptCount(c)
    \/ Unthrottle(c) \/ ResetUsage(c)
    \/ AccountUsage(c)
    \/ CheckPasses(c) \/ CheckExceeds(c) \/ ThrottleCores(c)

ThrottleThread(c) == StartSpin(c) \/ StopSpin(c)

GpuReceiver(k) ==
    \/ ReceiverAccounts(k) \/ ReceiverCleans(k)
    \/ ReceiverChecks(k) \/ ReceiverThrottles(k)

Next ==
    \/ Advance
    \/ \E c \in Core : \/ Run(c) \/ TimerCallback(c)
                       \/ TakeIpi(c) \/ ThrottleThread(c)
    \/ \E k \in Cluster : ProfilerSamples(k) \/ GpuReceiver(k)

Spec == Init /\ [][Next]_vars

(* Interrupts are served, the real-time threads get their core once no     *)
(* interrupt holds it, and time passes.  Nothing is assumed of the load.   *)
Fairness ==
    /\ WF_vars(Advance)
    /\ \A c \in Core : /\ WF_vars(TimerCallback(c))
                       /\ WF_vars(TakeIpi(c))
                       /\ WF_vars(ThrottleThread(c))
    /\ \A k \in Cluster : WF_vars(GpuReceiver(k))

FairSpec == Spec /\ Fairness
-----------------------------------------------------------------------------
(* Properties. *)

(* Cores never drift apart: the count the compare-and-exchange in          *)
(* timer_callback_master maintains is never behind a core nor ahead of the *)
(* clock, and no two cores are more than LateTicks + 1 periods apart.      *)
CoresAgree ==
    /\ count <= now + 1
    /\ \A c \in Core : aggregation_period_cnt[c] <= count
    /\ \A c, d \in Core :
           aggregation_period_cnt[c] - aggregation_period_cnt[d] <= LateTicks + 1

(* The shared count implements the abstract clock: a core that adopts it   *)
(* passes over at most LateTicks aggregation periods, and over none, hence *)
(* over no regulation tick, when every timer is served within its period.  *)
Clock == INSTANCE PeriodClock WITH
             Slack <- LateTicks, period <- aggregation_period_cnt
LockStep == Clock!Spec

(* How many regulation periods begin among the first n aggregation periods *)
(* when one begins every g_manage_period_interval of them.                 *)
PeriodsBegun(n) ==
    Cardinality({m \in 1..n : (m - 1) % g_manage_period_interval = 0})

(* README.md:30, "Regulation period (T_R): Interval for regulation reset": *)
(* the leader has reset the cluster's usage exactly once for every         *)
(* regulation period it has entered, the reset in progress excepted.       *)
ResetOncePerPeriod ==
    \A k \in Cluster :
        LET leader == leader_core[k]
            pending == IF phase[leader] \in {"unthrottle", "reset"} THEN 1 ELSE 0
        IN  regulation_period_cnt[k] + pending
                = PeriodsBegun(aggregation_period_cnt[leader])

(* Throttling is a penalty of at most one regulation period: a core still  *)
(* throttled was last told so no longer ago than that, plus the tick its   *)
(* own timer callback may take.                                            *)
ThrottlingExpires ==
    \A c \in Core :
        throttled_task[c] => now <= throttled_time[c] + g_manage_period_interval + 1

(* The core has been told to stop, has stopped and is not about to be let  *)
(* go, or is about to compare usage and budget or to throttle the cluster. *)
Notices(c) ==
    \/ ipi[c] \/ phase[c] \in {"check", "throttle"}
    \/ /\ throttled_task[c]
       /\ phase[c] # "unthrottle"

(* The core compares usage and budget in the callback it runs, or next in  *)
(* the first one after the regulation tick it serves or is about to.       *)
YetToCheck(c) ==
    \/ phase[c] = "account"
    \/ IsRegulationTick(aggregation_period_cnt[c])
    \/ /\ IsRegulationTick(count)
       /\ aggregation_period_cnt[c] < count

(* Traffic over the budget never goes unnoticed: some core notices it, the *)
(* receiver does, the leader is about to reset the usage, or since the     *)
(* last reset a log record could not be allocated: the early return that   *)
(* follows costs the cluster its check, but never beyond the next reset.   *)
(* The one other time is right around the reset, while no core has checked *)
(* again: a core that serves the tick before it late, and throttled, may   *)
(* charge more than the budget after the reset, does not check, and is     *)
(* released.  It takes a leader that serves every tick in its period: one  *)
(* that passes over a regulation tick can leave usage over the budget      *)
(* behind after all other cores were released.                             *)
OverBudgetNoticed ==
    \A k \in Cluster : Exceeds(k) =>
        \/ log_lost[k]
        \/ \E c \in CoresOf(k) : Notices(c)
        \/ receiver[k] \in {"clean", "check", "throttle"}
        \/ phase[leader_core[k]] \in {"unthrottle", "reset"}
        \/ \A c \in CoresOf(k) : YetToCheck(c)

(* What the cores themselves have caused of a cluster's usage.             *)
CpuUsage(k) == bandwidth_usage[k] - gpu_usage[k]

(* The budget holds up to a fixed overshoot.  A portion is what a core may *)
(* cause between two of its readings, at most MaxUnread events.  Readings  *)
(* are an aggregation period apart, but two of them across a regulation    *)
(* tick, where the callback reads no counter; the first reading covers the *)
(* second before the first tick as well.  The CPU traffic of n cores that  *)
(* is charged in a regulation period stays within 2n - 1 portions of the   *)
(* budget: n until the last core is throttled, n - 1 from cores released   *)
(* before the leader resets the usage.  Nothing throttles the GPU: what    *)
(* its samples charge comes on top.  A budget smaller than what the other  *)
(* cores may still charge right after a reset cannot be kept, and none is  *)
(* kept until the next reset once a log record was lost.                   *)
UsageBounded ==
    \A k \in {k \in Cluster : ~log_lost[k]} :
        LET n == Cardinality(CoresOf(k))
            spill == (n - 1) * MaxUnread
            kept == IF cur_bandwidth_budget[k] >= spill
                    THEN cur_bandwidth_budget[k] ELSE spill
        IN  CpuUsage(k) <= kept + (2 * n - 1) * MaxUnread

(* cl_mem_reg.c:537 and :602, "Throttle core if the read usage exceeds the *)
(* current budget": once all cores of a cluster are in the same period and *)
(* nothing is in flight, a throttled core belongs to a cluster over its    *)
(* budget.                                                                 *)
ThrottledForCause ==
    \A k \in Cluster :
        (/\ \A c \in CoresOf(k) : /\ phase[c] = "thread"
                                 /\ ~ipi[c]
                                 /\ aggregation_period_cnt[c] = count
         /\ receiver[k] = "wait")
        => \A c \in CoresOf(k) : throttled_task[c] => Exceeds(k)

(* Traffic over the budget is answered: every core of the cluster is       *)
(* throttled, or the usage is reset, no later than in the next aggregation *)
(* period, if the clock still has one.                                     *)
OverBudgetAnswered ==
    \A k \in Cluster :
        (Exceeds(k) /\ now + 1 <= LastTick)
            ~> (~Exceeds(k) \/ \A c \in CoresOf(k) : throttled_task[c])

(* A throttled core is released by a regulation tick of its own, unless    *)
(* the clock ends before it.                                               *)
ThrottleEnds ==
    \A c \in Core :
        (throttled_task[c] /\ now + g_manage_period_interval + 1 <= LastTick)
            ~> ~throttled_task[c]
=============================================================================
