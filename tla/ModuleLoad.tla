----------------------------- MODULE ModuleLoad -----------------------------
(***************************************************************************)
(* cl_mem_reg_init: the checks of the parameters, the values computed from *)
(* them, the resources taken one after the other with their error returns, *)
(* the threads, and at the end __start_counter on every core, which is     *)
(* LeaderElection run from the state the load leaves for cluster 1.        *)
(* Meanwhile a GPU profiler may be told to terminate: it disables its      *)
(* profiling through sysfs if the file is there yet, and exits.            *)
(***************************************************************************)
EXTENDS LeaderElection, Conversions, FiniteSets, Sequences

CONSTANTS
    Parameters,      \* the parameter values insmod may be given
    NUMBER_OF_CORES,
    FirstOfCl2,      \* the cores below it form cluster 1
    OnlineCores,     \* of both clusters
    MayTerminate     \* clusters whose profiler may get SIGTERM meanwhile

Clusters == {"cl1", "cl2"}
ClusterOf(c) == IF c < FirstOfCl2 THEN "cl1" ELSE "cl2"

ASSUME LoadAssumption ==
    /\ Parameters \subseteq [g_regulation_period_us : Int,
                             g_aggregation_period_us : Nat,
                             bandwidth_budget : [Clusters -> Nat],
                             profiling_core : [Clusters -> Int],
                             g_logging : BOOLEAN]
    /\ NUMBER_OF_CORES \in Nat
    /\ OnlineCores \subseteq 0..NUMBER_OF_CORES-1
    /\ Online = {c \in OnlineCores : ClusterOf(c) = "cl1"}

VARIABLES
    stage,                    \* how far cl_mem_reg_init has come
    param,                    \* the parameters, fixed at insmod
    g_manage_period_interval,
    cur_bandwidth_budget,     \* per cluster
    todo,                     \* the acquisitions ahead, in order
    held,                     \* per cluster: what it holds
    gpu_profiler_task,        \* per cluster: the pointer is set
    profiler,                 \* per cluster: the process the pid names
    early,                    \* per cluster: it finished with the module
                              \* before the module looked it up
    core_ready,               \* cores with core_info, counter, kthrottle
    receiver,                 \* per cluster: core of its receiver thread
    workqueue,                \* g_logging_workqueue # NULL
    log_file                  \* the log files' pointers, in opening order

paramVars == <<param, g_manage_period_interval, cur_bandwidth_budget>>
resourceVars == <<todo, held>>
profilerVars == <<gpu_profiler_task, profiler, early>>
threadVars == <<core_ready, receiver>>
logVars == <<workqueue, log_file>>
moduleVars == <<stage, paramVars, resourceVars, profilerVars, threadVars, logVars>>
startVars == <<now, phase, armed_at, cpu>>
electionVars == <<g_hrtimer_start, leader_hrtimer_start, leader_core>>
loadVars == <<moduleVars, startVars, electionVars>>

Stages == {"check", "interval", "clusters", "acquire", "cores", "workqueue",
           "files", "started", "failed", "oops"}
Resources == <<"kobj", "file", "task", "memory", "chrdev", "class", "device">>
NoCore == -1

(* Until the load is through, leader_core is the zero of a static, which   *)
(* need not be a core of the cluster, or says that no core leads.          *)
LoadTypeOK ==
    /\ IF stage = "started" THEN TypeOK ELSE leader_core \in {0, NoLeader}
    /\ stage \in Stages
    /\ param \in Parameters
    /\ g_manage_period_interval \in Int
    /\ cur_bandwidth_budget \in [Clusters -> Int]
    /\ held \in [Clusters -> SUBSET {Resources[i] : i \in DOMAIN Resources}]
    /\ gpu_profiler_task \in [Clusters -> BOOLEAN]
    /\ profiler \in [Clusters -> {"running", "storing", "exiting", "exited"}]
    /\ early \in [Clusters -> BOOLEAN]
    /\ core_ready \subseteq OnlineCores
    /\ receiver \in [Clusters -> OnlineCores \union {NoCore}]
    /\ workqueue \in BOOLEAN
    /\ \A i \in DOMAIN log_file : log_file[i] \in {"open", "error", "null"}

-----------------------------------------------------------------------------
(* Parameters.                                                             *)

(* g_gpu_profiling_clX *)
Profiled(k) == param.profiling_core[k] # NoCore

Accepted(p) ==
    /\ \A k \in Clusters : p.profiling_core[k] \in NoCore..NUMBER_OF_CORES
    /\ p.g_regulation_period_us \in 0..US_PER_SEC

CheckParameters ==
    /\ stage = "check"
    /\ stage' = IF Accepted(param) THEN "interval" ELSE "failed"
    /\ UNCHANGED <<paramVars, resourceVars, profilerVars, threadVars, logVars,
                   startVars, electionVars>>

(* A division by zero stops the kernel, or gives 0 as on arm64. *)
DivisionByZero(divisor) == divisor = 0

ComputeInterval ==
    /\ stage = "interval"
    /\ LET T_R == param.g_regulation_period_us
           T_A == param.g_aggregation_period_us
       IN  \/ /\ ~DivisionByZero(T_A)
              /\ g_manage_period_interval' = ceiling(T_R, T_A)
              /\ stage' = "clusters"
           \/ /\ DivisionByZero(T_A)
              /\ g_manage_period_interval' = 0
              /\ stage' \in {"clusters", "oops"}
    /\ g_hrtimer_start' = [i \in min_cpu..max_cpu |-> KTIME_MAX]
    /\ UNCHANGED <<param, cur_bandwidth_budget, resourceVars, profilerVars,
                   threadVars, logVars, startVars, leader_hrtimer_start,
                   leader_core>>

(* Variant: no device is created. *)
WithoutDevice(k) ==
    IF Profiled(k) THEN [i \in 1..6 |-> <<k, Resources[i]>>] ELSE <<>>

AcquisitionsFor(k) ==
    IF Profiled(k) THEN [i \in DOMAIN Resources |-> <<k, Resources[i]>>] ELSE <<>>

(* Budgets are computed, the masks filled and no core leads yet. *)
InitClusters ==
    /\ stage = "clusters"
    /\ LET T_R == param.g_regulation_period_us
       IN  \/ /\ ~DivisionByZero(T_R)
              /\ cur_bandwidth_budget' = [k \in Clusters |->
                    AsInt(convert_mb_to_events(param.bandwidth_budget[k], T_R))]
              /\ stage' = "acquire"
           \/ /\ DivisionByZero(T_R)
              /\ cur_bandwidth_budget' = [k \in Clusters |-> 0]
              /\ stage' \in {"acquire", "oops"}
    /\ leader_core' = NoLeader
    /\ todo' = AcquisitionsFor("cl1") \o AcquisitionsFor("cl2")
    /\ UNCHANGED <<param, g_manage_period_interval, held, profilerVars,
                   threadVars, logVars, startVars, g_hrtimer_start,
                   leader_hrtimer_start>>

-----------------------------------------------------------------------------
(* sysfs, the profiler's task, the mailbox and its device.                 *)

Acquire ==
    /\ stage = "acquire"
    /\ todo # <<>>
    /\ LET k == Head(todo)[1]
           r == Head(todo)[2]
       IN  /\ r = "task" => profiler[k] # "exited"
           /\ held' = [held EXCEPT ![k] = @ \union {r}]
           /\ gpu_profiler_task' =
                  [gpu_profiler_task EXCEPT ![k] = @ \/ r = "task"]
    /\ todo' = Tail(todo)
    /\ UNCHANGED <<stage, paramVars, profiler, early, threadVars, logVars,
                   startVars, electionVars>>

(* What the error return at r gives back: the class and the device return  *)
(* free the mailboxes of both clusters, most returns give back nothing.    *)
GivenBack(k, r) ==
    CASE r = "file"  -> {<<k, "kobj">>}
      [] r \in {"class", "device"} ->
             {<<k, "class">>, <<k, "chrdev">>}
                 \union {<<l, "memory">> : l \in Clusters}
      [] OTHER -> {}

AcquireFails ==
    /\ stage = "acquire"
    /\ todo # <<>>
    /\ LET given == GivenBack(Head(todo)[1], Head(todo)[2])
       IN  held' = [l \in Clusters |-> {s \in held[l] : <<l, s>> \notin given}]
    /\ stage' = "failed"
    /\ UNCHANGED <<paramVars, todo, profilerVars, threadVars, logVars,
                   startVars, electionVars>>

AcquiredAll ==
    /\ stage = "acquire"
    /\ todo = <<>>
    /\ stage' = "cores"
    /\ UNCHANGED <<paramVars, resourceVars, profilerVars, threadVars, logVars,
                   startVars, electionVars>>

-----------------------------------------------------------------------------
(* Per core: core_info, the counter, kthrottle and perhaps a receiver.     *)

(* Variant: only the first cluster's core is looked at. *)
HostsFirst(c) == {k \in {"cl1"} : Profiled(k) /\ param.profiling_core[k] = c}

(* The if and the else if: a core hosts at most one receiver. *)
Hosts(c) ==
    LET Named(k) == Profiled(k) /\ param.profiling_core[k] = c
    IN  IF Named("cl1") THEN {"cl1"} ELSE {k \in {"cl2"} : Named(k)}

(* Variant: every possible core, online or not. *)
NextPossibleCore == CHOOSE c \in (0..NUMBER_OF_CORES-1) \ core_ready :
                \A d \in (0..NUMBER_OF_CORES-1) \ core_ready : c <= d

NextCore == CHOOSE c \in OnlineCores \ core_ready :
                \A d \in OnlineCores \ core_ready : c <= d

InitCore ==
    /\ stage = "cores"
    /\ core_ready # OnlineCores
    /\ core_ready' = core_ready \union {NextCore}
    /\ receiver' = [k \in Clusters |->
                       IF k \in Hosts(NextCore) THEN NextCore ELSE receiver[k]]
    /\ UNCHANGED <<stage, paramVars, resourceVars, profilerVars, logVars,
                   startVars, electionVars>>

(* Variant: the load is given up. *)
ErrorReturn == "failed"

NullDereferenced == "oops"

(* init_counter returned NULL, and perf_event_enable is given it. *)
NoCounter ==
    /\ stage = "cores"
    /\ core_ready # OnlineCores
    /\ stage' = NullDereferenced
    /\ UNCHANGED <<paramVars, resourceVars, profilerVars, threadVars, logVars,
                   startVars, electionVars>>

InitedCores ==
    /\ stage = "cores"
    /\ core_ready = OnlineCores
    /\ stage' = "workqueue"
    /\ UNCHANGED <<paramVars, resourceVars, profilerVars, threadVars, logVars,
                   startVars, electionVars>>

-----------------------------------------------------------------------------
(* Logging and the start.                                                  *)

CreateWorkqueue ==
    /\ stage = "workqueue"
    /\ workqueue' = param.g_logging
    /\ stage' = "files"
    /\ UNCHANGED <<paramVars, resourceVars, profilerVars, threadVars, log_file,
                   startVars, electionVars>>

(* The mailboxes are freed; threads and devices stay. *)
WorkqueueFails ==
    /\ stage = "workqueue"
    /\ param.g_logging
    /\ held' = [k \in Clusters |-> held[k] \ {"memory"}]
    /\ stage' = "failed"
    /\ UNCHANGED <<paramVars, todo, profilerVars, threadVars, logVars,
                   startVars, electionVars>>

(* Variant: the leaders' start times keep their initial zero. *)
KeepLeaderStart == leader_hrtimer_start

ResetLeaderStart == KTIME_MAX

(* start_logging opens one file for each core and each profiled cluster,   *)
(* and gives up, silently, at the first one that cannot be opened: its     *)
(* error pointer stays in place.  Then the cores are told to start.        *)
StartCounters ==
    /\ stage = "files"
    /\ leader_hrtimer_start' = ResetLeaderStart
    /\ LET files == Cardinality(OnlineCores)
                        + Cardinality({k \in Clusters : Profiled(k)})
       IN  \/ /\ ~param.g_logging
              /\ UNCHANGED log_file
           \/ /\ param.g_logging
              /\ \E opened \in 0..files :
                     log_file' = [i \in 1..files |->
                                     CASE i <= opened     -> "open"
                                       [] i = opened + 1  -> "error"
                                       [] OTHER           -> "null"]
    /\ stage' = "started"
    /\ UNCHANGED <<paramVars, resourceVars, profilerVars, threadVars, workqueue,
                   startVars, g_hrtimer_start, leader_core>>

-----------------------------------------------------------------------------
(* A profiler that is told to terminate while the module loads.  After the *)
(* load GpuSampling takes over.                                            *)

Loading == stage \notin {"started", "failed", "oops"}

LookedUp(k) == "task" \in held[k]

HandleTerm(k) ==
    /\ Loading
    /\ k \in MayTerminate
    /\ profiler[k] = "running"
    /\ IF "file" \in held[k]
       THEN /\ profiler' = [profiler EXCEPT ![k] = "storing"]
            /\ UNCHANGED early
       ELSE /\ profiler' = [profiler EXCEPT ![k] = "exiting"]
            /\ early' = [early EXCEPT ![k] = TRUE]
    /\ UNCHANGED <<stage, paramVars, resourceVars, gpu_profiler_task,
                   threadVars, logVars, startVars, electionVars>>

(* Variant: the store leaves the pointer alone. *)
KeptPointer(k) == gpu_profiler_task[k]

StoredPointer(k) == FALSE

(* cl_mem_reg_sysfs_store: the pointer is cleared. *)
StoreSysfs(k) ==
    /\ Loading
    /\ profiler[k] = "storing"
    /\ gpu_profiler_task' = [gpu_profiler_task EXCEPT ![k] = StoredPointer(k)]
    /\ early' = [early EXCEPT ![k] = ~LookedUp(k)]
    /\ profiler' = [profiler EXCEPT ![k] = "exiting"]
    /\ UNCHANGED <<stage, paramVars, resourceVars, threadVars, logVars,
                   startVars, electionVars>>

Exit(k) ==
    /\ Loading
    /\ profiler[k] = "exiting"
    /\ profiler' = [profiler EXCEPT ![k] = "exited"]
    /\ UNCHANGED <<stage, paramVars, resourceVars, gpu_profiler_task, early,
                   threadVars, logVars, startVars, electionVars>>

-----------------------------------------------------------------------------

(* Statics are zero when the module is inserted. *)
LoadInit ==
    /\ stage = "check"
    /\ param \in Parameters
    /\ g_manage_period_interval = 0
    /\ cur_bandwidth_budget = [k \in Clusters |-> 0]
    /\ todo = <<>>
    /\ held = [k \in Clusters |-> {}]
    /\ gpu_profiler_task = [k \in Clusters |-> FALSE]
    /\ profiler = [k \in Clusters |-> "running"]
    /\ early = [k \in Clusters |-> FALSE]
    /\ core_ready = {}
    /\ receiver = [k \in Clusters |-> NoCore]
    /\ workqueue = FALSE
    /\ log_file = <<>>
    /\ now = 0
    /\ phase = [c \in Online |-> "called"]
    /\ armed_at = [c \in Online |-> 0]
    /\ cpu = [c \in Online |-> min_cpu]
    /\ g_hrtimer_start = [i \in min_cpu..max_cpu |-> 0]
    /\ leader_hrtimer_start = 0
    /\ leader_core = 0

Load ==
    \/ CheckParameters \/ ComputeInterval \/ InitClusters
    \/ Acquire \/ AcquireFails \/ AcquiredAll
    \/ InitCore \/ NoCounter \/ InitedCores
    \/ CreateWorkqueue \/ WorkqueueFails \/ StartCounters

TerminateProfiler(k) == HandleTerm(k) \/ StoreSysfs(k) \/ Exit(k)

Elect ==
    /\ stage = "started"
    /\ Next
    /\ UNCHANGED moduleVars

LoadNext == Load \/ (\E k \in Clusters : TerminateProfiler(k)) \/ Elect

LoadSpec == LoadInit /\ [][LoadNext]_loadVars

-----------------------------------------------------------------------------
(* Properties. *)

(* The election that follows a load is LeaderElection's from its initial   *)
(* state: all that __start_counter reads was set on the way, whatever the  *)
(* statics held before.                                                    *)
Election == INSTANCE LeaderElection
ElectionStartsFresh ==
    [][stage # "started" /\ stage' = "started" => Election!Init']_loadVars

(* What __start_counter, the callbacks and the exit function take for      *)
(* granted once the module runs: every core has its data and its counter,  *)
(* every profiled cluster its device with a mailbox behind it, logging a   *)
(* work queue, and all log files are open or one of them failed to open.   *)
LoadedIsComplete ==
    stage = "started" =>
        /\ core_ready = OnlineCores
        /\ \A k \in Clusters : Profiled(k) =>
              {Resources[i] : i \in DOMAIN Resources} \subseteq held[k]
        /\ workqueue = param.g_logging
        /\ Cardinality({i \in DOMAIN log_file : log_file[i] = "error"}) <= 1

(* cl_mem_reg.conf:14, "range: 0 to 3" and "range: 4 to 7": when every     *)
(* profiled cluster names a core of its own, each of them that is online   *)
(* hosts its cluster's receiver, so its SIGUSR1, sent to the profiler of   *)
(* the core's own cluster, is answered to the right receiver.  One cluster *)
(* that names the other's core may silently cost the other its receiver.   *)
InRange(k) == Profiled(k) => param.profiling_core[k] \in 0..NUMBER_OF_CORES-1
                             /\ ClusterOf(param.profiling_core[k]) = k

ProfiledClusterServed ==
    stage = "started" /\ (\A k \in Clusters : InRange(k)) =>
        \A k \in Clusters :
            Profiled(k) /\ param.profiling_core[k] \in OnlineCores =>
                receiver[k] = param.profiling_core[k]

(* What a failed load leaves behind.  Only then may a device file lead to  *)
(* a mailbox that has been freed.  Threads are left in one place only: the *)
(* work queue could not be created, when all of them run already, and then *)
(* the mailbox that the receivers wait at is always gone.                  *)
FailedLoadLeaves ==
    /\ \A k \in Clusters :
          "chrdev" \in held[k] /\ "memory" \notin held[k] => stage = "failed"
    /\ stage = "failed" /\ core_ready # {} =>
          /\ param.g_logging
          /\ core_ready = OnlineCores
          /\ \A k \in Clusters : "memory" \notin held[k]

(* The module never keeps a pointer to a profiler that exited during the   *)
(* load, unless the profiler was through with the module before the module *)
(* looked it up by its pid.                                                *)
PointerSurvivesOnlyEarlyExit ==
    \A k \in Clusters :
        gpu_profiler_task[k] /\ profiler[k] = "exited" => early[k]

(* The periods fit: the aggregation periods of an interval cover the       *)
(* regulation period, and one fewer would not.  Regulation rests on an     *)
(* interval above zero, which only a period of zero can prevent, or an     *)
(* aggregation period so long that the sum in ceiling overflows its int.   *)
IntervalCoversPeriod ==
    LET T_R == param.g_regulation_period_us
        T_A == param.g_aggregation_period_us
    IN  stage = "started" /\ T_R > 0 /\ T_A > 0 /\ FitsInt(T_R + T_A - 1) =>
            /\ g_manage_period_interval > 0
            /\ T_R <= g_manage_period_interval * T_A
            /\ (g_manage_period_interval - 1) * T_A < T_R

(* The budget the running module compares with is the configured share of  *)
(* a regulation period, less than a cache line short of it and more only   *)
(* by what the truncated number of periods per second gives away: as long  *)
(* as the number of events fits into the int it is kept in; a budget that  *)
(* does not (cl_mem_reg.conf:4, "-1: Unlimited (default: 204800 MB/s)",    *)
(* with a long period) may turn negative, and only then.                   *)
BudgetConfigured ==
    stage = "started" /\ param.g_regulation_period_us > 0 =>
        \A k \in Clusters :
            LET mb == param.bandwidth_budget[k]
                T_R == param.g_regulation_period_us
            IN  /\ BudgetIsShare(mb, T_R)
                /\ FitsInt(convert_mb_to_events(mb, T_R)) =>
                       cur_bandwidth_budget[k] = convert_mb_to_events(mb, T_R)
                /\ cur_bandwidth_budget[k] < 0 =>
                       ~FitsInt(convert_mb_to_events(mb, T_R))
=============================================================================
