------------------------------- MODULE Unload -------------------------------
(***************************************************************************)
(* cl_mem_reg_exit against everything it has to bring to rest: the timer   *)
(* callbacks, the throttling interrupts in flight, the kthrottle and       *)
(* receiver threads, the logging work queue.                               *)
(*                                                                         *)
(* The regulation loop is reduced to what unloading can tell apart: a      *)
(* callback is a regulation or an aggregation callback in any order, and a *)
(* cluster is over its budget or not.  rmmod is an ordinary task on        *)
(* exit_core; rt_throttling says whether the scheduler gives ordinary      *)
(* tasks a share of a core whose kthrottle thread spins.  A core with an   *)
(* interrupt pending takes it before it goes on with a thread.             *)
(***************************************************************************)
EXTENDS Integers, Sequences

CONSTANTS
    Core,          \* online cores, in the order of for_each_online_cpu
    Cluster,       \* cl1, cl2, in the order cl_mem_reg_exit names them
    cluster_of,
    leader_core,
    receiver_core, \* the core a cluster's receiver is bound to, or NoCore
    NoCore,
    exit_core,     \* where rmmod runs
    logging,       \* g_logging at load time
    rt_throttling

ASSUME UnloadAssumption ==
    /\ Core \subseteq Nat
    /\ Cluster \subseteq Nat
    /\ cluster_of \in [Core -> Cluster]
    /\ leader_core \in [Cluster -> Core]
    /\ receiver_core \in [Cluster -> Core \union {NoCore}]
    /\ NoCore \notin Core
    /\ exit_core \in Core
    /\ logging \in BOOLEAN
    /\ rt_throttling \in BOOLEAN

VARIABLES
    stage,               \* where cl_mem_reg_exit stands, an index into Stages
    g_logging,
    module_unloading,
    hr_timer,            \* per core: armed
    phase,               \* per core: where its timer callback stands
    throttle_ipi,        \* per core: a __throttle_core call in flight
    stop_ipi,            \* per core: a __stop_counter call in flight
    throttled_task,      \* per core: # NULL
    throttle_thread,     \* per core
    over_budget,         \* per cluster
    receiver,            \* per cluster: where the receiver thread stands
    gpu_beats_ready,     \* per cluster
    feigned,             \* clusters whose receiver unloading has woken
    should_stop,         \* threads kthread_stop was called for
    works,               \* cores with logging work waiting for their kworker
    g_logging_workqueue  \* "live", or "null" when destroyed or never made

callbackVars == <<hr_timer, phase>>
threadVars == <<throttle_thread, receiver, gpu_beats_ready, feigned,
                should_stop>>
logVars == <<g_logging, works, g_logging_workqueue>>
vars == <<stage, module_unloading, callbackVars, throttle_ipi, stop_ipi,
          throttled_task, over_budget, threadVars, logVars>>

Phases == {"thread", "log", "check"}
ReceiverPhases ==
    {"wait", "log", "queue", "check", "throttle", "exited", "oops"}

(* Variants: the threads are stopped, or the files closed, in another      *)
(* order.                                                                  *)
ThreadsBeforeReceivers ==
    <<"loaded", "stop", "await", "flush", "kthrottles", "free", "receivers",
      "close", "gone">>
CloseBeforeFlush ==
    <<"loaded", "stop", "await", "close", "flush", "receivers", "kthrottles",
      "free", "gone">>

(* What cl_mem_reg_exit does, in order. *)
Stages ==
    <<"loaded", "stop", "await", "flush", "receivers", "close", "kthrottles",
      "free", "gone">>

At(s) == Stages[stage] = s
Past(s) == \E i \in 1..(stage - 1) : Stages[i] = s

TypeOK ==
    /\ stage \in 1..Len(Stages)
    /\ g_logging \in BOOLEAN
    /\ module_unloading \in BOOLEAN
    /\ hr_timer \in [Core -> BOOLEAN]
    /\ phase \in [Core -> Phases]
    /\ throttle_ipi \in [Core -> BOOLEAN]
    /\ stop_ipi \in [Core -> BOOLEAN]
    /\ throttled_task \in [Core -> BOOLEAN]
    /\ throttle_thread \in [Core -> {"wait", "spin", "exited"}]
    /\ over_budget \in [Cluster -> BOOLEAN]
    /\ receiver \in [Cluster -> ReceiverPhases]
    /\ gpu_beats_ready \in [Cluster -> BOOLEAN]
    /\ feigned \in SUBSET Cluster
    /\ should_stop \subseteq
           (Core \X {"kthrottle"}) \union (Cluster \X {"receiver"})
    /\ works \in SUBSET Core
    /\ g_logging_workqueue \in {"live", "null"}

CoresOf(k) == {c \in Core : cluster_of[c] = k}
HasReceiver(k) == receiver_core[k] # NoCore
Asked(thread) == thread \in should_stop

(* Interrupts are enabled on c and none is pending: a thread may run. *)
Undisturbed(c) == phase[c] = "thread" /\ ~throttle_ipi[c] /\ ~stop_ipi[c]

(* An ordinary task gets its turn. *)
TaskRuns(c) ==
    Undisturbed(c) /\ (throttle_thread[c] # "spin" \/ rt_throttling)

(* cl_mem_reg_on_each_cpu_mask(cpu_mask, __throttle_core, NULL, 0) on c. *)
ThrottleCluster(c, k) ==
    /\ throttle_ipi' = [d \in Core |->
                           throttle_ipi[d] \/ d \in CoresOf(k) \ {c}]
    /\ throttled_task' = [throttled_task EXCEPT ![c] = @ \/ c \in CoresOf(k)]

-----------------------------------------------------------------------------
(* The timer callback.                                                     *)

RegulationPeriod(c) ==
    /\ hr_timer[c]
    /\ phase[c] = "thread"
    /\ throttled_task' = [throttled_task EXCEPT ![c] = FALSE]
    /\ LET k == cluster_of[c]
       IN  over_budget' = [over_budget EXCEPT ![k] = @ /\ c # leader_core[k]]
    /\ UNCHANGED <<stage, module_unloading, callbackVars, throttle_ipi,
                   stop_ipi, threadVars, logVars>>

(* Once module_unloading is set an aggregation callback returns at once. *)
Account(c) ==
    /\ hr_timer[c]
    /\ phase[c] = "thread"
    /\ ~module_unloading
    /\ \E over \in BOOLEAN :
           over_budget' = [over_budget EXCEPT ![cluster_of[c]] = @ \/ over]
    /\ phase' = [phase EXCEPT ![c] = "log"]
    /\ UNCHANGED <<stage, module_unloading, hr_timer, throttle_ipi, stop_ipi,
                   throttled_task, threadVars, logVars>>

(* Variant: the work is queued on the next core. *)
NextCore(c) == c + 1

(* queue_work_on(core_info->cpu, ...) *)
LoggingCore(c) == c

(* g_logging is read after module_unloading was; the record may fail to be *)
(* allocated.                                                              *)
Log(c) ==
    /\ phase[c] = "log"
    /\ \/ /\ g_logging
          /\ works' = works \union {LoggingCore(c)}
          /\ phase' = [phase EXCEPT ![c] = "check"]
       \/ /\ g_logging
          /\ phase' = [phase EXCEPT ![c] = "thread"]
          /\ UNCHANGED works
       \/ /\ ~g_logging
          /\ phase' = [phase EXCEPT ![c] = "check"]
          /\ UNCHANGED works
    /\ UNCHANGED <<stage, module_unloading, hr_timer, throttle_ipi, stop_ipi,
                   throttled_task, over_budget, threadVars, g_logging,
                   g_logging_workqueue>>

Check(c) ==
    /\ phase[c] = "check"
    /\ IF ~throttled_task[c] /\ over_budget[cluster_of[c]]
       THEN ThrottleCluster(c, cluster_of[c])
       ELSE UNCHANGED <<throttle_ipi, throttled_task>>
    /\ phase' = [phase EXCEPT ![c] = "thread"]
    /\ UNCHANGED <<stage, module_unloading, hr_timer, stop_ipi, over_budget,
                   threadVars, logVars>>

-----------------------------------------------------------------------------
(* Interrupts from other cores.                                            *)

TakeThrottle(c) ==
    /\ phase[c] = "thread"
    /\ throttle_ipi[c]
    /\ throttle_ipi' = [throttle_ipi EXCEPT ![c] = FALSE]
    /\ throttled_task' = [throttled_task EXCEPT ![c] = TRUE]
    /\ UNCHANGED <<stage, module_unloading, callbackVars, stop_ipi,
                   over_budget, threadVars, logVars>>

(* __stop_counter: unthrottle the core and cancel its timer. *)
TakeStop(c) ==
    /\ phase[c] = "thread"
    /\ stop_ipi[c]
    /\ stop_ipi' = [stop_ipi EXCEPT ![c] = FALSE]
    /\ throttled_task' = [throttled_task EXCEPT ![c] = FALSE]
    /\ hr_timer' = [hr_timer EXCEPT ![c] = FALSE]
    /\ UNCHANGED <<stage, module_unloading, phase, throttle_ipi, over_budget,
                   threadVars, logVars>>

-----------------------------------------------------------------------------
(* The threads.                                                            *)

(* throttle_thread_func; its wait and its spin both end when asked to.     *)
ThrottleThread(c) ==
    /\ Undisturbed(c)
    /\ \/ /\ Asked(<<c, "kthrottle">>)
          /\ throttle_thread[c] # "exited"
          /\ throttle_thread' = [throttle_thread EXCEPT ![c] = "exited"]
       \/ /\ ~Asked(<<c, "kthrottle">>)
          /\ throttle_thread[c] = "wait"
          /\ throttled_task[c]
          /\ throttle_thread' = [throttle_thread EXCEPT ![c] = "spin"]
       \/ /\ ~Asked(<<c, "kthrottle">>)
          /\ throttle_thread[c] = "spin"
          /\ ~throttled_task[c]
          /\ throttle_thread' = [throttle_thread EXCEPT ![c] = "wait"]
    /\ UNCHANGED <<stage, module_unloading, callbackVars, throttle_ipi,
                   stop_ipi, throttled_task, over_budget, receiver,
                   gpu_beats_ready, feigned, should_stop, logVars>>

(* The profiler writes a sample.  While it holds the device open rmmod is  *)
(* refused, so no sample arrives once unloading has begun.                 *)
GpuSample(k) ==
    /\ HasReceiver(k)
    /\ At("loaded")
    /\ gpu_beats_ready' = [gpu_beats_ready EXCEPT ![k] = TRUE]
    /\ UNCHANGED <<stage, module_unloading, callbackVars, throttle_ipi,
                   stop_ipi, throttled_task, over_budget, throttle_thread,
                   receiver, feigned, should_stop, logVars>>

ReceiverAt(k, at) ==
    /\ HasReceiver(k)
    /\ Undisturbed(receiver_core[k])
    /\ receiver[k] = at

(* Variant: the wait does not end for kthread_stop. *)
WokenBySample(k) == gpu_beats_ready[k]

Woken(k) == gpu_beats_ready[k] \/ Asked(<<k, "receiver">>)

(* The receiver leaves its wait for a sample or because it is to stop, and *)
(* charges whatever the mailbox holds in either case.                      *)
ReceiverAccounts(k) ==
    /\ ReceiverAt(k, "wait")
    /\ Woken(k)
    /\ \E over \in BOOLEAN :
           over_budget' = [over_budget EXCEPT ![k] = @ \/ over]
    /\ receiver' = [receiver EXCEPT ![k] = "log"]
    /\ UNCHANGED <<stage, module_unloading, callbackVars, throttle_ipi,
                   stop_ipi, throttled_task, throttle_thread, gpu_beats_ready,
                   feigned, should_stop, logVars>>

(* The record is allocated, or the thread returns -1. *)
ReceiverLogs(k) ==
    /\ ReceiverAt(k, "log")
    /\ \E next \in (IF g_logging THEN {"queue", "exited"} ELSE {"check"}) :
           receiver' = [receiver EXCEPT ![k] = next]
    /\ UNCHANGED <<stage, module_unloading, callbackVars, throttle_ipi,
                   stop_ipi, throttled_task, over_budget, throttle_thread,
                   gpu_beats_ready, feigned, should_stop, logVars>>

ReceiverQueues(k) ==
    /\ ReceiverAt(k, "queue")
    /\ IF g_logging_workqueue = "live"
       THEN /\ works' = works \union {receiver_core[k]}
            /\ receiver' = [receiver EXCEPT ![k] = "check"]
       ELSE /\ receiver' = [receiver EXCEPT ![k] = "oops"]
            /\ UNCHANGED works
    /\ UNCHANGED <<stage, module_unloading, callbackVars, throttle_ipi,
                   stop_ipi, throttled_task, over_budget, throttle_thread,
                   gpu_beats_ready, feigned, should_stop, g_logging,
                   g_logging_workqueue>>

(* The condition of the loop. *)
NextWait(k) == IF Asked(<<k, "receiver">>) THEN "exited" ELSE "wait"

(* The mailbox is cleaned, then the budget is checked. *)
ReceiverChecks(k) ==
    /\ ReceiverAt(k, "check")
    /\ gpu_beats_ready' = [gpu_beats_ready EXCEPT ![k] = FALSE]
    /\ receiver' = [receiver EXCEPT ![k] =
                       IF over_budget[k] THEN "throttle" ELSE NextWait(k)]
    /\ UNCHANGED <<stage, module_unloading, callbackVars, throttle_ipi,
                   stop_ipi, throttled_task, over_budget, throttle_thread,
                   feigned, should_stop, logVars>>

ReceiverThrottles(k) ==
    /\ ReceiverAt(k, "throttle")
    /\ ThrottleCluster(receiver_core[k], k)
    /\ receiver' = [receiver EXCEPT ![k] = NextWait(k)]
    /\ UNCHANGED <<stage, module_unloading, callbackVars, stop_ipi,
                   over_budget, throttle_thread, gpu_beats_ready, feigned,
                   should_stop,
                   logVars>>

(* logging_work_func on the core the work was queued on. *)
LogWorker(c) ==
    /\ c \in works
    /\ TaskRuns(c)
    /\ works' = works \ {c}
    /\ UNCHANGED <<stage, module_unloading, callbackVars, throttle_ipi,
                   stop_ipi, throttled_task, over_budget, threadVars,
                   g_logging, g_logging_workqueue>>

-----------------------------------------------------------------------------
(* cl_mem_reg_exit.                                                        *)

ExitAt(s) == At(s) /\ TaskRuns(exit_core)
Proceed == stage' = stage + 1

BeginExit ==
    /\ ExitAt("loaded")
    /\ g_logging' = FALSE
    /\ module_unloading' = TRUE
    /\ Proceed
    /\ UNCHANGED <<callbackVars, throttle_ipi, stop_ipi, throttled_task,
                   over_budget, threadVars, works, g_logging_workqueue>>

(* on_each_cpu(__stop_counter, NULL, 1): the other cores first. *)
StopOthers ==
    /\ ExitAt("stop")
    /\ stop_ipi' = [c \in Core |-> c # exit_core]
    /\ Proceed
    /\ UNCHANGED <<module_unloading, callbackVars, throttle_ipi,
                   throttled_task, over_budget, threadVars, logVars>>

(* Variant: on_each_cpu without waiting. *)
NotAwaited == TRUE

OthersStopped == \A c \in Core : ~stop_ipi[c]

(* Preemption is disabled since the interrupts were sent, so kthrottle     *)
(* cannot hold this step up.                                               *)
StopSelf ==
    /\ At("await")
    /\ OthersStopped
    /\ phase[exit_core] = "thread"
    /\ throttled_task' = [throttled_task EXCEPT ![exit_core] = FALSE]
    /\ hr_timer' = [hr_timer EXCEPT ![exit_core] = FALSE]
    /\ Proceed
    /\ UNCHANGED <<module_unloading, phase, throttle_ipi, stop_ipi,
                   over_budget, threadVars, logVars>>

(* flush_workqueue and destroy_workqueue both wait for queued work. *)
DestroyQueue ==
    /\ ExitAt("flush")
    /\ g_logging_workqueue = "live" => works = {}
    /\ g_logging_workqueue' = "null"
    /\ Proceed
    /\ UNCHANGED <<module_unloading, callbackVars, throttle_ipi, stop_ipi,
                   throttled_task, over_budget, threadVars, g_logging, works>>

(* The receivers, one cluster after the other: a sample is feigned to wake *)
(* the thread, which may be through with it before kthread_stop.           *)
LiveReceivers ==
    {k \in Cluster : HasReceiver(k)
                     /\ ~(Asked(<<k, "receiver">>) /\ receiver[k] = "exited")}

FeignSample(k) ==
    /\ ExitAt("receivers")
    /\ k \in LiveReceivers \ feigned
    /\ \A l \in LiveReceivers : k <= l
    /\ gpu_beats_ready' = [gpu_beats_ready EXCEPT ![k] = TRUE]
    /\ feigned' = feigned \union {k}
    /\ UNCHANGED <<stage, module_unloading, callbackVars, throttle_ipi,
                   stop_ipi, throttled_task, over_budget, throttle_thread,
                   receiver, should_stop, logVars>>

StopReceiver(k) ==
    /\ ExitAt("receivers")
    /\ k \in feigned
    /\ ~Asked(<<k, "receiver">>)
    /\ should_stop' = should_stop \union {<<k, "receiver">>}
    /\ UNCHANGED <<stage, module_unloading, callbackVars, throttle_ipi,
                   stop_ipi, throttled_task, over_budget, throttle_thread,
                   receiver, gpu_beats_ready, feigned, logVars>>

ReceiversStopped ==
    /\ ExitAt("receivers")
    /\ LiveReceivers = {}
    /\ Proceed
    /\ UNCHANGED <<module_unloading, callbackVars, throttle_ipi, stop_ipi,
                   throttled_task, over_budget, threadVars, logVars>>

CloseLogs ==
    /\ ExitAt("close")
    /\ Proceed
    /\ UNCHANGED <<module_unloading, callbackVars, throttle_ipi, stop_ipi,
                   throttled_task, over_budget, threadVars, logVars>>

LiveThrottleThreads == {c \in Core : throttle_thread[c] # "exited"}

StopThrottleThread(c) ==
    /\ ExitAt("kthrottles")
    /\ c \in LiveThrottleThreads
    /\ \A d \in LiveThrottleThreads : c <= d
    /\ ~Asked(<<c, "kthrottle">>)
    /\ should_stop' = should_stop \union {<<c, "kthrottle">>}
    /\ UNCHANGED <<stage, module_unloading, callbackVars, throttle_ipi,
                   stop_ipi, throttled_task, over_budget, throttle_thread,
                   receiver, gpu_beats_ready, feigned, logVars>>

ThrottleThreadsStopped ==
    /\ ExitAt("kthrottles")
    /\ LiveThrottleThreads = {}
    /\ Proceed
    /\ UNCHANGED <<module_unloading, callbackVars, throttle_ipi, stop_ipi,
                   throttled_task, over_budget, threadVars, logVars>>

(* free_percpu(_core_info), then the mailboxes and the module itself. *)
Free ==
    /\ ExitAt("free")
    /\ Proceed
    /\ UNCHANGED <<module_unloading, callbackVars, throttle_ipi, stop_ipi,
                   throttled_task, over_budget, threadVars, logVars>>

-----------------------------------------------------------------------------

Init ==
    /\ stage = 1
    /\ g_logging = logging
    /\ module_unloading = FALSE
    /\ hr_timer = [c \in Core |-> TRUE]
    /\ phase = [c \in Core |-> "thread"]
    /\ throttle_ipi = [c \in Core |-> FALSE]
    /\ stop_ipi = [c \in Core |-> FALSE]
    /\ throttled_task = [c \in Core |-> FALSE]
    /\ throttle_thread = [c \in Core |-> "wait"]
    /\ over_budget = [k \in Cluster |-> FALSE]
    /\ receiver = [k \in Cluster |-> "wait"]
    /\ gpu_beats_ready = [k \in Cluster |-> FALSE]
    /\ feigned = {}
    /\ should_stop = {}
    /\ works = {}
    /\ g_logging_workqueue = IF logging THEN "live" ELSE "null"

Callback(c) == Log(c) \/ Check(c)

Receiver(k) ==
    \/ ReceiverAccounts(k) \/ ReceiverLogs(k) \/ ReceiverQueues(k)
    \/ ReceiverChecks(k) \/ ReceiverThrottles(k)

Exit ==
    \/ BeginExit \/ StopOthers \/ StopSelf \/ DestroyQueue
    \/ \E k \in Cluster : FeignSample(k) \/ StopReceiver(k)
    \/ ReceiversStopped \/ CloseLogs
    \/ \E c \in Core : StopThrottleThread(c)
    \/ ThrottleThreadsStopped \/ Free

Next ==
    \/ \E c \in Core : \/ RegulationPeriod(c) \/ Account(c) \/ Callback(c)
                       \/ TakeThrottle(c) \/ TakeStop(c)
                       \/ ThrottleThread(c) \/ LogWorker(c)
    \/ \E k \in Cluster : GpuSample(k) \/ Receiver(k)
    \/ Exit

Spec == Init /\ [][Next]_vars

(* Timers expire, a callback runs to its end, interrupts are taken, the    *)
(* real-time threads run when nothing disturbs them, and with              *)
(* rt_throttling so do the workers and rmmod in the end.                   *)
Fairness ==
    /\ \A c \in Core : /\ WF_vars(RegulationPeriod(c)) /\ WF_vars(Callback(c))
                       /\ WF_vars(TakeThrottle(c)) /\ WF_vars(TakeStop(c))
                       /\ SF_vars(ThrottleThread(c))
                       /\ SF_vars(LogWorker(c))
    /\ \A k \in Cluster : SF_vars(Receiver(k))
    /\ SF_vars(Exit)

FairSpec == Spec /\ Fairness

-----------------------------------------------------------------------------
(* Properties. *)

(* When _core_info is freed nothing that uses it is left: no armed timer,  *)
(* no callback, no interrupt in flight, no thread.                         *)
NothingOutlivesCoreInfo ==
    Past("free") =>
        /\ \A c \in Core : /\ ~hr_timer[c]
                           /\ phase[c] = "thread"
                           /\ ~throttle_ipi[c] /\ ~stop_ipi[c]
                           /\ throttle_thread[c] = "exited"
        /\ \A k \in Cluster : HasReceiver(k) => receiver[k] = "exited"

(* After on_each_cpu(__stop_counter) no callback runs on any core, so none *)
(* can queue log work once the queue is being flushed.                     *)
NoCallbackAfterStop ==
    Past("await") => \A c \in Core : ~hr_timer[c] /\ phase[c] = "thread"

(* Every log record is written before its file is closed. *)
LogsWrittenBeforeClose == Past("close") => works = {}

(* cl_mem_reg.c:1380 reports "LLC bandwidth throttling disabled" once the  *)
(* counters are stopped: from then on no core is throttled.                *)
ThrottlingDisabled ==
    Past("await") => \A c \in Core : ~throttled_task[c]

(* cl_mem_reg.c:1370, "Stop logging and set unloading flag": no receiver   *)
(* hands a record to a work queue that is gone.                            *)
LoggedToLiveQueue == \A k \in Cluster : receiver[k] # "oops"

(* Unloading, once begun, ends, whatever is throttled when it begins or    *)
(* becomes throttled on the way, if the scheduler gives ordinary tasks     *)
(* their share and no receiver died on the dead queue.                     *)
UnloadEnds ==
    At("stop") ~> (At("gone") \/ \E k \in Cluster : receiver[k] = "oops")
=============================================================================
