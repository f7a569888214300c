---------------------------- MODULE UnloadProofs ----------------------------
(***************************************************************************)
(* Proofs about cl_mem_reg_exit, for any number of cores and clusters, any *)
(* core rmmod runs on and any scheduler: what has come to rest at which    *)
(* stage of unloading.                                                     *)
(***************************************************************************)
EXTENDS Unload, TLAPS

-----------------------------------------------------------------------------
(* The stages by their numbers.                                            *)

LEMMA StageNumbers ==
    ASSUME stage \in 1..9
    PROVE  /\ At("loaded") <=> stage = 1
           /\ At("stop") <=> stage = 2
           /\ At("await") <=> stage = 3
           /\ At("flush") <=> stage = 4
           /\ At("receivers") <=> stage = 5
           /\ At("close") <=> stage = 6
           /\ At("kthrottles") <=> stage = 7
           /\ At("free") <=> stage = 8
  BY DEF At, Stages

LEMMA StagesPast ==
    ASSUME stage \in 1..9
    PROVE  /\ Past("await") => stage >= 4
           /\ Past("close") => stage >= 7
           /\ Past("free") => stage >= 9
  BY DEF Past, Stages

(* Before the interrupts are sent none is pending; while rmmod waits, a    *)
(* core without one has been stopped; later all cores have.                *)
CallbackInv ==
    /\ stage # 3 => \A c \in Core : ~stop_ipi[c]
    /\ stage = 3 => \A c \in Core \ {exit_core} :
                        stop_ipi[c] \/ (~hr_timer[c] /\ phase[c] = "thread")
    /\ stage >= 4 => \A c \in Core : ~hr_timer[c] /\ phase[c] = "thread"

(* Only a module that logs has a queue, and a queue that is gone is empty. *)
QueueInv ==
    /\ g_logging => stage = 1 /\ g_logging_workqueue = "live"
    /\ g_logging_workqueue = "null" => works = {}
    /\ stage >= 5 => g_logging_workqueue = "null"

(* The receivers are through before any kthrottle thread is stopped; from  *)
(* then on nobody sends throttling interrupts, and a thread that has       *)
(* exited has none pending on its core.                                    *)
ThreadInv ==
    /\ stage >= 6 => \A k \in Cluster : HasReceiver(k) => receiver[k] = "exited"
    /\ \A c \in Core : Asked(<<c, "kthrottle">>) => stage >= 7
    /\ \A c \in Core : throttle_thread[c] = "exited" =>
                           Asked(<<c, "kthrottle">>) /\ ~throttle_ipi[c]
    /\ stage >= 8 => \A c \in Core : throttle_thread[c] = "exited"

Inv == TypeOK /\ CallbackInv /\ QueueInv /\ ThreadInv

-----------------------------------------------------------------------------

LEMMA StageCount == Len(Stages) = 9
  BY DEF Stages

LEMMA StageType == TypeOK => stage \in 1..9
  BY StageCount DEF TypeOK

LEMMA InitInv == Init => Inv
<1> SUFFICES ASSUME Init PROVE Inv
  OBVIOUS
<1> USE UnloadAssumption DEF Init
<1>1. TypeOK
  <2>1. /\ stage \in 1..Len(Stages)
        /\ g_logging \in BOOLEAN /\ module_unloading \in BOOLEAN
    <3>1. stage \in 1..Len(Stages)
      BY StageCount
    <3>2. g_logging \in BOOLEAN
      BY Zenon
    <3>3. module_unloading \in BOOLEAN
      BY Zenon
    <3> QED
      BY <3>1, <3>2, <3>3
  <2>2. /\ hr_timer \in [Core -> BOOLEAN] /\ phase \in [Core -> Phases]
        /\ throttle_ipi \in [Core -> BOOLEAN] /\ stop_ipi \in [Core -> BOOLEAN]
        /\ throttled_task \in [Core -> BOOLEAN]
        /\ throttle_thread \in [Core -> {"wait", "spin", "exited"}]
    BY DEF Phases
  <2>3. /\ over_budget \in [Cluster -> BOOLEAN]
        /\ receiver \in [Cluster -> ReceiverPhases]
        /\ gpu_beats_ready \in [Cluster -> BOOLEAN]
    BY DEF ReceiverPhases
  <2>4. g_logging_workqueue \in {"live", "null"}
    OBVIOUS
  <2> QED
    BY <2>1, <2>2, <2>3, <2>4 DEF TypeOK
<1>2. CallbackInv
  BY DEF CallbackInv
<1>3. QueueInv
  BY DEF QueueInv
<1>4. ThreadInv
  BY DEF ThreadInv, Asked
<1> QED
  BY <1>1, <1>2, <1>3, <1>4 DEF Inv

LEMMA ThrottleClusterType ==
    ASSUME throttle_ipi \in [Core -> BOOLEAN], throttled_task \in [Core -> BOOLEAN],
           NEW c \in Core, NEW k \in Cluster, ThrottleCluster(c, k)
    PROVE  /\ throttle_ipi' \in [Core -> BOOLEAN]
           /\ throttled_task' \in [Core -> BOOLEAN]
  BY DEF ThrottleCluster

(* The steps of interrupts and threads, which leave the stage alone.       *)
LEMMA CoreStepInv ==
    ASSUME Inv, NEW c \in Core,
           \/ RegulationPeriod(c) \/ Account(c) \/ Callback(c)
           \/ TakeThrottle(c) \/ TakeStop(c)
           \/ ThrottleThread(c) \/ LogWorker(c)
    PROVE  Inv'
<1> USE UnloadAssumption DEF callbackVars, threadVars, logVars
<1>0. stage \in 1..9
  BY StageType DEF Inv
<1>1. ASSUME RegulationPeriod(c) PROVE Inv'
  <2>1. TypeOK'
    BY <1>1 DEF RegulationPeriod, Inv, TypeOK
  <2> QED
    BY <1>1, <2>1 DEF RegulationPeriod, Inv, CallbackInv, QueueInv, ThreadInv,
                      HasReceiver, Asked
<1>2. ASSUME Account(c) PROVE Inv'
  <2>1. TypeOK'
    BY <1>2 DEF Account, Inv, TypeOK, Phases
  <2>2. CallbackInv'
    BY <1>0, <1>2 DEF Account, Inv, CallbackInv, TypeOK
  <2> QED
    BY <1>2, <2>1, <2>2 DEF Account, Inv, QueueInv, ThreadInv, HasReceiver,
                            Asked
<1>3. ASSUME Log(c) PROVE Inv'
  <2>0. /\ phase[c] = "log" /\ stage < 4
        /\ phase' = [phase EXCEPT ![c] = phase'[c]]
        /\ phase'[c] \in {"check", "thread"}
        /\ UNCHANGED <<stage, module_unloading, hr_timer, throttle_ipi, stop_ipi,
                       throttled_task, over_budget, threadVars, g_logging,
                       g_logging_workqueue>>
    BY <1>0, <1>3 DEF Log, Inv, CallbackInv, TypeOK
  <2>1. TypeOK'
    <3>1. works' = works \/ works' = works \union {c}
      BY <1>3 DEF Log, LoggingCore
    <3>2. phase' \in [Core -> Phases] /\ works' \in SUBSET Core
      BY <2>0, <3>1 DEF Inv, TypeOK, Phases
    <3> QED
      BY <2>0, <3>2 DEF Inv, TypeOK
  <2>2. CallbackInv'
    BY <1>0, <2>0 DEF Inv, CallbackInv, TypeOK
  <2>3. QueueInv'
    BY <1>3 DEF Log, Inv, QueueInv
  <2>4. ThreadInv'
    BY <2>0 DEF Inv, ThreadInv, HasReceiver, Asked
  <2> QED
    BY <2>1, <2>2, <2>3, <2>4 DEF Inv
<1>4. ASSUME Check(c) PROVE Inv'
  <2>0. /\ phase[c] = "check" /\ stage < 4
        /\ phase' = [phase EXCEPT ![c] = "thread"]
        /\ throttle_ipi' \in [Core -> BOOLEAN]
        /\ throttled_task' \in [Core -> BOOLEAN]
        /\ UNCHANGED <<stage, module_unloading, hr_timer, stop_ipi, over_budget,
                       threadVars, logVars>>
    <3>1. /\ phase[c] = "check"
          /\ phase' = [phase EXCEPT ![c] = "thread"]
          /\ UNCHANGED <<stage, module_unloading, hr_timer, stop_ipi,
                         over_budget, threadVars, logVars>>
      BY <1>4 DEF Check
    <3>2. stage < 4
      BY <1>0, <3>1 DEF Inv, CallbackInv
    <3>3. /\ throttle_ipi' \in [Core -> BOOLEAN]
          /\ throttled_task' \in [Core -> BOOLEAN]
      <4>1. throttle_ipi \in [Core -> BOOLEAN] /\ throttled_task \in [Core -> BOOLEAN]
        BY DEF Inv, TypeOK
      <4>2. \/ UNCHANGED <<throttle_ipi, throttled_task>>
            \/ ThrottleCluster(c, cluster_of[c])
        BY <1>4 DEF Check
      <4> QED
        BY <4>1, <4>2, ThrottleClusterType
    <3> QED
      BY <3>1, <3>2, <3>3
  <2>1. TypeOK'
    BY <2>0 DEF Inv, TypeOK, Phases
  <2>2. CallbackInv'
    BY <1>0, <2>0 DEF Inv, CallbackInv, TypeOK
  <2>3. QueueInv'
    BY <2>0 DEF Inv, QueueInv
  <2>4. ThreadInv'
    BY <1>0, <2>0 DEF Inv, ThreadInv, HasReceiver, Asked
  <2> QED
    BY <2>1, <2>2, <2>3, <2>4 DEF Inv
<1>5. ASSUME TakeThrottle(c) PROVE Inv'
  <2>1. TypeOK'
    BY <1>5 DEF TakeThrottle, Inv, TypeOK
  <2>2. ThreadInv'
    BY <1>5 DEF TakeThrottle, Inv, TypeOK, ThreadInv, HasReceiver, Asked
  <2> QED
    BY <1>5, <2>1, <2>2 DEF TakeThrottle, Inv, CallbackInv, QueueInv
<1>6. ASSUME TakeStop(c) PROVE Inv'
  <2>1. TypeOK'
    BY <1>6 DEF TakeStop, Inv, TypeOK
  <2>2. CallbackInv'
    BY <1>0, <1>6 DEF TakeStop, Inv, TypeOK, CallbackInv
  <2> QED
    BY <1>6, <2>1, <2>2 DEF TakeStop, Inv, QueueInv, ThreadInv, HasReceiver,
                            Asked
<1>7. ASSUME ThrottleThread(c) PROVE Inv'
  <2>1. TypeOK'
    BY <1>7 DEF ThrottleThread, Inv, TypeOK
  <2>2. ThreadInv'
    BY <1>0, <1>7 DEF ThrottleThread, Undisturbed, Inv, TypeOK, ThreadInv,
                      HasReceiver, Asked
  <2> QED
    BY <1>7, <2>1, <2>2 DEF ThrottleThread, Inv, CallbackInv, QueueInv
<1>8. ASSUME LogWorker(c) PROVE Inv'
  <2>1. TypeOK'
    BY <1>8 DEF LogWorker, Inv, TypeOK
  <2> QED
    BY <1>8, <2>1 DEF LogWorker, Inv, CallbackInv, QueueInv, ThreadInv,
                      HasReceiver, Asked
<1> QED
  BY <1>1, <1>2, <1>3, <1>4, <1>5, <1>6, <1>7, <1>8 DEF Callback

(* The steps of the receivers, which are over once the stage is.           *)
LEMMA ReceiverStepInv ==
    ASSUME Inv, NEW k \in Cluster, GpuSample(k) \/ Receiver(k)
    PROVE  Inv'
<1> USE UnloadAssumption DEF callbackVars, threadVars, logVars
<1>0. stage \in 1..9
  BY StageType DEF Inv
<1>1. ASSUME GpuSample(k) PROVE Inv'
  <2>1. TypeOK'
    BY <1>1 DEF GpuSample, Inv, TypeOK
  <2> QED
    BY <1>1, <2>1 DEF GpuSample, Inv, CallbackInv, QueueInv, ThreadInv,
                      HasReceiver, Asked
<1>2. ASSUME Receiver(k) PROVE Inv'
  <2>0. /\ HasReceiver(k) /\ receiver[k] # "exited" /\ stage < 6
        /\ receiver' = [receiver EXCEPT ![k] = receiver'[k]]
        /\ receiver'[k] \in ReceiverPhases
        /\ UNCHANGED <<stage, module_unloading, callbackVars, stop_ipi,
                       throttle_thread, feigned, should_stop, g_logging,
                       g_logging_workqueue>>
    BY <1>0, <1>2 DEF Receiver, ReceiverAccounts, ReceiverLogs, ReceiverQueues,
       ReceiverChecks, ReceiverThrottles, ReceiverAt, NextWait, Inv, TypeOK,
       ThreadInv, ReceiverPhases
  <2>1. /\ throttle_ipi' \in [Core -> BOOLEAN]
        /\ throttled_task' \in [Core -> BOOLEAN]
    <3>1. \/ UNCHANGED <<throttle_ipi, throttled_task>>
          \/ ThrottleCluster(receiver_core[k], k)
      BY <1>2 DEF Receiver, ReceiverAccounts, ReceiverLogs, ReceiverQueues,
         ReceiverChecks, ReceiverThrottles
    <3>2. receiver_core[k] \in Core
      BY <2>0 DEF HasReceiver
    <3> QED
      BY <3>1, <3>2, ThrottleClusterType DEF Inv, TypeOK
  <2>2. /\ over_budget' \in [Cluster -> BOOLEAN]
        /\ gpu_beats_ready' \in [Cluster -> BOOLEAN]
    <3>1. /\ over_budget \in [Cluster -> BOOLEAN]
          /\ gpu_beats_ready \in [Cluster -> BOOLEAN]
      BY DEF Inv, TypeOK
    <3>2. /\ \/ over_budget' = over_budget
             \/ \E over \in BOOLEAN :
                   over_budget' = [over_budget EXCEPT ![k] = @ \/ over]
          /\ \/ gpu_beats_ready' = gpu_beats_ready
             \/ gpu_beats_ready' = [gpu_beats_ready EXCEPT ![k] = FALSE]
      BY <1>2 DEF Receiver, ReceiverAccounts, ReceiverLogs, ReceiverQueues,
         ReceiverChecks, ReceiverThrottles
    <3> QED
      BY <3>1, <3>2
  <2>3. \/ works' = works
        \/ g_logging_workqueue = "live" /\ works' = works \union {receiver_core[k]}
    BY <1>2 DEF Receiver, ReceiverAccounts, ReceiverLogs, ReceiverQueues,
       ReceiverChecks, ReceiverThrottles
  <2>4. receiver_core[k] \in Core
    BY <2>0 DEF HasReceiver
  <2>5. TypeOK'
    BY <2>0, <2>1, <2>2, <2>3, <2>4 DEF Inv, TypeOK
  <2>6. CallbackInv'
    BY <2>0 DEF Inv, CallbackInv
  <2>7. QueueInv'
    BY <2>0, <2>3 DEF Inv, QueueInv
  <2>8. ThreadInv'
    BY <1>0, <2>0 DEF Inv, ThreadInv, HasReceiver, Asked
  <2> QED
    BY <2>5, <2>6, <2>7, <2>8 DEF Inv
<1> QED
  BY <1>1, <1>2

(* The steps of cl_mem_reg_exit. *)
LEMMA ExitStepInv == Inv /\ Exit => Inv'
<1> SUFFICES ASSUME Inv, Exit PROVE Inv'
  OBVIOUS
<1> USE UnloadAssumption DEF callbackVars, threadVars, logVars, ExitAt, Proceed
<1>0. stage \in 1..9
  BY StageType DEF Inv
<1>1. ASSUME BeginExit PROVE Inv'
  <2>0. stage = 1 /\ stage' = 2
    BY <1>0, <1>1, StageNumbers DEF BeginExit
  <2>1. TypeOK'
    <3>1. stage' \in 1..Len(Stages)
      BY <2>0, StageCount
    <3>2. g_logging' \in BOOLEAN /\ module_unloading' \in BOOLEAN
      BY <1>1, Zenon DEF BeginExit
    <3> QED
      BY <1>1, <3>1, <3>2 DEF BeginExit, Inv, TypeOK
  <2> QED
    BY <1>1, <2>0, <2>1 DEF BeginExit, Inv, CallbackInv, QueueInv, ThreadInv,
                            HasReceiver, Asked
<1>2. ASSUME StopOthers PROVE Inv'
  <2>0. stage = 2 /\ stage' = 3
    BY <1>0, <1>2, StageNumbers DEF StopOthers
  <2>1. TypeOK'
    BY <1>2, <2>0, StageCount DEF StopOthers, Inv, TypeOK
  <2>2. CallbackInv'
    <3>1. stop_ipi' = [c \in Core |-> c # exit_core]
      BY <1>2 DEF StopOthers
    <3>2. ASSUME NEW c \in Core \ {exit_core} PROVE stop_ipi'[c]
      <4>1. stop_ipi'[c] = (c # exit_core)
        BY <3>1, c \in Core, Zenon
      <4>2. c # exit_core
        OBVIOUS
      <4> QED
        BY <4>1, <4>2, Zenon
    <3> QED
      BY <2>0, <3>2 DEF CallbackInv
  <2> QED
    BY <1>2, <2>0, <2>1, <2>2 DEF StopOthers, Inv, QueueInv, ThreadInv,
                                  HasReceiver, Asked
<1>3. ASSUME StopSelf PROVE Inv'
  <2>0. stage = 3 /\ stage' = 4
    BY <1>0, <1>3, StageNumbers DEF StopSelf
  <2>1. TypeOK'
    BY <1>3, <2>0, StageCount DEF StopSelf, Inv, TypeOK
  <2>2. CallbackInv'
    BY <1>3, <2>0 DEF StopSelf, OthersStopped, Inv, TypeOK, CallbackInv
  <2> QED
    BY <1>3, <2>0, <2>1, <2>2 DEF StopSelf, Inv, QueueInv, ThreadInv,
                                  HasReceiver, Asked
<1>4. ASSUME DestroyQueue PROVE Inv'
  <2>0. stage = 4 /\ stage' = 5
    BY <1>0, <1>4, StageNumbers DEF DestroyQueue
  <2>1. TypeOK'
    BY <1>4, <2>0, StageCount DEF DestroyQueue, Inv, TypeOK
  <2>2. QueueInv'
    BY <1>4, <2>0 DEF DestroyQueue, Inv, TypeOK, QueueInv
  <2> QED
    BY <1>4, <2>0, <2>1, <2>2 DEF DestroyQueue, Inv, CallbackInv, ThreadInv,
                                  HasReceiver, Asked
<1>5. ASSUME NEW k \in Cluster, FeignSample(k) \/ StopReceiver(k) PROVE Inv'
  <2>1. TypeOK'
    <3>1. CASE FeignSample(k)
      BY <1>5, <3>1 DEF FeignSample, Inv, TypeOK
    <3>2. CASE StopReceiver(k)
      <4>1. should_stop' \subseteq
                (Core \X {"kthrottle"}) \union (Cluster \X {"receiver"})
        BY <3>2 DEF StopReceiver, Inv, TypeOK
      <4> QED
        BY <3>2, <4>1 DEF StopReceiver, Inv, TypeOK
    <3> QED
      BY <1>5, <3>1, <3>2
  <2>2. ThreadInv'
    BY <1>5 DEF FeignSample, StopReceiver, Inv, ThreadInv, HasReceiver, Asked
  <2> QED
    BY <1>5, <2>1, <2>2 DEF FeignSample, StopReceiver, Inv, CallbackInv,
                            QueueInv
<1>6. ASSUME ReceiversStopped PROVE Inv'
  <2>0. stage = 5 /\ stage' = 6
    BY <1>0, <1>6, StageNumbers DEF ReceiversStopped
  <2>1. TypeOK'
    BY <1>6, <2>0, StageCount DEF ReceiversStopped, Inv, TypeOK
  <2>2. \A k \in Cluster : HasReceiver(k) => receiver[k] = "exited"
    BY <1>6 DEF ReceiversStopped, LiveReceivers
  <2>3. ThreadInv'
    BY <1>6, <2>0, <2>2 DEF ReceiversStopped, Inv, ThreadInv, HasReceiver, Asked
  <2> QED
    BY <1>6, <2>0, <2>1, <2>3 DEF ReceiversStopped, Inv, CallbackInv, QueueInv
<1>7. ASSUME CloseLogs PROVE Inv'
  <2>0. stage = 6 /\ stage' = 7
    BY <1>0, <1>7, StageNumbers DEF CloseLogs
  <2>1. TypeOK'
    BY <1>7, <2>0, StageCount DEF CloseLogs, Inv, TypeOK
  <2> QED
    BY <1>7, <2>0, <2>1 DEF CloseLogs, Inv, CallbackInv, QueueInv, ThreadInv,
                            HasReceiver, Asked
<1>8. ASSUME NEW c \in Core, StopThrottleThread(c) PROVE Inv'
  <2>0. stage = 7
    BY <1>0, <1>8, StageNumbers DEF StopThrottleThread
  <2>1. TypeOK'
    BY <1>8 DEF StopThrottleThread, Inv, TypeOK
  <2>2. ThreadInv'
    BY <1>8, <2>0 DEF StopThrottleThread, Inv, ThreadInv, HasReceiver, Asked
  <2> QED
    BY <1>8, <2>1, <2>2 DEF StopThrottleThread, Inv, CallbackInv, QueueInv
<1>9. ASSUME ThrottleThreadsStopped PROVE Inv'
  <2>0. stage = 7 /\ stage' = 8
    BY <1>0, <1>9, StageNumbers DEF ThrottleThreadsStopped
  <2>1. TypeOK'
    BY <1>9, <2>0, StageCount DEF ThrottleThreadsStopped, Inv, TypeOK
  <2>2. \A c \in Core : throttle_thread[c] = "exited"
    BY <1>9 DEF ThrottleThreadsStopped, LiveThrottleThreads
  <2>3. ThreadInv'
    BY <1>9, <2>0, <2>2 DEF ThrottleThreadsStopped, Inv, ThreadInv,
                            HasReceiver, Asked
  <2> QED
    BY <1>9, <2>0, <2>1, <2>3 DEF ThrottleThreadsStopped, Inv, CallbackInv,
                                  QueueInv
<1>10. ASSUME Free PROVE Inv'
  <2>0. stage = 8 /\ stage' = 9
    BY <1>0, <1>10, StageNumbers DEF Free
  <2>1. TypeOK'
    BY <1>10, <2>0, StageCount DEF Free, Inv, TypeOK
  <2> QED
    BY <1>10, <2>0, <2>1 DEF Free, Inv, CallbackInv, QueueInv, ThreadInv,
                             HasReceiver, Asked
<1> QED
  BY <1>1, <1>2, <1>3, <1>4, <1>5, <1>6, <1>7, <1>8, <1>9, <1>10 DEF Exit

LEMMA StepInv == Inv /\ [Next]_vars => Inv'
<1>1. Inv /\ UNCHANGED vars => Inv'
  <2> SUFFICES ASSUME Inv, UNCHANGED vars PROVE Inv'
    OBVIOUS
  <2> USE DEF vars, callbackVars, threadVars, logVars
  <2>1. TypeOK'
    BY DEF Inv, TypeOK
  <2> QED
    BY <2>1 DEF Inv, CallbackInv, QueueInv, ThreadInv, HasReceiver, Asked
<1> QED
  BY <1>1, CoreStepInv, ReceiverStepInv, ExitStepInv DEF Next

LEMMA Invariance == Spec => []Inv
  BY InitInv, StepInv, PTL DEF Spec

-----------------------------------------------------------------------------

(* Every variable of the unloading keeps its type. *)
THEOREM TypeCorrect == Spec => []TypeOK
<1>1. Inv => TypeOK
  BY DEF Inv
<1> QED
  BY <1>1, Invariance, PTL

(* on_each_cpu(__stop_counter, NULL, 1) leaves no callback on any core,    *)
(* whatever the core rmmod runs on and whichever callbacks were running.   *)
THEOREM CallbacksStopped == Spec => []NoCallbackAfterStop
<1>1. Inv => NoCallbackAfterStop
  BY StageType, StagesPast DEF Inv, CallbackInv, NoCallbackAfterStop
<1> QED
  BY <1>1, Invariance, PTL

(* destroy_workqueue comes after the last record a callback could queue,   *)
(* and the files are closed after it.                                      *)
THEOREM LogsWritten == Spec => []LogsWrittenBeforeClose
<1>1. Inv => LogsWrittenBeforeClose
  <2> SUFFICES ASSUME Inv, Past("close") PROVE works = {}
    BY DEF LogsWrittenBeforeClose
  <2>1. stage >= 7 /\ stage \in 1..9
    BY StageType, StagesPast DEF Inv
  <2> QED
    BY <2>1 DEF Inv, QueueInv
<1> QED
  BY <1>1, Invariance, PTL

(* free_percpu(_core_info) finds no timer, callback, interrupt or thread   *)
(* that could still use it: because the receivers are stopped before the   *)
(* kthrottle threads, an interrupt to a core is taken before its thread    *)
(* ends, and none is sent later.                                           *)
THEOREM CoreInfoUnused == Spec => []NothingOutlivesCoreInfo
<1>1. Inv => NothingOutlivesCoreInfo
  <2> SUFFICES ASSUME Inv, Past("free") PROVE NothingOutlivesCoreInfo
    BY DEF NothingOutlivesCoreInfo
  <2>1. stage >= 9 /\ stage \in 1..9
    BY StageType, StagesPast DEF Inv
  <2>2. \A c \in Core : ~hr_timer[c] /\ phase[c] = "thread" /\ ~stop_ipi[c]
    <3>1. stage # 3 /\ stage >= 4
      BY <2>1
    <3> QED
      BY <3>1, Zenon DEF Inv, CallbackInv
  <2>3. \A c \in Core : throttle_thread[c] = "exited" /\ ~throttle_ipi[c]
    <3>1. stage >= 8
      BY <2>1
    <3> QED
      BY <3>1, Zenon DEF Inv, ThreadInv
  <2>4. \A k \in Cluster : HasReceiver(k) => receiver[k] = "exited"
    BY <2>1 DEF Inv, ThreadInv
  <2> QED
    BY <2>2, <2>3, <2>4 DEF NothingOutlivesCoreInfo
<1> QED
  BY <1>1, Invariance, PTL
=============================================================================
