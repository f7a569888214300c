-------------------------- MODULE RegulationProofs --------------------------
(***************************************************************************)
(* Theorems about Regulation, for every set of cores and clusters and      *)
(* every value of the bounds.                                              *)
(***************************************************************************)
EXTENDS Regulation, BasicFacts

(* A core never charges events its counter has not seen. *)
ChargedBehindCounter == \A c \in Core : old_read_val[c] <= event_count[c]

(* The count is never behind a core, never ahead of the clock, and no core *)
(* is further behind the clock than its timer may be late; a core that has *)
(* exchanged the count has a new value to adopt.                           *)
ClockInv ==
    /\ count <= now + 1
    /\ \A c \in Core : /\ aggregation_period_cnt[c] <= count
                       /\ now <= aggregation_period_cnt[c] + LateTicks
                       /\ phase[c] = "fired" => aggregation_period_cnt[c] < count

Inv == TypeOK /\ ChargedBehindCounter /\ ClockInv

-----------------------------------------------------------------------------

LEMMA InitInv == Init => Inv
BY ClusterAssumption, GpuAssumption, PeriodAssumption
   DEF Init, Inv, TypeOK, ChargedBehindCounter, ClockInv, Phases, ReceiverPhases

LEMMA StepTypeOK == Inv /\ [Next]_vars => TypeOK'
<1>. SUFFICES ASSUME Inv, [Next]_vars PROVE TypeOK'
  OBVIOUS
<1>. USE ClusterAssumption, GpuAssumption, PeriodAssumption DEF Inv, TypeOK
<1>1. CASE Advance
  BY <1>1 DEF Advance, eventVars, throttleVars, clusterVars, gpuVars
<1>2. ASSUME NEW c \in Core, Run(c) PROVE TypeOK'
  BY <1>2 DEF Run, clockVars, throttleVars, clusterVars, gpuVars
<1>3. ASSUME NEW c \in Core, TimerFire(c) PROVE TypeOK'
  BY <1>3 DEF TimerFire, ExchangedCount, eventVars, throttleVars, clusterVars,
              gpuVars, Phases
<1>4. ASSUME NEW c \in Core, AdoptCount(c) PROVE TypeOK'
  BY <1>4 DEF AdoptCount, eventVars, throttleVars, clusterVars, gpuVars, Phases
<1>5. ASSUME NEW c \in Core, Unthrottle(c) PROVE TypeOK'
  BY <1>5 DEF Unthrottle, clockVars, eventVars, gpuVars, Phases
<1>6. ASSUME NEW c \in Core, ResetUsage(c) PROVE TypeOK'
  BY <1>6 DEF ResetUsage, clockVars, eventVars, throttleVars, gpuVars, Phases
<1>7. ASSUME NEW c \in Core, AccountUsage(c) PROVE TypeOK'
  <2>1. UnreadEvents(c) \in Nat /\ Charged(c) \in Nat
    BY DEF UnreadEvents, Charged, ChargedBehindCounter
  <2>2. sigusr1' \in [Cluster -> BOOLEAN]
    BY <1>7 DEF AccountUsage, Signalled
  <2>3. phase' \in [Core -> Phases]
    BY <1>7 DEF AccountUsage, AfterAccounting, Phases
  <2>4. bandwidth_usage' \in [Cluster -> Nat] /\ old_read_val' \in [Core -> Nat]
    BY <1>7, <2>1 DEF AccountUsage
  <2>. QED
    BY <1>7, <2>2, <2>3, <2>4 DEF AccountUsage, clockVars, throttleVars
<1>8. ASSUME NEW c \in Core, CheckPasses(c) \/ CheckExceeds(c) PROVE TypeOK'
  BY <1>8 DEF CheckPasses, CheckExceeds, clockVars, eventVars, throttleVars, clusterVars,
              gpuVars, Phases
<1>9. ASSUME NEW c \in Core, ThrottleCores(c) PROVE TypeOK'
  BY <1>9 DEF ThrottleCores, ThrottleCluster, clockVars, eventVars, gpuVars, Phases
<1>10. ASSUME NEW c \in Core, TakeIpi(c) PROVE TypeOK'
  BY <1>10 DEF TakeIpi, clockVars, eventVars, clusterVars, gpuVars
<1>11. ASSUME NEW c \in Core, ThrottleThread(c) PROVE TypeOK'
  BY <1>11 DEF ThrottleThread, StartSpin, StopSpin, clockVars, eventVars,
               clusterVars, gpuVars
<1>12. ASSUME NEW k \in Cluster, ProfilerSamples(k) PROVE TypeOK'
  BY <1>12 DEF ProfilerSamples, clockVars, eventVars, throttleVars, clusterVars
<1>13. ASSUME NEW k \in Cluster, ReceiverAccounts(k) PROVE TypeOK'
  BY <1>13 DEF ReceiverAccounts, clockVars, eventVars, throttleVars, ReceiverPhases
<1>14. ASSUME NEW k \in Cluster, ReceiverCleans(k) PROVE TypeOK'
  BY <1>14 DEF ReceiverCleans, AfterCleaning, clockVars, eventVars, throttleVars,
               clusterVars, ReceiverPhases
<1>15. ASSUME NEW k \in Cluster, ReceiverChecks(k) PROVE TypeOK'
  BY <1>15 DEF ReceiverChecks, clockVars, eventVars, throttleVars, clusterVars,
               ReceiverPhases
<1>16. ASSUME NEW k \in Cluster, ReceiverThrottles(k) PROVE TypeOK'
  <2>1. gpu_core[k] \in Core
    BY <1>16 DEF ReceiverThrottles, ReceiverRuns
  <2>. QED
    BY <1>16, <2>1 DEF ReceiverThrottles, ThrottleCluster, clockVars, eventVars,
                       clusterVars, ReceiverPhases
<1>17. CASE UNCHANGED vars
  BY <1>17 DEF vars, clockVars, eventVars, throttleVars, clusterVars, gpuVars
<1>. QED
  BY <1>1, <1>2, <1>3, <1>4, <1>5, <1>6, <1>7, <1>8, <1>9, <1>10, <1>11, <1>12,
     <1>13, <1>14, <1>15, <1>16, <1>17 DEF Next, TimerCallback, GpuReceiver

LEMMA StepChargedBehindCounter ==
    Inv /\ [Next]_vars => ChargedBehindCounter'
<1>. SUFFICES ASSUME Inv, [Next]_vars PROVE ChargedBehindCounter'
  OBVIOUS
<1>. USE DEF Inv, TypeOK, ChargedBehindCounter
<1>1. ASSUME NEW c \in Core, Run(c) PROVE ChargedBehindCounter'
  BY <1>1 DEF Run
<1>2. ASSUME NEW c \in Core, AccountUsage(c) PROVE ChargedBehindCounter'
  BY <1>2 DEF AccountUsage, Charged, UnreadEvents
<1>3. CASE UNCHANGED eventVars
  BY <1>3 DEF eventVars
<1>4. \/ \E c \in Core : Run(c) \/ AccountUsage(c)
      \/ UNCHANGED eventVars
  BY DEF Next, TimerCallback, ThrottleThread, GpuReceiver, vars,
         Advance, TimerFire, AdoptCount, Unthrottle, ResetUsage, CheckPasses,
         CheckExceeds, ThrottleCores, TakeIpi, StartSpin, StopSpin, ProfilerSamples,
         ReceiverAccounts, ReceiverCleans, ReceiverChecks, ReceiverThrottles
<1>. QED
  BY <1>1, <1>2, <1>3, <1>4

(* Only three actions touch the clock; every other step of a core leaves   *)
(* the phases in which a new count waits to be adopted.                    *)
LEMMA StepClockInv == Inv /\ [Next]_vars => ClockInv'
<1>. SUFFICES ASSUME Inv, [Next]_vars PROVE ClockInv'
  OBVIOUS
<1>. USE PeriodAssumption DEF Inv, TypeOK, ClockInv
<1>1. CASE Advance
  BY <1>1 DEF Advance
<1>2. ASSUME NEW c \in Core, TimerFire(c) PROVE ClockInv'
  BY <1>2 DEF TimerFire, ExchangedCount
<1>3. ASSUME NEW c \in Core, AdoptCount(c) PROVE ClockInv'
  BY <1>3 DEF AdoptCount
<1>4. ASSUME NEW c \in Core, UNCHANGED clockVars,
             phase' \in {[phase EXCEPT ![c] = p] : p \in Phases \ {"fired"}}
      PROVE  ClockInv'
  BY <1>4 DEF clockVars
<1>5. CASE UNCHANGED <<clockVars, phase>>
  BY <1>5 DEF clockVars
<1>6. \/ Advance
      \/ \E c \in Core : TimerFire(c) \/ AdoptCount(c)
      \/ \E c \in Core :
            /\ UNCHANGED clockVars
            /\ phase' \in {[phase EXCEPT ![c] = p] : p \in Phases \ {"fired"}}
      \/ UNCHANGED <<clockVars, phase>>
  <2>1. ASSUME NEW c \in Core, \/ Unthrottle(c) \/ ResetUsage(c) \/ AccountUsage(c)
                               \/ CheckPasses(c) \/ CheckExceeds(c)
                               \/ ThrottleCores(c)
        PROVE  /\ UNCHANGED clockVars
               /\ phase' \in {[phase EXCEPT ![c] = p] : p \in Phases \ {"fired"}}
    BY <2>1 DEF Unthrottle, ResetUsage, AccountUsage, AfterAccounting,
                CheckPasses, CheckExceeds, ThrottleCores, Phases
  <2>2. ASSUME NEW c \in Core, Run(c) \/ TakeIpi(c) \/ ThrottleThread(c)
        PROVE  UNCHANGED <<clockVars, phase>>
    BY <2>2 DEF Run, TakeIpi, ThrottleThread, StartSpin, StopSpin
  <2>3. ASSUME NEW k \in Cluster, ProfilerSamples(k) \/ GpuReceiver(k)
        PROVE  UNCHANGED <<clockVars, phase>>
    BY <2>3 DEF ProfilerSamples, GpuReceiver, ReceiverAccounts, ReceiverCleans,
                ReceiverChecks, ReceiverThrottles
  <2>. QED
    BY <2>1, <2>2, <2>3 DEF Next, TimerCallback, vars
<1>. QED
  BY <1>1, <1>2, <1>3, <1>4, <1>5, <1>6

LEMMA StepInv == Inv /\ [Next]_vars => Inv'
BY StepTypeOK, StepChargedBehindCounter, StepClockInv DEF Inv

LEMMA Invariance == Spec => []Inv
BY InitInv, StepInv, PTL DEF Spec

-----------------------------------------------------------------------------

(* Every variable keeps its type; in particular no usage ever becomes      *)
(* negative, because a core charges only what its counter has moved by.    *)
THEOREM TypeCorrect == Spec => []TypeOK
<1>1. Inv => TypeOK
  BY DEF Inv
<1>. QED
  BY Invariance, <1>1, PTL

(* The compare-and-exchange in timer_callback_master keeps the cores       *)
(* within LateTicks + 1 aggregation periods of each other.                 *)
THEOREM CoresStayTogether == Spec => []CoresAgree
<1>1. Inv => CoresAgree
  <2>. SUFFICES ASSUME Inv, NEW c \in Core, NEW d \in Core
                PROVE  aggregation_period_cnt[c] - aggregation_period_cnt[d]
                           <= LateTicks + 1
    BY DEF Inv, ClockInv, CoresAgree
  <2>. QED
    BY PeriodAssumption DEF Inv, TypeOK, ClockInv
<1>. QED
  BY Invariance, <1>1, PTL

(* The regulation loop implements the abstract period clock.               *)
THEOREM ImplementsPeriodClock == Spec => LockStep
<1>1. Init => Clock!Init
  BY DEF Init, Clock!Init
<1>2. Inv /\ [Next]_vars => [Clock!Next]_aggregation_period_cnt
  <2>. SUFFICES ASSUME Inv, [Next]_vars
                PROVE  [Clock!Next]_aggregation_period_cnt
    OBVIOUS
  <2>1. ASSUME NEW c \in Core, AdoptCount(c) PROVE Clock!Next
    <3>1. /\ count \in Nat
          /\ \A d \in Core : /\ aggregation_period_cnt[d] \in Nat
                             /\ count <= aggregation_period_cnt[d] + LateTicks + 1
      BY PeriodAssumption DEF Inv, TypeOK, ClockInv
    <3>2. aggregation_period_cnt[c] < count
      BY <2>1 DEF Inv, ClockInv, AdoptCount
    <3>3. count \in aggregation_period_cnt[c] + 1
                    .. aggregation_period_cnt[c] + LateTicks + 1
      BY <3>1, <3>2, PeriodAssumption
    <3>4. Clock!Enter(c, count)
      BY <2>1, <3>1, <3>3 DEF AdoptCount, Clock!Enter
    <3>. QED
      BY <3>3, <3>4 DEF Clock!Next
  <2>2. \/ \E c \in Core : AdoptCount(c)
        \/ UNCHANGED aggregation_period_cnt
    BY DEF Next, TimerCallback, ThrottleThread, GpuReceiver, vars, clockVars,
           Advance, Run, TimerFire, Unthrottle, ResetUsage, AccountUsage,
           CheckPasses, CheckExceeds, ThrottleCores, TakeIpi, StartSpin, StopSpin,
           ProfilerSamples, ReceiverAccounts, ReceiverCleans, ReceiverChecks,
           ReceiverThrottles
  <2>. QED
    BY <2>1, <2>2
<1>. QED
  BY Invariance, <1>1, <1>2, PTL DEF Spec, LockStep, Clock!Spec

-----------------------------------------------------------------------------
(* Regulation periods, when every timer is served within its period.       *)

LEMMA PeriodsBegunStep ==
    ASSUME NEW n \in Nat
    PROVE  /\ PeriodsBegun(n) \in Nat
           /\ PeriodsBegun(0) = 0
           /\ PeriodsBegun(n + 1)
                  = PeriodsBegun(n) + (IF n % g_manage_period_interval = 0 THEN 1 ELSE 0)
<1>. DEFINE Begun(m) == {i \in 1..m : (i - 1) % g_manage_period_interval = 0}
<1>1. IsFiniteSet(Begun(n)) /\ Cardinality(Begun(n)) \in Nat
  <2>1. IsFiniteSet(1..n)
    BY FS_Interval
  <2>. QED
    BY <2>1, FS_Subset, FS_CardinalityType
<1>2. Begun(0) = {}
  OBVIOUS
<1>3. ASSUME n % g_manage_period_interval = 0
      PROVE  Cardinality(Begun(n + 1)) = Cardinality(Begun(n)) + 1
  <2>1. Begun(n + 1) = Begun(n) \union {n + 1}
    BY <1>3
  <2>2. n + 1 \notin Begun(n)
    OBVIOUS
  <2>. HIDE DEF Begun
  <2>. QED
    BY <1>1, <2>1, <2>2, FS_AddElement
<1>4. ASSUME n % g_manage_period_interval # 0
      PROVE  Begun(n + 1) = Begun(n)
  BY <1>4
<1>5. \A m : PeriodsBegun(m) = Cardinality(Begun(m))
  BY DEF PeriodsBegun
<1>6. Cardinality(Begun(0)) = 0
  BY <1>2, FS_EmptySet
<1>. HIDE DEF Begun
<1>. QED
  BY <1>1, <1>3, <1>4, <1>5, <1>6

(* The handler is chosen by the count modulo the interval: with at least   *)
(* two ticks in a period, count + 1 is a regulation tick exactly when a    *)
(* period begins.                                                          *)
LEMMA RegulationTickBegins ==
    ASSUME NEW n \in Nat, g_manage_period_interval > 1
    PROVE  IsRegulationTick(n + 1) <=> n % g_manage_period_interval = 0
<1>. DEFINE r == n % g_manage_period_interval
<1>1. r \in 0..g_manage_period_interval - 1
  BY DivisionWithRemainder, PeriodAssumption
<1>2. (n + 1) % g_manage_period_interval
          = IF r = g_manage_period_interval - 1 THEN 0 ELSE r + 1
  BY RemainderOfSuccessor, PeriodAssumption
<1>. QED
  BY <1>1, <1>2, PeriodAssumption DEF IsRegulationTick

(* A core that serves its timer in time finds the count one ahead.         *)
LEMMA NextCount ==
    ASSUME LateTicks = 0, NEW n \in Nat, NEW m \in Nat, NEW t \in Nat,
           n < m, m <= t + 1, t <= n + LateTicks
    PROVE  m = n + 1
OBVIOUS

(* The leader's reset that its handler has still to make. *)
Pending(k) ==
    IF phase[leader_core[k]] \in {"unthrottle", "reset"} THEN 1 ELSE 0

ResetInv ==
    /\ \A c \in Core : phase[c] = "reset" => IsLeader(c)
    /\ \A k \in Cluster :
          regulation_period_cnt[k] + Pending(k)
              = PeriodsBegun(aggregation_period_cnt[leader_core[k]])

LEMMA ResetInvIsProperty == ResetInv => ResetOncePerPeriod
BY DEF ResetInv, ResetOncePerPeriod, Pending

LEMMA InitResetInv == Init => ResetInv
BY ClusterAssumption, PeriodsBegunStep DEF Init, ResetInv, Pending

LEMMA StepResetInv ==
    ASSUME LateTicks = 0, g_manage_period_interval > 1
    PROVE  Inv /\ ResetInv /\ [Next]_vars => ResetInv'
<1>. SUFFICES ASSUME Inv, ResetInv, [Next]_vars PROVE ResetInv'
  OBVIOUS
<1>. USE ClusterAssumption DEF Inv, TypeOK
<1>1. ASSUME NEW c \in Core, AdoptCount(c) PROVE ResetInv'
  <2>1. count = aggregation_period_cnt[c] + 1
    <3>1. /\ aggregation_period_cnt[c] < count
          /\ count <= now + 1
          /\ now <= aggregation_period_cnt[c] + LateTicks
      BY <1>1 DEF AdoptCount, ClockInv
    <3>2. count \in Nat /\ now \in Nat /\ aggregation_period_cnt[c] \in Nat
      BY PeriodAssumption
    <3>. QED
      BY <3>1, <3>2, NextCount
  <2>2. ASSUME NEW d \in Core, phase'[d] = "reset" PROVE IsLeader(d)
    BY <1>1, <2>2 DEF AdoptCount, ResetInv
  <2>3. ASSUME NEW k \in Cluster, leader_core[k] # c
        PROVE  (regulation_period_cnt[k] + Pending(k)
                   = PeriodsBegun(aggregation_period_cnt[leader_core[k]]))'
    BY <1>1, <2>3 DEF AdoptCount, ResetInv, Pending, clusterVars, PeriodsBegun
  <2>4. ASSUME NEW k \in Cluster, leader_core[k] = c
        PROVE  (regulation_period_cnt[k] + Pending(k)
                   = PeriodsBegun(aggregation_period_cnt[leader_core[k]]))'
    <3>1. regulation_period_cnt[k] = PeriodsBegun(aggregation_period_cnt[c])
      BY <1>1, <2>4 DEF AdoptCount, ResetInv, Pending
    <3>2. PeriodsBegun(count) = regulation_period_cnt[k]
                                + (IF IsRegulationTick(count) THEN 1 ELSE 0)
      <4>. DEFINE n == aggregation_period_cnt[c]
      <4>1. n \in Nat /\ count = n + 1 /\ PeriodsBegun(n) = regulation_period_cnt[k]
        BY <2>1, <3>1
      <4>. HIDE DEF n
      <4>2. PeriodsBegun(n + 1) = PeriodsBegun(n)
                + (IF n % g_manage_period_interval = 0 THEN 1 ELSE 0)
        BY <4>1, PeriodsBegunStep
      <4>3. IsRegulationTick(n + 1) <=> n % g_manage_period_interval = 0
        BY <4>1, RegulationTickBegins
      <4>. QED
        BY <4>1, <4>2, <4>3
    <3>3. Pending(k)' = IF IsRegulationTick(count) THEN 1 ELSE 0
      BY <1>1, <2>4 DEF AdoptCount, Pending
    <3>4. /\ PeriodsBegun(aggregation_period_cnt[leader_core[k]])'
                 = PeriodsBegun(count)
          /\ regulation_period_cnt' = regulation_period_cnt
      BY <1>1, <2>4 DEF AdoptCount, clusterVars, PeriodsBegun
    <3>. QED
      BY <3>2, <3>3, <3>4
  <2>. QED
    BY <2>2, <2>3, <2>4 DEF ResetInv, IsLeader
<1>2. ASSUME NEW c \in Core, Unthrottle(c) PROVE ResetInv'
  BY <1>2 DEF Unthrottle, ResetInv, Pending, IsLeader, clockVars, PeriodsBegun
<1>3. ASSUME NEW c \in Core, ResetUsage(c) PROVE ResetInv'
  <2>1. IsLeader(c)
    BY <1>3 DEF ResetUsage, ResetInv
  <2>. QED
    BY <1>3, <2>1 DEF ResetUsage, ResetInv, Pending, IsLeader, clockVars, PeriodsBegun
<1>4. ASSUME NEW c \in Core,
             UNCHANGED <<aggregation_period_cnt, regulation_period_cnt>>,
             phase[c] \notin {"unthrottle", "reset"},
             phase' \in {[phase EXCEPT ![c] = p] : p \in {"fired", "check", "throttle", "thread"}}
      PROVE  ResetInv'
  BY <1>4 DEF ResetInv, Pending, IsLeader, PeriodsBegun
<1>5. CASE UNCHANGED <<aggregation_period_cnt, regulation_period_cnt, phase>>
  BY <1>5 DEF ResetInv, Pending, IsLeader, PeriodsBegun
<1>6. ASSUME NEW c \in Core, \/ TimerFire(c) \/ AccountUsage(c)
                             \/ CheckPasses(c) \/ CheckExceeds(c) \/ ThrottleCores(c)
      PROVE  /\ UNCHANGED <<aggregation_period_cnt, regulation_period_cnt>>
             /\ phase[c] \notin {"unthrottle", "reset"}
             /\ phase' \in {[phase EXCEPT ![c] = p] : p \in {"fired", "check", "throttle", "thread"}}
  BY <1>6 DEF TimerFire, AccountUsage, AfterAccounting, CheckPasses,
              CheckExceeds, ThrottleCores, clockVars, clusterVars
<1>7. \/ \E c \in Core : \/ AdoptCount(c) \/ Unthrottle(c) \/ ResetUsage(c)
                         \/ TimerFire(c) \/ AccountUsage(c)
                         \/ CheckPasses(c) \/ CheckExceeds(c) \/ ThrottleCores(c)
      \/ UNCHANGED <<aggregation_period_cnt, regulation_period_cnt, phase>>
  BY DEF Next, TimerCallback, ThrottleThread, GpuReceiver, vars, clockVars,
         clusterVars, Advance, Run, TakeIpi, StartSpin, StopSpin,
         ProfilerSamples, ReceiverAccounts, ReceiverCleans, ReceiverChecks,
         ReceiverThrottles
<1>. QED
  BY <1>1, <1>2, <1>3, <1>4, <1>5, <1>6, <1>7

(* With timers served within their period and at least two aggregation     *)
(* periods in a regulation period, the leader resets the usage exactly     *)
(* once in every regulation period it enters.                              *)
THEOREM LeaderResetsOncePerPeriod ==
    ASSUME LateTicks = 0, g_manage_period_interval > 1
    PROVE  Spec => []ResetOncePerPeriod
<1>. QED
  BY Invariance, InitResetInv, StepResetInv, ResetInvIsProperty, PTL DEF Spec

-----------------------------------------------------------------------------
(* How long a core stays throttled, under the same assumptions.            *)

(* The aggregation periods since the last regulation tick before n. *)
Elapsed(n) ==
    LET r == n % g_manage_period_interval
    IN  IF r = 0 THEN g_manage_period_interval - 1 ELSE r - 1

LEMMA ElapsedStep ==
    ASSUME NEW n \in Nat, g_manage_period_interval > 1
    PROVE  /\ Elapsed(n) \in 0..g_manage_period_interval - 1
           /\ ~IsRegulationTick(n + 1) => Elapsed(n + 1) = Elapsed(n) + 1
<1>. DEFINE r == n % g_manage_period_interval
<1>1. r \in 0..g_manage_period_interval - 1
  BY DivisionWithRemainder, PeriodAssumption
<1>2. (n + 1) % g_manage_period_interval
          = IF r = g_manage_period_interval - 1 THEN 0 ELSE r + 1
  BY RemainderOfSuccessor, PeriodAssumption
<1>. QED
  BY <1>1, <1>2, PeriodAssumption DEF IsRegulationTick, Elapsed

(* A core was told to throttle in the regulation period it is in, or is    *)
(* about to clear that at the period's end.                                *)
PenaltyOf(c) ==
    throttled_task[c] =>
        IF phase[c] = "unthrottle"
        THEN aggregation_period_cnt[c]
                 <= throttled_time[c] + g_manage_period_interval + 1
        ELSE aggregation_period_cnt[c] - Elapsed(aggregation_period_cnt[c])
                 <= throttled_time[c] + 1

PenaltyInv == \A c \in Core : PenaltyOf(c)

LEMMA StepPenaltyInv ==
    ASSUME LateTicks = 0, g_manage_period_interval > 1
    PROVE  Inv /\ PenaltyInv /\ [Next]_vars => PenaltyInv'
<1>. SUFFICES ASSUME Inv, PenaltyInv, [Next]_vars, NEW d \in Core
              PROVE  PenaltyOf(d)'
  BY DEF PenaltyInv
<1>. USE ClusterAssumption DEF Inv, TypeOK
<1>0. /\ aggregation_period_cnt[d] \in Nat /\ throttled_time[d] \in Nat
      /\ now \in Nat /\ g_manage_period_interval \in Nat
      /\ aggregation_period_cnt[d] <= now + 1
      /\ Elapsed(aggregation_period_cnt[d]) \in 0..g_manage_period_interval - 1
  BY PeriodAssumption, ElapsedStep DEF ClockInv
<1>1. CASE AdoptCount(d) /\ throttled_task[d]
  <2>. DEFINE n == aggregation_period_cnt[d]
              t == throttled_time[d]
  <2>1. count = n + 1
    <3>1. n < count /\ count <= now + 1 /\ now <= n + LateTicks /\ count \in Nat
      BY <1>1 DEF AdoptCount, ClockInv
    <3>. QED
      BY <1>0, <3>1, NextCount
  <2>2. /\ aggregation_period_cnt'[d] = n + 1 /\ throttled_time'[d] = t
        /\ phase'[d] = IF IsRegulationTick(n + 1) THEN "unthrottle" ELSE "account"
    BY <1>1, <2>1 DEF AdoptCount, throttleVars
  <2>3. n - Elapsed(n) <= t + 1
    BY <1>1 DEF AdoptCount, PenaltyInv, PenaltyOf
  <2>4. ~IsRegulationTick(n + 1) => Elapsed(n + 1) = Elapsed(n) + 1
    BY <1>0, ElapsedStep
  <2>5. Elapsed(aggregation_period_cnt[d])' = Elapsed(n + 1)
    BY <2>2 DEF Elapsed
  <2>. HIDE DEF n, t
  <2>6. n \in Nat /\ t \in Nat /\ Elapsed(n) \in 0..g_manage_period_interval - 1
    BY <1>0 DEF n, t
  <2>7. CASE IsRegulationTick(n + 1)
    <3>1. n + 1 <= t + g_manage_period_interval + 1
      BY <1>0, <2>3, <2>6
    <3>. QED
      BY <2>2, <2>7, <3>1 DEF PenaltyOf
  <2>8. CASE ~IsRegulationTick(n + 1)
    <3>1. (n + 1) - Elapsed(n + 1) <= t + 1
      BY <2>3, <2>4, <2>6, <2>8
    <3>. QED
      BY <2>2, <2>5, <2>8, <3>1 DEF PenaltyOf
  <2>. QED
    BY <2>7, <2>8
<1>2. CASE ~throttled_task'[d]
  BY <1>2, Zenon DEF PenaltyOf
<1>3. ASSUME throttled_time'[d] = now, phase[d] # "unthrottle",
             UNCHANGED aggregation_period_cnt, phase'[d] # "unthrottle"
      PROVE  PenaltyOf(d)'
  <2>1. aggregation_period_cnt[d] - Elapsed(aggregation_period_cnt[d]) <= now + 1
    BY <1>0
  <2>. QED
    BY <1>3, <2>1 DEF PenaltyOf, Elapsed
<1>4. ASSUME throttled_task'[d] = throttled_task[d],
             throttled_time'[d] = throttled_time[d],
             aggregation_period_cnt'[d] = aggregation_period_cnt[d],
             phase'[d] = "unthrottle" <=> phase[d] = "unthrottle"
      PROVE  PenaltyOf(d)'
  BY <1>4 DEF PenaltyInv, PenaltyOf, Elapsed
<1>5. ASSUME NEW c \in Core, Unthrottle(c) PROVE PenaltyOf(d)'
  <2>1. CASE c = d
    BY <1>2, <1>5, <2>1 DEF Unthrottle
  <2>2. CASE c # d
    BY <1>4, <1>5, <2>2 DEF Unthrottle, clockVars
  <2>. QED
    BY <2>1, <2>2
<1>6. ASSUME NEW c \in Core, TakeIpi(c) PROVE PenaltyOf(d)'
  <2>1. CASE c = d
    BY <1>3, <1>6, <2>1 DEF TakeIpi, clockVars
  <2>2. CASE c # d
    BY <1>4, <1>6, <2>2 DEF TakeIpi, clockVars
  <2>. QED
    BY <2>1, <2>2
<1>7. ASSUME NEW c \in Core, NEW k \in Cluster, ThrottleCluster(c, k),
             phase[c] # "unthrottle", UNCHANGED clockVars,
             phase'[d] = "unthrottle" <=> phase[d] = "unthrottle"
      PROVE  PenaltyOf(d)'
  <2>1. CASE d \in CalledLocally(c, k)
    <3>1. d = c
      BY <2>1 DEF CalledLocally
    <3>. QED
      BY <1>3, <1>7, <2>1, <3>1 DEF ThrottleCluster, clockVars
  <2>2. CASE d \notin CalledLocally(c, k)
    BY <1>4, <1>7, <2>2 DEF ThrottleCluster, clockVars
  <2>. QED
    BY <2>1, <2>2
<1>8. ASSUME NEW c \in Core, ThrottleCores(c) PROVE PenaltyOf(d)'
  <2>1. /\ ThrottleCluster(c, cluster_of[c]) /\ phase[c] # "unthrottle"
        /\ UNCHANGED clockVars /\ cluster_of[c] \in Cluster
        /\ phase'[d] = "unthrottle" <=> phase[d] = "unthrottle"
    BY <1>8 DEF ThrottleCores
  <2>. QED
    BY <1>7, <2>1
<1>9. ASSUME NEW k \in Cluster, ReceiverThrottles(k) PROVE PenaltyOf(d)'
  <2>1. /\ ThrottleCluster(gpu_core[k], k) /\ phase[gpu_core[k]] # "unthrottle"
        /\ gpu_core[k] \in Core /\ UNCHANGED <<clockVars, phase>>
    <3>1. /\ ThrottleCluster(gpu_core[k], k) /\ phase[gpu_core[k]] = "thread"
          /\ gpu_core[k] # NoCore /\ UNCHANGED <<clockVars, phase>>
      BY <1>9 DEF ReceiverThrottles, ReceiverRuns
    <3>. QED
      BY <3>1, GpuAssumption
  <2>. QED
    BY <1>7, <2>1
<1>10. ASSUME NEW c \in Core, AdoptCount(c) PROVE PenaltyOf(d)'
  <2>1. CASE c = d
    <3>1. throttled_task' = throttled_task
      BY <1>10 DEF AdoptCount, throttleVars
    <3>. QED
      BY <1>1, <1>2, <1>10, <2>1, <3>1
  <2>2. CASE c # d
    BY <1>4, <1>10, <2>2 DEF AdoptCount, throttleVars
  <2>. QED
    BY <2>1, <2>2
<1>11. ASSUME NEW c \in Core, \/ TimerFire(c) \/ ResetUsage(c) \/ AccountUsage(c)
                              \/ CheckPasses(c) \/ CheckExceeds(c)
       PROVE  PenaltyOf(d)'
  <2>1. /\ UNCHANGED <<aggregation_period_cnt, throttleVars>>
        /\ phase'[d] = "unthrottle" <=> phase[d] = "unthrottle"
    BY <1>11 DEF TimerFire, ResetUsage, AccountUsage, AfterAccounting, CheckPasses,
                 CheckExceeds, clockVars
  <2>. QED
    BY <1>4, <2>1 DEF throttleVars
<1>12. CASE \/ Advance \/ UNCHANGED vars
            \/ \E c \in Core : Run(c) \/ ThrottleThread(c)
            \/ \E k \in Cluster : \/ ProfilerSamples(k) \/ ReceiverAccounts(k)
                                  \/ ReceiverCleans(k) \/ ReceiverChecks(k)
  <2>1. UNCHANGED <<aggregation_period_cnt, throttled_task, throttled_time, phase>>
    BY <1>12 DEF vars, clockVars, throttleVars, Advance, Run, ThrottleThread,
       StartSpin, StopSpin, ProfilerSamples, ReceiverAccounts, ReceiverCleans,
       ReceiverChecks
  <2>. QED
    BY <1>4, <2>1
<1>. QED
  BY <1>5, <1>6, <1>8, <1>9, <1>10, <1>11, <1>12 DEF Next, TimerCallback, GpuReceiver

(* With timers served within their period and at least two aggregation     *)
(* periods in a regulation period, throttling is a penalty of at most one  *)
(* regulation period, as ThrottlingExpires.                                *)
THEOREM PenaltyExpires ==
    ASSUME LateTicks = 0, g_manage_period_interval > 1
    PROVE  Spec => []ThrottlingExpires
<1>1. Init => PenaltyInv
  BY DEF Init, PenaltyInv, PenaltyOf
<1>2. Inv /\ PenaltyInv => ThrottlingExpires
  <2>. SUFFICES ASSUME Inv, PenaltyInv, NEW c \in Core, throttled_task[c]
                PROVE  now <= throttled_time[c] + g_manage_period_interval + 1
    BY DEF ThrottlingExpires
  <2>1. /\ now \in Nat /\ aggregation_period_cnt[c] \in Nat
        /\ throttled_time[c] \in Nat /\ now <= aggregation_period_cnt[c]
    BY PeriodAssumption DEF Inv, TypeOK, ClockInv
  <2>2. Elapsed(aggregation_period_cnt[c]) \in 0..g_manage_period_interval - 1
    BY <2>1, ElapsedStep
  <2>3. PenaltyOf(c)
    BY DEF PenaltyInv
  <2>. QED
    BY <2>1, <2>2, <2>3, PeriodAssumption DEF PenaltyOf
<1>. QED
  BY <1>1, <1>2, Invariance, StepPenaltyInv, PTL DEF Spec

-----------------------------------------------------------------------------
(* Traffic over the budget.                                                *)

(* With timers served within their period no core is more than one period  *)
(* behind the count, and none is once a core is due to move the count on.  *)
LEMMA CoresAdjacent ==
    ASSUME LateTicks = 0, Inv
    PROVE  /\ \A c \in Core : \/ aggregation_period_cnt[c] = count
                              \/ aggregation_period_cnt[c] + 1 = count
           /\ now >= count => \A c \in Core : aggregation_period_cnt[c] = count
BY PeriodAssumption DEF Inv, TypeOK, ClockInv

NoticedIn(k) ==
    Exceeds(k) =>
        \/ log_lost[k]
        \/ \E c \in CoresOf(k) : Notices(c)
        \/ receiver[k] \in {"clean", "check", "throttle"}
        \/ phase[leader_core[k]] \in {"unthrottle", "reset"}
        \/ \A c \in CoresOf(k) : YetToCheck(c)

LEMMA TimerNoticed ==
    ASSUME LateTicks = 0, Inv, NEW k \in Cluster, NoticedIn(k), NEW c \in Core,
           TimerFire(c) \/ AdoptCount(c)
    PROVE  NoticedIn(k)'
<1>. USE ClusterAssumption DEF Inv, TypeOK
<1>0. /\ leader_core[k] \in Core /\ CoresOf(k) \subseteq Core
      /\ UNCHANGED <<Exceeds(k), log_lost, ipi, throttled_task, receiver>>
  BY DEF CoresOf, TimerFire, AdoptCount, throttleVars, clusterVars, gpuVars, Exceeds
<1>1. CASE TimerFire(c)
  <2>1. /\ phase[c] = "thread" /\ phase' = [phase EXCEPT ![c] = "fired"]
        /\ UNCHANGED aggregation_period_cnt
    BY <1>1 DEF TimerFire
  <2>2. ASSUME NEW d \in Core, Notices(d) PROVE Notices(d)'
    BY <1>0, <2>1, <2>2 DEF Notices
  <2>3. ASSUME NEW d \in Core, YetToCheck(d) PROVE YetToCheck(d)'
    <3>1. CASE count' = count
      BY <2>1, <2>3, <3>1 DEF YetToCheck, IsRegulationTick
    <3>2. CASE count' # count
      <4>1. now >= count
        BY <1>1, <3>2 DEF TimerFire, ExchangedCount
      <4>2. aggregation_period_cnt[d] = count
        BY <4>1, CoresAdjacent
      <4>. QED
        BY <2>1, <2>3, <4>2 DEF YetToCheck, IsRegulationTick
    <3>. QED
      BY <3>1, <3>2
  <2>4. phase[leader_core[k]] \in {"unthrottle", "reset"} =>
            phase'[leader_core[k]] \in {"unthrottle", "reset"}
    BY <1>0, <2>1
  <2>. QED
    BY <1>0, <2>2, <2>3, <2>4 DEF NoticedIn, CoresOf
<1>2. CASE AdoptCount(c)
  <2>1. /\ phase[c] = "fired" /\ UNCHANGED count
        /\ aggregation_period_cnt' = [aggregation_period_cnt EXCEPT ![c] = count]
        /\ phase' = [phase EXCEPT ![c] = IF IsRegulationTick(count)
                                         THEN "unthrottle" ELSE "account"]
    BY <1>2 DEF AdoptCount
  <2>2. CASE IsRegulationTick(count)
    <3>1. ASSUME NEW d \in Core PROVE YetToCheck(d)'
      <4>1. \/ aggregation_period_cnt'[d] = count
            \/ aggregation_period_cnt'[d] + 1 = count
        BY <2>1, CoresAdjacent
      <4>2. aggregation_period_cnt'[d] \in Nat /\ count \in Nat
        BY <2>1
      <4>. QED
        BY <2>1, <2>2, <4>1, <4>2 DEF YetToCheck, IsRegulationTick
    <3>. QED
      BY <1>0, <3>1 DEF NoticedIn, CoresOf
  <2>3. CASE ~IsRegulationTick(count)
    <3>1. ASSUME NEW d \in Core, Notices(d) PROVE Notices(d)'
      BY <1>0, <2>1, <2>3, <3>1 DEF Notices
    <3>2. ASSUME NEW d \in Core, YetToCheck(d) PROVE YetToCheck(d)'
      BY <2>1, <2>3, <3>2 DEF YetToCheck, IsRegulationTick
    <3>3. phase[leader_core[k]] \in {"unthrottle", "reset"} =>
              phase'[leader_core[k]] \in {"unthrottle", "reset"}
      BY <1>0, <2>1
    <3>. QED
      BY <1>0, <3>1, <3>2, <3>3 DEF NoticedIn, CoresOf
  <2>. QED
    BY <2>2, <2>3
<1>. QED
  BY <1>1, <1>2

(* The steps of a core that leave the tick it serves as it is.             *)
LEMMA CallbackNoticed ==
    ASSUME Inv, NEW k \in Cluster, NoticedIn(k), cur_bandwidth_budget[k] >= 0,
           NEW c \in Core,
           \/ Unthrottle(c) \/ ResetUsage(c) \/ AccountUsage(c)
           \/ CheckPasses(c) \/ CheckExceeds(c) \/ ThrottleCores(c) \/ TakeIpi(c)
    PROVE  NoticedIn(k)'
<1>. USE ClusterAssumption DEF Inv, TypeOK
<1>0. /\ leader_core[k] \in Core /\ cluster_of[leader_core[k]] = k
      /\ CoresOf(k) \subseteq Core /\ \A d \in Core : d \in CoresOf(k) <=> cluster_of[d] = k
      /\ CoresOf(k)' = CoresOf(k)
      /\ UNCHANGED <<receiver, count, aggregation_period_cnt>>
  BY DEF CoresOf, Unthrottle, ResetUsage, AccountUsage, CheckPasses,
         CheckExceeds, ThrottleCores, TakeIpi, clockVars, gpuVars
(* What the step leaves of the disjuncts when it charges nobody. *)
<1>1. ASSUME bandwidth_usage'[k] = bandwidth_usage[k], log_lost'[k] = log_lost[k],
             \A d \in CoresOf(k) : Notices(d) => Notices(d)',
             \A d \in CoresOf(k) : phase[d] = "account" => phase'[d] = "account",
             phase[leader_core[k]] \in {"unthrottle", "reset"} =>
                 phase'[leader_core[k]] \in {"unthrottle", "reset"}
      PROVE  NoticedIn(k)'
  <2>1. \A d \in CoresOf(k) : YetToCheck(d) => YetToCheck(d)'
    BY <1>0, <1>1 DEF YetToCheck, IsRegulationTick
  <2>. QED
    BY <1>0, <1>1, <2>1 DEF NoticedIn, Exceeds
<1>2. ASSUME NEW d \in CoresOf(k), Notices(d)' PROVE NoticedIn(k)'
  BY <1>0, <1>2 DEF NoticedIn
<1>3. CASE Unthrottle(c)
  <2>1. \A d \in CoresOf(k) : Notices(d) => Notices(d)'
    BY <1>0, <1>3 DEF Unthrottle, Notices
  <2>2. phase[leader_core[k]] \in {"unthrottle", "reset"} =>
            phase'[leader_core[k]] \in {"unthrottle", "reset"}
    BY <1>0, <1>3 DEF Unthrottle, IsLeader
  <2>. QED
    BY <1>0, <1>1, <1>3, <2>1, <2>2 DEF Unthrottle
<1>4. CASE ResetUsage(c)
  <2>1. CASE cluster_of[c] = k
    BY <1>4, <2>1 DEF ResetUsage, NoticedIn, Exceeds
  <2>2. CASE cluster_of[c] # k
    <3>1. \A d \in CoresOf(k) : phase'[d] = phase[d]
      BY <1>0, <1>4, <2>2 DEF ResetUsage
    <3>2. /\ bandwidth_usage'[k] = bandwidth_usage[k] /\ log_lost'[k] = log_lost[k]
          /\ UNCHANGED throttleVars /\ leader_core[k] \in CoresOf(k)
      BY <1>0, <1>4, <2>2 DEF ResetUsage
    <3>3. \A d \in CoresOf(k) : Notices(d) => Notices(d)'
      BY <3>1, <3>2 DEF Notices, throttleVars
    <3>. QED
      BY <1>1, <3>1, <3>2, <3>3
  <2>. QED
    BY <2>1, <2>2
<1>5. CASE AccountUsage(c)
  <2>1. CASE cluster_of[c] = k
    <3>1. phase'[c] = "check" \/ log_lost'[k]
      BY <1>5, <2>1 DEF AccountUsage, AfterAccounting, RecordFailed
    <3>2. CASE phase'[c] = "check"
      BY <1>0, <1>2, <2>1, <3>2 DEF Notices
    <3>. QED
      BY <3>1, <3>2 DEF NoticedIn
  <2>2. CASE cluster_of[c] # k
    <3>1. \A d \in CoresOf(k) : phase'[d] = phase[d]
      BY <1>0, <1>5, <2>2 DEF AccountUsage
    <3>2. /\ bandwidth_usage'[k] = bandwidth_usage[k] /\ log_lost'[k] = log_lost[k]
          /\ UNCHANGED throttleVars /\ leader_core[k] \in CoresOf(k)
      BY <1>0, <1>5, <2>2 DEF AccountUsage
    <3>3. \A d \in CoresOf(k) : Notices(d) => Notices(d)'
      BY <3>1, <3>2 DEF Notices, throttleVars
    <3>. QED
      BY <1>1, <3>1, <3>2, <3>3
  <2>. QED
    BY <2>1, <2>2
<1>6. CASE CheckPasses(c)
  <2>1. CASE cluster_of[c] = k
    <3>1. CASE throttled_task[c]
      <4>1. Notices(c)'
        BY <1>6, <3>1 DEF CheckPasses, Notices, throttleVars
      <4>. QED
        BY <1>0, <1>2, <2>1, <4>1
    <3>2. CASE ~Exceeds(k)
      BY <1>6, <3>2 DEF CheckPasses, NoticedIn, Exceeds, clusterVars
    <3>. QED
      BY <1>6, <2>1, <3>1, <3>2 DEF CheckPasses
  <2>2. CASE cluster_of[c] # k
    <3>1. \A d \in CoresOf(k) : phase'[d] = phase[d]
      BY <1>0, <1>6, <2>2 DEF CheckPasses
    <3>2. UNCHANGED <<throttleVars, clusterVars>> /\ leader_core[k] \in CoresOf(k)
      BY <1>0, <1>6 DEF CheckPasses
    <3>. QED
      BY <1>1, <3>1, <3>2 DEF Notices, throttleVars, clusterVars
  <2>. QED
    BY <2>1, <2>2
<1>7. CASE CheckExceeds(c)
  <2>1. \A d \in CoresOf(k) : Notices(d) => Notices(d)'
    BY <1>0, <1>7 DEF CheckExceeds, Notices, throttleVars
  <2>. QED
    BY <1>0, <1>1, <1>7, <2>1 DEF CheckExceeds, clusterVars
<1>9. CASE ThrottleCores(c)
  <2>1. CASE cluster_of[c] = k
    <3>1. Notices(c)'
      BY <1>0, <1>9, <2>1 DEF ThrottleCores, ThrottleCluster, CalledLocally, Notices
    <3>. QED
      BY <1>0, <1>2, <2>1, <3>1
  <2>2. CASE cluster_of[c] # k
    <3>1. /\ \A d \in CoresOf(k) : phase'[d] = phase[d]
          /\ UNCHANGED <<bandwidth_usage, log_lost>> /\ leader_core[k] \in CoresOf(k)
      BY <1>0, <1>9, <2>2 DEF ThrottleCores
    <3>2. ASSUME NEW d \in CoresOf(k), Notices(d) PROVE Notices(d)'
      <4>1. (ipi[d] => ipi'[d]) /\ (throttled_task[d] => throttled_task'[d])
        BY <1>0, <1>9 DEF ThrottleCores, ThrottleCluster
      <4>2. phase'[d] = phase[d]
        BY <3>1
      <4>3. ipi[d] \/ phase[d] \in {"check", "throttle"} \/ (throttled_task[d] /\ phase[d] # "unthrottle")
        BY <3>2 DEF Notices
      <4>. QED
        BY <4>1, <4>2, <4>3, Zenon DEF Notices
    <3>. QED
      BY <1>1, <3>1, <3>2
  <2>. QED
    BY <2>1, <2>2
<1>8. CASE TakeIpi(c)
  <2>1. \A d \in CoresOf(k) : Notices(d) => Notices(d)'
    BY <1>0, <1>8 DEF TakeIpi, Notices
  <2>. QED
    BY <1>0, <1>1, <1>8, <2>1 DEF TakeIpi, clusterVars
<1>. QED
  BY <1>3, <1>4, <1>5, <1>6, <1>7, <1>8, <1>9

(* The GPU receiver looks at the budget after every charge, whether its    *)
(* core is throttled or not, and tells every core of the cluster.          *)
LEMMA ReceiverNoticed ==
    ASSUME Inv, NEW k \in Cluster, NoticedIn(k), NEW g \in Cluster, GpuReceiver(g)
    PROVE  NoticedIn(k)'
<1>. USE ClusterAssumption DEF Inv, TypeOK
<1>0. /\ leader_core[k] \in CoresOf(k) /\ CoresOf(k) \subseteq Core
      /\ UNCHANGED <<phase, count, aggregation_period_cnt, CoresOf(k)>>
      /\ \A d \in Core : YetToCheck(d)' = YetToCheck(d)
  BY DEF CoresOf, GpuReceiver, ReceiverAccounts, ReceiverCleans, ReceiverChecks,
         ReceiverThrottles, clockVars, YetToCheck, IsRegulationTick
<1>1. ASSUME NEW d \in Core, Notices(d) PROVE Notices(d)'
  BY <1>0, <1>1 DEF GpuReceiver, ReceiverAccounts, ReceiverCleans, ReceiverChecks,
         ReceiverThrottles, ThrottleCluster, throttleVars, Notices
<1>2. CASE g # k
  <2>1. /\ receiver'[k] = receiver[k] /\ log_lost'[k] = log_lost[k]
        /\ bandwidth_usage'[k] = bandwidth_usage[k]
    BY <1>2 DEF GpuReceiver, ReceiverAccounts, ReceiverCleans, ReceiverChecks,
                ReceiverThrottles, clusterVars
  <2>. QED
    BY <1>0, <1>1, <2>1 DEF NoticedIn, Exceeds
<1>3. CASE g = k
  <2>1. CASE ReceiverAccounts(k)
    <3>1. receiver'[k] = "clean" \/ log_lost'[k]
      BY <2>1 DEF ReceiverAccounts, RecordFailed
    <3>. QED
      BY <3>1 DEF NoticedIn
  <2>2. CASE ReceiverCleans(k)
    BY <2>2 DEF ReceiverCleans, AfterCleaning, NoticedIn
  <2>3. CASE ReceiverChecks(k)
    BY <2>3 DEF ReceiverChecks, NoticedIn, Exceeds, clusterVars
  <2>4. CASE ReceiverThrottles(k)
    <3>1. gpu_core[k] \in Core /\ phase[gpu_core[k]] = "thread"
      <4>1. gpu_core[k] # NoCore /\ phase[gpu_core[k]] = "thread"
        BY <2>4 DEF ReceiverThrottles, ReceiverRuns
      <4>. QED
        BY <4>1, GpuAssumption
    <3>2. Notices(leader_core[k])'
      <4>1. ipi'[leader_core[k]] \/ throttled_task'[leader_core[k]]
        BY <1>0, <2>4 DEF ReceiverThrottles, ThrottleCluster, OtherCores,
                          CalledLocally
      <4>2. CASE leader_core[k] = gpu_core[k]
        BY <1>0, <3>1, <4>1, <4>2 DEF Notices
      <4>3. CASE leader_core[k] # gpu_core[k]
        BY <1>0, <2>4, <4>3 DEF ReceiverThrottles, ThrottleCluster, OtherCores, Notices
      <4>. QED
        BY <4>2, <4>3
    <3>. QED
      BY <1>0, <3>2 DEF NoticedIn
  <2>. QED
    BY <1>3, <2>1, <2>2, <2>3, <2>4 DEF GpuReceiver
<1>. QED
  BY <1>2, <1>3

LEMMA StepNoticed ==
    ASSUME LateTicks = 0, \A k \in Cluster : cur_bandwidth_budget[k] >= 0
    PROVE  Inv /\ OverBudgetNoticed /\ [Next]_vars => OverBudgetNoticed'
<1>. SUFFICES ASSUME Inv, OverBudgetNoticed, [Next]_vars, NEW k \in Cluster
              PROVE  NoticedIn(k)'
  BY DEF OverBudgetNoticed, NoticedIn
<1>1. NoticedIn(k)
  BY DEF OverBudgetNoticed, NoticedIn
<1>2. CASE UNCHANGED <<clusterVars, ipi, throttled_task, phase, receiver, count,
                       aggregation_period_cnt>>
  BY <1>1, <1>2 DEF NoticedIn, Exceeds, clusterVars, CoresOf, Notices, YetToCheck,
                    IsRegulationTick
<1>3. \/ UNCHANGED <<clusterVars, ipi, throttled_task, phase, receiver, count,
                     aggregation_period_cnt>>
      \/ \E c \in Core : TimerCallback(c) \/ TakeIpi(c)
      \/ \E g \in Cluster : GpuReceiver(g)
  BY DEF Next, vars, clockVars, throttleVars, gpuVars, Advance, Run, ThrottleThread,
         StartSpin, StopSpin, ProfilerSamples
<1>. QED
  BY <1>1, <1>2, <1>3, TimerNoticed, CallbackNoticed, ReceiverNoticed
     DEF TimerCallback

(* With timers served within their period, and for any budgets that are    *)
(* not negative, traffic over the budget never goes unnoticed, as          *)
(* OverBudgetNoticed: whichever core or receiver charges it, and whatever  *)
(* interrupts and log records are under way.                               *)
THEOREM NothingUnnoticed ==
    ASSUME LateTicks = 0, \A k \in Cluster : cur_bandwidth_budget[k] >= 0
    PROVE  Spec => []OverBudgetNoticed
<1>1. Init => OverBudgetNoticed
  BY ClusterAssumption DEF Init, OverBudgetNoticed, Exceeds
<1>. QED
  BY <1>1, Invariance, StepNoticed, PTL DEF Spec
-----------------------------------------------------------------------------
(* The overshoot of the cores' traffic.                                    *)

(* No regulation tick follows another: with a period of one tick there is  *)
(* none at all.                                                            *)
LEMMA RegulationTicksApart ==
    ASSUME NEW n \in Nat, IsRegulationTick(n)
    PROVE  ~IsRegulationTick(n + 1)
<1>1. n % g_manage_period_interval \in 0..g_manage_period_interval - 1
  BY DivisionWithRemainder, PeriodAssumption
<1>2. g_manage_period_interval > 1
  BY <1>1, PeriodAssumption DEF IsRegulationTick
<1>3. (n + 1) % g_manage_period_interval
          = IF 1 = g_manage_period_interval - 1 THEN 0 ELSE 1 + 1
  BY <1>2, RemainderOfSuccessor, PeriodAssumption DEF IsRegulationTick
<1>. QED
  BY <1>3, PeriodAssumption DEF IsRegulationTick

(* What a core has yet to charge is at most a portion, nothing while it    *)
(* compares or throttles; its handler is the one of its tick.              *)
UnreadInv ==
    \A c \in Core :
        /\ UnreadEvents(c) <= MaxUnread
        /\ phase[c] \in {"check", "throttle"} => UnreadEvents(c) = 0
        /\ phase[c] = "account" => ~IsRegulationTick(aggregation_period_cnt[c])
        /\ phase[c] \in {"unthrottle", "reset"} =>
               IsRegulationTick(aggregation_period_cnt[c])
        /\ phase[c] = "reset" => IsLeader(c)

LEMMA StepUnreadInv == Inv /\ UnreadInv /\ [Next]_vars => UnreadInv'
<1>. SUFFICES ASSUME Inv, UnreadInv, [Next]_vars PROVE UnreadInv'
  OBVIOUS
<1>. USE ClusterAssumption, PeriodAssumption DEF Inv, TypeOK
(* Steps that charge nothing and move no core to another handler. *)
<1>1. ASSUME UNCHANGED <<aggregation_period_cnt, eventVars>>,
             \A c \in Core : \/ phase'[c] \in {phase[c], "thread", "fired"}
                             \/ phase[c] = "check" /\ phase'[c] = "throttle"
      PROVE  UnreadInv'
  BY <1>1 DEF UnreadInv, UnreadEvents, eventVars, IsRegulationTick, IsLeader
<1>2. ASSUME NEW c \in Core, Run(c) PROVE UnreadInv'
  <2>1. /\ phase[c] = "thread" /\ UnreadEvents(c) < MaxUnread
        /\ event_count' = [event_count EXCEPT ![c] = @ + 1]
        /\ UNCHANGED <<aggregation_period_cnt, phase, old_read_val>>
    BY <1>2 DEF Run, clockVars
  <2>2. ASSUME NEW d \in Core
        PROVE  /\ UnreadEvents(d)' <= MaxUnread
               /\ phase[d] \in {"check", "throttle"} => UnreadEvents(d)' = 0
    BY <2>1 DEF UnreadInv, UnreadEvents
  <2>. QED
    BY <2>1, <2>2 DEF UnreadInv, IsRegulationTick, IsLeader
<1>3. ASSUME NEW c \in Core, AdoptCount(c) PROVE UnreadInv'
  BY <1>3 DEF AdoptCount, eventVars, UnreadInv, UnreadEvents, IsRegulationTick,
              IsLeader
<1>4. ASSUME NEW c \in Core, Unthrottle(c) PROVE UnreadInv'
  BY <1>4 DEF Unthrottle, clockVars, eventVars, UnreadInv, UnreadEvents,
              IsRegulationTick, IsLeader
<1>5. ASSUME NEW c \in Core, AccountUsage(c) PROVE UnreadInv'
  <2>1. /\ phase[c] = "account" /\ phase' = [phase EXCEPT ![c] = phase'[c]]
        /\ phase'[c] \in {"check", "thread"}
        /\ old_read_val' = [old_read_val EXCEPT ![c] = Charged(c)]
        /\ UNCHANGED <<aggregation_period_cnt, event_count>>
    BY <1>5 DEF AccountUsage, AfterAccounting, clockVars
  <2>2. UnreadEvents(c)' = 0
    BY <2>1 DEF Charged, UnreadEvents
  <2>3. \A d \in Core \ {c} : UnreadEvents(d)' = UnreadEvents(d) /\ phase'[d] = phase[d]
    BY <2>1 DEF UnreadEvents
  <2>. QED
    BY <2>1, <2>2, <2>3 DEF UnreadInv, IsRegulationTick, IsLeader
<1>6. ASSUME NEW c \in Core, \/ TimerFire(c) \/ ResetUsage(c) \/ CheckPasses(c)
                             \/ CheckExceeds(c) \/ ThrottleCores(c) \/ TakeIpi(c)
                             \/ ThrottleThread(c)
      PROVE  UnreadInv'
  <2>1. /\ UNCHANGED <<aggregation_period_cnt, eventVars>>
        /\ \A d \in Core : \/ phase'[d] \in {phase[d], "thread", "fired"}
                           \/ phase[d] = "check" /\ phase'[d] = "throttle"
    BY <1>6 DEF TimerFire, ResetUsage, CheckPasses, CheckExceeds, ThrottleCores,
                TakeIpi, ThrottleThread, StartSpin, StopSpin, clockVars
  <2>. QED
    BY <1>1, <2>1
<1>7. CASE \/ Advance \/ UNCHANGED vars
           \/ \E k \in Cluster : ProfilerSamples(k) \/ GpuReceiver(k)
  <2>1. UNCHANGED <<aggregation_period_cnt, eventVars, phase>>
    BY <1>7 DEF vars, clockVars, Advance, ProfilerSamples, GpuReceiver,
                ReceiverAccounts, ReceiverCleans, ReceiverChecks, ReceiverThrottles
  <2>. QED
    BY <1>1, <2>1
<1>. QED
  BY <1>2, <1>3, <1>4, <1>5, <1>6, <1>7 DEF Next, TimerCallback

(* A core that can charge nothing more before its next regulation tick.    *)
Closed(c) ==
    \/ phase[c] \in {"check", "throttle"}
    \/ /\ throttled_task[c] /\ UnreadEvents(c) = 0
       /\ phase[c] # "unthrottle"

(* The leader's handler is about to reset the usage; it is, or a           *)
(* regulation tick has come that the leader has still to serve; it has     *)
(* served the latest one.                                                  *)
ResetDue(k) == phase[leader_core[k]] \in {"unthrottle", "reset"}

ResetAwaited(k) ==
    \/ ResetDue(k)
    \/ /\ IsRegulationTick(count)
       /\ aggregation_period_cnt[leader_core[k]] < count

JustReset(k) ==
    /\ IsRegulationTick(count)
    /\ aggregation_period_cnt[leader_core[k]] = count
    /\ ~ResetDue(k)

AwaitedTick(k) ==
    IF ResetDue(k) THEN aggregation_period_cnt[leader_core[k]] ELSE count

(* The cores that have had their portion: those that are closed, and while *)
(* a reset is awaited those that are in its tick, where nothing is         *)
(* charged; the ones that have charged once more, beyond that tick; and,   *)
(* right after a reset, those that cannot charge what is left of the       *)
(* period before.                                                          *)
Spent(k) ==
    {c \in CoresOf(k) :
        \/ Closed(c)
        \/ ResetAwaited(k) /\ aggregation_period_cnt[c] >= AwaitedTick(k)}

Respent(k) ==
    {c \in CoresOf(k) : /\ ResetAwaited(k)
                        /\ aggregation_period_cnt[c] > AwaitedTick(k)
                        /\ phase[c] # "account"}

Past(k) ==
    {c \in CoresOf(k) \ {leader_core[k]} :
        aggregation_period_cnt[c] = count \/ phase[c] # "account"}

Portions(n) == MaxUnread * n

Kept(k) ==
    LET spill == Portions(Cardinality(CoresOf(k)) - 1)
    IN  IF cur_bandwidth_budget[k] >= spill THEN cur_bandwidth_budget[k] ELSE spill

UsageWithin(k) ==
    ~log_lost[k] =>
        IF JustReset(k)
        THEN CpuUsage(k) <= Portions(Cardinality(Past(k)))
        ELSE CpuUsage(k) > Kept(k) =>
                 CpuUsage(k)
                     <= Kept(k) + Portions(Cardinality(Spent(k)) + Cardinality(Respent(k)))

UsageInv == \A k \in Cluster : UsageWithin(k)

LEMMA PortionsAddUp ==
    ASSUME NEW a \in Nat, NEW b \in Nat
    PROVE  /\ Portions(a) \in Nat
           /\ a <= b => Portions(a) <= Portions(b)
           /\ Portions(a + 1) = Portions(a) + MaxUnread
<1>. USE PeriodAssumption DEF Portions
<1>1. /\ MaxUnread * a \in Nat
      /\ MaxUnread * (a + 1) = MaxUnread * a + MaxUnread
  OBVIOUS
<1>2. ASSUME a <= b PROVE MaxUnread * a <= MaxUnread * b
  <2>1. PICK d \in Nat : b = a + d
    <3>. b - a \in Nat /\ b = a + (b - a)
      BY <1>2
    <3>. QED
      OBVIOUS
  <2>2. MaxUnread * d \in Nat /\ MaxUnread * b = MaxUnread * a + MaxUnread * d
    BY <2>1
  <2>. QED
    BY <1>1, <2>2
<1>. QED
  BY <1>1, <1>2

LEMMA PartsOfCluster ==
    ASSUME NEW k \in Cluster, NEW T \in SUBSET CoresOf(k), NEW S \in SUBSET T
    PROVE  /\ Cardinality(S) \in Nat /\ Cardinality(T) \in Nat
           /\ Cardinality(S) <= Cardinality(T)
           /\ \A c \in T : c \notin S => Cardinality(S) + 1 <= Cardinality(T)
           /\ \A c \in CoresOf(k) :
                  c \notin T => Cardinality(T) <= Cardinality(CoresOf(k)) - 1
           /\ Cardinality(CoresOf(k)) \in Nat
           /\ Cardinality(T) <= Cardinality(CoresOf(k))
<1>1. IsFiniteSet(CoresOf(k))
  BY CoreAssumption, FS_Subset DEF CoresOf
<1>2. /\ IsFiniteSet(T) /\ Cardinality(T) <= Cardinality(CoresOf(k))
      /\ IsFiniteSet(S) /\ Cardinality(S) <= Cardinality(T)
  BY <1>1, FS_Subset
<1>3. /\ Cardinality(S) \in Nat /\ Cardinality(T) \in Nat
      /\ Cardinality(CoresOf(k)) \in Nat
  BY <1>1, <1>2, FS_CardinalityType
<1>4. ASSUME NEW A, NEW B, IsFiniteSet(A), IsFiniteSet(B), A \subseteq B,
             NEW c \in B, c \notin A
      PROVE  Cardinality(A) + 1 <= Cardinality(B)
  <2>1. Cardinality(A \union {c}) = Cardinality(A) + 1
    BY <1>4, FS_AddElement
  <2>2. A \union {c} \in SUBSET B
    BY <1>4
  <2>. QED
    BY <1>4, <2>1, <2>2, FS_Subset
<1>. QED
  BY <1>1, <1>2, <1>3, <1>4

(* The limits a cluster's usage is held against.                           *)
LEMMA LimitsTyped ==
    ASSUME NEW k \in Cluster
    PROVE  /\ Kept(k) \in Nat
           /\ Portions(Cardinality(CoresOf(k)) - 1) <= Kept(k)
           /\ cur_bandwidth_budget[k] <= Kept(k)
           /\ Cardinality(CoresOf(k)) \in Nat /\ Cardinality(CoresOf(k)) - 1 \in Nat
<1>1. leader_core[k] \in CoresOf(k) /\ {} \in SUBSET CoresOf(k) /\ {} \in SUBSET {}
  BY ClusterAssumption DEF CoresOf
<1>2. /\ Cardinality({}) \in Nat /\ Cardinality(CoresOf(k)) \in Nat
      /\ Cardinality({}) <= Cardinality(CoresOf(k)) - 1
  BY <1>1, PartsOfCluster
<1>3. Cardinality(CoresOf(k)) - 1 \in Nat
  BY <1>2
<1>4. Portions(Cardinality(CoresOf(k)) - 1) \in Nat
  BY <1>3, PortionsAddUp
<1>. QED
  BY <1>2, <1>3, <1>4, ClusterAssumption DEF Kept

(* The leader is not among the cores beyond the tick it has yet to serve,  *)
(* nor among those that may charge after its reset.                        *)
LEMMA SetsOfCluster ==
    ASSUME Inv, NEW k \in Cluster
    PROVE  /\ Spent(k) \in SUBSET CoresOf(k)
           /\ Respent(k) \in SUBSET (CoresOf(k) \ {leader_core[k]})
           /\ Past(k) \in SUBSET (CoresOf(k) \ {leader_core[k]})
           /\ leader_core[k] \in CoresOf(k) /\ leader_core[k] \in Core
<1>1. /\ leader_core[k] \in CoresOf(k) /\ leader_core[k] \in Core
      /\ aggregation_period_cnt[leader_core[k]] \in Nat /\ count \in Nat
      /\ aggregation_period_cnt[leader_core[k]] <= count
  BY ClusterAssumption DEF CoresOf, Inv, TypeOK, ClockInv
<1>2. leader_core[k] \notin Respent(k)
  BY <1>1 DEF Respent, AwaitedTick
<1>. QED
  BY <1>1, <1>2 DEF Spent, Respent, Past

(* The cores' own traffic is part of the usage the budget is compared to.  *)
LEMMA CpuUsageCounts ==
    ASSUME TypeOK, NEW k \in Cluster
    PROVE  /\ CpuUsage(k) \in Int
           /\ CpuUsage(k) > Kept(k) => Exceeds(k)
<1>1. /\ bandwidth_usage[k] \in Nat /\ gpu_usage[k] \in Nat
      /\ cur_bandwidth_budget[k] \in Int
  BY ClusterAssumption DEF TypeOK
<1>2. Kept(k) \in Nat /\ cur_bandwidth_budget[k] <= Kept(k)
  BY LimitsTyped
<1>. QED
  BY <1>1, <1>2 DEF CpuUsage, Exceeds

(* A bound on the usage that the parts of the cluster that only grow keep. *)
LEMMA NoCharge ==
    ASSUME Inv, Inv', NEW k \in Cluster, UsageWithin(k),
           CpuUsage(k)' = CpuUsage(k), log_lost'[k] = log_lost[k],
           JustReset(k)' <=> JustReset(k),
           JustReset(k) => Past(k) \subseteq Past(k)',
           Exceeds(k) /\ ~JustReset(k) =>
               Spent(k) \subseteq Spent(k)' /\ Respent(k) \subseteq Respent(k)'
    PROVE  UsageWithin(k)'
<1>. DEFINE s == Cardinality(Spent(k))   r == Cardinality(Respent(k))
            p == Cardinality(Past(k))
            sn == Cardinality(Spent(k)')  rn == Cardinality(Respent(k)')
            pn == Cardinality(Past(k)')
<1>1. /\ Spent(k)' \in SUBSET CoresOf(k) /\ Respent(k)' \in SUBSET CoresOf(k)
      /\ Past(k)' \in SUBSET CoresOf(k)
  BY DEF Spent, Respent, Past, CoresOf
<1>2. /\ Spent(k) \in SUBSET CoresOf(k) /\ Respent(k) \in SUBSET CoresOf(k)
      /\ Past(k) \in SUBSET CoresOf(k)
  BY DEF Spent, Respent, Past
<1>3. /\ s \in Nat /\ r \in Nat /\ p \in Nat /\ sn \in Nat /\ rn \in Nat /\ pn \in Nat
      /\ JustReset(k) => p <= pn
      /\ Exceeds(k) /\ ~JustReset(k) => s <= sn /\ r <= rn
  BY <1>1, <1>2, PartsOfCluster
<1>4. CpuUsage(k) \in Int /\ Kept(k) \in Nat /\ Kept(k)' = Kept(k)
  BY CpuUsageCounts, LimitsTyped DEF Inv, Kept, Portions, CoresOf
<1>5. CpuUsage(k) > Kept(k) => Exceeds(k)
  BY CpuUsageCounts DEF Inv
<1>6. s + r \in Nat /\ sn + rn \in Nat
  BY <1>3
<1>7. /\ \A a \in Nat : Portions(a) \in Nat /\ Portions(a)' = Portions(a)
      /\ \A a, b \in Nat : a <= b => Portions(a) <= Portions(b)
  BY PortionsAddUp DEF Portions
<1>8. UsageWithin(k)' <=>
          (~log_lost'[k] =>
              IF JustReset(k)'
              THEN CpuUsage(k)' <= Portions(pn)
              ELSE CpuUsage(k)' > Kept(k) =>
                       CpuUsage(k)' <= Kept(k) + Portions(sn + rn))
  BY <1>4 DEF UsageWithin, Portions
<1>9. UsageWithin(k) <=>
          (~log_lost[k] =>
              IF JustReset(k)
              THEN CpuUsage(k) <= Portions(p)
              ELSE CpuUsage(k) > Kept(k) =>
                       CpuUsage(k) <= Kept(k) + Portions(s + r))
  BY DEF UsageWithin
<1>. HIDE DEF s, r, p, sn, rn, pn
<1>10. CASE JustReset(k)
  <2>1. p <= pn /\ Portions(p) <= Portions(pn) /\ Portions(p) \in Nat /\ Portions(pn) \in Nat
    BY <1>3, <1>7, <1>10
  <2>. QED
    BY <1>4, <1>8, <1>9, <1>10, <2>1
<1>11. CASE ~JustReset(k) /\ CpuUsage(k) > Kept(k)
  <2>1. s + r <= sn + rn
    BY <1>3, <1>5, <1>11
  <2>2. /\ Portions(s + r) <= Portions(sn + rn)
        /\ Portions(s + r) \in Nat /\ Portions(sn + rn) \in Nat
    BY <1>6, <1>7, <2>1
  <2>3. ~log_lost[k] => CpuUsage(k) <= Kept(k) + Portions(s + r)
    BY <1>9, <1>11
  <2>4. ~log_lost'[k] => CpuUsage(k)' <= Kept(k) + Portions(sn + rn)
    BY <1>4, <2>2, <2>3
  <2>. QED
    BY <1>8, <1>11, <2>4
<1>12. CASE ~JustReset(k) /\ ~(CpuUsage(k) > Kept(k))
  BY <1>4, <1>8, <1>12
<1>. QED
  BY <1>10, <1>11, <1>12

(* The steps that move no core to or from the handlers that charge and     *)
(* reset, and open no core of a cluster over its budget.                   *)
LEMMA QuietStep ==
    ASSUME Inv, Inv', NEW k \in Cluster, UsageWithin(k), UNCHANGED count,
           CpuUsage(k)' = CpuUsage(k), log_lost'[k] = log_lost[k],
           \A d \in CoresOf(k) :
               /\ aggregation_period_cnt'[d] = aggregation_period_cnt[d]
               /\ phase'[d] = "account" <=> phase[d] = "account"
               /\ phase'[d] \in {"unthrottle", "reset"} <=>
                      phase[d] \in {"unthrottle", "reset"}
               /\ Exceeds(k) /\ Closed(d) => Closed(d)'
    PROVE  UsageWithin(k)'
<1>1. /\ leader_core[k] \in CoresOf(k) /\ CoresOf(k)' = CoresOf(k)
      /\ IsRegulationTick(count)' <=> IsRegulationTick(count)
  BY ClusterAssumption DEF CoresOf, IsRegulationTick
<1>2. /\ ResetDue(k)' <=> ResetDue(k)
      /\ aggregation_period_cnt'[leader_core[k]] = aggregation_period_cnt[leader_core[k]]
  BY <1>1 DEF ResetDue
<1>3. /\ JustReset(k)' <=> JustReset(k)
      /\ ResetAwaited(k)' <=> ResetAwaited(k)
      /\ AwaitedTick(k)' = AwaitedTick(k)
  BY <1>1, <1>2 DEF JustReset, ResetAwaited, AwaitedTick
<1>4. Past(k) \subseteq Past(k)' /\ Respent(k) \subseteq Respent(k)'
  BY <1>1, <1>3 DEF Past, Respent
<1>5. Exceeds(k) => Spent(k) \subseteq Spent(k)'
  BY <1>1, <1>3 DEF Spent
<1>. QED
  BY <1>3, <1>4, <1>5, NoCharge

(* A core moves the count on: the reset of a regulation tick that is over  *)
(* by then leaves room for what the other cores charge late.               *)
LEMMA CountStep ==
    ASSUME LateTicks = 0, Inv, Inv', NEW k \in Cluster, UsageWithin(k),
           UnreadInv, NEW c \in Core, TimerFire(c), count' # count
    PROVE  UsageWithin(k)'
<1>. USE ClusterAssumption DEF Inv, TypeOK
<1>1. /\ phase[c] = "thread" /\ phase' = [phase EXCEPT ![c] = "fired"]
      /\ now >= count /\ count' = count + 1 /\ count \in Nat
      /\ UNCHANGED <<aggregation_period_cnt, eventVars, throttled_task, log_lost>>
      /\ CpuUsage(k)' = CpuUsage(k)
  BY DEF TimerFire, ExchangedCount, clusterVars, throttleVars, CpuUsage
<1>2. \A d \in Core : aggregation_period_cnt[d] = count
  BY <1>1, CoresAdjacent
<1>3. /\ leader_core[k] \in Core /\ CoresOf(k)' = CoresOf(k)
      /\ \A d \in CoresOf(k) : d \in Core
  BY DEF CoresOf
<1>4. ~JustReset(k)'
  BY <1>1, <1>2, <1>3 DEF JustReset
<1>5. CASE JustReset(k)
  <2>. DEFINE p == Cardinality(Past(k))   n == Cardinality(CoresOf(k)) - 1
  <2>1. p \in Nat /\ p <= n
    <3>1. /\ Past(k) \in SUBSET CoresOf(k) /\ {} \in SUBSET Past(k)
          /\ leader_core[k] \in CoresOf(k) /\ leader_core[k] \notin Past(k)
      BY SetsOfCluster DEF Past
    <3>. QED
      BY <3>1, PartsOfCluster
  <2>2. n \in Nat /\ Portions(n) <= Kept(k) /\ Kept(k) \in Nat
    BY LimitsTyped
  <2>3. ~log_lost[k] => CpuUsage(k) <= Portions(p)
    BY <1>5 DEF UsageWithin
  <2>. HIDE DEF p, n
  <2>4. Portions(p) <= Portions(n) /\ Portions(p) \in Nat /\ Portions(n) \in Nat
    BY <2>1, <2>2, PortionsAddUp
  <2>5. CpuUsage(k) \in Int
    BY CpuUsageCounts
  <2>6. ~log_lost[k] => ~(CpuUsage(k) > Kept(k))
    BY <2>2, <2>3, <2>4, <2>5
  <2>7. Kept(k)' = Kept(k)
    BY DEF Kept, Portions, CoresOf
  <2>. QED
    BY <1>1, <1>4, <2>6, <2>7 DEF UsageWithin
<1>6. CASE ~JustReset(k)
  <2>1. ResetDue(k)' <=> ResetDue(k)
    BY <1>1, <1>3 DEF ResetDue
  <2>2. \A d \in CoresOf(k) : Closed(d) => Closed(d)'
    BY <1>1, <1>3 DEF Closed, UnreadEvents, eventVars
  <2>3. ResetAwaited(k) <=> ResetDue(k)
    BY <1>2, <1>3 DEF ResetAwaited
  <2>4. ResetDue(k) => ResetAwaited(k)' /\ AwaitedTick(k)' = AwaitedTick(k)
    BY <1>1, <2>1 DEF ResetAwaited, AwaitedTick
  <2>5. Spent(k) \subseteq Spent(k)'
    BY <1>1, <1>3, <2>2, <2>3, <2>4 DEF Spent
  <2>6. Respent(k) \subseteq Respent(k)'
    BY <1>1, <1>3, <2>3, <2>4 DEF Respent
  <2>. QED
    BY <1>1, <1>4, <1>6, <2>5, <2>6, NoCharge
<1>. QED
  BY <1>5, <1>6

(* A core adopts the count: it has served every tick before it.            *)
LEMMA AdoptStep ==
    ASSUME LateTicks = 0, Inv, Inv', NEW c \in Core, AdoptCount(c), UnreadInv,
           UsageWithin(cluster_of[c])
    PROVE  UsageWithin(cluster_of[c])'
<1>. DEFINE k == cluster_of[c]
<1>. USE ClusterAssumption DEF Inv, TypeOK
<1>1. /\ k \in Cluster /\ leader_core[k] \in Core /\ CoresOf(k)' = CoresOf(k)
      /\ c \in CoresOf(k) /\ \A d \in CoresOf(k) : d \in Core
  BY DEF CoresOf
<1>2. /\ phase[c] = "fired"
      /\ aggregation_period_cnt' = [aggregation_period_cnt EXCEPT ![c] = count]
      /\ phase' = [phase EXCEPT ![c] =
                      IF IsRegulationTick(count) THEN "unthrottle" ELSE "account"]
      /\ UNCHANGED <<count, eventVars, throttled_task, log_lost>>
      /\ CpuUsage(k)' = CpuUsage(k)
  BY DEF AdoptCount, clusterVars, throttleVars, CpuUsage
<1>3. /\ count \in Nat /\ aggregation_period_cnt[c] + 1 = count
      /\ \A d \in Core : /\ aggregation_period_cnt[d] \in Nat
                         /\ aggregation_period_cnt[d] <= count
                         /\ aggregation_period_cnt[d] + 1 >= count
  BY <1>2, CoresAdjacent DEF ClockInv
<1>. HIDE DEF k
<1>4. ASSUME NEW d \in CoresOf(k), Closed(d), d # c \/ ~IsRegulationTick(count)
      PROVE  Closed(d)'
  BY <1>1, <1>2, <1>4 DEF Closed, UnreadEvents, eventVars
<1>5. CASE leader_core[k] = c
  <2>1. ~ResetDue(k) /\ ~JustReset(k)
    BY <1>2, <1>3, <1>5 DEF ResetDue, JustReset
  <2>2. /\ ResetDue(k)' <=> IsRegulationTick(count)
        /\ ~JustReset(k)'
    BY <1>1, <1>2, <1>5 DEF ResetDue, JustReset, IsRegulationTick
  <2>3. /\ ResetAwaited(k) <=> IsRegulationTick(count)
        /\ AwaitedTick(k) = count
    BY <1>3, <1>5, <2>1 DEF ResetAwaited, AwaitedTick
  <2>4. IsRegulationTick(count) => ResetAwaited(k)' /\ AwaitedTick(k)' = count
    BY <1>1, <1>2, <1>5, <2>2 DEF ResetAwaited, AwaitedTick
  <2>5. Spent(k) \subseteq Spent(k)'
    BY <1>1, <1>2, <1>3, <1>4, <2>3, <2>4 DEF Spent
  <2>6. Respent(k) = {}
    BY <1>1, <1>3, <2>3 DEF Respent
  <2>. QED
    BY <1>1, <1>2, <2>1, <2>2, <2>5, <2>6, NoCharge DEF k
<1>6. CASE leader_core[k] # c
  <2>1. /\ ResetDue(k)' <=> ResetDue(k)
        /\ aggregation_period_cnt'[leader_core[k]] = aggregation_period_cnt[leader_core[k]]
        /\ IsRegulationTick(count)' <=> IsRegulationTick(count)
    BY <1>1, <1>2, <1>6 DEF ResetDue, IsRegulationTick
  <2>2. /\ JustReset(k)' <=> JustReset(k)
        /\ ResetAwaited(k)' <=> ResetAwaited(k)
        /\ AwaitedTick(k)' = AwaitedTick(k)
    BY <1>2, <2>1 DEF JustReset, ResetAwaited, AwaitedTick
  <2>3. aggregation_period_cnt[c] <= AwaitedTick(k) /\ AwaitedTick(k) \in Nat
    BY <1>1, <1>3 DEF AwaitedTick
  <2>4. Past(k) \subseteq Past(k)'
    BY <1>1, <1>2 DEF Past
  <2>5. IsRegulationTick(count) /\ ~JustReset(k) =>
            ResetAwaited(k) /\ AwaitedTick(k) = count
    <3>1. PICK n \in Nat : n = aggregation_period_cnt[leader_core[k]]
      BY <1>1
    <3>2. n = count \/ n + 1 = count
      BY <1>1, <3>1, CoresAdjacent
    <3>3. n # count => n < count
      BY <3>1, <3>2
    <3>4. ResetDue(k) => IsRegulationTick(n)
      BY <1>1, <3>1 DEF ResetDue, UnreadInv
    <3>5. ResetDue(k) /\ IsRegulationTick(count) => n = count
      BY <3>2, <3>4, RegulationTicksApart
    <3>. QED
      BY <3>1, <3>3, <3>5 DEF JustReset, ResetAwaited, AwaitedTick
  <2>6. ~JustReset(k) => Spent(k) \subseteq Spent(k)'
    BY <1>1, <1>2, <1>3, <1>4, <2>2, <2>3, <2>5 DEF Spent
  <2>7. Respent(k) \subseteq Respent(k)'
    BY <1>1, <1>2, <1>3, <2>2, <2>3 DEF Respent
  <2>. QED
    BY <1>1, <1>2, <2>2, <2>4, <2>6, <2>7, NoCharge DEF k
<1>. QED
  BY <1>5, <1>6

(* A core is released in its regulation tick.  Unless the leader has just  *)
(* reset the usage it counted as spent only if it awaits that reset.       *)
LEMMA UnthrottleStep ==
    ASSUME Inv, Inv', NEW c \in Core, Unthrottle(c), NEW k \in Cluster,
           UsageWithin(k)
    PROVE  UsageWithin(k)'
<1>. USE ClusterAssumption DEF Inv, TypeOK
<1>1. /\ leader_core[k] \in Core /\ CoresOf(k)' = CoresOf(k)
      /\ cluster_of[leader_core[k]] = k
      /\ \A d \in CoresOf(k) : d \in Core /\ cluster_of[d] = k
  BY DEF CoresOf
<1>2. /\ phase[c] = "unthrottle"
      /\ throttled_task' = [throttled_task EXCEPT ![c] = FALSE]
      /\ phase' = [phase EXCEPT ![c] = IF IsLeader(c) THEN "reset" ELSE "thread"]
      /\ UNCHANGED <<clockVars, eventVars, log_lost>>
      /\ CpuUsage(k)' = CpuUsage(k)
  BY DEF Unthrottle, CpuUsage
<1>3. ASSUME NEW d \in CoresOf(k), Closed(d) PROVE Closed(d)'
  BY <1>1, <1>2, <1>3 DEF Closed, UnreadEvents, eventVars
<1>4. /\ ResetDue(k)' <=> ResetDue(k)
      /\ UNCHANGED <<count, aggregation_period_cnt>>
      /\ IsRegulationTick(count)' <=> IsRegulationTick(count)
  BY <1>1, <1>2 DEF ResetDue, IsLeader, clockVars, IsRegulationTick
<1>5. /\ JustReset(k)' <=> JustReset(k)
      /\ ResetAwaited(k)' <=> ResetAwaited(k)
      /\ AwaitedTick(k)' = AwaitedTick(k)
  BY <1>4 DEF JustReset, ResetAwaited, AwaitedTick
<1>6. \A d \in CoresOf(k) : phase'[d] = "account" <=> phase[d] = "account"
  BY <1>1, <1>2
<1>7. /\ Past(k) \subseteq Past(k)' /\ Respent(k) \subseteq Respent(k)'
      /\ Spent(k) \subseteq Spent(k)'
  BY <1>1, <1>3, <1>4, <1>5, <1>6 DEF Past, Respent, Spent
<1>. QED
  BY <1>2, <1>5, <1>7, NoCharge

(* A core charges at most its portion, and is closed by it, or beyond the  *)
(* tick of the reset that is awaited.                                      *)
LEMMA AccountStep ==
    ASSUME LateTicks = 0, Inv, Inv', NEW c \in Core, AccountUsage(c), UnreadInv,
           UsageWithin(cluster_of[c]), ~log_lost'[cluster_of[c]]
    PROVE  UsageWithin(cluster_of[c])'
<1>. DEFINE k == cluster_of[c]
<1>. USE ClusterAssumption DEF Inv, TypeOK
<1>1. /\ k \in Cluster /\ leader_core[k] \in Core /\ CoresOf(k)' = CoresOf(k)
      /\ c \in CoresOf(k) /\ \A d \in CoresOf(k) : d \in Core
  BY DEF CoresOf
<1>2. /\ phase[c] = "account" /\ phase' = [phase EXCEPT ![c] = "check"]
      /\ CpuUsage(k)' = CpuUsage(k) + UnreadEvents(c)
      /\ log_lost'[k] = log_lost[k] /\ ~log_lost[k]
      /\ old_read_val' = [old_read_val EXCEPT ![c] = Charged(c)]
      /\ UNCHANGED <<clockVars, event_count, throttled_task>>
  <2>0. CpuUsage(k)' = CpuUsage(k) + UnreadEvents(c)
    <3>1. /\ bandwidth_usage'[k] = bandwidth_usage[k] + UnreadEvents(c)
          /\ gpu_usage' = gpu_usage
      BY <1>1 DEF AccountUsage
    <3>2. UnreadEvents(c) \in Int /\ bandwidth_usage[k] \in Int /\ gpu_usage[k] \in Int
      BY <1>1 DEF UnreadEvents
    <3>. HIDE DEF k
    <3>. QED
      BY <3>1, <3>2 DEF CpuUsage
  <2>1. PICK next \in AfterAccounting(c) :
            /\ phase' = [phase EXCEPT ![c] = next]
            /\ log_lost' = [log_lost EXCEPT ![k] = @ \/ RecordFailed(next)]
    BY DEF AccountUsage
  <2>2. log_lost'[k] = (log_lost[k] \/ RecordFailed(next))
    BY <1>1, <2>1
  <2>3. ~log_lost[k] /\ ~RecordFailed(next)
    BY <2>2
  <2>4. next = "check"
    BY <2>1, <2>3 DEF AfterAccounting, RecordFailed
  <2>5. log_lost'[k] = log_lost[k]
    BY <1>1, <2>3
  <2>. QED
    BY <1>1, <2>0, <2>1, <2>3, <2>4, <2>5 DEF AccountUsage, throttleVars
<1>3. /\ UnreadEvents(c) \in Nat /\ UnreadEvents(c) <= MaxUnread /\ MaxUnread \in Nat
      /\ CpuUsage(k) \in Int /\ CpuUsage(k)' \in Int
      /\ ~IsRegulationTick(aggregation_period_cnt[c])
  BY <1>1, <1>2, CpuUsageCounts, PeriodAssumption
     DEF UnreadInv, UnreadEvents, ChargedBehindCounter
<1>. HIDE DEF k
<1>4. /\ UNCHANGED <<count, aggregation_period_cnt>>
      /\ ResetDue(k)' <=> ResetDue(k)
      /\ IsRegulationTick(count)' <=> IsRegulationTick(count)
  BY <1>1, <1>2 DEF clockVars, ResetDue, IsRegulationTick
<1>5. /\ JustReset(k)' <=> JustReset(k)
      /\ ResetAwaited(k)' <=> ResetAwaited(k)
      /\ AwaitedTick(k)' = AwaitedTick(k)
  BY <1>4 DEF JustReset, ResetAwaited, AwaitedTick
<1>6. ASSUME NEW d \in CoresOf(k), Closed(d) \/ d = c PROVE Closed(d)'
  BY <1>1, <1>2, <1>6 DEF Closed, UnreadEvents
<1>7. /\ Spent(k) \subseteq Spent(k)' /\ Respent(k) \subseteq Respent(k)'
      /\ Past(k) \subseteq Past(k)' /\ c \in Spent(k)'
  BY <1>1, <1>2, <1>4, <1>5, <1>6 DEF Spent, Respent, Past
<1>8. /\ Spent(k)' \in SUBSET CoresOf(k) /\ Respent(k)' \in SUBSET CoresOf(k)
      /\ Past(k)' \in SUBSET CoresOf(k)
      /\ Kept(k)' = Kept(k) /\ Kept(k) \in Nat
      /\ \A n \in Nat : Portions(n)' = Portions(n)
  BY <1>1, LimitsTyped DEF Spent, Respent, Past, Kept, Portions, CoresOf
<1>9. CASE JustReset(k)
  <2>1. c \notin Past(k) /\ c \in Past(k)'
    BY <1>1, <1>2, <1>3, <1>5, <1>9 DEF JustReset, Past
  <2>. DEFINE p == Cardinality(Past(k))   pn == Cardinality(Past(k)')
  <2>2. p \in Nat /\ pn \in Nat /\ p + 1 <= pn /\ p + 1 \in Nat
    <3>1. Past(k) \in SUBSET Past(k)'
      BY <1>7
    <3>2. p \in Nat /\ pn \in Nat /\ p + 1 <= pn
      BY <1>1, <1>8, <2>1, <3>1, PartsOfCluster
    <3>. QED
      BY <3>2
  <2>3. CpuUsage(k) <= Portions(p)
    BY <1>2, <1>9 DEF UsageWithin, k
  <2>4. UsageWithin(k)' <=> CpuUsage(k)' <= Portions(pn)
    BY <1>2, <1>5, <1>9 DEF UsageWithin, Portions, k
  <2>. HIDE DEF p, pn
  <2>5. /\ Portions(p) \in Nat /\ Portions(p + 1) = Portions(p) + MaxUnread
        /\ Portions(p + 1) <= Portions(pn) /\ Portions(pn) \in Nat
    BY <2>2, PortionsAddUp
  <2>6. CpuUsage(k)' <= Portions(pn)
    BY <1>2, <1>3, <2>3, <2>5
  <2>. QED
    BY <2>4, <2>6 DEF k
<1>10. CASE ~JustReset(k) /\ UnreadEvents(c) = 0
  <2>1. CpuUsage(k)' = CpuUsage(k)
    BY <1>2, <1>3, <1>10
  <2>. QED
    BY <1>1, <1>2, <1>5, <1>7, <1>10, <2>1, NoCharge DEF k
<1>11. CASE ~JustReset(k) /\ UnreadEvents(c) # 0
  <2>1. c \notin Respent(k) /\ (c \in Spent(k) => c \in Respent(k)')
    <3>1. c \notin Respent(k)
      BY <1>2 DEF Respent
    <3>2. ASSUME c \in Spent(k) PROVE c \in Respent(k)'
      <4>1. ResetAwaited(k) /\ aggregation_period_cnt[c] >= AwaitedTick(k)
        BY <1>2, <1>11, <3>2 DEF Spent, Closed
      <4>2. IsRegulationTick(AwaitedTick(k)) /\ AwaitedTick(k) \in Nat
        <5>1. CASE ResetDue(k)
          BY <1>1, <5>1 DEF AwaitedTick, ResetDue, UnreadInv
        <5>2. CASE ~ResetDue(k)
          BY <4>1, <5>2 DEF ResetAwaited, AwaitedTick
        <5>. QED
          BY <5>1, <5>2
      <4>3. aggregation_period_cnt[c] > AwaitedTick(k)
        <5>1. aggregation_period_cnt[c] # AwaitedTick(k)
          BY <1>3, <4>2
        <5>2. PICK n \in Nat, t \in Nat :
                  n = aggregation_period_cnt[c] /\ t = AwaitedTick(k)
          BY <4>2
        <5>3. n > t
          <6>1. n >= t /\ n # t
            BY <4>1, <5>1, <5>2, Zenon
          <6>. QED
            BY <6>1
        <5>. QED
          BY <5>2, <5>3
      <4>. QED
        BY <1>1, <1>2, <1>4, <1>5, <4>1, <4>3 DEF Respent
    <3>. QED
      BY <3>1, <3>2
  <2>. DEFINE s == Cardinality(Spent(k))     r == Cardinality(Respent(k))
              sn == Cardinality(Spent(k)')   rn == Cardinality(Respent(k)')
  <2>2. /\ s \in Nat /\ sn \in Nat /\ s <= sn
        /\ c \notin Spent(k) => s + 1 <= sn
    <3>1. Spent(k) \in SUBSET Spent(k)'
      BY <1>7
    <3>. QED
      BY <1>1, <1>7, <1>8, <3>1, PartsOfCluster
  <2>3. /\ r \in Nat /\ rn \in Nat /\ r <= rn
        /\ c \in Spent(k) => r + 1 <= rn
    BY <1>1, <1>7, <1>8, <2>1, PartsOfCluster
  <2>4. CpuUsage(k) > Kept(k) => CpuUsage(k) <= Kept(k) + Portions(s + r)
    BY <1>2, <1>11 DEF UsageWithin, k
  <2>5. UsageWithin(k)' <=>
            (CpuUsage(k)' > Kept(k) =>
                 CpuUsage(k)' <= Kept(k) + Portions(sn + rn))
    BY <1>2, <1>5, <1>8, <1>11 DEF UsageWithin, Portions, k
  <2>. HIDE DEF s, r, sn, rn
  <2>6. s + r + 1 <= sn + rn /\ s + r \in Nat /\ s + r + 1 \in Nat /\ sn + rn \in Nat
    BY <2>2, <2>3
  <2>7. /\ Portions(s + r) \in Nat /\ Portions(sn + rn) \in Nat
        /\ Portions(s + r) + MaxUnread <= Portions(sn + rn)
    <3>1. /\ Portions(s + r) \in Nat /\ Portions((s + r) + 1) = Portions(s + r) + MaxUnread
          /\ Portions((s + r) + 1) <= Portions(sn + rn) /\ Portions(sn + rn) \in Nat
      BY <2>6, PortionsAddUp
    <3>. QED
      BY <3>1
  <2>8. CpuUsage(k)' <= Kept(k) + Portions(sn + rn)
    <3>1. CASE CpuUsage(k) > Kept(k)
      BY <1>2, <1>3, <1>8, <2>4, <2>7, <3>1
    <3>2. CASE ~(CpuUsage(k) > Kept(k))
      BY <1>2, <1>3, <1>8, <2>7, <3>2
    <3>. QED
      BY <3>1, <3>2
  <2>. QED
    BY <2>5, <2>8 DEF k
<1>. QED
  BY <1>9, <1>10, <1>11

LEMMA StepUsageInv ==
    ASSUME LateTicks = 0
    PROVE  Inv /\ UnreadInv /\ UsageInv /\ [Next]_vars => UsageInv'
<1>. SUFFICES ASSUME Inv, UnreadInv, UsageInv, [Next]_vars, NEW k \in Cluster
              PROVE  UsageWithin(k)'
  BY DEF UsageInv
<1>0. /\ Inv' /\ UsageWithin(k)
      /\ \A d \in CoresOf(k) : d \in Core /\ cluster_of[d] = k
  BY StepInv DEF UsageInv, CoresOf
<1>. USE ClusterAssumption DEF Inv, TypeOK
(* Steps that leave the callbacks of the cluster's cores where they are. *)
<1>1. ASSUME UNCHANGED count,
             CpuUsage(k)' = CpuUsage(k), log_lost'[k] = log_lost[k],
             \A d \in CoresOf(k) :
                 /\ aggregation_period_cnt'[d] = aggregation_period_cnt[d]
                 /\ phase'[d] = phase[d]
                 /\ Closed(d) => Closed(d)'
      PROVE  UsageWithin(k)'
  BY <1>0, <1>1, QuietStep
<1>2. ASSUME NEW c \in Core, cluster_of[c] # k,
             \/ AdoptCount(c) \/ ResetUsage(c) \/ AccountUsage(c)
      PROVE  UsageWithin(k)'
  <2>1. /\ UNCHANGED <<count, throttled_task>>
        /\ CpuUsage(k)' = CpuUsage(k) /\ log_lost'[k] = log_lost[k]
    BY <1>2 DEF AdoptCount, ResetUsage, AccountUsage, clockVars, throttleVars,
                clusterVars, CpuUsage
  <2>2. \A d \in CoresOf(k) :
            /\ aggregation_period_cnt'[d] = aggregation_period_cnt[d]
            /\ phase'[d] = phase[d] /\ UnreadEvents(d)' = UnreadEvents(d)
    BY <1>0, <1>2 DEF AdoptCount, ResetUsage, AccountUsage, clockVars, eventVars,
                      UnreadEvents
  <2>. QED
    BY <1>1, <2>1, <2>2 DEF Closed
<1>3. ASSUME NEW c \in Core, TimerFire(c) PROVE UsageWithin(k)'
  <2>1. CASE count' # count
    BY <1>0, <1>3, <2>1, CountStep
  <2>2. CASE count' = count
    <3>1. /\ phase[c] = "thread" /\ phase' = [phase EXCEPT ![c] = "fired"]
          /\ UNCHANGED <<aggregation_period_cnt, eventVars, throttled_task, log_lost>>
          /\ CpuUsage(k)' = CpuUsage(k)
      BY <1>3 DEF TimerFire, throttleVars, clusterVars, CpuUsage
    <3>2. \A d \in CoresOf(k) :
              /\ phase'[d] = "account" <=> phase[d] = "account"
              /\ phase'[d] \in {"unthrottle", "reset"} <=>
                     phase[d] \in {"unthrottle", "reset"}
              /\ Closed(d) => Closed(d)'
      BY <1>0, <3>1 DEF Closed, UnreadEvents, eventVars
    <3>. QED
      BY <1>0, <2>2, <3>1, <3>2, QuietStep
  <2>. QED
    BY <2>1, <2>2
<1>4. ASSUME NEW c \in Core, AdoptCount(c) PROVE UsageWithin(k)'
  <2>1. CASE cluster_of[c] = k
    BY <1>0, <1>4, <2>1, AdoptStep
  <2>. QED
    BY <1>2, <1>4, <2>1
<1>5. ASSUME NEW c \in Core, Unthrottle(c) PROVE UsageWithin(k)'
  BY <1>0, <1>5, UnthrottleStep
<1>6. ASSUME NEW c \in Core, ResetUsage(c) PROVE UsageWithin(k)'
  <2>1. CASE cluster_of[c] = k
    <3>1. CpuUsage(k)' = 0
      BY <1>6, <2>1 DEF ResetUsage, CpuUsage
    <3>2. Past(k)' \in SUBSET CoresOf(k) /\ {} \in SUBSET Past(k)'
      BY DEF Past, CoresOf
    <3>3. Cardinality(Past(k)') \in Nat
      BY <3>2, PartsOfCluster
    <3>4. Portions(Cardinality(Past(k)')) \in Nat /\ Kept(k) \in Nat
      BY <3>3, PortionsAddUp, LimitsTyped
    <3>5. /\ Kept(k)' = Kept(k)
          /\ Portions(Cardinality(Past(k)))' = Portions(Cardinality(Past(k)'))
      BY DEF Kept, Portions, CoresOf
    <3>6. /\ CpuUsage(k)' <= Portions(Cardinality(Past(k)))'
          /\ ~(CpuUsage(k)' > Kept(k)')
      BY <3>1, <3>4, <3>5
    <3>. QED
      BY <3>6 DEF UsageWithin
  <2>. QED
    BY <1>2, <1>6, <2>1
<1>7. ASSUME NEW c \in Core, AccountUsage(c) PROVE UsageWithin(k)'
  <2>1. CASE cluster_of[c] = k /\ log_lost'[k]
    BY <2>1 DEF UsageWithin
  <2>2. CASE cluster_of[c] = k /\ ~log_lost'[k]
    BY <1>0, <1>7, <2>2, AccountStep
  <2>. QED
    BY <1>2, <1>7, <2>1, <2>2
<1>8. ASSUME NEW c \in Core, CheckPasses(c) \/ CheckExceeds(c) \/ ThrottleCores(c)
      PROVE  UsageWithin(k)'
  <2>1. /\ phase[c] \in {"check", "throttle"}
        /\ phase' \in {[phase EXCEPT ![c] = p] : p \in {"throttle", "thread"}}
        /\ UNCHANGED <<count, aggregation_period_cnt, eventVars, log_lost>>
        /\ CpuUsage(k)' = CpuUsage(k)
    BY <1>8 DEF CheckPasses, CheckExceeds, ThrottleCores, clockVars, clusterVars,
                CpuUsage
  <2>2. UnreadEvents(c) = 0
    BY <2>1 DEF UnreadInv
  <2>3. ASSUME NEW d \in CoresOf(k), throttled_task[d] PROVE throttled_task'[d]
    BY <1>0, <1>8, <2>3 DEF CheckPasses, CheckExceeds, ThrottleCores,
                            ThrottleCluster, throttleVars
  <2>4. ASSUME c \in CoresOf(k), Exceeds(k)
        PROVE  phase'[c] = "throttle" \/ throttled_task'[c]
    <3>1. CASE CheckPasses(c)
      BY <1>0, <2>4, <3>1 DEF CheckPasses, throttleVars
    <3>2. CASE CheckExceeds(c)
      BY <1>0, <2>4, <3>2 DEF CheckExceeds
    <3>3. CASE ThrottleCores(c)
      BY <1>0, <2>4, <3>3 DEF ThrottleCores, ThrottleCluster, CalledLocally
    <3>. QED
      BY <1>8, <3>1, <3>2, <3>3
  <2>5. ASSUME NEW d \in CoresOf(k)
        PROVE  /\ aggregation_period_cnt'[d] = aggregation_period_cnt[d]
               /\ phase'[d] = "account" <=> phase[d] = "account"
               /\ phase'[d] \in {"unthrottle", "reset"} <=>
                      phase[d] \in {"unthrottle", "reset"}
               /\ Exceeds(k) /\ Closed(d) => Closed(d)'
    <3>1. CASE d = c
      BY <1>0, <2>1, <2>2, <2>4, <3>1 DEF Closed, UnreadEvents, eventVars
    <3>2. CASE d # c
      BY <1>0, <2>1, <2>3, <3>2 DEF Closed, UnreadEvents, eventVars
    <3>. QED
      BY <3>1, <3>2
  <2>. QED
    BY <1>0, <2>1, <2>5, QuietStep
<1>9. ASSUME NEW c \in Core, Run(c) PROVE UsageWithin(k)'
  <2>1. \A d \in CoresOf(k) : Closed(d) => Closed(d)'
    BY <1>0, <1>9 DEF Run, Closed, UnreadEvents, throttleVars
  <2>. QED
    BY <1>1, <1>9, <2>1 DEF Run, clockVars, clusterVars, CpuUsage
<1>10. ASSUME NEW c \in Core, TakeIpi(c) PROVE UsageWithin(k)'
  <2>1. \A d \in CoresOf(k) : Closed(d) => Closed(d)'
    BY <1>0, <1>10 DEF TakeIpi, Closed, UnreadEvents, eventVars
  <2>. QED
    BY <1>1, <1>10, <2>1 DEF TakeIpi, clockVars, clusterVars, CpuUsage
<1>11. CASE \/ Advance \/ UNCHANGED vars
            \/ \E c \in Core : ThrottleThread(c)
            \/ \E g \in Cluster : \/ ProfilerSamples(g)
                                  \/ ReceiverCleans(g) \/ ReceiverChecks(g)
  <2>1. /\ UNCHANGED <<count, aggregation_period_cnt, phase, eventVars, throttled_task,
                       log_lost>>
        /\ CpuUsage(k)' = CpuUsage(k)
    BY <1>11 DEF vars, clockVars, throttleVars, clusterVars, Advance, ThrottleThread,
                 StartSpin, StopSpin, ProfilerSamples, ReceiverCleans, ReceiverChecks,
                 CpuUsage
  <2>. QED
    BY <1>1, <2>1 DEF Closed, UnreadEvents, eventVars
(* What a GPU sample carries is on both sides of the difference. *)
<1>12. ASSUME NEW g \in Cluster, ReceiverAccounts(g) PROVE UsageWithin(k)'
  <2>1. CpuUsage(k)' = CpuUsage(k)
    <3>1. PICK burst \in GpuBursts :
              /\ bandwidth_usage' = [bandwidth_usage EXCEPT ![g] = @ + burst]
              /\ gpu_usage' = [gpu_usage EXCEPT ![g] = @ + burst]
      BY <1>12 DEF ReceiverAccounts
    <3>2. burst \in Int /\ bandwidth_usage[k] \in Int /\ gpu_usage[k] \in Int
      BY GpuAssumption
    <3>3. CASE g = k
      <4>1. /\ bandwidth_usage'[k] = bandwidth_usage[k] + burst
            /\ gpu_usage'[k] = gpu_usage[k] + burst
        BY <3>1, <3>3
      <4>. QED
        BY <3>2, <4>1 DEF CpuUsage
    <3>4. CASE g # k
      BY <3>1, <3>4 DEF CpuUsage
    <3>. QED
      BY <3>3, <3>4
  <2>2. /\ UNCHANGED <<count, aggregation_period_cnt, phase, eventVars, throttled_task>>
        /\ log_lost[k] => log_lost'[k]
    BY <1>12 DEF ReceiverAccounts, clockVars, throttleVars
  <2>3. CASE log_lost'[k]
    BY <2>3 DEF UsageWithin
  <2>4. CASE ~log_lost'[k]
    <3>1. log_lost'[k] = log_lost[k]
      <4>1. log_lost[k] \in BOOLEAN /\ log_lost'[k] \in BOOLEAN
        BY <1>0
      <4>. QED
        BY <2>2, <2>4, <4>1
    <3>. QED
      BY <1>1, <2>1, <2>2, <3>1 DEF Closed, UnreadEvents, eventVars
  <2>. QED
    BY <2>3, <2>4
<1>13. ASSUME NEW g \in Cluster, ReceiverThrottles(g) PROVE UsageWithin(k)'
  <2>1. /\ UNCHANGED <<count, aggregation_period_cnt, phase, eventVars, log_lost>>
        /\ CpuUsage(k)' = CpuUsage(k)
        /\ \A d \in Core : throttled_task[d] => throttled_task'[d]
    BY <1>13 DEF ReceiverThrottles, ThrottleCluster, clockVars, clusterVars, CpuUsage
  <2>2. \A d \in CoresOf(k) : Closed(d) => Closed(d)'
    BY <1>0, <2>1 DEF Closed, UnreadEvents, eventVars
  <2>. QED
    BY <1>1, <2>1, <2>2
<1>. QED
  BY <1>3, <1>4, <1>5, <1>6, <1>7, <1>8, <1>9, <1>10, <1>11, <1>12, <1>13
     DEF Next, TimerCallback, GpuReceiver

(* With timers served within their period, the budget holds up to the      *)
(* fixed overshoot of UsageBounded: the cores of a cluster of n charge at  *)
(* most 2n - 1 portions beyond it, of MaxUnread events between two         *)
(* readings each, whatever the order of their callbacks and interrupts and *)
(* whatever the GPU charges on top.                                        *)
THEOREM OvershootBounded ==
    ASSUME LateTicks = 0
    PROVE  Spec => []UsageBounded
<1>1. Init => UnreadInv /\ UsageInv
  <2>. SUFFICES ASSUME Init PROVE UnreadInv /\ UsageInv
    OBVIOUS
  <2>1. UnreadInv
    BY PeriodAssumption DEF Init, UnreadInv, UnreadEvents
  <2>2. ASSUME NEW k \in Cluster PROVE UsageWithin(k)
    <3>1. ~JustReset(k) /\ CpuUsage(k) = 0 /\ Kept(k) \in Nat
      <4>1. ~IsRegulationTick(count)
        <5>1. g_manage_period_interval \in Nat \ {0} /\ 0 \div g_manage_period_interval \in Nat
              /\ 0 = g_manage_period_interval * (0 \div g_manage_period_interval)
                         + (0 % g_manage_period_interval)
              /\ 0 % g_manage_period_interval \in 0..g_manage_period_interval - 1
          BY PeriodAssumption, DivisionWithRemainder
        <5>2. g_manage_period_interval * (0 \div g_manage_period_interval) \in Nat
          BY <5>1
        <5>. QED
          BY <5>1, <5>2 DEF Init, IsRegulationTick
      <4>. QED
        BY <4>1, LimitsTyped DEF Init, JustReset, CpuUsage
    <3>. QED
      BY <3>1 DEF UsageWithin
  <2>. QED
    BY <2>1, <2>2 DEF UsageInv
<1>2. Inv /\ UsageInv => UsageBounded
  <2>. SUFFICES ASSUME Inv, UsageInv, NEW k \in Cluster, ~log_lost[k]
                PROVE  LET n == Cardinality(CoresOf(k))
                           spill == (n - 1) * MaxUnread
                           kept == IF cur_bandwidth_budget[k] >= spill
                                   THEN cur_bandwidth_budget[k] ELSE spill
                       IN  CpuUsage(k) <= kept + (2 * n - 1) * MaxUnread
    BY DEF UsageBounded
  <2>. DEFINE n == Cardinality(CoresOf(k))
              s == Cardinality(Spent(k))
              r == Cardinality(Respent(k))
              p == Cardinality(Past(k))
  <2>1. /\ s \in Nat /\ s <= n
        /\ r \in Nat /\ r <= n - 1
        /\ p \in Nat /\ p <= n - 1
    <3>1. /\ Spent(k) \in SUBSET CoresOf(k) /\ {} \in SUBSET Spent(k)
          /\ Respent(k) \in SUBSET CoresOf(k) /\ {} \in SUBSET Respent(k)
          /\ Past(k) \in SUBSET CoresOf(k) /\ {} \in SUBSET Past(k)
          /\ leader_core[k] \in CoresOf(k)
          /\ leader_core[k] \notin Respent(k) /\ leader_core[k] \notin Past(k)
      BY SetsOfCluster
    <3>. QED
      BY <3>1, PartsOfCluster
  <2>2. n \in Nat /\ n - 1 \in Nat /\ Kept(k) \in Nat /\ Portions(n - 1) <= Kept(k)
    BY LimitsTyped
  <2>3. CpuUsage(k) \in Int
    BY CpuUsageCounts DEF Inv
  <2>4. /\ JustReset(k) => CpuUsage(k) <= Portions(p)
        /\ ~JustReset(k) => \/ CpuUsage(k) <= Kept(k)
                            \/ CpuUsage(k) <= Kept(k) + Portions(s + r)
    BY <2>2, <2>3 DEF UsageInv, UsageWithin
  <2>5. /\ Kept(k) = IF cur_bandwidth_budget[k] >= (n - 1) * MaxUnread
                     THEN cur_bandwidth_budget[k] ELSE (n - 1) * MaxUnread
        /\ Portions(2 * n - 1) = (2 * n - 1) * MaxUnread
    <3>1. \A a \in Int : Portions(a) = a * MaxUnread
      BY PeriodAssumption DEF Portions
    <3>2. n - 1 \in Int /\ 2 * n - 1 \in Int
      BY <2>2
    <3>3. Kept(k) = IF cur_bandwidth_budget[k] >= Portions(n - 1)
                    THEN cur_bandwidth_budget[k] ELSE Portions(n - 1)
      BY DEF Kept
    <3>. HIDE DEF n
    <3>. QED
      BY <3>1, <3>2, <3>3
  <2>. HIDE DEF n, s, r, p
  <2>6. s + r \in Nat /\ 2 * n - 1 \in Nat /\ s + r <= 2 * n - 1
    BY <2>1, <2>2
  <2>7. /\ Portions(p) <= Portions(n - 1) /\ Portions(s + r) <= Portions(2 * n - 1)
        /\ Portions(p) \in Nat /\ Portions(n - 1) \in Nat
        /\ Portions(s + r) \in Nat /\ Portions(2 * n - 1) \in Nat
    BY <2>1, <2>2, <2>6, PortionsAddUp
  <2>8. CpuUsage(k) <= Kept(k) + Portions(2 * n - 1)
    BY <2>2, <2>3, <2>4, <2>7
  <2>. QED
    BY <2>5, <2>8 DEF n
<1>. QED
  BY <1>1, <1>2, Invariance, StepUnreadInv, StepUsageInv, PTL DEF Spec
=============================================================================
