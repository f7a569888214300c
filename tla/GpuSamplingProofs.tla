------------------------- MODULE GpuSamplingProofs -------------------------
(***************************************************************************)
(* Proofs about GpuSampling, for any number of aggregation periods: the    *)
(* mailbox implements the one-place buffer, and the module never keeps a   *)
(* pointer to a profiler that has exited.                                  *)
(***************************************************************************)
EXTENDS GpuSampling, TLAPS

(* Every sample answers a request of its own: those pending or being       *)
(* handled have not been sampled yet.                                      *)
RequestsUnanswered ==
    (IF sigusr1 THEN 1 ELSE 0)
        + (IF usr1 \in {"entry", "sample"} THEN 1 ELSE 0)

SamplesRequested == samples + RequestsUnanswered <= ticks

(* A handler beyond its sampling has a sample, and the words it has copied *)
(* are the sample's.                                                       *)
CopyInv ==
    /\ usr1 \in {"write", "copy_wr", "ready", "wake"} => samples >= 1
    /\ usr1 = "copy_wr" => gpu_beats[1] = samples
    /\ usr1 \in {"ready", "wake"} => gpu_beats = <<samples, samples>>

(* The flag is only set between the write handler's SetReady and the       *)
(* receiver's clearing it, and the two never overlap.                      *)
FlagInv ==
    /\ InKernel => receiver \in {"asleep", "dead"}
    /\ receiver = "asleep" => (gpu_beats_ready <=> usr1 = "wake")
    /\ receiver \in {"charge", "clean", "unready"} => gpu_beats_ready
    /\ receiver = "check" => ~gpu_beats_ready

(* The mailbox holds a whole sample until it has been charged. *)
FullInv ==
    (gpu_beats_ready /\ receiver \in {"asleep", "wait", "charge"})
        => gpu_beats \in {<<n, n>> : n \in 1..MaxTicks}

(* How far the handler for SIGTERM is tells whether the pointer is cleared *)
(* and the process still there.                                            *)
ExitInv ==
    /\ sigterm => term = "none"
    /\ (~refused /\ ~alive) => term = "exit"
    /\ (~refused /\ term \in {"cleanup", "mark_cleanup", "exit"})
           => ~gpu_profiler_task

Inv == TypeOK /\ SamplesRequested /\ CopyInv /\ FlagInv /\ FullInv /\ ExitInv

-----------------------------------------------------------------------------
LEMMA InitInv == Init => Inv
<1>. USE GpuSamplingAssumption DEF Init
<1>1. Init => TypeOK
  <2>. SUFFICES ASSUME Init PROVE TypeOK
    OBVIOUS
  <2>1. ticks \in 0..MaxTicks /\ samples \in 0..MaxTicks
    OBVIOUS
  <2>2. written \in Seq(Word \X Word) /\ charged \in Seq(Word \X Word)
    OBVIOUS
  <2>3. gpu_beats \in Word \X Word
    OBVIOUS
  <2>. QED
    BY <2>1, <2>2, <2>3
    DEF TypeOK, Usr1Places, TermPlaces, FdStates, ReceiverPlaces
<1>2. Init => SamplesRequested /\ CopyInv /\ ExitInv
  BY DEF SamplesRequested, RequestsUnanswered, CopyInv, ExitInv
<1>3. Init => FlagInv /\ FullInv
  BY DEF FlagInv, FullInv, InKernel
<1>. QED
  BY <1>1, <1>2, <1>3 DEF Inv

LEMMA StepInv == Inv /\ [Next]_vars => Inv'
<1>. SUFFICES ASSUME Inv, [Next]_vars PROVE Inv'
  OBVIOUS
<1>. USE GpuSamplingAssumption
     DEF Inv, TypeOK, SamplesRequested, RequestsUnanswered, CopyInv, FlagInv,
         FullInv, ExitInv, Word, GPU_BEATS_CLEANED, Usr1Places, TermPlaces,
         FdStates, ReceiverPlaces, InKernel, vars, module, signals, profiler,
         mailbox, history, ProfilerRuns, Usr1At, TermAt
<1>1. CASE RequestSample
  BY <1>1 DEF RequestSample
<1>2. CASE Terminate
  BY <1>2 DEF Terminate
<1>3. CASE TakeUsr1
  <2>1. TypeOK'
    BY <1>3 DEF TakeUsr1
  <2>2. SamplesRequested'
    BY <1>3 DEF TakeUsr1
  <2>3. CopyInv'
    BY <1>3 DEF TakeUsr1
  <2>4. FlagInv'
    BY <1>3 DEF TakeUsr1
  <2>5. FullInv'
    BY <1>3 DEF TakeUsr1
  <2>6. ExitInv'
    BY <1>3 DEF TakeUsr1
  <2>. QED
    BY <2>1, <2>2, <2>3, <2>4, <2>5, <2>6
<1>4. CASE CheckFd
  BY <1>4 DEF CheckFd
<1>5. CASE SampleNow
  BY <1>5 DEF SampleNow
<1>6. CASE WriteFails
  BY <1>6 DEF WriteFails
<1>7. CASE CopyRead
  <2>1. TypeOK'
    BY <1>7 DEF CopyRead
  <2>2. SamplesRequested'
    BY <1>7 DEF CopyRead
  <2>3. CopyInv'
    BY <1>7 DEF CopyRead
  <2>4. FlagInv'
    BY <1>7 DEF CopyRead
  <2>5. FullInv'
    BY <1>7 DEF CopyRead
  <2>6. ExitInv'
    BY <1>7 DEF CopyRead
  <2>. QED
    BY <2>1, <2>2, <2>3, <2>4, <2>5, <2>6
<1>8. CASE CopyWrite
  BY <1>8 DEF CopyWrite
<1>9. CASE SetReady
  BY <1>9 DEF SetReady
<1>10. CASE Wake
  BY <1>10 DEF Wake
<1>11. CASE TakeTerm
  <2>1. TypeOK'
    BY <1>11 DEF TakeTerm
  <2>2. SamplesRequested'
    BY <1>11 DEF TakeTerm
  <2>3. CopyInv'
    BY <1>11 DEF TakeTerm
  <2>4. FlagInv'
    BY <1>11 DEF TakeTerm
  <2>5. FullInv'
    BY <1>11 DEF TakeTerm
  <2>6. ExitInv'
    BY <1>11 DEF TakeTerm
  <2>. QED
    BY <2>1, <2>2, <2>3, <2>4, <2>5, <2>6
<1>12. CASE CloseDevice
  BY <1>12 DEF CloseDevice
<1>13. CASE MarkTerminated
  BY <1>13 DEF MarkTerminated
<1>14. CASE StopProfiling
  BY <1>14 DEF StopProfiling, StopsProfiling
<1>15. CASE Exit
  <2>1. TypeOK'
    BY <1>15 DEF Exit
  <2>2. SamplesRequested'
    BY <1>15 DEF Exit
  <2>3. CopyInv'
    BY <1>15 DEF Exit
  <2>4. FlagInv'
    BY <1>15 DEF Exit
  <2>5. FullInv'
    BY <1>15 DEF Exit
  <2>6. ExitInv'
    BY <1>15 DEF Exit
  <2>. QED
    BY <2>1, <2>2, <2>3, <2>4, <2>5, <2>6
<1>16. CASE ReceiverWaits
  BY <1>16 DEF ReceiverWaits
<1>17. CASE ReceiverCharges
  BY <1>17 DEF ReceiverCharges
<1>18. CASE ReceiverCleans
  BY <1>18 DEF ReceiverCleans
<1>19. CASE ReceiverClearsReady
  <2>1. TypeOK'
    <3>. HIDE DEF SamplesRequested, RequestsUnanswered, CopyInv, FlagInv,
                  FullInv, ExitInv
    <3>1. /\ gpu_beats_ready' \in BOOLEAN /\ receiver' \in ReceiverPlaces
          /\ UNCHANGED <<module, alive, signals, profiler, gpu_beats, history>>
      BY <1>19 DEF ReceiverClearsReady
    <3>. QED
      BY <3>1
  <2>2. SamplesRequested'
    BY <1>19 DEF ReceiverClearsReady
  <2>3. CopyInv'
    BY <1>19 DEF ReceiverClearsReady
  <2>4. FlagInv'
    BY <1>19 DEF ReceiverClearsReady
  <2>5. FullInv'
    BY <1>19 DEF ReceiverClearsReady
  <2>6. ExitInv'
    BY <1>19 DEF ReceiverClearsReady
  <2>. QED
    BY <2>1, <2>2, <2>3, <2>4, <2>5, <2>6
<1>20. CASE ReceiverChecks
  BY <1>20 DEF ReceiverChecks
<1>21. CASE UNCHANGED vars
  BY <1>21
<1>22. CASE SampleFails
  <2>1. TypeOK'
    BY <1>22 DEF SampleFails
  <2>2. SamplesRequested'
    BY <1>22 DEF SampleFails
  <2>3. CopyInv'
    BY <1>22 DEF SampleFails
  <2>4. FlagInv'
    BY <1>22 DEF SampleFails
  <2>5. FullInv'
    BY <1>22 DEF SampleFails
  <2>6. ExitInv'
    BY <1>22 DEF SampleFails
  <2>. QED
    BY <2>1, <2>2, <2>3, <2>4, <2>5, <2>6
<1>. QED
  BY <1>1, <1>2, <1>3, <1>4, <1>5, <1>6, <1>7, <1>8, <1>9, <1>10, <1>11, <1>12,
     <1>13, <1>14, <1>15, <1>16, <1>17, <1>18, <1>19, <1>20, <1>21, <1>22
  DEF Next, HandleUsr1, HandleTerm, Receive

(* Type correctness and the invariant the following proofs rest on.        *)
THEOREM SamplingInv == Spec => []Inv
  BY InitInv, StepInv, PTL DEF Spec

(* Every variable of profiler, mailbox and receiver keeps its type. *)
THEOREM TypeCorrect == Spec => []TypeOK
<1>1. Inv => TypeOK
  BY DEF Inv
<1>. QED
  BY <1>1, SamplingInv, PTL

(* If the driver and sysfs do not fail, as the handlers expect of them, no *)
(* profiler exits while the module still points to it.                     *)
THEOREM PointerCleared == Spec => []NoPointerToDeadProfiler
<1>1. Inv => NoPointerToDeadProfiler
  BY DEF Inv, ExitInv, NoPointerToDeadProfiler, TypeOK
<1>. QED
  BY <1>1, SamplingInv, PTL

-----------------------------------------------------------------------------
(* A sample has been announced and not been charged yet. *)
Outstanding == gpu_beats_ready /\ receiver \notin {"clean", "unready", "dead"}

(* What was announced is what was charged and the sample outstanding; the  *)
(* samples announced have increasing numbers, and none is the one that is  *)
(* being written.                                                          *)
Announced(s) ==
    /\ \A i \in 1..Len(s) :
          /\ s[i][1] <= samples
          /\ usr1 \in {"write", "copy_wr", "ready"} => s[i][1] < samples
    /\ \A i, j \in 1..Len(s) : i < j => s[i][1] < s[j][1]

OrderInv ==
    /\ written = IF Outstanding THEN Append(charged, gpu_beats) ELSE charged
    /\ Announced(written)

LEMMA InitOrderInv == Init => OrderInv
BY DEF Init, OrderInv, Outstanding, Announced

(* Steps that leave the samples announced and the one outstanding alone.   *)
LEMMA QuietOrderStep ==
    ASSUME OrderInv, UNCHANGED <<written, charged>>,
           Outstanding' <=> Outstanding, Outstanding => gpu_beats' = gpu_beats,
           samples' = samples,
           usr1' \in {"write", "copy_wr", "ready"} =>
               usr1 \in {"write", "copy_wr", "ready"}
    PROVE  OrderInv'
<1>1. Announced(written)'
  BY DEF OrderInv, Announced
<1>. QED
  BY <1>1 DEF OrderInv

LEMMA StepOrderInv == Inv /\ OrderInv /\ [Next]_vars => OrderInv'
<1>. SUFFICES ASSUME Inv, OrderInv, [Next]_vars PROVE OrderInv'
  OBVIOUS
<1>0. /\ written \in Seq(Word \X Word) /\ charged \in Seq(Word \X Word)
      /\ samples \in Nat /\ gpu_beats \in Word \X Word
  BY GpuSamplingAssumption DEF Inv, TypeOK
<1>1. CASE \/ RequestSample \/ Terminate \/ TakeUsr1 \/ CheckFd \/ SampleFails
           \/ WriteFails \/ HandleTerm \/ UNCHANGED vars
  <2>1. /\ UNCHANGED <<written, charged, gpu_beats, gpu_beats_ready, receiver, samples>>
        /\ usr1' \in {usr1, "none", "entry", "sample"}
    BY <1>1 DEF RequestSample, Terminate, TakeUsr1, CheckFd, SampleFails, WriteFails,
                HandleTerm, TakeTerm, CloseDevice, MarkTerminated, StopProfiling,
                Exit, vars, module, signals, profiler, mailbox, history
  <2>. QED
    BY <2>1, QuietOrderStep DEF Outstanding
<1>2. CASE SampleNow
  <2>1. /\ UNCHANGED <<written, charged, gpu_beats, gpu_beats_ready, receiver>>
        /\ samples' = samples + 1
    BY <1>2 DEF SampleNow, mailbox, history
  <2>2. \A i \in 1..Len(written) : written[i][1] \in Int
    BY <1>0, GpuSamplingAssumption DEF Word
  <2>3. \A i \in 1..Len(written) : written[i][1] <= samples
    BY DEF OrderInv, Announced
  <2>4. \A i \in 1..Len(written) : written[i][1] < samples + 1
    BY <1>0, <2>2, <2>3
  <2>5. \A i \in 1..Len(written) : written[i][1] <= samples + 1
    BY <1>0, <2>2, <2>3
  <2>6. Announced(written)'
    BY <2>1, <2>4, <2>5 DEF OrderInv, Announced
  <2>. QED
    BY <2>1, <2>6 DEF OrderInv, Outstanding
(* The words are copied while nothing is outstanding. *)
<1>3. CASE CopyRead \/ CopyWrite
  <2>1. /\ UNCHANGED <<written, charged, gpu_beats_ready, receiver, samples>>
        /\ usr1 \in {"write", "copy_wr"}
        /\ receiver \in {"asleep", "dead"}
    BY <1>3 DEF CopyRead, CopyWrite, Usr1At, ProfilerRuns, history
  <2>2. ~Outstanding
    BY <2>1 DEF Outstanding, Inv, FlagInv
  <2>. QED
    BY <2>1, <2>2, QuietOrderStep DEF Outstanding
<1>4. CASE SetReady
  <2>1. /\ usr1 = "ready" /\ receiver \in {"asleep", "dead"} /\ usr1' = "wake"
        /\ gpu_beats_ready'
        /\ UNCHANGED <<charged, gpu_beats, receiver, samples>>
        /\ written' = IF receiver = "dead" THEN written
                      ELSE Append(written, <<samples, samples>>)
    BY <1>4 DEF SetReady, Usr1At, ProfilerRuns
  <2>2. ~Outstanding /\ gpu_beats = <<samples, samples>> /\ written = charged
    BY <2>1 DEF Outstanding, Inv, FlagInv, CopyInv, OrderInv
  <2>3. CASE receiver = "dead"
    BY <2>1, <2>2, <2>3, QuietOrderStep DEF Outstanding
  <2>4. CASE receiver = "asleep"
    <3>1. written' = Append(written, <<samples, samples>>) /\ Outstanding'
      BY <2>1, <2>4 DEF Outstanding
    <3>2. Announced(written)'
      <4>1. /\ Len(written') = Len(written) + 1 /\ Len(written) \in Nat
            /\ \A i \in 1..Len(written) : written'[i] = written[i]
            /\ written'[Len(written) + 1] = <<samples, samples>>
        BY <1>0, <3>1
      <4>2. \A i \in 1..Len(written) : written[i][1] < samples /\ written[i][1] <= samples
        BY <2>1 DEF OrderInv, Announced
      <4>3. \A i \in 1..Len(written') :
                i \in 1..Len(written) \/ i = Len(written) + 1
        BY <4>1
      <4>4. <<samples, samples>>[1] = samples /\ samples <= samples
        BY <1>0
      <4>5. ASSUME NEW i \in 1..Len(written') PROVE written'[i][1] <= samples
        BY <4>1, <4>2, <4>3, <4>4
      <4>6. ASSUME NEW i \in 1..Len(written'), NEW j \in 1..Len(written'), i < j
            PROVE  written'[i][1] < written'[j][1]
        <5>1. i \in 1..Len(written)
          BY <4>1, <4>6
        <5>2. CASE j \in 1..Len(written)
          BY <4>1, <4>6, <5>1, <5>2 DEF OrderInv, Announced
        <5>3. CASE j = Len(written) + 1
          <6>1. written'[i] = written[i] /\ written'[j] = <<samples, samples>>
            BY <4>1, <5>1, <5>3
          <6>. QED
            BY <4>2, <4>4, <5>1, <6>1
        <5>. QED
          BY <4>3, <5>2, <5>3
      <4>7. samples' = samples /\ usr1' \notin {"write", "copy_wr", "ready"}
        BY <2>1
      <4>. QED
        BY <4>5, <4>6, <4>7 DEF Announced
    <3>. QED
      BY <2>1, <2>2, <3>1, <3>2 DEF OrderInv
  <2>. QED
    BY <2>1, <2>3, <2>4
<1>5. CASE Wake \/ ReceiverWaits \/ ReceiverCleans \/ ReceiverClearsReady \/ ReceiverChecks
  <2>1. /\ UNCHANGED <<written, charged, samples>>
        /\ usr1' \in {usr1, "none"}
    BY <1>5 DEF Wake, ReceiverWaits, ReceiverCleans, ReceiverClearsReady,
                ReceiverChecks, history, profiler
  <2>2. /\ Outstanding' <=> Outstanding
        /\ Outstanding => gpu_beats' = gpu_beats
    BY <1>5 DEF Outstanding, Inv, FlagInv, Wake, ReceiverWaits, ReceiverCleans,
                ReceiverClearsReady, ReceiverChecks, mailbox
  <2>. QED
    BY <2>1, <2>2, QuietOrderStep
<1>6. CASE ReceiverCharges
  <2>1. /\ receiver = "charge" /\ receiver' \in {"clean", "dead"}
        /\ charged' = Append(charged, gpu_beats)
        /\ UNCHANGED <<written, samples, usr1>>
    BY <1>6 DEF ReceiverCharges, profiler
  <2>2. Outstanding /\ ~Outstanding'
    BY <2>1 DEF Outstanding, Inv, FlagInv
  <2>3. Announced(written)'
    BY <2>1 DEF OrderInv, Announced
  <2>. QED
    BY <2>1, <2>2, <2>3 DEF OrderInv
<1>. QED
  BY <1>1, <1>2, <1>3, <1>4, <1>5, <1>6 DEF Next, HandleUsr1, Receive

(* The mailbox between write handler and receiver implements the one-place *)
(* buffer while the receiver lives: each sample is written at most once,   *)
(* and what is written is charged once, whole and in order.                                                               *)
THEOREM MailboxIsOnePlaceBuffer == Spec => ChargedOnce
<1>1. Init => Mailbox!Init
  BY DEF Init, Mailbox!Init
<1>2. Inv /\ OrderInv /\ [Next]_vars => [Mailbox!Next]_Mailbox!vars
  <2>. SUFFICES ASSUME Inv, OrderInv, [Next]_vars
                PROVE  [Mailbox!Next]_Mailbox!vars
    OBVIOUS
  <2>. USE GpuSamplingAssumption
       DEF Inv, TypeOK, Word, GPU_BEATS_CLEANED, ReceiverPlaces, InKernel,
           vars, module, signals, profiler, mailbox, history, ProfilerRuns,
           Usr1At, TermAt, Mailbox!vars, FlagInv
  <2>1. CASE SetReady /\ receiver = "dead"
    BY <2>1 DEF SetReady
  <2>8. CASE SetReady /\ receiver # "dead"
    <3>1. samples \in 1..MaxTicks /\ gpu_beats = <<samples, samples>>
      BY <2>8 DEF SetReady, CopyInv
    <3>2. \A n \in 1..Len(written) : written[n] # <<samples, samples>>
      <4>1. \A n \in 1..Len(written) : written[n][1] < samples
        BY <2>8 DEF SetReady, OrderInv, Announced
      <4>2. <<samples, samples>>[1] = samples /\ ~(samples < samples)
        BY <3>1
      <4>. QED
        BY <4>1, <4>2
    <3>3. Mailbox!Put(<<samples, samples>>)
      BY <2>8, <3>1, <3>2 DEF SetReady, Mailbox!Put
    <3>. QED
      BY <3>1, <3>3 DEF Mailbox!Next
  <2>2. CASE ReceiverCharges
    <3>1. Mailbox!Take
      BY <2>2 DEF ReceiverCharges, FullInv, Mailbox!Take
    <3>. QED
      BY <3>1 DEF Mailbox!Next
  <2>3. CASE CopyRead \/ CopyWrite
    BY <2>3 DEF CopyRead, CopyWrite
  <2>4. CASE RequestSample \/ Terminate \/ TakeUsr1 \/ CheckFd \/ SampleNow
             \/ SampleFails \/ WriteFails \/ HandleTerm \/ UNCHANGED vars
    BY <2>4 DEF RequestSample, Terminate, TakeUsr1, CheckFd, SampleNow,
                SampleFails, WriteFails, HandleTerm, TakeTerm, CloseDevice,
                MarkTerminated, StopProfiling, Exit
  <2>5. CASE Wake
    BY <2>5 DEF Wake
  <2>6. CASE ReceiverWaits
    BY <2>6 DEF ReceiverWaits
  <2>7. CASE ReceiverCleans \/ ReceiverClearsReady \/ ReceiverChecks
    BY <2>7 DEF ReceiverCleans, ReceiverClearsReady, ReceiverChecks
  <2>. QED
    BY <2>1, <2>2, <2>3, <2>4, <2>5, <2>6, <2>7, <2>8
    DEF Next, HandleUsr1, Receive
<1>. QED
  BY <1>1, <1>2, InitInv, StepInv, InitOrderInv, StepOrderInv, PTL
     DEF Spec, ChargedOnce, Mailbox!Spec

(* The handlers for SIGUSR1 and SIGTERM interrupt each other, and requests *)
(* coalesce; still no sample is written, or charged, a second time or      *)
(* after a later one.  The receiver charges what was announced to it, and  *)
(* is at most one sample behind.                                           *)
ChargedInOrder ==
    /\ \A i, j \in 1..Len(charged) : i < j => charged[i][1] < charged[j][1]
    /\ \A i \in 1..Len(charged) : i <= Len(written) /\ charged[i] = written[i]
    /\ Len(written) <= Len(charged) + 1

(* Whichever handler interrupts which, and for any number of requests, no  *)
(* sample is charged twice or after a later one, and at most one that was  *)
(* announced to the receiver is not charged.                               *)
THEOREM SamplesChargedInOrder == Spec => []ChargedInOrder
<1>1. Inv /\ OrderInv => ChargedInOrder
  <2>. SUFFICES ASSUME Inv, OrderInv PROVE ChargedInOrder
    OBVIOUS
  <2>1. charged \in Seq(Word \X Word) /\ Len(charged) \in Nat
    BY DEF Inv, TypeOK
  <2>2. \/ written = charged \/ written = Append(charged, gpu_beats)
    BY DEF OrderInv
  <2>3. /\ Len(written) \in {Len(charged), Len(charged) + 1}
        /\ \A i \in 1..Len(charged) : charged[i] = written[i]
    <3>1. /\ Len(Append(charged, gpu_beats)) = Len(charged) + 1
          /\ \A i \in 1..Len(charged) : Append(charged, gpu_beats)[i] = charged[i]
      BY <2>1
    <3>. QED
      BY <2>2, <3>1
  <2>4. \A i \in 1..Len(charged) : i <= Len(written) /\ i \in 1..Len(written)
    BY <2>1, <2>3
  <2>5. Len(written) <= Len(charged) + 1
    BY <2>1, <2>3
  <2>6. \A i, j \in 1..Len(charged) : i < j => charged[i][1] < charged[j][1]
    BY <2>3, <2>4 DEF OrderInv, Announced
  <2>. QED
    BY <2>3, <2>4, <2>5, <2>6 DEF ChargedInOrder
<1>. QED
  BY <1>1, InitInv, StepInv, InitOrderInv, StepOrderInv, PTL DEF Spec
=============================================================================
