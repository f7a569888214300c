----------------------------- MODULE GpuSampling -----------------------------
(***************************************************************************)
(* How GPU traffic reaches one cluster: the timer callback of its GPU      *)
(* profiling core asks the profiler process for a sample with SIGUSR1, the *)
(* signal handler samples the GPU and writes the beats into the mailbox of *)
(* the character device, and the receiver thread charges and cleans it.    *)
(* SIGTERM ends the profiler, whatever it is doing.                        *)
(*                                                                         *)
(* Everything runs on one core: run_cl_mem_reg.sh pins the profiler to the *)
(* core the callback runs on, and kthread_bind puts the receiver there.    *)
(* The callback is an interrupt, the receiver has the highest real-time    *)
(* priority, the profiler (priority 50) runs when the receiver sleeps.     *)
(* kthrottle only delays the profiler, and is left out.  SIGINT is handled *)
(* as SIGTERM is.  The two words of a sample, read and write beats, are    *)
(* named by the number of the sample they come from.                       *)
(***************************************************************************)
EXTENDS Integers, Sequences

CONSTANT
    MaxTicks            \* bound: aggregation periods (timer callbacks)

ASSUME GpuSamplingAssumption == MaxTicks \in Nat

(* Variant: a sample of no beats stands for an empty mailbox. *)
ClearedToZero == 0

GPU_BEATS_CLEANED == -1

Word == {-1} \union 1..MaxTicks

VARIABLES
    ticks,              \* timer callbacks so far
    gpu_profiler_task,  \* the module's pointer to the profiler is not NULL
    alive,              \* the profiler process exists
    sigusr1, sigterm,   \* signals pending for the profiler
    usr1, term,         \* where its handlers for SIGUSR1 and SIGTERM are
    usr1_blocked,       \* the handler for SIGTERM interrupted the other one
    fd,                 \* its descriptor of the device
    samples,            \* samples it has taken; the last one is being written
    gpu_beats,          \* the mailbox: read and write beats
    gpu_beats_ready,
    receiver,           \* where the receiver thread is
    written, charged,   \* history: samples announced to a receiver that is
                        \* there, samples charged
    refused             \* history: the GPU driver or sysfs refused a call

signals  == <<sigusr1, sigterm>>
mailbox  == <<gpu_beats, gpu_beats_ready>>
history  == <<written, charged, refused>>
profiler == <<usr1, term, usr1_blocked, fd, samples>>
module   == <<ticks, gpu_profiler_task>>

vars == <<module, alive, signals, profiler, mailbox, receiver, history>>

Usr1Places == {"none", "entry", "sample", "write", "copy_wr", "ready", "wake"}
TermPlaces == {"none", "close", "mark", "sysfs", "cleanup",
               "mark_cleanup", "exit"}
FdStates == {"NOT_STARTED", "open", "closed", "TERMINATED"}
ReceiverPlaces ==
    {"asleep", "wait", "charge", "clean", "unready", "check", "dead"}

TypeOK ==
    /\ ticks \in 0..MaxTicks /\ samples \in 0..MaxTicks
    /\ gpu_profiler_task \in BOOLEAN /\ alive \in BOOLEAN
    /\ sigusr1 \in BOOLEAN /\ sigterm \in BOOLEAN
    /\ usr1 \in Usr1Places /\ term \in TermPlaces
    /\ usr1_blocked \in BOOLEAN /\ fd \in FdStates
    /\ gpu_beats \in Word \X Word
    /\ gpu_beats_ready \in BOOLEAN
    /\ receiver \in ReceiverPlaces
    /\ refused \in BOOLEAN
    /\ written \in Seq(Word \X Word) /\ charged \in Seq(Word \X Word)

Init ==
    /\ ticks = 0 /\ samples = 0
    /\ gpu_profiler_task = TRUE /\ alive = TRUE
    /\ sigusr1 = FALSE /\ sigterm = FALSE
    /\ usr1 = "none" /\ term = "none"
    /\ usr1_blocked = FALSE /\ fd = "NOT_STARTED"
    /\ gpu_beats \in Word \X Word      \* kmalloc leaves it uninitialized
    /\ gpu_beats_ready = FALSE
    /\ receiver = "wait"
    /\ written = <<>> /\ charged = <<>> /\ refused = FALSE

-----------------------------------------------------------------------------
(* The module's side of the request.                                       *)

(* The timer callback of the GPU profiling core; the signal coalesces with *)
(* one that is still pending, and pid_alive guards the send.               *)
RequestSample ==
    /\ ticks < MaxTicks
    /\ ticks' = ticks + 1
    /\ sigusr1' = (sigusr1 \/ (gpu_profiler_task /\ alive))
    /\ UNCHANGED <<gpu_profiler_task, alive, sigterm, profiler, mailbox,
                   receiver, history>>

(* The store handler of stop_gpu_bandwidth_profiling: '0' clears the       *)
(* pointer.                                                                *)

(* Variant: it clears the pointer of the other cluster. *)
StopsTheOther(pointer) == pointer

StopsProfiling(pointer) == FALSE

(* stop_cl_mem_reg.sh sends the profiler SIGTERM.                          *)
Terminate ==
    /\ alive /\ ~sigterm /\ term = "none"
    /\ sigterm' = TRUE
    /\ UNCHANGED <<module, alive, sigusr1, profiler, mailbox, receiver,
                   history>>

-----------------------------------------------------------------------------
(* The profiler process.                                                   *)

(* The receiver outranks the profiler on their core.                       *)
ProfilerRuns == alive /\ receiver \in {"asleep", "dead"}

(* In the write system call no signal is taken. *)
InKernel == usr1 \in {"copy_wr", "ready", "wake"}

(* The innermost handler executes: one for SIGUSR1 that is still there     *)
(* runs on top of the one for SIGTERM, which discards what it interrupts.  *)
Usr1At(place) == ProfilerRuns /\ usr1 = place
TermAt(place) == ProfilerRuns /\ usr1 = "none" /\ term = place

(* A SIGUSR1 is taken when its own handler is not running, also inside the *)
(* handler for SIGTERM, unless that one interrupted it.                    *)
TakeUsr1 ==
    /\ ProfilerRuns /\ sigusr1 /\ usr1 = "none" /\ ~usr1_blocked
    /\ sigusr1' = FALSE
    /\ usr1' = "entry"
    /\ UNCHANGED <<module, alive, sigterm, term, usr1_blocked, fd, samples,
                   mailbox, receiver, history>>

(* A SIGTERM is taken anywhere in user mode.  Its handler never returns,   *)
(* so an interrupted handler for SIGUSR1 is over, and SIGUSR1 stays in the *)
(* signal mask.                                                            *)
TakeTerm ==
    /\ ProfilerRuns /\ sigterm /\ ~InKernel
    /\ sigterm' = FALSE
    /\ term' = "close"
    /\ usr1_blocked' = (usr1 # "none")
    /\ usr1' = "none"
    /\ UNCHANGED <<module, alive, sigusr1, fd, samples, mailbox, receiver,
                   history>>

(* The handler opens the device at the first signal (and again if that     *)
(* failed), and does nothing once the descriptor is TERMINATED.            *)
CheckFd ==
    /\ Usr1At("entry")
    /\ \/ /\ fd = "NOT_STARTED"
          /\ \/ fd' = "open" /\ usr1' = "sample"
             \/ fd' = "NOT_STARTED" /\ usr1' = "none"
       \/ /\ fd = "TERMINATED"
          /\ usr1' = "none"
          /\ UNCHANGED fd
       \/ /\ fd \in {"open", "closed"}
          /\ usr1' = "sample"
          /\ UNCHANGED fd
    /\ UNCHANGED <<module, alive, signals, term, usr1_blocked, samples,
                   mailbox, receiver, history>>

(* Variant: with no new values the last ones are written again. *)
MayRepeatSample ==
    /\ Usr1At("sample")
    /\ samples' \in {samples, samples + 1} \ {0}
    /\ usr1' = "write"
    /\ UNCHANGED <<module, alive, signals, term, usr1_blocked, fd, mailbox,
                   receiver, history>>

SampleNow ==
    /\ Usr1At("sample")
    /\ samples' = samples + 1
    /\ usr1' = "write"
    /\ UNCHANGED <<module, alive, signals, term, usr1_blocked, fd, mailbox,
                   receiver, history>>

(* The sampler exits the process when a call of the driver fails. *)
SampleFails ==
    /\ Usr1At("sample")
    /\ refused' = TRUE
    /\ alive' = FALSE
    /\ sigusr1' = FALSE /\ sigterm' = FALSE
    /\ usr1' = "none"
    /\ fd' = "closed"
    /\ UNCHANGED <<module, term, usr1_blocked, samples, mailbox, receiver,
                   written, charged>>

(* write(2) fails on a descriptor that the handler for SIGTERM, which this *)
(* one runs inside of, has closed but not marked yet.                      *)
WriteFails ==
    /\ Usr1At("write") /\ fd = "closed"
    /\ usr1' = "none"
    /\ UNCHANGED <<module, alive, signals, term, usr1_blocked, fd, samples,
                   mailbox, receiver, history>>

(* The write handler of the device: copy the words, set the flag, wake the *)
(* receiver; in this order.                                                *)
CopyRead ==
    /\ Usr1At("write") /\ fd = "open"
    /\ gpu_beats' = [gpu_beats EXCEPT ![1] = samples]
    /\ usr1' = "copy_wr"
    /\ UNCHANGED <<module, alive, signals, term, usr1_blocked, fd, samples,
                   gpu_beats_ready, receiver, history>>

CopyWrite ==
    /\ Usr1At("copy_wr")
    /\ gpu_beats' = [gpu_beats EXCEPT ![2] = samples]
    /\ usr1' = "ready"
    /\ UNCHANGED <<module, alive, signals, term, usr1_blocked, fd, samples,
                   gpu_beats_ready, receiver, history>>

SetReady ==
    /\ Usr1At("ready")
    /\ gpu_beats_ready' = TRUE
    /\ written' = IF receiver = "dead" THEN written
                  ELSE Append(written, <<samples, samples>>)
    /\ usr1' = "wake"
    /\ UNCHANGED <<module, alive, signals, term, usr1_blocked, fd, samples,
                   gpu_beats, receiver, charged, refused>>

(* Variant: the handler forgets wake_up_interruptible. *)
SetsFlagOnly ==
    /\ Usr1At("wake")
    /\ usr1' = "none"
    /\ UNCHANGED <<module, alive, signals, term, usr1_blocked, fd, samples,
                   mailbox, receiver, history>>

Wake ==
    /\ Usr1At("wake")
    /\ receiver' = IF receiver = "asleep" THEN "wait" ELSE receiver
    /\ usr1' = "none"
    /\ UNCHANGED <<module, alive, signals, term, usr1_blocked, fd, samples,
                   mailbox, history>>

(* The handler for SIGTERM: close the device and mark the descriptor,      *)
(* clear the module's pointer through sysfs, clean up (closing what a      *)
(* nested SIGUSR1 has opened), exit.                                       *)
CloseDevice ==
    \E place \in {"close", "cleanup"} :
        /\ TermAt(place)
        /\ IF fd = "open"
           THEN /\ fd' = "closed"
                /\ term' = IF place = "close" THEN "mark" ELSE "mark_cleanup"
           ELSE /\ term' = IF place = "close" THEN "sysfs" ELSE "exit"
                /\ UNCHANGED fd
        /\ UNCHANGED <<module, alive, signals, usr1, usr1_blocked, samples,
                       mailbox, receiver, history>>

MarkTerminated ==
    /\ TermAt("mark") \/ TermAt("mark_cleanup")
    /\ fd' = "TERMINATED"
    /\ term' = IF term = "mark" THEN "sysfs" ELSE "exit"
    /\ UNCHANGED <<module, alive, signals, usr1, usr1_blocked, samples,
                   mailbox, receiver, history>>

StopProfiling ==
    /\ TermAt("sysfs")
    /\ \/ /\ gpu_profiler_task' = StopsProfiling(gpu_profiler_task)
          /\ UNCHANGED refused
       \/ /\ refused' = TRUE
          /\ UNCHANGED gpu_profiler_task
    /\ term' = "cleanup"
    /\ UNCHANGED <<ticks, alive, signals, usr1, usr1_blocked, fd, samples,
                   mailbox, receiver, written, charged>>

(* Variant: the handler returns to pause() instead of exiting. *)
ReturnsToPause ==
    /\ TermAt("exit")
    /\ term' = "none"
    /\ UNCHANGED <<module, alive, signals, usr1, usr1_blocked, fd, samples,
                   mailbox, receiver, history>>

Exit ==
    /\ TermAt("exit")
    /\ alive' = FALSE
    /\ sigusr1' = FALSE
    /\ fd' = "closed"
    /\ UNCHANGED <<module, sigterm, usr1, usr1_blocked, term, samples,
                   mailbox, receiver, history>>

-----------------------------------------------------------------------------
(* The receiver thread, up to the budget check, which Regulation models.   *)

(* wait_event_interruptible: the flag decides, and a thread that goes to   *)
(* sleep is woken by wake_up only.                                         *)
ReceiverWaits ==
    /\ receiver = "wait"
    /\ receiver' = IF gpu_beats_ready THEN "charge" ELSE "asleep"
    /\ UNCHANGED <<module, alive, signals, profiler, mailbox, history>>

(* A receiver that logs and cannot allocate the record returns. *)
ReceiverCharges ==
    /\ receiver = "charge"
    /\ charged' = Append(charged, gpu_beats)
    /\ receiver' \in {"clean", "dead"}
    /\ UNCHANGED <<module, alive, signals, profiler, mailbox, written,
                   refused>>

ReceiverCleans ==
    /\ receiver = "clean"
    /\ gpu_beats' = <<GPU_BEATS_CLEANED, GPU_BEATS_CLEANED>>
    /\ receiver' = "unready"
    /\ UNCHANGED <<module, alive, signals, profiler, gpu_beats_ready,
                   history>>

(* Variant: the flag is left set. *)
LeavesReady ==
    /\ receiver = "unready"
    /\ receiver' = "check"
    /\ UNCHANGED <<module, alive, signals, profiler, mailbox, history>>

ReceiverClearsReady ==
    /\ receiver = "unready"
    /\ gpu_beats_ready' = FALSE
    /\ receiver' = "check"
    /\ UNCHANGED <<module, alive, signals, profiler, gpu_beats, history>>

ReceiverChecks ==
    /\ receiver = "check"
    /\ receiver' = "wait"
    /\ UNCHANGED <<module, alive, signals, profiler, mailbox, history>>

-----------------------------------------------------------------------------
HandleUsr1 ==
    \/ TakeUsr1 \/ CheckFd \/ SampleNow \/ SampleFails \/ WriteFails
    \/ CopyRead \/ CopyWrite \/ SetReady \/ Wake

HandleTerm ==
    \/ TakeTerm \/ CloseDevice \/ MarkTerminated \/ StopProfiling
    \/ Exit

Receive ==
    \/ ReceiverWaits \/ ReceiverCharges \/ ReceiverCleans
    \/ ReceiverClearsReady \/ ReceiverChecks

Next == RequestSample \/ Terminate \/ HandleUsr1 \/ HandleTerm \/ Receive

Spec == Init /\ [][Next]_vars

(* Real-time threads with processor time left run; the profiler runs       *)
(* because the receiver sleeps between samples and throttling ends.        *)
FairSpec ==
    /\ Spec
    /\ WF_vars(HandleUsr1) /\ WF_vars(TakeTerm) /\ WF_vars(HandleTerm)
    /\ WF_vars(Receive)

-----------------------------------------------------------------------------
(* Properties.                                                             *)

(* The mailbox is a one-place buffer: it is filled from the flag being set *)
(* until the receiver has charged what it holds.  No sample is lost, torn, *)
(* written twice, charged twice or charged out of order, although the      *)
(* handlers for SIGUSR1 and SIGTERM interrupt each other and the write     *)
(* handler sets the flag without looking at it.  Once the receiver has returned because *)
(* it could not log, samples are no longer put anywhere.                   *)
Mailbox == INSTANCE OnePlaceBuffer WITH
    Item <- {<<n, n>> : n \in 1..MaxTicks},
    Empty <- <<GPU_BEATS_CLEANED, GPU_BEATS_CLEANED>>,
    place <- IF gpu_beats_ready /\ receiver \notin {"clean", "unready", "dead"}
             THEN gpu_beats
             ELSE <<GPU_BEATS_CLEANED, GPU_BEATS_CLEANED>>,
    put <- written,
    taken <- charged
ChargedOnce == Mailbox!Spec

(* The module holds no pointer to a profiler that has exited: its handler  *)
(* for SIGTERM clears it first, whichever SIGUSR1 it interrupts or is      *)
(* interrupted by, as long as neither the driver nor sysfs refuses a call. *)
NoPointerToDeadProfiler == (gpu_profiler_task /\ ~refused) => alive

(* A sample written while the receiver is there is charged, even if the    *)
(* profiler is terminated right after.                                     *)
WrittenIsCharged ==
    \A n \in 1..MaxTicks : Len(written) >= n ~> Len(charged) >= n

(* A profiler that is told to terminate does, with its device closed,      *)
(* whatever it was doing and however often it is asked for samples, so     *)
(* that the module can be unloaded.                                        *)
TerminatedExits == sigterm ~> (~alive /\ fd # "open")
=============================================================================
