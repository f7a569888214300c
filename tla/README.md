# Cluster-level memory access regulation: the TLA+ project

`cl_mem_reg` is a kernel module that keeps the memory traffic of a cluster of
cores, and of the GPU attached to it, within a budget per regulation period
(T_R). A per-core high-resolution timer ticks every aggregation period (T_A),
charges the core's LLC misses to the cluster and, once the cluster is over its
budget, stops every core of it with an inter-processor interrupt that wakes a
spinning real-time thread. `gpu_profiler` is a user process that the module
asks, by signal, for the GPU's traffic; it samples the GPU's counters through
the vinstr interface and writes them back through a character device.

## 1. Inventory

| component | state | operations | how it interacts |
|---|---|---|---|
| regulation loop, `cl_mem_reg.c:417-546` | `global_info.count`; per core `aggregation_period_cnt`, `old_read_val`, `throttled_task`; per cluster `bandwidth_usage`, `regulation_period_cnt`, `is_throttled` | `timer_callback_master`, `regulation_period_func`, `aggregation_period_func` | one timer per core, all sharing the count and the cluster; interrupts off on the own core only |
| throttling, `:330-384`, `:904-942` | `throttled_task`, the wait queue | `cl_mem_reg_on_each_cpu_mask`, `__throttle_core`, `throttle_thread_func` | IPIs nobody waits for; a SCHED_FIFO thread per core |
| GPU receiver, `:548-672`, mailbox and device write, `:944-976` | `gpu_beats_memory`, `gpu_beats_ready` | wait, account, clean, check | single-slot mailbox between a user process and a kernel thread, no lock |
| counter start and leader election, `:748-811` | `g_hrtimer_start`, `g_leader_hrtimer_start`, `leader_core` | `__start_counter` on every core at once | unlocked read-compare-write by the four cores of a cluster |
| module load, `:1055-1360` | parameters, devices, threads | parameter checks, acquisition, error returns | the run script starts the profilers first and passes their pids |
| module unload, `:1362-1469`, `:813-843` | `module_unloading`, work queue, threads | stop counters, flush, stop threads, free | races with callbacks, interrupts and receivers in flight |
| logging, `:511-529`, `:579-596`, `:674-695`, `:978-1045` | work items, log files | queue, write, close | interrupt context to work queue |
| GPU profiler, `gpu_profiler.c` | `fd`, the sampler | signal handler, `main`, `cleanup` | SIGUSR1 from the module, SIGINT/SIGTERM from the stop script |
| device instance, `include/instance.h`, `gpu.h`, `handle.h`, product tables | descriptor, driver version, GPU constants | version check, set flags, decoding of the property buffer | driver calls; opened once for `gpu` and again for the sampler |
| vinstr back-end, `include/backend.h`, `session.h`, `vinstr_sample.h` | session, queues, reader descriptor, buffers | start, stop, request sample, get and put sample | ioctl to the GPU driver; each sample works on a copy of the back-end |
| sampler, `include/sampler.h` | counter set, mappings, sample buffer | add counter, init, start, stop, sample_now, get_counter_value | runs partly in `main`, partly in a signal handler |
| containers, `include/data_structure` | hash map, vector, set, bit set, two queues | insert, look up, push, pop | used by the sampler and the back-end |
| sample layout and conversions, `include/sample_layout.h`, `convert.h`, ... | block extents, offsets, enable masks | pure computations on the driver's answers | feed the back-end and the sampler |

What is hard here: callbacks of up to eight cores run at the same tick in any
order and meet in three shared words; decisions taken on one core are carried
out on others later; a late interrupt makes a core jump over a tick; the GPU's
share arrives through an unlocked mailbox from a process that is itself
throttled; that process samples in a signal handler, on structures its `main`
may still be setting up, and works on copies of them; loading takes fourteen
resources, each with an error return of its own; unloading races with
everything still in flight.

What makes each part correct:

- *regulation loop*: the cores agree on the period; the usage is reset once per
  regulation period; traffic over the budget is noticed and answered; the
  overshoot is bounded; a throttled core is released.
- *mailbox*: what the profiler wrote is charged once.
- *election*: one leader per cluster, known before the first tick.
- *load*: what the running module takes for granted is there; budgets and
  intervals are what the parameters ask for.
- *unload*: nothing runs, and nobody stays throttled, after the parts it uses
  are gone.
- *sampler*: the value read for a counter is the sum over the slices of the
  cache in one window; the module is charged that sum; every sample taken is
  given back; a signal does not end the profiler.

## 2. How the modules fit together

| module | what it is | uses |
|---|---|---|
| `Regulation` | the loop, throttling and the receivers' charges | |
| `PeriodClock` | abstract specification: cores that step through periods together | instantiated by `Regulation` (`LockStep`) |
| `LeaderElection` | `__start_counter` on every core of a cluster | |
| `Conversions` | MB/s, events and beats, with their widths | |
| `ModuleLoad` | `cl_mem_reg_init`, then the election | extends `LeaderElection`, `Conversions`; instantiates `LeaderElection` (`ElectionStartsFresh`) |
| `Unload` | `cl_mem_reg_exit` against all that is in flight | |
| `GpuSampling` | profiler, signals, write handler and receiver around the mailbox | |
| `OnePlaceBuffer` | abstract specification: a buffer for one sample | instantiated by `GpuSampling` (`ChargedOnce`) |
| `VinstrBackend` | the back-end and as much of the driver's reader as it relies on; its specification (`BackendSpec`) is the one whose theorems `Sampler` inherits | |
| `GpuProduct`, `DeviceInstance` | product tables; opening a device, decoding its properties | |
| `SampleLayout`, `HashMap` | pure algorithms | |
| `Sampler` | the profiler from start-up to a delivered sample | extends the four above, `VinstrBackend` and `Conversions` |

The models hand over to each other: `ModuleLoad` ends where `LeaderElection`
begins (checked and proved); `LeaderElection` justifies the constant leader of
`Regulation`; `IntervalCoversPeriod` and `BudgetConfigured` of `ModuleLoad`
justify its constant interval and budgets. `Unload` starts where `Regulation`
runs and keeps of it what unloading can tell apart. `GpuSampling` refines the
single mailbox flag of `Regulation` into the two words, the wait queue and the
signals; `Sampler` is what happens inside its handler, from the request to the
two ints that `GpuSampling` writes.

## 3. The regulation loop

`Regulation.tla` counts time in aggregation periods. A core's timer is armed
for `start_time + aggregation_period_cnt * T_A`, so the counter is also the
tick it expires at, and `now` is the clock. `Advance` lets time pass; `Run` is
an LLC miss of whatever executes on the core; `TimerFire` to `ThrottleCores`
are the callback, one action per access to memory other cores write
(`CheckExceeds` reads the usage, `ThrottleCores` sends the interrupts, and
another core may reset the usage in between);
`TakeIpi` is `__throttle_core` on a remote core; `StartSpin` and `StopSpin` the
kthrottle thread; `ProfilerSamples` and the `Receiver...` actions the GPU's
share. The map in `PROJECT.json` gives the lines of each.

Bounds and modelling choices:

- `LastTick` ends the clock, `MaxUnread` bounds the misses of a core between
  two readings, `GpuBursts` the sizes of a GPU sample. `regulation_cpu` and
  `regulation_gpu` have two ticks in a regulation period, `regulation_live`
  three; the first two cover two regulation periods and the reset after them,
  the third one period and the beginning of the next, so that everything
  carried from one period to the next occurs. `MaxUnread = 2` in
  `regulation_cpu`, one more than the budget, lets a throttled straggler alone
  bring its cluster over it. Two cores are enough for every race in the module,
  which are all between two parties at one word; the proofs speak of any
  number.
- `LateTicks` bounds how late a timer interrupt is served. With 0 every
  callback runs within its own aggregation period, in any order among cores,
  which is the normal case the module is written for and the one the passing
  runs have. `CoresAgree`, `LockStep` and the type invariant are proved for
  every value. With `LateTicks = 1` the leader may pass over a regulation tick
  (`late_leader`), and what rests on the reset fails with it:
  `ResetOncePerPeriod`, `ThrottlingExpires` and `UsageBounded`. So does
  `OverBudgetNoticed`, from the third regulation tick on: a core throttled by a
  stale interrupt charges its cluster over the budget, its own check passes
  because it is throttled, its own regulation tick releases it, and the late
  leader passes over that tick without a reset.
- With `g_logging` set a callback that cannot allocate its log record returns
  at `:517`, after it has charged the usage and before it checks the budget,
  and a receiver in the same position ends. `log_lost` remembers it until the
  next reset, and `OverBudgetNoticed` and `UsageBounded` except such a cluster
  until then, no longer.
- A throttling interrupt is taken before the next tick unless the core is
  itself behind; a core with interrupts disabled takes none.
- Ordinary tasks do not run on a core whose kthrottle thread was woken. The
  kernel's real-time throttling, which would give them a share, is not
  modelled here (it is in `Unload`).
- The profiler runs at kthrottle's own FIFO priority on the same core and gets
  no time while kthrottle spins there; the receiver has the highest priority.
- `smp_call_function_many` waiting for a previous call to the same core is not
  modelled: a pending call absorbs a second one.
- Deadlock is not checked because the clock of the model ends.

The runs:

- `regulation_cpu`: the cores never drift apart (`CoresAgree`, and `LockStep`
  against `PeriodClock`), the usage is reset exactly once per regulation period
  (`ResetOncePerPeriod`), throttling is a penalty of at most one period and a
  tick (`ThrottlingExpires`), nothing over the budget goes unnoticed
  (`OverBudgetNoticed`), and the overshoot is at most `2n - 1` portions
  (`UsageBounded`). A portion is what a core misses between two readings of its
  counter, at most `MaxUnread`. That is usually one aggregation period; but a
  regulation tick reads no counter (`:461-476`), so the reading after it covers
  two, and the first reading also the second that the timers wait before their
  first tick. Counted in what a core misses in one aggregation period the
  bound would not hold. `OverBudgetNoticed` names the one window in which nobody has
  noticed yet: a core that serves the tick before the regulation tick late, and
  throttled, may charge more than the budget after the leader's reset, does not
  check it, and is released; until some core has checked again, every core has
  its check still ahead. The bounds are tight: `ThrottlingExpires` fails with one
  tick less, and `UsageBounded` reaches its bound exactly.
  The program adds what cores and GPU cause to one word, and nothing throttles
  the GPU, so their sum has no bound. The history variable `gpu_usage` keeps the
  GPU's part, and `UsageBounded` speaks of `CpuUsage`, the difference; this run
  has no GPU, the theorem `OvershootBounded` any.
- `regulation_gpu`: `OverBudgetNoticed` with GPU traffic and lost log records,
  on whichever side of a reset a sample falls.
- `regulation_live`: traffic over the budget is answered in the next
  aggregation period, and every throttled core is released. Both speak only of
  states that leave the model's clock room for the answer.
- `stale_throttle`, `late_leader`, `one_tick_period` are disagreements between
  the code and its comments; see Findings.

Fairness (`FairSpec`): weak fairness of time, of each core's timer callback, of
interrupt delivery, of the kthrottle threads and of the receivers. Interrupts
and the highest real-time priorities justify it; nothing is assumed of the
load or of the profiler process.

Not promised, and not claimed: that a spinning kthrottle goes back to its wait
queue within one period. A stale interrupt right after the release keeps it
spinning for another one (run `stale_throttle`).

## 4. Loading the module and the leader election

`ModuleLoad.tla` is `cl_mem_reg_init` in the order of the code: the checks of
the parameters, the interval, the clusters with their budgets, one `Acquire` or
`AcquireFails` per resource (`AcquisitionsFor` lists them), the cores, the work
queue and the log files. Each error return gives back what the code gives back
(`GivenBack`), which is often nothing and sometimes the other cluster's mailbox
as well. Meanwhile a profiler may be told to terminate (`HandleTerm`,
`StoreSysfs`, `Exit`). When the load has succeeded the cores run
`LeaderElection`: `ArmTimer` reads the clock, `Publish` stores it, `Compare`,
`StoreStart` and `StoreLeader` are the round of the loop for one core number,
cut at each shared load and store. The first tick is a second after the load,
long after the election is over; two clusters elect independently, so one of
them is composed with the load.

Choices: a failing allocation of a core's counter is a null pointer that is
used (`NoCounter`, stage `oops`); `BUG_ON` for a thread that cannot be created
stops the kernel and is not modelled further; a division by zero stops the
kernel or, as on arm64, gives 0. Sizes in `Conversions` are parameters, so that
TLC can work with a second of 60 microseconds and a megabyte of 32 bytes and
still meet truncation, the wrap of an int and a negative budget; the proofs are
about any sizes. `leader_core` is a static variable, hence 0 until the election
stores it; whether that is one of the cores that elect does not matter before,
and `LoadTypeOK` asks for it from then on.

The run `module_load` has eleven lines of `insmod` (`MCModuleLoad`), the
documented one and those at or beyond each edge of the checks, the last with an
aggregation period whose sum with the regulation period overflows the int; four of eight
cores, so that a core that is not there can be named; three cores that elect;
any resource refused. `KTIME_MAX = 3` bounds the clock of the election, enough
for every order of the start times of three cores, ties included. It shows:

- `LoadedIsComplete`, `ProfiledClusterServed`: what callbacks and exit take for
  granted is there, and a cluster whose profiling core is in its documented
  range, and online, has its receiver on it. Outside that range it may not: a core named for
  both clusters serves the first only.
- `FailedLoadLeaves`: a mailbox may be missing behind its device file only
  after a failed load; threads are left running only if the work queue failed.
- `PointerSurvivesOnlyEarlyExit`: the window in which a terminated profiler
  leaves its pointer behind is the one before the module looked it up. Here the
  store to sysfs always takes effect once the file exists; one that is refused
  is in `GpuSampling` only.
- `IntervalCoversPeriod`: the interval covers the regulation period and one
  aggregation period fewer would not, as long as the sum in `ceiling` fits its
  int. Beyond that the interval is 0 or -1, in the model as in the code, and
  nothing is promised.
- `BudgetConfigured`: the events granted per period, in bytes, are less than
  one cache line short of the configured share of the period, above it by at
  most one part in `q`, the truncated number of periods in a second, and never
  above it when the period divides the second. It is not promised that a
  budget is at least what was configured: 1 MB/s at one millisecond grants 16
  lines per period, 24576 bytes a second short (`:349-350`), and below 62
  microseconds it grants no event at all. A budget is negative only if it does not
  fit into an int.
- `ElectionStartsFresh`, `LeaderElected`: the election starts in its initial
  state, and the leader is a core whose timer runs. Not promised, and false in
  the model: that it is the core that started first, or the one
  `g_leader_hrtimer_start` came from. The program does not depend on either.

Deadlock is not checked: a load ends.

## 5. Sampling the GPU: signals, mailbox and receiver

`GpuSampling.tla` has one core and three priorities: `RequestSample` is the
timer callback, the `Receiver...` actions the receiver thread, everything else
the profiler's two signal handlers and the system call they make. The innermost
handler runs; SIGTERM discards the SIGUSR1 handler it interrupts and keeps
SIGUSR1 blocked; no signal is taken inside `write`. `MaxTicks` bounds the
requests: 3 are enough for one that is handled, one pending behind it and one
that is merged with it. A call that the GPU driver or sysfs may refuse may be
refused in the model, and `refused` remembers that one was: the sampler then
exits the process inside the handler, or the store that clears the module's
pointer has no effect, and the module is left with a pointer to a dead
profiler. That is why `NoPointerToDeadProfiler` excepts those states. A
receiver that logs and cannot allocate its record returns, and later samples
are charged to nobody: `written` records what was announced to a receiver that
was there, and `ChargedOnce` and `WrittenIsCharged` speak of that.

The run `gpu_sampling` shows that the mailbox, without a lock and with nobody
looking at the flag before overwriting it, is a one-place buffer
into which no sample goes twice (`ChargedOnce`), that what is written is charged (`WrittenIsCharged`), and that
a terminated profiler exits with its descriptor closed (`TerminatedExits`).
Fairness: real-time threads run when nothing above them does. The receiver
always goes back to sleep, and throttling ends (`ThrottleEnds`).

## 6. Inside the handler: device, back-end and sampler

`Sampler.tla` is the rest of the profiler. `main` opens the device twice
(`OpenDevice`, from `DeviceInstance`), fills the configuration, builds the
mappings, sets the reader up and starts it; `sampler__sample_now`,
`CollectSample` and `DeliverSample` are the handler of SIGUSR1, which may come
between any two steps of `main`. `sampler__stop_sampling` and a further
`sampler__start_sampling` are offered by the library and never called by the
profiler; they are in because the back-end's session, queues and buffers are
built around them. Each is two steps, the back-end's and that of the sampler's
flag (`StartBackend`, `SetInProgress`; `StopBackend`, `ClearInProgress`), with
room for a signal in between. Sampling may be started again while it goes on,
because the check against that is commented out (`sampler.h:352-355`); the
counters are then cleared and the session stays.

- *Device* (`DeviceInstance`). A number is the set of its one bits, a device
  the properties its driver reports, possibly with the last bytes of the buffer
  missing. Any call may be refused; results nobody looks at lead on, as in the
  code. What the code reads without having initialised it takes any value of
  `Uninitialized`.
- *Reader* (`VinstrBackend`). Counters saturate, a dump fills the next of
  `BUFFERS` buffers and clears the counters, a buffer is in use until it is put
  back. Everything a sample does to its copy of the back-end is dropped, so
  `GetSample` changes neither sessions nor queues. `exited` says why the
  process ended, if it did.
- *Layout, hash map, conversions*. Offsets are counted in blocks; the chains of
  the hash map are in the code's order, `reserve` and `rehash` included. The
  program's own maps have ten chains and at most four entries and are never
  rehashed; the run gives a map two chains so that it is. Counters are values
  of `enum hwcpipe_counter`, 0 to 372. Those put into a map are below 256, so
  that the hash of their four bytes is that of the lowest one.

Bounds of the run `sampler` (`MCSampler`): eight devices, among them one with
two slices and a core mask with a gap, drivers that report in one byte or in
four, a device with the layout that is not written, one with no group of cores,
and buffers cut by 3, 6 and 9 bytes, inside a value, inside a head and between;
counters in the wanted order and mixed with others, doubled and
unknown; a hash map of two chains, so that it is rehashed while it is built; two
buffers and two stops, so that the reader gets full; three samples, so that one
is taken after each stop; counters and ints of sixteen values, which two slices
together exceed, so that the accumulator's upper half is used and an int wraps.
One amount per counter and window keeps the run finite in time without
restricting the order. It shows:

- `ConstantsAreReported`, `SetUpOnOpenDevice`: neither a refused call nor a
  variable nobody initialised gets into the constants the sampler uses, except
  the upper bits of a number reported in one or two bytes, and except for a
  buffer with missing bytes.
- `SlicesReadOnce`, `BeatsConfigured`: each slice's block is read from its own
  place, exactly once, and the two counters of beats are enabled and mapped,
  whatever else is configured and although the mask is a constant.
- `ValueIsTraffic`, `ChargeIsTraffic`: modulo the width used, a value is the
  traffic of its window, although only half of the accumulator is cleared, and
  the module charges the sum, although the directions are swapped on the way.
- `UnreadAreStops`: each stop leaves one sample unread for good, which makes
  every later sample one request older. The profiler never stops, so its
  samples are its own; a user of the library's `stop` would get old ones.
- `SurvivesSampling`: what may end the profiler once it pauses: a refused call,
  an unmapped buffer, a stopped sampler, an unknown counter, and clocks that
  have come apart less than the session has lasted (the check of the clocks is
  the wrong way round and spares the process only because it compares
  different clocks).
- `OneSession`: one session, however often and in whatever order sampling is
  started and stopped: a start of an active back-end adds none, and a stop
  leaves it active. `push` and `front` of the queue of sessions assert
  that there is room and that there is a session, and never fail.
- `StartUpEnds`: `main` reaches its pause, or the process ends, unless the
  buffer ends inside the head of a property, where the decoder's loop does not
  end. Fairness: until it pauses `main` runs when no handler does. Nothing is
  assumed of the signals: one that came for certain would end every start-up.

Deadlock is not checked: an exited process stops.

## 7. Unloading

In `Unload.tla`, `Stages` lists what `cl_mem_reg_exit` does in order; each stage
is one or a few actions. Callbacks are reduced to regulation and aggregation
callbacks in any order. Interrupts are taken before a thread on the same core
goes on. No sample arrives once unloading has begun, because an open device
pins the module. `rt_throttling` is the kernel's default of leaving ordinary
tasks a share of every core. Without it `UnloadEnds` does not hold: kthrottle,
throttled by an interrupt that lands after its core's timer was cancelled, spins
for ever on the core `rmmod` or a logging worker needs.

The run `unload` has two cores in one cluster, `rmmod` on one and the receiver
on the other, so that every interrupt has a sender and a receiver elsewhere; a
second cluster only repeats the receiver stage, a third core only another
receiver of the same interrupts, and the safety properties are proved for any
number of both. Fairness: timers, interrupts and real-time threads weakly or,
where callbacks keep interrupting them, strongly fair; the same for workers and
`rmmod`, which real-time throttling justifies.

The run `unload_throttled` finds a trace with two cores in which the throttling
interrupt is still pending on `exit_core` while `StopSelf` runs there:
`on_each_cpu` has interrupts disabled around its local call, so the action has
no guard against that. The finding does not depend on it, nor on an interrupt
to a core overtaking one that was sent there before: with guards that exclude
both, two cores do not show it, but a third core whose stop interrupt comes
before the throttling by a callback still running elsewhere does, and so does a
receiver that has read the usage.

A receiver that returned because it could not log is stopped with
`kthread_stop` all the same (`:1393`), without a reference to its task; the
model takes that for a stop that succeeds. `UnloadEnds` excepts a receiver that
died on the destroyed queue (`unload_dead_queue`), which ends the thread in the
kernel's fault handler. Deadlock is not checked: the module is gone at the end.

## 8. Findings

| run | what |
|---|---|
| `stale_throttle` | an interrupt taken after the core's regulation tick throttles it for a period whose budget is intact |
| `late_leader` | a leader served one aggregation period late skips the reset of a whole regulation period |
| `one_tick_period` | with T_A not shorter than T_R the usage is never reset |
| `unload_throttled` | throttling is not disabled when the log says so |
| `unload_dead_queue` | a receiver may log to a destroyed queue |

Met while modelling, and described by a property that holds rather than by a
run that fails: the period of one second and of zero that pass the check
(`cl_mem_reg.c:1088`), the mailboxes of both clusters freed by one cluster's
error return (`FailedLoadLeaves`), the sample left behind by every stop
(`UnreadAreStops`), the check of the clocks (`SurvivesSampling`), the decoder's
endless loop (`StartUpEnds`).

## 9. Proofs

Seven modules prove theorems of the models, all for every value of the
constants that the named assumptions allow; an eighth, `BasicFacts`, has the
lemmas that several of them cite: division with a remainder, powers of two,
induction, sequences end to end, and sums over finite sets. The library's
induction theorems cannot be used, so every induction there is a proof by
contradiction from a least counterexample (`SetInduction`, `SubsetInduction`):
that is how the folds behind `FlattenSeq` and `SumFunction` are reduced to
their equations (`FlattenedByParts`, `SumOfMore`), and a sum to the summands
that are not zero (`SumWithoutZeros`) or renamed (`SumRenamed`).

`RegulationProofs`, for every set of cores, every budget, every interval and
every bound:

- `TypeCorrect`: `TypeOK`, with the strengthening that no core has charged more
  events than its counter shows (otherwise the usage could decrease).
- `CoresStayTogether`: `CoresAgree`, from the invariant `ClockInv`: no core is
  ahead of the count, the count is at most one ahead of the clock, and the
  clock at most `LateTicks` ahead of any core.
- `ImplementsPeriodClock`: every step is a step or a stutter of `PeriodClock`.
- `LeaderResetsOncePerPeriod`: with `LateTicks = 0` and an interval above 1,
  the number of resets equals the number of regulation periods entered. The
  argument counts the ticks congruent to 1.
- `PenaltyExpires`: under the same assumptions `ThrottlingExpires`. The
  invariant relates a throttled core's own tick, less what has `Elapsed` since
  the last regulation tick, to the tick it was last told to throttle; a core at
  a regulation tick is about to be released.
- `NothingUnnoticed`: with `LateTicks = 0` and budgets that are not negative,
  `OverBudgetNoticed`, for any traffic of cores and GPU, any interval and any
  lost log record. It is inductive together with `ClockInv`: one lemma per
  actor (`TimerNoticed`, `CallbackNoticed`, `ReceiverNoticed`) shows which
  disjunct a step turns into which, and `CoresAdjacent` that a core which is
  due to move the count on finds nobody behind it.
- `OvershootBounded`: with `LateTicks = 0` `UsageBounded`, for any number of
  cores, any budgets, any interval and any GPU traffic. A GPU sample is on both
  sides of the difference `CpuUsage`, so it leaves the bound alone, and brings
  the cluster over its budget only sooner (`CpuUsageCounts`).
  `UsageInv` bounds `CpuUsage` of a cluster over its budget by the budget (or,
  right after a reset, by what the stragglers may charge) and one portion for
  each core that has had its own: the cores that are `Closed`, throttled or
  about to be and with nothing unread; while a reset is awaited, those beyond
  the tick it belongs to; and, once it is done, those that cannot charge what
  is left of the period before. The sets of such cores (`Spent`, `Past`,
  `Respent`) only grow while the usage does, and `PortionsAddUp` counts them.
  Each kind of step has its lemma.

The assumptions are necessary: `late_leader` and `one_tick_period` violate
`ResetOncePerPeriod` without them, a late leader breaks `OverBudgetNoticed` and
`UsageBounded` (section 3), and a negative budget is exceeded before anybody
has run.

`ModuleLoadProofs` proves every property of the election and of the load. For
the election that is `ElectionElects`, for any set of online cores and any
clock: the invariant says that the recorded start is a published one or
still `KTIME_MAX`, that a core in the loop has published its own, and that once
a core has looked at its own entry the record is no longer `KTIME_MAX`, so that
somebody has stored, or is about to store, a leader.

`StartsFresh` composes the load with the election, so that `LoadElectsLeader` follows from the election's
invariant.
`HeldInv` and `TodoInv` say that a profiled cluster's resources are at every
moment either ahead, in the order of the code and once each, or held, which
gives `LoadCompletes`, `FailureLeaves` and, with `PointerInv`,
`PointerCleared`. `IntervalCovers` and `BudgetsAreShares` rest on lemmas about
integer quotients (`RoundedDown`, `ProductMonotone`) and values that fit an int
(`IntKept`); `ShareOfBudget` has the arithmetic of a budget, for every period up
to a second, every budget and every unit, without a hypothesis on them.
`LoadTypeCorrect` and `ReceiversPlaced` speak of the cores: the loop over the core
numbers goes on to the least online core not yet visited (`NextCoreOnline`), so
that every online core is either ahead of it or ready, and one that is the
profiling core of its own cluster has the receiver (`ReceiversInv`).

`GpuSamplingProofs`, for any number of requests: `TypeCorrect`,
`MailboxIsOnePlaceBuffer`, `SamplesChargedInOrder` and `PointerCleared`. The invariant relates where the
write handler stands to what the mailbox holds and where the receiver is: the
two are never both inside, because the handler only runs while the receiver
sleeps. That no sample is put into the buffer twice needs `OrderInv`, which
holds every number announced below that of a sample being written, and what
was charged equal to what was announced but for the one sample `Outstanding`.
`SamplesChargedInOrder` follows: the numbers charged increase, and the receiver
is at most one sample behind.

`VinstrBackendProofs`, for any number of buffers, samples and stops, any width
of the counters and any distance of the clocks: `StopsLeaveSamples`,
`OneSessionEver` and `SamplingGoesOn`, from an invariant that the unread
buffers are the newest requests in their order, and that says of every reason
to exit what it was.

`DeviceInstanceProofs` shows that the decoder inverts what the driver writes,
for any number of properties in any order, doubled ones included. Its parts:

- numbers as sets of bits: the number of a set of bits below `n` is below `2^n`,
  adding a bit adds its power, and the bits of a head read back to the size and
  the number it was made of;
- flattening: the position where each property begins in the buffer is given by
  a recursive function, and the flattened sequence agrees with each part there;
- `DecodeInv`: the bytes not consumed are those of the properties after some
  position, and the table holds, for every number, what the properties up to
  that position last reported of it, plus bits that nobody wrote if it is
  narrower than 32 bits;
- `DeviceTypeInv`, the types of data, table and constants, which needs no
  assumption about the buffer's end.

`SamplerProofs`:

- `SamplerStopsLeaveSamples` and `SamplerKeepsOneSession`: the back-end's
  theorems hold of the whole profiler, by the lemma `ImplementsBackend` that
  each of its steps is one of the back-end's or leaves it alone.
- `OnlyOpenDevices`; `DeviceInvariant`, the invariant above as one of the whole
  profiler, which makes `main` and the handler leave the device alone; and from
  it `ReportedAreUsed`, which is `ConstantsAreReported` for every set of devices
  that are `WellReported` when their buffers are whole: the count of the core
  groups has at least 32 bits and is at most 16, and each group of them is
  reported in at least 32 bits. The hypothesis is needed: a group that is not
  reported contributes bits that nobody wrote, one beyond the array bits from
  behind it.
- `EverySliceReadOnce`, which is `SlicesReadOnce` for devices that report at
  most 16 slices, the most a layout has room for. `LayoutInv` says that the
  layout is the one of the constants that the second pass has derived;
  `BlocksDoNotOverlap`, a fact without a state, that no two blocks have one
  place; and the number of slices is the reported one by the device's invariant.
- `BeatsStayConfigured`, `ValuesAreTraffic`, `ChargesAreTraffic` and
  `SamplerTypeCorrect`, described below.
- `SignalsSurvived`, from an invariant about `main`, the back-end's flag and the
  sampler's that explains the remaining exits.
- `TablesAgree`, about the product tables.

The way from the list of counters to the charge is proved in four layers.

1. *The hash map is a table.* `Represents` relates a map, whatever its chains,
   to a function from keys to values: a get finds what the function has
   (`TableFound`), a put of a new key extends it (`PutAdds`), a change through
   the pointer that get returned updates it (`ChangeUpdates`), and a rehash
   neither loses nor doubles a node although it turns the order of the chains
   around (`MovedNodes`). `reserve`, which computes positions with the old
   capacity, is only ever applied to an empty map, where that makes no difference.
2. *The tables are right.* `ConfigurationInv`: the configuration has an entry for
   every type of block, the offsets asked for are in the one of their counters'
   type, and once set up the mask is enabled if one is of the memory block.
   `MappingInv`: the counters mapped so far have positions of their own, one for
   each accumulator, and a block's entries are exactly those of its mapped
   counters. It follows that a counter of beats has a position of its own in one
   list only, which is `BeatsConfigured`.
3. *A sample is a sum.* `Filled` is, for each position, a sum over the blocks of the
   layout of sums over a block's entries. Only blocks of the second level cache
   contribute to a position of beats, one value each (`BlockSumAt`); by
   `EverySliceReadOnce` these blocks are the slices, so the sum can be renamed to
   one over the driver's cells (`BlocksAreCells`, `FilledWithTraffic`).
   `TrafficInv` says that cells beyond the device's slices never count anything,
   and `ClearedIsMultiple` that what is left of an earlier sample is a multiple of
   the word. Hence `ValuesAreTraffic`, for devices with at most 16 slices.
4. *Two ints make the charge.* The handler hands both accumulators over as ints,
   swapped; `AsIntDiffers` and `AsIntFits` say that what fits survives that, and
   `ChargeInv` that the ints belong to the sample last delivered. Hence
   `ChargesAreTraffic`, under the same bound on slices and for counters as wide as
   an int, which they are (both 32 bits). Narrower ones would not do: the part of
   the accumulator that is not cleared has to vanish when it is cast to an int.

`UnloadProofs`, for any number of cores and clusters and any core `rmmod` runs
on: `TypeCorrect`, `CallbacksStopped`, `LogsWritten`, `CoreInfoUnused`. Three
invariants over the stages: which cores still have a timer or a callback while
`rmmod` waits; that a queue that is gone is empty and nobody logs to it from a
callback; that receivers are through before any kthrottle is asked to stop, and
a kthrottle that has exited has no interrupt pending on its core.

Only model-checked is liveness (`OverBudgetAnswered`, `ThrottleEnds`,
`UnloadEnds`, `TerminatedExits`, `WrittenIsCharged`, `StartUpEnds`), which is
out of the prover's reach. Every other property of a passing run is stated by a
theorem, some of them under a hypothesis that this section names.

## 10. Not modelled

- `cl_mem_reg_sysfs_show_*`, `cl_mem_reg_config_show`, `config_open`: they
  print, and change nothing.
- `timer_callback_slave` and the overflow period of the counters: programmed
  but without effect on the accounting. The counters themselves are external.
- The text of log records, names of files, messages; `convert_events_to_mb`,
  which nothing calls.
- Parameters written through sysfs while the module runs (`g_logging`,
  `g_aggregation_period_us`, ...): no script does; see the hazards without a property.
- The profiler's arguments, pid file and priority, set once before anything
  here begins; its descriptor set back at `gpu_profiler.c:215`, a hazard of
  that time.
- In the profiler's library: the parts for drivers before r21 and for the other
  counter interface, periodic sampling, expressions over counters, which are
  empty or unreachable; the vector, the set and the bit set, which are
  sequences and sets here; counter names, debug output and the declarations of
  the kernel interface.
- SIGKILL of the profiler; memory exhausted in user space, which ends the
  process at once; the allocation of per-cpu masks and data, whose failure the
  module does not look at.

## 11. What the plan has left

- The loop and the sampler in one model, so that the age of a sample relative
  to the regulation tick could be bounded; today `Regulation` lets a sample
  arrive at any time.
