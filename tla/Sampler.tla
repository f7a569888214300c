------------------------------- MODULE Sampler -------------------------------
(***************************************************************************)
(* The GPU profiler's way from start-up to a charged sample: main opens    *)
(* the device, configures the counters, builds the mappings from blocks to *)
(* sample buffer, sets the reader up and starts it; the handler of SIGUSR1,*)
(* which may interrupt main anywhere, requests a sample, adds its blocks   *)
(* up and hands the counters to the module as two ints.  The library's     *)
(* stop, and a start while sampling, which the profiler does not use, are  *)
(* there too.                                                              *)
(*                                                                         *)
(* What becomes of the write to the module is in GpuSampling.              *)
(***************************************************************************)
EXTENDS DeviceInstance, SampleLayout, VinstrBackend, HashMap, Conversions

CONSTANTS
    CounterLists,   \* device -> sequences of counters that may be configured
    Amounts,        \* traffic per window and cell, for a bounded check
    MaxStops        \* bound: calls of stop

hwcpipe_counter == 0..372

(* The counters are the values of an enumeration, the cells are those of a *)
(* device.                                                                 *)
ASSUME SamplerAssumption ==
    /\ \A d \in Devices : CounterLists[d] \subseteq Seq(hwcpipe_counter)
    /\ Cells \subseteq Nat \X Nat /\ IsFiniteSet(Cells)
    /\ Amounts \in [Cells -> Values] /\ MaxStops \in Nat

VARIABLES
    main,           \* where main is
    to_add,         \* counters that it has not added yet
    counters_,      \* the set of added counters, newest first
    backend_config_,        \* hash map: block type -> enabled counters
    counter_to_buffer_pos_, \* hash map: counter -> position
    counters_by_block_map_, \* hash map: block type -> offsets and positions
    to_map,         \* counters that are not in the mappings yet
    layout_,        \* where the reader's blocks are
    mapped_,        \* the reader's buffers are mapped into the process
    enabled,        \* what the driver counts: block type -> groups of four
    sample_buffer_, \* one 64-bit accumulator per position
    valid_sample_buffer_,
    sampling_in_progress_,
    beats,          \* the two ints for the module, last sample
    fetched         \* history: the driver's values of that sample

configVars == <<to_add, counters_, backend_config_>>
mappingVars == <<counter_to_buffer_pos_, counters_by_block_map_, to_map>>
setupVars == <<layout_, mapped_, enabled>>
sampleVars == <<sample_buffer_, valid_sample_buffer_, beats, fetched>>

vars == <<instanceVars, backendVars, main, configVars, mappingVars, setupVars,
          sampleVars, sampling_in_progress_>>

(* The counters of the two directions, in beats and in transactions, with  *)
(* their place in the memory block, and any other counter, of which the    *)
(* zeroed definition is left as it is.                                     *)
MaliExtBusWrBt == 11
MaliExtBusRdBt == 12
MaliExtBusRd   == 171
MaliExtBusWr   == 182

Definition(counter) ==
    LET At(offset) == [tag |-> "hardware", type |-> "memory", offset |-> offset]
    IN  CASE counter = MaliExtBusRd   -> At(29)
          [] counter = MaliExtBusWr   -> At(42)
          [] counter = MaliExtBusRdBt -> At(32)
          [] counter = MaliExtBusWrBt -> At(47)
          [] OTHER -> [tag |-> "invalid", type |-> "fe", offset |-> 0]

TypeNo == [fe |-> 0, tiler |-> 1, memory |-> 2, core |-> 3]

(* A map from every type of block to its empty value. *)
WithAllTypes(empty) ==
    LET Put(map, type) == hashmap__put(map, TypeNo[type], empty[type])
    IN  Put(Put(Put(Put(hashmap__init, "fe"), "tiler"), "memory"), "core")

EmptyConfig ==
    WithAllTypes([type \in BlockTypes |-> [type |-> type, map |-> {}]])
EmptyBlockMap == WithAllTypes([type \in BlockTypes |-> {}])

NoBlocks == [type \in BlockTypes |-> {}]

Init ==
    /\ InstanceInit /\ BackendInit
    /\ main = "gpu"
    /\ to_add \in CounterLists[device]
    /\ counters_ = <<>>
    /\ backend_config_ = hashmap__init
    /\ counter_to_buffer_pos_ = hashmap__init
    /\ counters_by_block_map_ = hashmap__init /\ to_map = <<>>
    /\ layout_ = {} /\ mapped_ = FALSE /\ enabled = NoBlocks
    /\ sample_buffer_ = <<>> /\ valid_sample_buffer_ = FALSE
    /\ sampling_in_progress_ = FALSE
    /\ beats = <<0, 0>> /\ fetched = NoTraffic

-----------------------------------------------------------------------------
(* main, which the handler of a signal may interrupt between two steps.    *)

MainAt(where) == main = where /\ exited = "no" /\ place = "idle"

(* gpu__init, and the instance that sampler__init creates. *)
OpenDevice ==
    /\ MainAt("gpu") \/ MainAt("sampler")
    /\ InstanceNext
    /\ UNCHANGED <<backendVars, main, configVars, mappingVars, setupVars,
                   sampleVars, sampling_in_progress_>>

DeviceFails ==
    /\ stage = "failed" /\ exited = "no"
    /\ Exit("refused")
    /\ UNCHANGED <<instanceVars, main, configVars, mappingVars, setupVars,
                   sampleVars, sampling_in_progress_>>

sampler_config__init ==
    /\ MainAt("gpu") /\ stage = "decoded"
    /\ main' = "config"
    /\ backend_config_' = EmptyConfig
    /\ UNCHANGED <<instanceVars, backendVars, to_add, counters_, mappingVars,
                   setupVars, sampleVars, sampling_in_progress_>>

(* A counter that is there already is not added again. *)
sampler_config__add_counter ==
    /\ MainAt("config") /\ to_add # <<>>
    /\ to_add' = Tail(to_add)
    /\ LET counter == Head(to_add)
           definition == Definition(counter)
           key == TypeNo[definition.type]
           config == hashmap__get(backend_config_, key)
       IN  IF \E k \in DOMAIN counters_ : counters_[k].counter = counter
           THEN UNCHANGED <<counters_, backend_config_>>
           ELSE /\ counters_' = <<[counter |-> counter, def |-> definition]>>
                                \o counters_
                /\ backend_config_' =
                       Changed(backend_config_, key,
                               [config EXCEPT !.map = @ \union
                                                      {definition.offset}])
    /\ UNCHANGED <<instanceVars, backendVars, main, mappingVars, setupVars,
                   sampleVars, sampling_in_progress_>>

sampler__init ==
    /\ MainAt("config") /\ to_add = <<>>
    /\ main' = "sampler"
    /\ SecondPass
    /\ UNCHANGED <<backendVars, configVars, mappingVars, setupVars, sampleVars,
                   sampling_in_progress_>>

(* sampler__build_sample_buffer_mappings: first the empty mappings, then   *)
(* one counter after the other.  Only hardware counters get a position, the*)
(* next one, findable by the counter's name and by its block.              *)
ReserveMappings ==
    /\ MainAt("sampler") /\ pass = 2 /\ stage = "decoded"
    /\ counter_to_buffer_pos_' =
           hashmap__reserve(hashmap__init, Len(counters_))
    /\ counters_by_block_map_' = EmptyBlockMap
    /\ to_map' = counters_
    /\ main' = "mapping"
    /\ UNCHANGED <<instanceVars, backendVars, configVars, setupVars, sampleVars,
                   sampling_in_progress_>>

MapCounter ==
    /\ MainAt("mapping") /\ to_map # <<>>
    /\ to_map' = Tail(to_map)
    /\ LET rc == Head(to_map)
           pos == Len(sample_buffer_) + 1
           key == TypeNo[rc.def.type]
       IN  \/ /\ rc.def.tag = "hardware"
              /\ counter_to_buffer_pos_' =
                     hashmap__put(counter_to_buffer_pos_, rc.counter, pos)
              /\ counters_by_block_map_' =
                     Changed(counters_by_block_map_, key,
                             hashmap__get(counters_by_block_map_, key) \union
                                 {[offset |-> rc.def.offset, pos |-> pos]})
              /\ sample_buffer_' = Append(sample_buffer_, 0)
           \/ /\ rc.def.tag # "hardware"
              /\ UNCHANGED <<counter_to_buffer_pos_, counters_by_block_map_,
                             sample_buffer_>>
    /\ UNCHANGED <<instanceVars, backendVars, main, configVars, setupVars,
                   valid_sample_buffer_, beats, fetched, sampling_in_progress_>>

(* Four counters share a bit of the driver's mask.  The conversion moves   *)
(* on by fifteen counters and counts seven of them off.                    *)
convert_by_mask(map) ==
    {bit \in 0..18 : \E o \in map : o \in (15 * bit)..(15 * bit + 3)}

(* Variant: the mask for the counters of transactions, left in a comment.  *)
TransactionsMask == {7, 10}

MMU_L2_MASK == {8, 11}

(* vinstr_setup.  The check that compares the types of the first and the   *)
(* last block reads the word behind the array: either outcome.  A failure  *)
(* to map the reader's buffers is reported and goes unnoticed.             *)
vinstr_setup ==
    /\ MainAt("mapping") /\ to_map = <<>>
    /\ LET configs == {node.value : node \in Nodes(backend_config_)}
           types == {config.type : config \in {c \in configs : c.map # {}}}
           MapOf(type) == hashmap__get(backend_config_, TypeNo[type]).map
           v4 == is_v4_layout(constants.gpu_id)
           slices == Number(constants.num_l2_slices)
       IN  \/ /\ enabled' = [type \in BlockTypes |->
                     IF type \notin types THEN {}
                     ELSE IF type = "memory" THEN MMU_L2_MASK
                     ELSE convert_by_mask(MapOf(type))]
              /\ layout_' = Layout(v4,
                     filter_block_extents(
                         construct_block_extents(v4, slices,
                             constants.num_shader_cores), types),
                     slices, constants.shader_core_mask)
              /\ mapped_' \in BOOLEAN
              /\ main' = "start"
              /\ UNCHANGED backendVars
           \/ /\ Exit("refused")
              /\ UNCHANGED <<main, setupVars>>
    /\ UNCHANGED <<instanceVars, configVars, mappingVars, sampleVars,
                   sampling_in_progress_>>

(* sampler__start_sampling, in two steps for the signal between them.  It  *)
(* may be called again at any time, stopped or sampling.                   *)
StartBackend ==
    /\ MainAt("start") \/ MainAt("paused")
    /\ Start
    /\ main' = "started"
    /\ UNCHANGED <<instanceVars, configVars, mappingVars, setupVars,
                   sampleVars, sampling_in_progress_>>

SetInProgress ==
    /\ MainAt("started")
    /\ sampling_in_progress_' = TRUE
    /\ main' = "paused"
    /\ UNCHANGED <<instanceVars, backendVars, configVars, mappingVars,
                   setupVars, sampleVars>>

(* sampler__stop_sampling, likewise in two steps. *)
StopBackend ==
    /\ MainAt("paused") /\ stops < MaxStops
    /\ Stop
    /\ main' = "stopping"
    /\ UNCHANGED <<instanceVars, configVars, mappingVars, setupVars,
                   sampleVars, sampling_in_progress_>>

ClearInProgress ==
    /\ MainAt("stopping")
    /\ sampling_in_progress_' = FALSE
    /\ main' = "paused"
    /\ UNCHANGED <<instanceVars, backendVars, configVars, mappingVars,
                   setupVars, sampleVars>>

sampler__stop_sampling == StopBackend \/ ClearInProgress

-----------------------------------------------------------------------------
(* The handler of SIGUSR1.                                                 *)

(* Sampling that has not started is an error that ends the process.        *)
sampler__sample_now ==
    /\ exited = "no" /\ place = "idle"
    /\ IF sampling_in_progress_ THEN RequestSample ELSE Exit("not started")
    /\ UNCHANGED <<instanceVars, main, configVars, mappingVars, setupVars,
                   sampleVars, sampling_in_progress_>>

(* Variant: the accumulators are not cleared. *)
NotCleared(accumulator) == accumulator

(* An int of zero is copied over the lower half. *)
Cleared(accumulator) == accumulator - (accumulator % WORD)

(* The value at an offset of a block, from the position of the block in    *)
(* the buffer; what is no slice of the cache is not enabled, and zero.     *)
BlockValue(values, position, offset) ==
    IF <<position - 2, offset>> \in Cells
    THEN values[<<position - 2, offset>>] ELSE 0

(* sampler__fill_sample_buffer *)
Filled(values) ==
    [pos \in DOMAIN sample_buffer_ |->
        LET At(type) ==
                {m \in hashmap__get(counters_by_block_map_, TypeNo[type]) :
                    m.pos = pos}
        IN  Cleared(sample_buffer_[pos]) +
            SumFunction([entry \in layout_ |->
                SumFunction([m \in At(entry.type) |->
                    BlockValue(values, entry.offset, m.offset)])])]

ReadsBlocks ==
    \E entry \in layout_ :
        hashmap__get(counters_by_block_map_, TypeNo[entry.type]) # {}

(* Reading a block of an unmapped buffer kills the process. *)
CollectSample ==
    /\ IF mapped_ \/ ~ReadsBlocks
       THEN GetSample
       ELSE /\ exited = "no" /\ place = "requested" /\ unread # <<>>
            /\ Exit(IF ClockCheckExits(sessions_[1], unread[1].timestamp)
                    THEN "clock" ELSE "crashed")
    /\ IF place' = "fetched"
       THEN /\ sample_buffer_' = Filled(held'.values)
            /\ valid_sample_buffer_' = TRUE
            /\ fetched' = held'.values
       ELSE UNCHANGED <<sample_buffer_, valid_sample_buffer_, fetched>>
    /\ UNCHANGED <<instanceVars, main, configVars, mappingVars, setupVars,
                   beats, sampling_in_progress_>>

CounterValue(counter) ==
    sample_buffer_[hashmap__get(counter_to_buffer_pos_, counter)]

Known(counter) == hashmap__contains(counter_to_buffer_pos_, counter)

BeatCounters == {MaliExtBusRdBt, MaliExtBusWrBt}

(* The sample goes back to the driver, and the two counters to the module, *)
(* each squeezed into an int, the reads as writes and the writes as reads. *)
(* A counter that was not configured is an error that ends the process.    *)
DeliverSample ==
    /\ IF \A counter \in BeatCounters : Known(counter)
       THEN /\ PutSample
            /\ beats' = <<AsInt(CounterValue(MaliExtBusWrBt)),
                          AsInt(CounterValue(MaliExtBusRdBt))>>
       ELSE /\ exited = "no" /\ place = "fetched"
            /\ Exit("unknown counter")
            /\ UNCHANGED beats
    /\ UNCHANGED <<instanceVars, main, configVars, mappingVars, setupVars,
                   sample_buffer_, valid_sample_buffer_, fetched,
                   sampling_in_progress_>>

-----------------------------------------------------------------------------
(* The environment.                                                        *)

Sampling == main = "paused" \/ sampling_in_progress_

(* The driver counts what is enabled, in the slices the device has.  Once  *)
(* per cell and window, and only where it is read, for a bounded check.    *)
GpuTraffic ==
    /\ Sampling /\ exited = "no" /\ mapped_
    /\ \E cell \in Cells :
         /\ cell[1] < Number(Reported(l2_num_l2_slices))
         /\ (cell[2] \div 4) \in enabled["memory"]
         /\ counting[cell] = 0
         /\ Traffic(cell, Amounts[cell])
    /\ UNCHANGED <<instanceVars, main, configVars, mappingVars, setupVars,
                   sampleVars, sampling_in_progress_>>

TimePasses ==
    /\ Sampling
    /\ Tick
    /\ UNCHANGED <<instanceVars, main, configVars, mappingVars, setupVars,
                   sampleVars, sampling_in_progress_>>

DriverRefuses ==
    /\ main = "start" \/ Sampling
    /\ ReaderRefuses
    /\ UNCHANGED <<instanceVars, main, configVars, mappingVars, setupVars,
                   sampleVars, sampling_in_progress_>>

StartUp ==
    \/ OpenDevice \/ DeviceFails \/ sampler_config__init
    \/ sampler_config__add_counter \/ sampler__init
    \/ ReserveMappings \/ MapCounter \/ vinstr_setup
    \/ StartBackend \/ SetInProgress

HandleUsr1 == sampler__sample_now \/ CollectSample \/ DeliverSample

Next ==
    \/ StartUp \/ HandleUsr1 \/ sampler__stop_sampling
    \/ GpuTraffic \/ TimePasses \/ DriverRefuses

Spec == Init /\ [][Next]_vars

(* Until it pauses main runs whenever no handler does; nothing is assumed  *)
(* of the signals, nor of what it calls later.                             *)
FairSpec == Spec /\ WF_vars(StartUp /\ main # "paused")

-----------------------------------------------------------------------------
(* Properties.                                                             *)

SamplerTypeOK ==
    /\ InstanceTypeOK /\ BackendTypeOK
    /\ main \in {"gpu", "config", "sampler", "mapping", "start", "started",
                 "paused", "stopping"}
    /\ \A pos \in DOMAIN sample_buffer_ : sample_buffer_[pos] \in Nat
    /\ beats \in Int \X Int

IsSetUp == main \in {"start", "started", "paused", "stopping"}

(* The device's slices were decoded as they are, and its blocks have the   *)
(* layout that is supported.                                               *)
SupportedDevice ==
    /\ device.cut = 0
    /\ constants.num_l2_slices = Reported(l2_num_l2_slices)
    /\ ~is_v4_layout(constants.gpu_id)

(* Every block of the second level cache that the driver writes is read,   *)
(* once, and nothing else is; and the entries fit into the array they are  *)
(* pushed to without a check.                                              *)
SlicesReadOnce ==
    (IsSetUp /\ SupportedDevice /\ enabled["memory"] # {}) =>
        LET memory == {entry \in layout_ : entry.type = "memory"}
        IN  /\ {entry.offset : entry \in memory} =
                   2..(1 + Number(Reported(l2_num_l2_slices)))
            /\ Cardinality({entry.offset : entry \in layout_})
                   = Cardinality(layout_)
            /\ Cardinality(layout_) <= MAX_BLOCKS

(* What is configured in beats is enabled in the driver, and has a position*)
(* of its own, whatever else is configured and in which order.             *)
BeatsConfigured ==
    \A counter \in BeatCounters :
        (IsSetUp /\ \E k \in DOMAIN counters_ : counters_[k].counter = counter) =>
            /\ (Definition(counter).offset \div 4) \in enabled["memory"]
            /\ Known(counter)
            /\ \A other \in BeatCounters \ {counter} :
                   Known(other) => hashmap__get(counter_to_buffer_pos_, other) #
                                   hashmap__get(counter_to_buffer_pos_, counter)

SlicesSum(offset) ==
    SumFunctionOnSet(fetched, {cell \in Cells : cell[2] = offset})

(* A counter's value is, up to a multiple of the word, the traffic of all  *)
(* slices in the window of the sample: the half of the accumulator that is *)
(* not cleared never gets into the half that is used.                      *)
ValueIsTraffic ==
    \A counter \in BeatCounters :
        (valid_sample_buffer_ /\ SupportedDevice /\ Known(counter)) =>
            CounterValue(counter) % WORD =
                SlicesSum(Definition(counter).offset) % WORD

(* The module is charged the traffic of both directions, although they are *)
(* swapped on the way, as long as the bytes fit into an int.               *)
ChargeIsTraffic ==
    LET bytes == BEAT_SIZE * (SlicesSum(32) + SlicesSum(47))
    IN  (place = "idle" /\ valid_sample_buffer_ /\ SupportedDevice
         /\ exited = "no" /\ FitsInt(bytes)) =>
            SampleInEvents(beats[1], beats[2]) = bytes \div CACHE_LINE_SIZE

(* A signal that comes too early ends the profiler.  One that comes later  *)
(* does not, unless a call is refused, the buffers were not mapped, the    *)
(* sampler has been stopped, the clocks are too close, or the counters it  *)
(* asks for are not configured.                                            *)
SurvivesSampling ==
    (main = "paused" /\ mapped_ /\ stops = 0 /\ now <= sessions_[1]
     /\ \A counter \in BeatCounters : Known(counter)) =>
        exited \in {"no", "refused"}

(* main gets to its pause, or the process ends, for every device whose     *)
(* buffer is not cut inside the head of a property.                        *)
StartUpEnds ==
    <>(main = "paused" \/ exited # "no" \/ Len(data) \in 1..3)
=============================================================================
