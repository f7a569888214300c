--------------------------- MODULE SamplerProofs ---------------------------
(* Proofs about the GPU profiler from start-up to a delivered sample, for  *)
(* any device, any configuration of counters and any reader, and about the *)
(* product tables, the sample layout and the hash maps that it works with. *)
EXTENDS Sampler, VinstrBackendProofs, DeviceInstanceProofs

-----------------------------------------------------------------------------
(* The sampler is a client of the back-end.                                *)

LEMMA SamplerStepIsBackendStep == Next => [BackendNext]_backendVars
<1> SUFFICES ASSUME Next PROVE BackendNext \/ UNCHANGED backendVars
  OBVIOUS
<1>1. ASSUME StartUp PROVE BackendNext \/ UNCHANGED backendVars
  <2>1. ASSUME OpenDevice PROVE UNCHANGED backendVars
    BY <2>1 DEF OpenDevice
  <2>2. ASSUME DeviceFails PROVE ReaderRefuses
    BY <2>2 DEF DeviceFails, ReaderRefuses
  <2>3. ASSUME sampler_config__init PROVE UNCHANGED backendVars
    BY <2>3 DEF sampler_config__init
  <2>4. ASSUME sampler_config__add_counter PROVE UNCHANGED backendVars
    BY <2>4 DEF sampler_config__add_counter
  <2>5. ASSUME sampler__init PROVE UNCHANGED backendVars
    BY <2>5 DEF sampler__init
  <2>6. ASSUME ReserveMappings PROVE UNCHANGED backendVars
    BY <2>6 DEF ReserveMappings
  <2>7. ASSUME MapCounter PROVE UNCHANGED backendVars
    BY <2>7 DEF MapCounter
  <2>8. ASSUME vinstr_setup PROVE ReaderRefuses \/ UNCHANGED backendVars
    BY <2>8 DEF vinstr_setup, ReaderRefuses, MainAt
  <2>9. ASSUME StartBackend PROVE Start
    BY <2>9 DEF StartBackend
  <2>10. ASSUME SetInProgress PROVE UNCHANGED backendVars
    BY <2>10 DEF SetInProgress
  <2> QED
    BY <1>1, <2>1, <2>2, <2>3, <2>4, <2>5, <2>6, <2>7, <2>8, <2>9, <2>10
    DEF StartUp, BackendNext
<1>2. ASSUME HandleUsr1 PROVE BackendNext \/ UNCHANGED backendVars
  <2>1. ASSUME sampler__sample_now PROVE RequestSample \/ ClientExits
    BY <2>1 DEF sampler__sample_now, ClientExits
  <2>2. ASSUME CollectSample PROVE GetSample \/ ClientExits
    BY <2>2 DEF CollectSample, GetSample, ClientExits
  <2>3. ASSUME DeliverSample PROVE PutSample \/ ClientExits
    BY <2>3 DEF DeliverSample, ClientExits
  <2> QED
    BY <1>2, <2>1, <2>2, <2>3 DEF HandleUsr1, BackendNext
<1>3. ASSUME sampler__stop_sampling PROVE Stop \/ UNCHANGED backendVars
  BY <1>3 DEF sampler__stop_sampling, StopBackend, ClearInProgress
<1>4. ASSUME GpuTraffic PROVE BackendNext
  BY <1>4, SamplerAssumption DEF GpuTraffic, BackendNext
<1>5. ASSUME TimePasses PROVE Tick
  BY <1>5 DEF TimePasses
<1>6. ASSUME DriverRefuses PROVE ReaderRefuses
  BY <1>6 DEF DriverRefuses
<1> QED
  BY <1>1, <1>2, <1>3, <1>4, <1>5, <1>6 DEF Next, BackendNext

(* Every run of main and of the handler of SIGUSR1 uses the back-end as its*)
(* specification has it: what is proved of the back-end holds of them.     *)
LEMMA ImplementsBackend == Spec => BackendSpec
<1>1. Init => BackendInit
  BY DEF Init
<1>2. [Next]_vars => [BackendNext]_backendVars
  BY SamplerStepIsBackendStep DEF vars
<1> QED
  BY <1>1, <1>2, PTL DEF Spec, BackendSpec

(* The promise about stops and left-over samples, for the whole profiler. *)
THEOREM SamplerStopsLeaveSamples == Spec => []UnreadAreStops
  BY ImplementsBackend, StopsLeaveSamples, PTL

(* However often sampling is started, stopped and started again, and in    *)
(* whatever order with the signals, there is one session: the queue of     *)
(* sessions does not grow and every sample finds it.                       *)
THEOREM SamplerKeepsOneSession == Spec => []OneSession
  BY ImplementsBackend, OneSessionEver, PTL

-----------------------------------------------------------------------------
(* Opening the device.                                                     *)

SecondPassInv ==
    (pass = 2 /\ stage \in {"decode", "decoded"}) =>
        device_fd = "open" /\ handshake = "flags"

LEMMA InstanceStepInv == SecondPassInv /\ InstanceNext => SecondPassInv'
<1> SUFFICES ASSUME SecondPassInv, InstanceNext PROVE SecondPassInv'
  OBVIOUS
<1> USE DEF SecondPassInv
<1>1. ASSUME handle__create PROVE SecondPassInv'
  BY <1>1 DEF handle__create
<1>2. ASSUME instance__version_check PROVE SecondPassInv'
  BY <1>2 DEF instance__version_check
<1>3. ASSUME instance__set_flags PROVE SecondPassInv'
  BY <1>3 DEF instance__set_flags
<1>4. ASSUME instance__props_post_r21 PROVE SecondPassInv'
  BY <1>4 DEF instance__props_post_r21
<1>5. ASSUME prop_decoder__next PROVE SecondPassInv'
  BY <1>5 DEF prop_decoder__next
<1>6. ASSUME DeriveConstants PROVE SecondPassInv'
  BY <1>6 DEF DeriveConstants
<1> QED
  BY <1>1, <1>2, <1>3, <1>4, <1>5, <1>6 DEF InstanceNext

(* Nothing but opening the device and the second pass touches the device. *)
LEMMA InstanceSteps ==
    [Next]_vars => InstanceNext \/ SecondPass \/ UNCHANGED instanceVars
<1> SUFFICES ASSUME [Next]_vars
             PROVE  InstanceNext \/ SecondPass \/ UNCHANGED instanceVars
  OBVIOUS
<1>1. ASSUME StartUp
      PROVE  InstanceNext \/ SecondPass \/ UNCHANGED instanceVars
  BY <1>1 DEF StartUp, OpenDevice, DeviceFails, sampler_config__init,
     sampler_config__add_counter, sampler__init, ReserveMappings, MapCounter,
     vinstr_setup, StartBackend, SetInProgress
<1>2. ASSUME HandleUsr1 PROVE UNCHANGED instanceVars
  BY <1>2 DEF HandleUsr1, sampler__sample_now, CollectSample, DeliverSample
<1> QED
  BY <1>1, <1>2 DEF Next, vars, sampler__stop_sampling, StopBackend,
     ClearInProgress, GpuTraffic, TimePasses,
     DriverRefuses

(* Although main looks at neither the result of opening the device nor that*)
(* of the version check, nothing is set up on a device that did not accept *)
(* every step: instance__init ends the process before.                     *)
THEOREM OnlyOpenDevices == Spec => []SetUpOnOpenDevice
<1>1. Init => SecondPassInv
  BY DEF Init, InstanceInit, SecondPassInv
<1>2. SecondPassInv /\ [Next]_vars => SecondPassInv'
  <2>1. ASSUME SecondPassInv, SecondPass PROVE SecondPassInv'
    BY <2>1 DEF SecondPass, SecondPassInv
  <2>2. ASSUME SecondPassInv, UNCHANGED instanceVars PROVE SecondPassInv'
    BY <2>2 DEF instanceVars, SecondPassInv
  <2> QED
    BY <2>1, <2>2, InstanceStepInv, InstanceSteps
<1>3. SecondPassInv => SetUpOnOpenDevice
  BY DEF SecondPassInv, SetUpOnOpenDevice
<1> QED
  BY <1>1, <1>2, <1>3, PTL DEF Spec

-----------------------------------------------------------------------------
(* Decoding what it reports.                                               *)

(* Nothing that the profiler does between the steps of opening a device    *)
(* touches it.                                                             *)
LEMMA DeviceInvStep == DeviceInv /\ [Next]_vars => DeviceInv'
  BY InstanceSteps, DecodeInvStep, DeviceTypeStep DEF DeviceInv

(* The types of the variables of instance__init and of the decoder, and    *)
(* what it has decoded, in every run of the profiler: a value fits its 64  *)
(* bits, the count of cores its 32, a mask its 64.                         *)
THEOREM DeviceInvariant == Spec => []DeviceInv
<1>1. Init => DeviceInv
  BY DeviceInvInit DEF Init
<1> QED
  BY <1>1, DeviceInvStep, PTL DEF Spec

(* What the sampler works with is what the driver reported, for every      *)
(* device whose driver reports all the core groups it counts, and in       *)
(* enough bits: the decoder of instance__props_post_r21 gets through any   *)
(* sequence of properties, each of any number and of any of the four       *)
(* sizes, in step with the driver.                                         *)
THEOREM ReportedAreUsed ==
    ASSUME \A d \in Devices : d.cut = 0 => WellReported(d)
    PROVE  Spec => []ConstantsAreReported
<1>1. Init => ConstantsAreReported
  BY DEF Init, InstanceInit, ConstantsAreReported
<1>2. DeviceInv /\ ConstantsAreReported /\ [Next]_vars => ConstantsAreReported'
  <2> SUFFICES ASSUME DeviceInv, ConstantsAreReported, [Next]_vars
               PROVE  ConstantsAreReported'
    OBVIOUS
  <2>1. device \in Devices /\ DecodeInv
    BY DEF DeviceInv, DecodeInv
  <2>2. CASE DeriveConstants
    <3>1. CASE device.cut = 0
      BY <2>1, <2>2, <3>1, ConstantsDerived
    <3>2. CASE device.cut # 0
      <4>1. device' = device
        BY <2>2, Zenon DEF DeriveConstants
      <4> QED
        BY <3>2, <4>1 DEF ConstantsAreReported
    <3> QED
      BY <3>1, <3>2
  <2>3. CASE UNCHANGED instanceVars
    BY <2>3 DEF instanceVars, ConstantsAreReported, Reported, Wide
  <2>4. CASE handle__create \/ SecondPass
    BY <2>4 DEF handle__create, SecondPass, ConstantsAreReported
  <2>5. CASE instance__version_check \/ instance__set_flags
             \/ instance__props_post_r21
    BY <2>5 DEF instance__version_check, instance__set_flags,
       instance__props_post_r21, ConstantsAreReported
  <2>6. CASE prop_decoder__next
    <3>1. stage' = "decode"
      BY <2>6, Zenon DEF prop_decoder__next
    <3> QED
      BY <3>1 DEF ConstantsAreReported
  <2> QED
    BY <2>2, <2>3, <2>4, <2>5, <2>6, InstanceSteps DEF InstanceNext
<1> QED
  BY <1>1, <1>2, DeviceInvariant, PTL DEF Spec

-----------------------------------------------------------------------------
(* Surviving the signals.                                                  *)

SurvivalInv ==
    /\ main \in {"started", "paused", "stopping"} => active_
    /\ main = "paused" /\ stops = 0 => sampling_in_progress_
    /\ main = "stopping" => stops # 0 \/ exited # "no"
    /\ exited = "not started" => ~(main = "paused" /\ stops = 0)
    /\ exited = "unknown counter" => \E counter \in BeatCounters : ~Known(counter)
    /\ exited = "crashed" => ~mapped_

LEMMA StartUpSurvival ==
    ASSUME BackendInv, SurvivalInv, StartUp
    PROVE  SurvivalInv'
<1> USE DEF SurvivalInv, backendVars, setupVars, mappingVars, Known, MainAt
<1>1. ASSUME OpenDevice \/ sampler_config__init \/ sampler_config__add_counter
             \/ sampler__init
      PROVE  SurvivalInv'
  BY <1>1 DEF OpenDevice, sampler_config__init, sampler_config__add_counter,
              sampler__init
<1>2. ASSUME DeviceFails PROVE SurvivalInv'
  BY <1>2 DEF DeviceFails, Exit
<1>3. ASSUME ReserveMappings PROVE SurvivalInv'
  BY <1>3 DEF ReserveMappings
<1>4. ASSUME MapCounter PROVE SurvivalInv'
  BY <1>4 DEF MapCounter
<1>5. ASSUME vinstr_setup PROVE SurvivalInv'
  BY <1>5 DEF vinstr_setup, Exit
<1>6. ASSUME StartBackend PROVE SurvivalInv'
  BY <1>6 DEF StartBackend, Start
<1>7. ASSUME SetInProgress PROVE SurvivalInv'
  BY <1>7 DEF SetInProgress
<1> QED
  BY <1>1, <1>2, <1>3, <1>4, <1>5, <1>6, <1>7 DEF StartUp

LEMMA HandlerSurvival ==
    ASSUME BackendInv, SurvivalInv, HandleUsr1
    PROVE  SurvivalInv'
<1> USE DEF SurvivalInv, setupVars, mappingVars, Known
<1>1. ASSUME sampler__sample_now PROVE SurvivalInv'
  BY <1>1 DEF sampler__sample_now, RequestSample, Dump, Exit
<1>2. ASSUME CollectSample PROVE SurvivalInv'
  BY <1>2 DEF CollectSample, GetSample, Exit
<1>3. ASSUME DeliverSample PROVE SurvivalInv'
  BY <1>3 DEF DeliverSample, PutSample, Exit
<1> QED
  BY <1>1, <1>2, <1>3 DEF HandleUsr1

LEMMA SurvivalStep ==
    BackendInv /\ SurvivalInv /\ [Next]_vars => SurvivalInv'
<1> SUFFICES ASSUME BackendInv, SurvivalInv, [Next]_vars PROVE SurvivalInv'
  OBVIOUS
<1> USE DEF SurvivalInv, setupVars, mappingVars, Known
<1>1. ASSUME sampler__stop_sampling PROVE SurvivalInv'
  <2>1. stops \in Nat
    BY DEF BackendInv, BackendTypeOK
  <2>2. CASE ClearInProgress
    BY <2>2 DEF ClearInProgress, MainAt, backendVars
  <2>3. CASE StopBackend
    <3>1. active_ /\ main' = "stopping" /\ exited = "no"
      BY <2>3 DEF StopBackend, MainAt
    <3>2. CASE InUse < BUFFERS
      BY <2>1, <2>3, <3>1, <3>2 DEF StopBackend, Stop, Dump
    <3>3. CASE ~(InUse < BUFFERS)
      BY <2>3, <3>1, <3>3 DEF StopBackend, Stop, Dump, Exit
    <3> QED
      BY <3>2, <3>3
  <2> QED
    BY <1>1, <2>2, <2>3 DEF sampler__stop_sampling
<1>2. ASSUME GpuTraffic PROVE SurvivalInv'
  BY <1>2 DEF GpuTraffic, Traffic
<1>3. ASSUME TimePasses PROVE SurvivalInv'
  BY <1>3 DEF TimePasses, Tick
<1>4. ASSUME DriverRefuses PROVE SurvivalInv'
  BY <1>4 DEF DriverRefuses, ReaderRefuses, Exit
<1>5. ASSUME UNCHANGED vars PROVE SurvivalInv'
  BY <1>5 DEF vars, backendVars
<1> QED
  BY <1>1, <1>2, <1>3, <1>4, <1>5, StartUpSurvival, HandlerSurvival DEF Next

(* Once main pauses, no signal ends a profiler that was set up with the    *)
(* counters it asks for, mapped its buffers and was never stopped, unless  *)
(* the driver refuses a call or the session is older than the clocks are   *)
(* apart: profile_gpu_bandwidth, sampler__sample_now.                      *)
THEOREM SignalsSurvived == Spec => []SurvivesSampling
<1>1. Init => SurvivalInv
  BY DEF Init, BackendInit, SurvivalInv
<1>2. BackendInv /\ SurvivalInv => SurvivesSampling
  <2> SUFFICES ASSUME BackendInv, SurvivalInv, main = "paused", mapped_,
                      stops = 0, now <= sessions_[1],
                      \A counter \in BeatCounters : Known(counter)
               PROVE  exited \in {"no", "refused"}
    BY DEF SurvivesSampling
  <2>1. active_ /\ exited \in Exits /\ Len(sessions_) = 1
    BY DEF SurvivalInv, BackendInv, BackendTypeOK, OneSession
  <2>2. sessions_ # <<>>
    BY <2>1
  <2>3. exited \notin {"full", "inactive", "clock"}
    BY <2>2, BackendInvProperties DEF OnlyRefusalsEnd
  <2> QED
    BY <2>1, <2>3 DEF SurvivalInv, Exits
<1>3. Spec => []BackendInv
  BY ImplementsBackend, BackendInvariant, PTL
<1> QED
  BY <1>1, <1>2, <1>3, SurvivalStep, PTL DEF Spec

-----------------------------------------------------------------------------
(* Tables and layout.                                                      *)

(* get_num_exec_engines and get_warp_width are separate tables that must   *)
(* name the same products: of a product whose execution engines are known, *)
(* on whatever core, the warp width is known too.                          *)
THEOREM TablesAgree ==
    ASSUME NEW id \in Nat, NEW core_count \in Nat, NEW variant \in Nat,
           NEW max_register \in Nat,
           get_num_exec_engines(id, core_count, variant, max_register) # 0
    PROVE  get_warp_width(id) # 0
<1>1. CASE GpuFamily(id) = "midgard"
  BY <1>1 DEF get_warp_width
<1>2. CASE GpuFamily(id) # "midgard"
  <2>1. id >= 4096
    BY <1>2 DEF GpuFamily, VersionStyle
  <2>2. \/ id \in V(6, {0, 1}) \union V(7, {0, 1, 2, 3})
        \/ id \in V(9, {0, 1, 2, 3, 4, 5}) \union V(10, {2, 3, 4, 7})
        \/ id \in V(11, {2, 3}) \union V(12, {0, 2})
    BY <1>2, <2>1 DEF get_num_exec_engines, FixedEngines, V,
       product_id__from_versions
  <2>3. id \in WarpsOf4 \union WarpsOf8 \union WarpsOf16 \/ ArchMajor(id) > 11
    BY <2>2 DEF V, product_id__from_versions, WarpsOf4, WarpsOf8, WarpsOf16,
       ArchMajor
  <2> QED
    BY <2>3 DEF get_warp_width
<1> QED
  BY <1>1, <1>2

(* The blocks of a sample do not overlap, whatever the number of slices of *)
(* the cache, the mask of the cores and the types that are configured: two *)
(* entries with the same offset are the same entry (sample_layout_non_v4). *)
THEOREM BlocksDoNotOverlap ==
    ASSUME NEW extents, NEW slices \in Nat, NEW mask \in SUBSET Nat,
           NEW e \in sample_layout_non_v4(extents, slices, mask),
           NEW f \in sample_layout_non_v4(extents, slices, mask),
           e.offset = f.offset
    PROVE  e = f
<1> DEFINE Fe == {Entry("fe", 0, 0)}
           Tiler == {Entry("tiler", 0, 1)}
           Memory == {Entry("memory", i, MemoryOffset(i)) :
                          i \in 0..((slices % 256) - 1)}
           Index(i) == Cardinality({j \in mask : j < i})
           Core == {Entry("core", Index(i), CoreOffset(slices, mask, i)) :
                        i \in mask}
<1>1. ASSUME NEW x \in sample_layout_non_v4(extents, slices, mask)
      PROVE  x \in Fe \/ x \in Tiler \/ x \in Memory \/ x \in Core
  BY <1>1 DEF sample_layout_non_v4, BlocksIf
<1> HIDE DEF Index
<1>2. slices % 256 \in Nat /\ slices % 256 <= slices
  OBVIOUS
<1>3. ASSUME NEW x \in Fe PROVE x.offset = 0
  BY DEF Entry
<1>4. ASSUME NEW x \in Tiler PROVE x.offset = 1
  BY DEF Entry
<1>5. ASSUME NEW x \in Memory
      PROVE  /\ x.offset \in Int /\ 2 <= x.offset /\ x.offset <= 1 + slices
             /\ x = Entry("memory", x.offset - 2, x.offset)
  <2>1. PICK i \in 0..((slices % 256) - 1) :
                 x = Entry("memory", i, MemoryOffset(i))
    OBVIOUS
  <2>2. x.offset = 2 + i
    BY <2>1 DEF Entry, MemoryOffset
  <2> QED
    BY <1>2, <2>1, <2>2 DEF MemoryOffset
<1>6. ASSUME NEW x \in Core
      PROVE  /\ x.offset \in Int /\ x.offset > 1 + slices
             /\ x = Entry("core", Index(x.offset - 2 - slices), x.offset)
  <2>1. PICK i \in mask : x = Entry("core", Index(i),
                                    CoreOffset(slices, mask, i))
    OBVIOUS
  <2>2. x.offset = 2 + slices + i /\ i \in Nat
    BY <2>1 DEF Entry, CoreOffset
  <2>3. i = x.offset - 2 - slices /\ x.offset > 1 + slices /\ x.offset \in Int
    BY <2>2
  <2>4. x = Entry("core", Index(i), x.offset)
    BY <2>1, <2>2 DEF CoreOffset
  <2> QED
    BY <2>3, <2>4
<1> DEFINE At(o) == IF o = 0 THEN Entry("fe", 0, 0)
                    ELSE IF o = 1 THEN Entry("tiler", 0, 1)
                    ELSE IF o <= 1 + slices THEN Entry("memory", o - 2, o)
                    ELSE Entry("core", Index(o - 2 - slices), o)
<1>7. ASSUME NEW x \in sample_layout_non_v4(extents, slices, mask)
      PROVE  x = At(x.offset)
  <2>1. CASE x \in Fe
    BY <1>3, <2>1
  <2>2. CASE x \in Tiler
    BY <1>4, <2>2
  <2>3. CASE x \in Memory
    <3>1. /\ x.offset # 0 /\ x.offset # 1 /\ x.offset <= 1 + slices
          /\ x = Entry("memory", x.offset - 2, x.offset)
      BY <1>5, <2>3
    <3> QED
      BY <3>1
  <2>4. CASE x \in Core
    <3>1. /\ x.offset # 0 /\ x.offset # 1 /\ ~(x.offset <= 1 + slices)
          /\ x = Entry("core", Index(x.offset - 2 - slices), x.offset)
      BY <1>6, <2>4
    <3> QED
      BY <3>1
  <2> QED
    BY <1>1, <2>1, <2>2, <2>3, <2>4
<1> HIDE DEF At
<1>8. e = At(e.offset) /\ f = At(f.offset)
  BY <1>7
<1> QED
  BY <1>8

(* Once the mappings are reserved the device is decoded for the second     *)
(* time; from the set-up on the layout is the one of its constants.        *)
LayoutInv ==
    /\ main \in {"mapping", "start", "started", "paused", "stopping"} =>
           pass = 2 /\ stage = "decoded"
    /\ IsSetUp => \E types :
           LET v4 == is_v4_layout(constants.gpu_id)
               slices == Number(constants.num_l2_slices)
           IN  /\ layout_ = Layout(v4,
                     filter_block_extents(
                         construct_block_extents(v4, slices,
                             constants.num_shader_cores), types),
                     slices, constants.shader_core_mask)
               /\ enabled["memory"] # {} => "memory" \in types

(* Only the set-up changes the layout, and nothing after it the device.    *)
LEMMA LayoutInvStep == LayoutInv /\ [Next]_vars => LayoutInv'
<1> SUFFICES ASSUME LayoutInv, [Next]_vars PROVE LayoutInv'
  OBVIOUS
<1> USE DEF LayoutInv, IsSetUp
<1>1. ASSUME OpenDevice \/ sampler_config__init \/ sampler_config__add_counter
             \/ sampler__init \/ ReserveMappings
      PROVE  LayoutInv'
  BY <1>1 DEF OpenDevice, sampler_config__init, sampler_config__add_counter,
     sampler__init, ReserveMappings, MainAt, instanceVars
<1>2. ASSUME DeviceFails \/ MapCounter \/ StartBackend \/ SetInProgress
             \/ HandleUsr1 \/ sampler__stop_sampling \/ GpuTraffic \/ TimePasses
             \/ DriverRefuses \/ UNCHANGED vars
      PROVE  LayoutInv'
  <2>1. /\ UNCHANGED <<pass, stage, constants, layout_, enabled>>
        /\ \/ UNCHANGED main
           \/ main \in {"start", "started", "paused", "stopping"} /\ IsSetUp'
    BY <1>2 DEF DeviceFails, MapCounter, StartBackend, SetInProgress, HandleUsr1,
       sampler__sample_now, CollectSample, DeliverSample,
       sampler__stop_sampling, StopBackend, ClearInProgress,
       GpuTraffic, TimePasses, DriverRefuses, MainAt, instanceVars, setupVars, vars
  <2> QED
    BY <2>1
<1>3. ASSUME vinstr_setup PROVE LayoutInv'
  <2>1. main = "mapping" /\ pass = 2 /\ stage = "decoded"
        /\ UNCHANGED <<pass, stage, constants>>
    BY <1>3 DEF vinstr_setup, MainAt, instanceVars
  <2> DEFINE configs == {node.value : node \in Nodes(backend_config_)}
             types == {config.type : config \in {c \in configs : c.map # {}}}
             MapOf(type) == hashmap__get(backend_config_, TypeNo[type]).map
             v4 == is_v4_layout(constants.gpu_id)
             slices == Number(constants.num_l2_slices)
             layout == Layout(v4,
                 filter_block_extents(
                     construct_block_extents(v4, slices,
                         constants.num_shader_cores), types),
                 slices, constants.shader_core_mask)
  <2>2. \/ /\ enabled' = [type \in BlockTypes |->
                 IF type \notin types THEN {}
                 ELSE IF type = "memory" THEN MMU_L2_MASK
                 ELSE convert_by_mask(MapOf(type))]
           /\ layout_' = layout
           /\ main' = "start"
        \/ UNCHANGED <<main, setupVars>>
    BY <1>3, Zenon DEF vinstr_setup
  <2>3. CASE UNCHANGED <<main, setupVars>>
    BY <2>1, <2>3 DEF setupVars
  <2>4. CASE ~UNCHANGED <<main, setupVars>>
    <3> HIDE DEF configs, MapOf
    <3>1. enabled'["memory"] # {} => "memory" \in types
      <4> HIDE DEF types
      <4> QED
        BY <2>2, <2>4 DEF BlockTypes
    <3>2. layout_' = layout /\ main' = "start"
      BY <2>2, <2>4
    <3> HIDE DEF types
    <3> QED
      BY <2>1, <3>1, <3>2
  <2> QED
    BY <2>3, <2>4
<1> QED
  BY <1>1, <1>2, <1>3 DEF Next, StartUp

(* The layout of up to 16 slices and of any mask of 64 bits.               *)
LEMMA SlicesInLayout ==
    ASSUME NEW extents, NEW slices \in 0..MAX_BLOCKS_MEMORY,
           NEW mask \in SUBSET (0..63),
           extents["memory"] = slices
    PROVE  LET layout == sample_layout_non_v4(extents, slices, mask)
               memory == {entry \in layout : entry.type = "memory"}
           IN  /\ {entry.offset : entry \in memory} = 2..(1 + slices)
               /\ Cardinality({entry.offset : entry \in layout})
                      = Cardinality(layout)
               /\ Cardinality(layout) <= MAX_BLOCKS
<1> DEFINE Fe == {Entry("fe", 0, 0)}
           Tiler == {Entry("tiler", 0, 1)}
           Memory == {Entry("memory", i, MemoryOffset(i)) :
                          i \in 0..((slices % 256) - 1)}
           Index(i) == Cardinality({j \in mask : j < i})
           Core == {Entry("core", Index(i), CoreOffset(slices, mask, i)) :
                        i \in mask}
           layout == sample_layout_non_v4(extents, slices, mask)
           memory == {entry \in layout : entry.type = "memory"}
           offsets == {entry.offset : entry \in layout}
<1>1. slices \in Nat /\ slices <= 16 /\ slices % 256 = slices
  BY DEF MAX_BLOCKS_MEMORY
<1>2. layout = BlocksIf("fe", extents, Fe) \union BlocksIf("tiler", extents, Tiler)
               \union BlocksIf("memory", extents, Memory)
               \union BlocksIf("core", extents, Core)
  BY DEF sample_layout_non_v4
<1> HIDE DEF Index
<1>3. ASSUME NEW x \in Memory
      PROVE  x.type = "memory" /\ x.offset \in 2..(1 + slices)
  BY <1>1 DEF Entry, MemoryOffset
<1>4. ASSUME NEW x \in Core
      PROVE  x.type = "core" /\ x.offset \in 0..81
  BY <1>1 DEF Entry, CoreOffset
<1>5. ASSUME NEW x \in Fe \union Tiler
      PROVE  x.type \in {"fe", "tiler"} /\ x.offset \in 0..81
  BY DEF Entry
<1>6. \A o \in 2..(1 + slices) : \E x \in Memory : x.offset = o
  <2> SUFFICES ASSUME NEW o \in 2..(1 + slices) PROVE \E x \in Memory : x.offset = o
    OBVIOUS
  <2>1. o - 2 \in 0..((slices % 256) - 1)
    BY <1>1
  <2>2. Entry("memory", o - 2, MemoryOffset(o - 2)) \in Memory
    BY <2>1
  <2>3. Entry("memory", o - 2, MemoryOffset(o - 2)).offset = o
    BY DEF Entry, MemoryOffset
  <2> QED
    BY <2>2, <2>3
<1> HIDE DEF Fe, Tiler, Memory, Core
<1>7. memory = Memory
  <2>1. BlocksIf("memory", extents, Memory) = Memory
    <3>1. CASE slices = 0
      <4>1. Memory = {}
        BY <1>1, <1>3, <3>1
      <4> QED
        BY <4>1 DEF BlocksIf
    <3>2. CASE slices # 0
      BY <3>2 DEF BlocksIf
    <3> QED
      BY <3>1, <3>2
  <2>2. \A x \in layout : x \in Fe \union Tiler \/ x \in Memory \/ x \in Core
    BY <1>2 DEF BlocksIf
  <2>3. Memory \subseteq layout
    BY <1>2, <2>1
  <2> HIDE DEF layout
  <2> QED
    BY <1>3, <1>4, <1>5, <2>2, <2>3
<1>8. {entry.offset : entry \in memory} = 2..(1 + slices)
  BY <1>3, <1>6, <1>7
<1> DEFINE Offset == [entry \in layout |-> entry.offset]
<1>9. \A x \in layout : x.offset \in 0..81
  <2>1. \A x \in Memory : x.offset \in 0..81
    BY <1>1, <1>3
  <2> QED
    BY <1>2, <1>4, <1>5, <2>1 DEF BlocksIf
<1>10. \A e, f \in layout : e.offset = f.offset => e = f
  <2>1. mask \in SUBSET Nat
    OBVIOUS
  <2> QED
    BY <1>1, <2>1, BlocksDoNotOverlap
<1> HIDE DEF layout
<1>11. Offset \in Injection(layout, 0..81)
  BY <1>9, <1>10 DEF Injection, IsInjective
<1>12. IsFiniteSet(0..81) /\ Cardinality(0..81) <= 82
  BY FS_BoundedSetOfNaturals
<1>13. IsFiniteSet(layout) /\ Cardinality(layout) <= Cardinality(0..81)
  BY <1>11, <1>12, FS_Injection
<1>14. Offset \in Surjection(layout, offsets) /\ Offset \in Injection(layout, offsets)
  BY <1>10 DEF Surjection, Injection, IsInjective
<1>15. Cardinality(offsets) = Cardinality(layout)
  BY <1>13, <1>14, FS_Surjection
<1>16. Cardinality(layout) <= MAX_BLOCKS
  <2>1. Cardinality(layout) \in Nat /\ Cardinality(0..81) \in Nat
    BY <1>12, <1>13, FS_CardinalityType
  <2> QED
    BY <1>12, <1>13, <2>1 DEF MAX_BLOCKS, MAX_BLOCKS_MEMORY, MAX_SHADER_CORES
<1> QED
  BY <1>8, <1>15, <1>16 DEF layout

(* Every block of the second level cache is read once, and nothing else is,*)
(* and the entries fit into their array, whatever is configured, for every *)
(* device with at most 16 slices.                                          *)
THEOREM EverySliceReadOnce ==
    ASSUME \A d \in Devices :
               Number(ReportedBy(d, l2_num_l2_slices)) \in 0..MAX_BLOCKS_MEMORY
    PROVE  Spec => []SlicesReadOnce
<1>1. Init => LayoutInv
  BY DEF Init, LayoutInv, IsSetUp
<1>2. DeviceInv /\ LayoutInv => SlicesReadOnce
  <2> SUFFICES ASSUME DeviceInv, LayoutInv, IsSetUp, SupportedDevice,
                      enabled["memory"] # {}
               PROVE  LET memory == {entry \in layout_ : entry.type = "memory"}
                      IN  /\ {entry.offset : entry \in memory} =
                                 2..(1 + Number(Reported(l2_num_l2_slices)))
                          /\ Cardinality({entry.offset : entry \in layout_})
                                 = Cardinality(layout_)
                          /\ Cardinality(layout_) <= MAX_BLOCKS
    BY DEF SlicesReadOnce
  <2> DEFINE v4 == is_v4_layout(constants.gpu_id)
             slices == Number(constants.num_l2_slices)
             mask == constants.shader_core_mask
             cores == constants.num_shader_cores
             extents(types) == filter_block_extents(
                 construct_block_extents(v4, slices, cores), types)
  <2>1. PICK types : /\ layout_ = Layout(v4, extents(types), slices, mask)
                     /\ "memory" \in types
    BY DEF LayoutInv
  <2>2. ~v4 /\ slices = Number(Reported(l2_num_l2_slices))
    BY DEF SupportedDevice
  <2>3. slices \in 0..MAX_BLOCKS_MEMORY
    BY <2>2 DEF DeviceInv, DecodeInv, Reported
  <2>4. mask \in SUBSET (0..63)
    BY DEF DeviceInv, DeviceTypeInv
  <2> HIDE DEF v4, slices, mask, cores
  <2>5. layout_ = sample_layout_non_v4(extents(types), slices, mask)
    BY <2>1, <2>2 DEF Layout
  <2>6. extents(types)["memory"] = slices
    <3>1. slices % 256 = slices
      BY <2>3 DEF MAX_BLOCKS_MEMORY
    <3> QED
      BY <2>1, <2>2, <3>1 DEF filter_block_extents, construct_block_extents,
         BlockTypes
  <2> HIDE DEF extents
  <2> QED
    BY <2>2, <2>3, <2>4, <2>5, <2>6, SlicesInLayout
<1> QED
  BY <1>1, <1>2, LayoutInvStep, DeviceInvariant, PTL DEF Spec

-----------------------------------------------------------------------------
(* The hash map.                                                           *)

Node(Vals) == [key : Nat, value : Vals]

(* Every node is in the chain of its key.                                  *)
Chains(nodes, capacity, Vals) ==
    /\ nodes \in [0..(capacity - 1) -> Seq(Node(Vals))]
    /\ \A i \in 0..(capacity - 1) : \A k \in 1..Len(nodes[i]) :
          hashmap__hash(capacity, nodes[i][k].key) = i

(* A map from some numbers to values of Vals: no key has two nodes.           *)
IsMap(map, Vals) ==
    /\ map = [nodes |-> map.nodes, capacity |-> map.capacity]
    /\ map.capacity \in Nat \ {0}
    /\ Chains(map.nodes, map.capacity, Vals)
    /\ \A m, n \in Nodes(map) : m.key = n.key => m = n

LEMMA HashInRange ==
    ASSUME NEW capacity \in Nat \ {0}, NEW key \in Nat
    PROVE  hashmap__hash(capacity, key) \in 0..(capacity - 1)
<1> DEFINE product == 29791 * key
<1>1. product \in Nat
  OBVIOUS
<1> HIDE DEF product
<1>2. product % capacity \in 0..(capacity - 1)
  BY <1>1
<1> QED
  BY <1>2 DEF hashmap__hash, product

Shaped(nodes, capacity) ==
    /\ DOMAIN nodes = 0..(capacity - 1)
    /\ \A i \in 0..(capacity - 1) : DOMAIN nodes[i] = 1..Len(nodes[i])

(* The nodes of a map are what lies in its chains.                         *)
LieIn(all, nodes, capacity) ==
    \A n : n \in all <=>
        \E i \in 0..(capacity - 1) : \E k \in 1..Len(nodes[i]) : n = nodes[i][k]

LEMMA NodeInChain ==
    ASSUME NEW capacity, NEW map, Shaped(map.nodes, capacity)
    PROVE  LieIn(Nodes(map), map.nodes, capacity)
  BY DEF Nodes, Shaped, LieIn

LEMMA ChainsShaped ==
    ASSUME NEW capacity, NEW Vals, NEW nodes, Chains(nodes, capacity, Vals)
    PROVE  Shaped(nodes, capacity)
  BY DEF Shaped, Chains

(* A node of a map is found under its key, and under no other key anything.*)
LEMMA NodeFound ==
    ASSUME NEW Vals, NEW map, IsMap(map, Vals)
    PROVE  /\ \A n \in Nodes(map) : /\ n \in Node(Vals)
                                    /\ hashmap__contains(map, n.key)
                                    /\ hashmap__get(map, n.key) = n.value
           /\ \A key \in Nat : hashmap__contains(map, key) =>
                  \E n \in Nodes(map) : n.key = key
<1> DEFINE nodes == map.nodes
           c == map.capacity
<1>1. c \in Nat \ {0} /\ Chains(nodes, c, Vals)
  BY DEF IsMap
<1>2. \A n : n \in Nodes(map) <=>
         \E i \in 0..(c - 1) : \E k \in 1..Len(nodes[i]) : n = nodes[i][k]
  <2>1. Shaped(nodes, c)
    BY <1>1, ChainsShaped
  <2>2. LieIn(Nodes(map), nodes, c)
    BY <2>1, NodeInChain
  <2> QED
    BY <2>2 DEF LieIn
<1>3. ASSUME NEW n \in Nodes(map)
      PROVE  /\ n \in Node(Vals)
             /\ hashmap__contains(map, n.key)
             /\ hashmap__get(map, n.key) = n.value
  <2>1. PICK i \in 0..(c - 1) : \E k \in 1..Len(nodes[i]) : n = nodes[i][k]
    BY <1>2
  <2>2. PICK k \in 1..Len(nodes[i]) : n = nodes[i][k]
    BY <2>1
  <2>3. nodes[i] \in Seq(Node(Vals)) /\ hashmap__hash(c, n.key) = i
    BY <1>1, <2>2 DEF Chains
  <2>4. n \in Node(Vals) /\ DOMAIN nodes[i] = 1..Len(nodes[i])
        /\ Len(nodes[i]) \in Nat
    BY <2>2, <2>3
  <2> DEFINE P == Positions(map, n.key)
  <2>5. P = {j \in 1..Len(nodes[i]) : nodes[i][j].key = n.key}
    BY <2>3, <2>4 DEF Positions
  <2>6. k \in P /\ P \in SUBSET Nat
    BY <2>2, <2>5
  <2> HIDE DEF P
  <2>7. PICK m \in P : \A j \in P : m <= j
    BY <2>6, LeastNatural
  <2>8. Min(P) \in P
    BY <2>7 DEF Min
  <2> DEFINE first == Min(P)
  <2>9. first \in 1..Len(nodes[i]) /\ nodes[i][first].key = n.key
    BY <2>5, <2>8
  <2>10. nodes[i][first] \in Nodes(map)
    BY <1>2, <2>9
  <2>11. nodes[i][first] = n
    BY <2>9, <2>10 DEF IsMap
  <2> QED
    BY <2>3, <2>4, <2>6, <2>11 DEF hashmap__contains, hashmap__get, P
<1>4. ASSUME NEW key \in Nat, hashmap__contains(map, key)
      PROVE  \E n \in Nodes(map) : n.key = key
  <2> DEFINE i == hashmap__hash(c, key)
  <2>1. i \in 0..(c - 1)
    BY <1>1, HashInRange
  <2> HIDE DEF i
  <2>2. PICK k \in DOMAIN nodes[i] : nodes[i][k].key = key
    BY <1>4 DEF hashmap__contains, Positions, i
  <2>3. k \in 1..Len(nodes[i])
    BY <1>1, <2>1, <2>2 DEF Chains
  <2>4. nodes[i][k] \in Nodes(map)
    BY <1>2, <2>1, <2>3
  <2> QED
    BY <2>2, <2>4
<1> QED
  BY <1>3, <1>4

LEMMA NodesOfChains ==
    ASSUME NEW capacity, NEW Vals, NEW nodes, Chains(nodes, capacity, Vals)
    PROVE  LieIn(Nodes([nodes |-> nodes]), nodes, capacity)
<1> DEFINE map == [nodes |-> nodes]
<1>1. map.nodes = nodes /\ Shaped(nodes, capacity)
  BY ChainsShaped
<1> HIDE DEF map
<1>2. LieIn(Nodes(map), map.nodes, capacity)
  BY <1>1, NodeInChain
<1> QED
  BY <1>1, <1>2 DEF map

LEMMA SameChains ==
    ASSUME NEW map, NEW other, map.nodes = other.nodes
    PROVE  Nodes(map) = Nodes(other)
  BY DEF Nodes

(* A node put at the head of its chain is added to the nodes.              *)
LEMMA Prepended ==
    ASSUME NEW c \in Nat \ {0}, NEW Vals, NEW nodes, Chains(nodes, c, Vals),
           NEW node \in Node(Vals), NEW more,
           more = PushFront(nodes, hashmap__hash(c, node.key), node)
    PROVE  /\ Chains(more, c, Vals)
           /\ Nodes([nodes |-> more]) = Nodes([nodes |-> nodes]) \union {node}
<1> DEFINE h == hashmap__hash(c, node.key)
<1>1. h \in 0..(c - 1)
  BY HashInRange DEF Node
<1>2. nodes[h] \in Seq(Node(Vals)) /\ Len(nodes[h]) \in Nat
  BY <1>1 DEF Chains
<1> DEFINE chain == <<node>> \o nodes[h]
<1>3. /\ chain \in Seq(Node(Vals))
      /\ Len(chain) = Len(nodes[h]) + 1
      /\ chain[1] = node
      /\ \A k \in 1..Len(nodes[h]) : chain[k + 1] = nodes[h][k]
  BY <1>2
<1>4. \A k \in 1..Len(chain) : k = 1 \/ (k - 1 \in 1..Len(nodes[h])
                                         /\ chain[k] = nodes[h][k - 1])
  BY <1>2, <1>3
<1>5. /\ more \in [0..(c - 1) -> Seq(Node(Vals))]
      /\ more[h] = chain
      /\ \A i \in 0..(c - 1) : i # h => more[i] = nodes[i]
  <2> HIDE DEF h
  <2>1. more = [nodes EXCEPT ![h] = chain]
    BY DEF h, PushFront
  <2> HIDE DEF chain
  <2> QED
    BY <1>1, <1>3, <2>1 DEF Chains
<1> HIDE DEF chain, h
<1>6. Chains(more, c, Vals)
  <2> SUFFICES ASSUME NEW i \in 0..(c - 1), NEW k \in 1..Len(more[i])
               PROVE  hashmap__hash(c, more[i][k].key) = i
    BY <1>5 DEF Chains
  <2>1. CASE i # h
    BY <1>5, <2>1 DEF Chains
  <2>2. CASE i = h
    <3>1. CASE k = 1
      BY <1>3, <1>5, <2>2, <3>1 DEF h
    <3>2. CASE k # 1
      <4>1. k - 1 \in 1..Len(nodes[h]) /\ more[i][k] = nodes[h][k - 1]
        BY <1>4, <1>5, <2>2, <3>2
      <4>2. hashmap__hash(c, nodes[h][k - 1].key) = h
        BY <1>1, <4>1 DEF Chains
      <4> QED
        BY <2>2, <4>1, <4>2
    <3> QED
      BY <3>1, <3>2
  <2> QED
    BY <2>1, <2>2
<1> DEFINE old == [nodes |-> nodes]
           new == [nodes |-> more]
<1>7. /\ Chains(old.nodes, c, Vals) /\ old.nodes = nodes
      /\ Chains(new.nodes, c, Vals) /\ new.nodes = more
  BY <1>6
<1> HIDE DEF old, new
<1>8. \A n : n \in Nodes(old) <=>
         \E i \in 0..(c - 1) : \E k \in 1..Len(nodes[i]) : n = nodes[i][k]
  <2>1. LieIn(Nodes(old), nodes, c)
    BY NodesOfChains DEF old
  <2> QED
    BY <2>1 DEF LieIn
<1>9. \A n : n \in Nodes(new) <=>
         \E i \in 0..(c - 1) : \E k \in 1..Len(more[i]) : n = more[i][k]
  <2>1. LieIn(Nodes(new), more, c)
    BY <1>6, NodesOfChains DEF new
  <2> QED
    BY <2>1 DEF LieIn
<1>10. node \in Nodes(new)
  <2>1. 1 \in 1..Len(more[h]) /\ node = more[h][1]
    BY <1>2, <1>3, <1>5
  <2> QED
    BY <1>1, <1>9, <2>1
<1>11. ASSUME NEW n \in Nodes(old) PROVE n \in Nodes(new)
  <2>1. PICK i \in 0..(c - 1) : \E k \in 1..Len(nodes[i]) : n = nodes[i][k]
    BY <1>8, <1>9
  <2>2. PICK k \in 1..Len(nodes[i]) : n = nodes[i][k]
    BY <2>1
  <2>3. CASE i # h
    BY <1>5, <1>8, <1>9, <2>2, <2>3
  <2>4. CASE i = h
    <3>1. k + 1 \in 1..Len(more[i]) /\ n = more[i][k + 1]
      BY <1>2, <1>3, <1>5, <2>2, <2>4
    <3> QED
      BY <1>8, <1>9, <3>1
  <2> QED
    BY <2>3, <2>4
<1>12. ASSUME NEW n \in Nodes(new) PROVE n = node \/ n \in Nodes(old)
  <2>1. PICK i \in 0..(c - 1) : \E k \in 1..Len(more[i]) : n = more[i][k]
    BY <1>8, <1>9
  <2>2. PICK k \in 1..Len(more[i]) : n = more[i][k]
    BY <2>1
  <2>3. CASE i # h
    BY <1>5, <1>8, <1>9, <2>2, <2>3
  <2>4. CASE i = h /\ k = 1
    BY <1>3, <1>5, <2>2, <2>4
  <2>5. CASE i = h /\ k # 1
    <3>1. k - 1 \in 1..Len(nodes[i]) /\ n = nodes[i][k - 1]
      BY <1>4, <1>5, <2>2, <2>5
    <3> QED
      BY <1>8, <1>9, <3>1
  <2> QED
    BY <2>3, <2>4, <2>5
<1> QED
  BY <1>6, <1>10, <1>11, <1>12 DEF old, new

(* The nodes of all chains on end.                                         *)
LEMMA AllNodes ==
    ASSUME NEW Vals, NEW map, map.capacity \in Nat \ {0},
           Chains(map.nodes, map.capacity, Vals), NEW all,
           all = FlattenSeq([i \in 1..map.capacity |-> map.nodes[i - 1]])
    PROVE  all \in Seq(Node(Vals)) /\ Range(all) = Nodes(map)
<1> DEFINE c == map.capacity
           nodes == map.nodes
           seqs == [i \in 1..c |-> nodes[i - 1]]
<1>1. c \in Nat \ {0} /\ nodes \in [0..(c - 1) -> Seq(Node(Vals))]
  BY DEF Chains
<1>2. \A n : n \in Nodes(map) <=>
         \E i \in 0..(c - 1) : \E k \in 1..Len(nodes[i]) : n = nodes[i][k]
  <2>1. Shaped(nodes, c)
    BY ChainsShaped
  <2>2. LieIn(Nodes(map), nodes, c)
    BY <2>1, NodeInChain
  <2> QED
    BY <2>2 DEF LieIn
<1> HIDE DEF nodes, c
<1>3. seqs \in Seq(Seq(Node(Vals))) /\ Len(seqs) = c
  <2>1. \A i \in 1..c : i - 1 \in 0..(c - 1)
    BY <1>1
  <2> QED
    BY <1>1, <2>1
<1>4. PICK P \in [0..c -> Seq(Node(Vals))] :
         /\ P[0] = <<>>
         /\ \A k \in 1..c : P[k] = P[k - 1] \o seqs[k]
         /\ P[c] = FlattenSeq(seqs)
  <2> HIDE DEF seqs
  <2> QED
    BY <1>3, FlattenedByParts
<1> DEFINE In(x, m) == \E i \in 0..(m - 1) : x \in Range(nodes[i])
           Met == {m \in 0..c : \A x : x \in Range(P[m]) <=> In(x, m)}
<1>5. Met = 0..c
  <2>1. 0 \in Met
    <3>1. Range(P[0]) = {}
      BY <1>4 DEF Range
    <3>2. \A x : ~In(x, 0)
      OBVIOUS
    <3> HIDE DEF In
    <3> QED
      BY <1>1, <3>1, <3>2
  <2>2. ASSUME NEW m \in Met, m < c PROVE m + 1 \in Met
    <3>1. m \in 0..c /\ \A x : x \in Range(P[m]) <=> In(x, m)
      OBVIOUS
    <3>2. m \in 0..(c - 1) /\ m + 1 \in 1..c /\ (m + 1) - 1 = m /\ m + 1 \in 0..c
      BY <1>1, <2>2, <3>1
    <3>3. P[m + 1] = P[m] \o nodes[m]
      BY <1>4, <3>2
    <3>4. Range(P[m + 1]) = Range(P[m]) \union Range(nodes[m])
      <4>1. P[m] \in Seq(Node(Vals)) /\ nodes[m] \in Seq(Node(Vals))
        BY <1>1, <1>4, <3>2
      <4> HIDE DEF In, Met
      <4> QED
        BY <3>3, <4>1, RangeOfConcat
    <3>5. \A x : In(x, m + 1) <=> In(x, m) \/ x \in Range(nodes[m])
      <4>1. \A i : i \in 0..((m + 1) - 1) <=> i \in 0..(m - 1) \/ i = m
        BY <3>2
      <4> HIDE DEF Met
      <4> QED
        BY <4>1
    <3> HIDE DEF In
    <3>6. \A x : x \in Range(P[m + 1]) <=> In(x, m + 1)
      BY <3>1, <3>4, <3>5
    <3> QED
      BY <3>2, <3>6
  <2> HIDE DEF Met
  <2>3. Met \in SUBSET (0..c)
    BY DEF Met
  <2> QED
    BY <1>1, <2>1, <2>2, <2>3, SetInduction
<1>6. all = P[c] /\ all \in Seq(Node(Vals))
  BY <1>1, <1>4 DEF seqs, c, nodes
<1>7. \A x : x \in Range(all) <=> In(x, c)
  <2>1. c \in Met
    <3> HIDE DEF Met
    <3> QED
      BY <1>1, <1>5
  <2> HIDE DEF In
  <2> QED
    BY <1>6, <2>1
<1>8. \A x : In(x, c) <=> x \in Nodes(map)
  <2>1. ASSUME NEW i \in 0..(c - 1), NEW x
        PROVE  x \in Range(nodes[i]) <=> \E k \in 1..Len(nodes[i]) : x = nodes[i][k]
    BY <1>1 DEF Range
  <2> SUFFICES ASSUME NEW x PROVE In(x, c) <=> x \in Nodes(map)
    OBVIOUS
  <2>2. ASSUME In(x, c) PROVE x \in Nodes(map)
    <3>1. PICK i \in 0..(c - 1) : x \in Range(nodes[i])
      BY <2>2
    <3>2. PICK k \in 1..Len(nodes[i]) : x = nodes[i][k]
      BY <2>1, <3>1
    <3> QED
      BY <1>2, <3>2
  <2>3. ASSUME x \in Nodes(map) PROVE In(x, c)
    <3>1. PICK i \in 0..(c - 1) : \E k \in 1..Len(nodes[i]) : x = nodes[i][k]
      BY <1>2, <2>3
    <3>2. x \in Range(nodes[i])
      BY <2>1, <3>1
    <3> QED
      BY <3>2
  <2> HIDE DEF In
  <2> QED
    BY <2>2, <2>3
<1> HIDE DEF In
<1> QED
  BY <1>6, <1>7, <1>8

(* Growing moves every node into the chain of its key, and loses none.     *)
LEMMA MovedNodes ==
    ASSUME NEW Vals, NEW map, map.capacity \in Nat \ {0},
           Chains(map.nodes, map.capacity, Vals), NEW c \in Nat \ {0},
           NEW to, to = Moved(map, c, c)
    PROVE  /\ to = [nodes |-> to.nodes, capacity |-> c]
           /\ Chains(to.nodes, c, Vals)
           /\ Nodes(to) = Nodes(map)
<1> DEFINE all == FlattenSeq([i \in 1..map.capacity |-> map.nodes[i - 1]])
<1>1. all \in Seq(Node(Vals)) /\ Range(all) = Nodes(map)
  BY AllNodes
<1> DEFINE N == Len(all)
           Move(f, k) == PushFront(f, hashmap__hash(c, all[k].key), all[k])
           IsMoved(m, f) == f = [k \in 0..m |-> IF k = 0 THEN NoChains(c)
                                                 ELSE Move(f[k - 1], k)]
           moved == CHOOSE f : IsMoved(N, f)
<1>2. to = [nodes |-> moved[N], capacity |-> c]
  BY DEF Moved
<1> HIDE DEF all
<1>3. N \in Nat /\ \A k \in 1..N : all[k] \in Node(Vals)
  BY <1>1
<1> HIDE DEF N, Move
<1> DEFINE Has == {m \in 0..N : \E f : IsMoved(m, f)}
<1>4. Has = 0..N
  <2>1. 0 \in Has
    <3>1. IsMoved(0, [k \in 0..0 |-> NoChains(c)])
      OBVIOUS
    <3> HIDE DEF IsMoved
    <3> QED
      BY <1>3, <3>1
  <2>2. ASSUME NEW m \in Has, m < N PROVE m + 1 \in Has
    <3>1. m \in Nat /\ m + 1 \in 0..N
      BY <1>3, <2>2
    <3>2. PICK f : IsMoved(m, f)
      OBVIOUS
    <3> DEFINE g == [k \in 0..(m + 1) |-> IF k <= m THEN f[k]
                                           ELSE Move(f[k - 1], k)]
    <3>3. ASSUME NEW k \in 0..(m + 1)
          PROVE  g[k] = IF k = 0 THEN NoChains(c) ELSE Move(g[k - 1], k)
      <4>1. CASE k <= m
        <5>1. k \in 0..m /\ (k # 0 => k - 1 \in 0..m)
          BY <3>1, <4>1
        <5>2. f[k] = IF k = 0 THEN NoChains(c) ELSE Move(f[k - 1], k)
          BY <3>2, <5>1
        <5> QED
          BY <3>1, <5>1, <5>2
      <4>2. CASE k = m + 1
        BY <3>1, <4>2
      <4> QED
        BY <3>1, <4>1, <4>2
    <3>4. IsMoved(m + 1, g)
      BY <3>3
    <3> HIDE DEF IsMoved, g
    <3> QED
      BY <3>1, <3>4
  <2> HIDE DEF Has
  <2>3. Has \in SUBSET (0..N)
    BY DEF Has
  <2> QED
    BY <1>3, <2>1, <2>2, <2>3, SetInduction
<1>5. IsMoved(N, moved)
  <2>1. \E f : IsMoved(N, f)
    <3>1. N \in Has
      <4> HIDE DEF Has
      <4> QED
        BY <1>3, <1>4
    <3> HIDE DEF IsMoved
    <3> QED
      BY <3>1
  <2> HIDE DEF IsMoved
  <2> QED
    BY <2>1
<1> HIDE DEF moved
<1>6. /\ moved[0] = NoChains(c)
      /\ \A k \in 1..N : moved[k] = Move(moved[k - 1], k)
  BY <1>3, <1>5
<1> HIDE DEF IsMoved
<1> DEFINE Good == {k \in 0..N :
                      /\ Chains(moved[k], c, Vals)
                      /\ \A x : x \in Nodes([nodes |-> moved[k]]) <=>
                                  \E j \in 1..k : x = all[j]}
<1>7. Good = 0..N
  <2>1. 0 \in Good
    <3>1. Chains(NoChains(c), c, Vals)
      BY DEF Chains, NoChains
    <3>2. \A x : x \notin Nodes([nodes |-> NoChains(c)])
      <4>1. LieIn(Nodes([nodes |-> NoChains(c)]), NoChains(c), c)
        BY <3>1, NodesOfChains
      <4> QED
        BY <4>1 DEF LieIn, NoChains
    <3> QED
      BY <1>3, <1>6, <3>1, <3>2
  <2>2. ASSUME NEW k \in Good, k < N PROVE k + 1 \in Good
    <3>1. k \in Nat /\ k + 1 \in 1..N /\ (k + 1) - 1 = k /\ k + 1 \in 0..N
      BY <1>3, <2>2
    <3>2. Chains(moved[k], c, Vals)
      OBVIOUS
    <3>3. \A x : x \in Nodes([nodes |-> moved[k]]) <=> \E j \in 1..k : x = all[j]
      OBVIOUS
    <3> HIDE DEF Good
    <3> DEFINE node == all[k + 1]
    <3>4. node \in Node(Vals)
      BY <1>3, <3>1
    <3>5. moved[k + 1] = PushFront(moved[k], hashmap__hash(c, node.key), node)
      BY <1>6, <3>1 DEF Move
    <3>6. /\ Chains(moved[k + 1], c, Vals)
          /\ Nodes([nodes |-> moved[k + 1]]) =
                 Nodes([nodes |-> moved[k]]) \union {node}
      <4> HIDE DEF node
      <4> QED
        BY <3>2, <3>4, <3>5, Prepended
    <3>7. \A x : (\E j \in 1..(k + 1) : x = all[j]) <=>
                  (\E j \in 1..k : x = all[j]) \/ x = node
      <4>1. \A j : j \in 1..(k + 1) <=> j \in 1..k \/ j = k + 1
        BY <3>1
      <4> QED
        BY <4>1
    <3>8. \A x : x \in Nodes([nodes |-> moved[k + 1]]) <=>
                  \E j \in 1..(k + 1) : x = all[j]
      <4> HIDE DEF node
      <4> QED
        BY <3>3, <3>6, <3>7
    <3> QED
      BY <3>1, <3>6, <3>8 DEF Good
  <2> HIDE DEF Good
  <2>3. Good \in SUBSET (0..N)
    BY DEF Good
  <2> QED
    BY <1>3, <2>1, <2>2, <2>3, SetInduction
<1>8. /\ Chains(moved[N], c, Vals)
      /\ \A x : x \in Nodes([nodes |-> moved[N]]) <=> \E j \in 1..N : x = all[j]
  <2>1. N \in Good
    <3> HIDE DEF Good
    <3> QED
      BY <1>3, <1>7
  <2> QED
    BY <2>1
<1>9. to.nodes = moved[N] /\ to = [nodes |-> to.nodes, capacity |-> c]
  BY <1>2
<1>10. Nodes(to) = Nodes([nodes |-> moved[N]])
  BY <1>9 DEF Nodes
<1>11. \A x : x \in Range(all) <=> \E j \in 1..N : x = all[j]
  BY <1>1 DEF Range, N
<1> QED
  BY <1>1, <1>8, <1>9, <1>10, <1>11

-----------------------------------------------------------------------------
(* What a hash map stands for: a table from numbers to values.             *)
Represents(map, table, Vals) ==
    /\ IsMap(map, Vals)
    /\ DOMAIN table \subseteq Nat
    /\ Nodes(map) = {[key |-> k, value |-> table[k]] : k \in DOMAIN table}

NoTable == [k \in {} |-> 0]

(* A map finds exactly what its table has.                                 *)
LEMMA TableFound ==
    ASSUME NEW Vals, NEW map, NEW table, Represents(map, table, Vals)
    PROVE  /\ \A key \in Nat : hashmap__contains(map, key) <=> key \in DOMAIN table
           /\ \A key \in DOMAIN table : /\ hashmap__get(map, key) = table[key]
                                        /\ table[key] \in Vals
<1>1. IsMap(map, Vals) /\ DOMAIN table \subseteq Nat
      /\ \A n : n \in Nodes(map) <=>
               \E k \in DOMAIN table : n = [key |-> k, value |-> table[k]]
  BY DEF Represents
<1>2. ASSUME NEW key \in DOMAIN table
      PROVE  /\ hashmap__contains(map, key) /\ table[key] \in Vals
             /\ hashmap__get(map, key) = table[key]
  <2> DEFINE n == [key |-> key, value |-> table[key]]
  <2>1. n \in Nodes(map)
    BY <1>1
  <2>2. n.key = key /\ n.value = table[key]
    OBVIOUS
  <2> HIDE DEF n
  <2>3. n \in Node(Vals) /\ hashmap__contains(map, n.key)
        /\ hashmap__get(map, n.key) = n.value
    BY <1>1, <2>1, NodeFound
  <2> QED
    BY <2>2, <2>3 DEF Node
<1>3. ASSUME NEW key \in Nat, hashmap__contains(map, key)
      PROVE  key \in DOMAIN table
  <2>1. PICK n \in Nodes(map) : n.key = key
    BY <1>1, <1>3, NodeFound
  <2> QED
    BY <1>1, <2>1
<1> QED
  BY <1>2, <1>3

LEMMA EmptyMap ==
    ASSUME NEW Vals, NEW map, NEW c \in Nat \ {0},
           map = [nodes |-> NoChains(c), capacity |-> c]
    PROVE  Represents(map, NoTable, Vals)
<1>1. Chains(NoChains(c), c, Vals)
  BY DEF Chains, NoChains
<1>2. Nodes(map) = {}
  BY DEF Nodes, NoChains
<1> QED
  BY <1>1, <1>2 DEF Represents, NoTable, IsMap

(* A new map is empty, and reserving room for it leaves it so.             *)
LEMMA InitiallyEmpty ==
    ASSUME NEW Vals
    PROVE  /\ Represents(hashmap__init, NoTable, Vals)
           /\ \A capacity \in Nat :
                  Represents(hashmap__reserve(hashmap__init, capacity), NoTable, Vals)
<1>1. Represents(hashmap__init, NoTable, Vals)
  BY CapacityAssumption, EmptyMap DEF hashmap__init
<1>2. ASSUME NEW capacity \in Nat
      PROVE  Represents(hashmap__reserve(hashmap__init, capacity), NoTable, Vals)
  <2> DEFINE map == hashmap__init
             all == FlattenSeq([i \in 1..map.capacity |-> map.nodes[i - 1]])
             N == Len(all)
             moved[n \in 0..N] ==
               IF n = 0 THEN NoChains(capacity)
               ELSE PushFront(moved[n - 1],
                              hashmap__hash(map.capacity, all[n].key), all[n])
  <2>1. CASE capacity <= map.capacity
    BY <1>1, <2>1 DEF hashmap__reserve
  <2>2. CASE ~(capacity <= map.capacity)
    <3>1. map.capacity \in Nat \ {0} /\ Chains(map.nodes, map.capacity, Vals)
          /\ Nodes(map) = {}
      <4> HIDE DEF map
      <4> QED
        BY <1>1 DEF Represents, IsMap, NoTable, map
    <3>2. all \in Seq(Node(Vals)) /\ Range(all) = Nodes(map)
      <4> HIDE DEF map
      <4> QED
        BY <3>1, AllNodes
    <3>3. hashmap__reserve(map, capacity) = [nodes |-> moved[N], capacity |-> capacity]
      BY <2>2 DEF hashmap__reserve, Moved
    <3>4. N = 0
      <4> HIDE DEF all
      <4> QED
        <5>1. Len(all) \in Nat /\ DOMAIN all = 1..Len(all)
          BY <3>2
        <5>2. \A k \in DOMAIN all : all[k] \in Range(all)
          BY DEF Range
        <5>3. \A k \in DOMAIN all : FALSE
          <6> HIDE DEF map
          <6> QED
            BY <3>1, <3>2, <5>2
        <5> QED
          BY <5>1, <5>3
    <3>5. moved[N] = NoChains(capacity)
      <4> HIDE DEF all, map
      <4>1. moved = [n \in 0..N |-> IF n = 0 THEN NoChains(capacity)
               ELSE PushFront(moved[n - 1],
                              hashmap__hash(map.capacity, all[n].key), all[n])]
        <5> DEFINE Eq(f) == f = [n \in 0..N |-> IF n = 0 THEN NoChains(capacity)
               ELSE PushFront(f[n - 1],
                              hashmap__hash(map.capacity, all[n].key), all[n])]
        <5>1. Eq([n \in 0..0 |-> NoChains(capacity)])
          BY <3>4
        <5>2. Eq(CHOOSE f : Eq(f))
          <6> HIDE DEF Eq
          <6> QED
            BY <5>1
        <5> QED
          BY <5>2
      <4> HIDE DEF moved
      <4> QED
        BY <3>4, <4>1
    <3>6. capacity \in Nat \ {0}
      BY <2>2, <3>1
    <3> QED
      BY <3>3, <3>5, <3>6, EmptyMap
  <2> QED
    BY <2>1, <2>2
<1> QED
  BY <1>1, <1>2

(* A new key is added to the table, whether the map has to grow or not.    *)
LEMMA PutAdds ==
    ASSUME NEW Vals, NEW map, NEW table, Represents(map, table, Vals),
           NEW key \in Nat, key \notin DOMAIN table, NEW value \in Vals
    PROVE  Represents(hashmap__put(map, key, value), With(table, key, value), Vals)
<1> DEFINE roomy == IF 4 * (Size(map) + 1) >= 3 * map.capacity
                    THEN hashmap__rehash(map) ELSE map
           c == roomy.capacity
           node == [key |-> key, value |-> value]
           more == PushFront(roomy.nodes, hashmap__hash(c, key), node)
           new == [nodes |-> more, capacity |-> c]
<1>1. /\ IsMap(map, Vals) /\ DOMAIN table \subseteq Nat
      /\ Nodes(map) = {[key |-> k, value |-> table[k]] : k \in DOMAIN table}
  BY DEF Represents
<1>2. /\ roomy = [nodes |-> roomy.nodes, capacity |-> c]
      /\ c \in Nat \ {0} /\ Chains(roomy.nodes, c, Vals) /\ Nodes(roomy) = Nodes(map)
  <2>1. CASE roomy = map
    BY <1>1, <2>1 DEF IsMap
  <2>2. CASE roomy = hashmap__rehash(map)
    <3> HIDE DEF roomy
    <3>1. map.capacity \in Nat \ {0} /\ 2 * map.capacity \in Nat \ {0}
          /\ Chains(map.nodes, map.capacity, Vals)
      BY <1>1 DEF IsMap
    <3>2. roomy = Moved(map, 2 * map.capacity, 2 * map.capacity)
      BY <2>2 DEF hashmap__rehash
    <3>3. /\ roomy = [nodes |-> roomy.nodes, capacity |-> 2 * map.capacity]
          /\ Chains(roomy.nodes, 2 * map.capacity, Vals) /\ Nodes(roomy) = Nodes(map)
      BY <3>1, <3>2, MovedNodes
    <3>4. c = 2 * map.capacity
      BY <3>3
    <3> QED
      BY <3>1, <3>3, <3>4
  <2> QED
    BY <2>1, <2>2
<1>3. hashmap__put(map, key, value) = new
  <2>1. hashmap__put(map, key, value) = [roomy EXCEPT !.nodes = more]
    BY DEF hashmap__put
  <2> HIDE DEF roomy, more
  <2> QED
    BY <1>2, <2>1
<1>4. node \in Node(Vals) /\ node.key = key
  BY DEF Node
<1> HIDE DEF roomy, node, c
<1>5. /\ Chains(more, c, Vals)
      /\ Nodes([nodes |-> more]) = Nodes([nodes |-> roomy.nodes]) \union {node}
  BY <1>2, <1>4, Prepended
<1> HIDE DEF more
<1>6. Nodes(new) = Nodes(map) \union {node}
  <2>1. Nodes(new) = Nodes([nodes |-> more])
    BY SameChains
  <2>2. Nodes(roomy) = Nodes([nodes |-> roomy.nodes])
    BY SameChains
  <2> QED
    BY <1>2, <1>5, <2>1, <2>2
<1>7. new = [nodes |-> new.nodes, capacity |-> new.capacity]
      /\ new.capacity = c /\ new.nodes = more
  OBVIOUS
<1> HIDE DEF new
<1>8. \A n \in Nodes(map) : n.key # key
  BY <1>1
<1>9. IsMap(new, Vals)
  BY <1>1, <1>2, <1>4, <1>5, <1>6, <1>7, <1>8 DEF IsMap
<1> DEFINE T == With(table, key, value)
<1>10. /\ DOMAIN T = DOMAIN table \union {key}
       /\ T[key] = value
       /\ \A k \in DOMAIN table : T[k] = table[k]
  BY DEF With
<1> HIDE DEF T
<1>11. Nodes(new) = {[key |-> k, value |-> T[k]] : k \in DOMAIN T}
  BY <1>1, <1>6, <1>10 DEF node
<1>12. DOMAIN T \subseteq Nat
  BY <1>1, <1>10
<1> QED
  BY <1>3, <1>9, <1>11, <1>12 DEF Represents, T

(* Writing through the pointer that get returns changes one entry.         *)
LEMMA ChangeUpdates ==
    ASSUME NEW Vals, NEW map, NEW table, Represents(map, table, Vals),
           NEW key \in DOMAIN table, NEW value \in Vals
    PROVE  Represents(Changed(map, key, value), [table EXCEPT ![key] = value], Vals)
<1> DEFINE nodes == map.nodes
           c == map.capacity
           h == hashmap__hash(c, key)
           To(n) == IF n.key = key THEN [n EXCEPT !.value = value] ELSE n
           chain == [k \in DOMAIN nodes[h] |-> To(nodes[h][k])]
           more == [nodes EXCEPT ![h] = chain]
           new == [nodes |-> more, capacity |-> c]
<1>1. /\ IsMap(map, Vals) /\ DOMAIN table \subseteq Nat /\ key \in Nat
      /\ Nodes(map) = {[key |-> k, value |-> table[k]] : k \in DOMAIN table}
  BY DEF Represents
<1>2. /\ map = [nodes |-> nodes, capacity |-> c]
      /\ c \in Nat \ {0} /\ Chains(nodes, c, Vals)
  BY <1>1 DEF IsMap
<1>3. Changed(map, key, value) = new
  <2>1. Changed(map, key, value) = [map EXCEPT !.nodes[h] = chain]
    BY DEF Changed
  <2> HIDE DEF chain, nodes, c, h
  <2> QED
    BY <1>2, <2>1
<1>4. h \in 0..(c - 1)
  BY <1>1, <1>2, HashInRange
<1>5. nodes \in [0..(c - 1) -> Seq(Node(Vals))]
      /\ \A i \in 0..(c - 1) : \A k \in 1..Len(nodes[i]) :
            nodes[i][k] \in Node(Vals) /\ hashmap__hash(c, nodes[i][k].key) = i
  BY <1>2 DEF Chains
<1> HIDE DEF nodes, c, h
<1>6. \A n \in Node(Vals) : To(n) \in Node(Vals) /\ To(n).key = n.key
  BY DEF Node
<1> HIDE DEF To
<1>7. /\ chain \in Seq(Node(Vals)) /\ Len(chain) = Len(nodes[h])
      /\ \A k \in 1..Len(nodes[h]) : chain[k] = To(nodes[h][k])
  <2>1. nodes[h] \in Seq(Node(Vals)) /\ DOMAIN nodes[h] = 1..Len(nodes[h])
        /\ Len(nodes[h]) \in Nat
    BY <1>4, <1>5
  <2>2. \A k \in 1..Len(nodes[h]) : To(nodes[h][k]) \in Node(Vals)
    BY <1>4, <1>5, <1>6
  <2> QED
    BY <2>1, <2>2
<1> HIDE DEF chain
<1>8. /\ more \in [0..(c - 1) -> Seq(Node(Vals))]
      /\ \A i \in 0..(c - 1) : i # h => more[i] = nodes[i]
      /\ more[h] = chain
  BY <1>4, <1>5, <1>7
<1> HIDE DEF more
<1>9. \A i \in 0..(c - 1) :
         /\ Len(more[i]) = Len(nodes[i])
         /\ \A k \in 1..Len(nodes[i]) : more[i][k] = To(nodes[i][k])
  <2> SUFFICES ASSUME NEW i \in 0..(c - 1)
               PROVE  /\ Len(more[i]) = Len(nodes[i])
                      /\ \A k \in 1..Len(nodes[i]) : more[i][k] = To(nodes[i][k])
    OBVIOUS
  <2>1. CASE i = h
    BY <1>7, <1>8, <2>1
  <2>2. CASE i # h
    <3>1. more[i] = nodes[i]
      BY <1>8, <2>2
    <3>2. ASSUME NEW k \in 1..Len(nodes[i]) PROVE To(nodes[i][k]) = nodes[i][k]
      <4>1. nodes[i][k].key # key
        BY <1>5, <2>2 DEF h
      <4> QED
        BY <4>1 DEF To
    <3> QED
      BY <3>1, <3>2
  <2> QED
    BY <2>1, <2>2
<1>10. Chains(more, c, Vals)
  BY <1>5, <1>6, <1>8, <1>9 DEF Chains
<1>11. \A x : x \in Nodes(new) <=> \E n \in Nodes(map) : x = To(n)
  <2>1. \A x : x \in Nodes(new) <=>
           \E i \in 0..(c - 1) : \E k \in 1..Len(more[i]) : x = more[i][k]
    <3>1. Nodes(new) = Nodes([nodes |-> more])
      BY SameChains
    <3>2. LieIn(Nodes([nodes |-> more]), more, c)
      BY <1>10, NodesOfChains
    <3> QED
      BY <3>1, <3>2 DEF LieIn
  <2>2. \A x : x \in Nodes(map) <=>
           \E i \in 0..(c - 1) : \E k \in 1..Len(nodes[i]) : x = nodes[i][k]
    <3>1. Nodes(map) = Nodes([nodes |-> nodes])
      BY SameChains DEF nodes
    <3>2. LieIn(Nodes([nodes |-> nodes]), nodes, c)
      BY <1>2, NodesOfChains
    <3> QED
      BY <3>1, <3>2 DEF LieIn
  <2> HIDE DEF new
  <2> QED
    BY <1>9, <2>1, <2>2
<1> DEFINE T == [table EXCEPT ![key] = value]
<1>12. /\ DOMAIN T = DOMAIN table
       /\ T[key] = value
       /\ \A k \in DOMAIN table : k # key => T[k] = table[k]
  OBVIOUS
<1> HIDE DEF T, new
<1>13. \A k \in DOMAIN table :
          To([key |-> k, value |-> table[k]]) = [key |-> k, value |-> T[k]]
  BY <1>12 DEF To
<1>14. Nodes(new) = {[key |-> k, value |-> T[k]] : k \in DOMAIN T}
  <2>1. ASSUME NEW x \in Nodes(new)
        PROVE  \E k \in DOMAIN T : x = [key |-> k, value |-> T[k]]
    <3>1. PICK n \in Nodes(map) : x = To(n)
      BY <1>11
    <3>2. PICK k \in DOMAIN table : n = [key |-> k, value |-> table[k]]
      BY <1>1
    <3> QED
      BY <1>12, <1>13, <3>1, <3>2
  <2>2. ASSUME NEW k \in DOMAIN T
        PROVE  [key |-> k, value |-> T[k]] \in Nodes(new)
    <3>1. [key |-> k, value |-> table[k]] \in Nodes(map)
      BY <1>1, <1>12
    <3> QED
      BY <1>11, <1>12, <1>13, <3>1
  <2> QED
    BY <2>1, <2>2
<1>15. \A m, n \in Nodes(new) : m.key = n.key => m = n
  BY <1>14
<1>16. IsMap(new, Vals)
  BY <1>2, <1>10, <1>15 DEF IsMap, new
<1> QED
  BY <1>1, <1>3, <1>12, <1>14, <1>16 DEF Represents, T

-----------------------------------------------------------------------------
(* The configuration.                                                      *)

Counters == {[counter |-> c, def |-> Definition(c)] : c \in hwcpipe_counter}

LEMMA DefinitionTyped ==
    ASSUME NEW c
    PROVE  /\ Definition(c) \in [tag : {"hardware", "invalid"},
                                 type : BlockTypes, offset : Nat]
           /\ Definition(c).tag = "hardware" => Definition(c).type = "memory"
  BY DEF Definition, BlockTypes, MaliExtBusWrBt, MaliExtBusRdBt, MaliExtBusRd,
     MaliExtBusWr

(* The two counters that the module is sent are next to no other one.      *)
LEMMA BeatDefinitions ==
    \A c \in BeatCounters :
       /\ c \in hwcpipe_counter
       /\ Definition(c).tag = "hardware" /\ Definition(c).type = "memory"
       /\ Definition(c).offset = IF c = MaliExtBusRdBt THEN 32 ELSE 47
       /\ (Definition(c).offset \div 4) \in MMU_L2_MASK
  BY DEF BeatCounters, Definition, MaliExtBusWrBt, MaliExtBusRdBt, MaliExtBusRd,
     MaliExtBusWr, MMU_L2_MASK, hwcpipe_counter

LEMMA TypeNumbers ==
    /\ \A type \in BlockTypes : TypeNo[type] \in 0..3
    /\ \A type, other \in BlockTypes :
          TypeNo[type] = TypeNo[other] => type = other
    /\ \A n \in 0..3 : \E type \in BlockTypes : TypeNo[type] = n
  BY DEF TypeNo, BlockTypes

(* A sequence with an element in front.                                    *)
LEMMA InFront ==
    ASSUME NEW S, NEW s \in Seq(S), NEW x \in S, NEW t, t = <<x>> \o s
    PROVE  /\ t \in Seq(S) /\ Len(t) = Len(s) + 1 /\ t[1] = x
           /\ \A k \in 1..Len(s) : t[k + 1] = s[k]
           /\ \A k \in DOMAIN t : k = 1 \/ (k - 1 \in DOMAIN s /\ t[k] = s[k - 1])
<1>1. /\ t \in Seq(S) /\ Len(t) = Len(s) + 1 /\ t[1] = x
      /\ \A k \in 1..Len(s) : t[k + 1] = s[k]
  OBVIOUS
<1>2. DOMAIN t = 1..(Len(s) + 1) /\ DOMAIN s = 1..Len(s) /\ Len(s) \in Nat
  BY <1>1
<1>3. ASSUME NEW k \in DOMAIN t
      PROVE  k = 1 \/ (k - 1 \in DOMAIN s /\ t[k] = s[k - 1])
  <2>1. CASE k # 1
    <3>1. k - 1 \in 1..Len(s) /\ (k - 1) + 1 = k
      BY <1>2, <2>1
    <3>2. t[(k - 1) + 1] = s[k - 1]
      BY <1>1, <3>1
    <3> QED
      BY <1>2, <3>1, <3>2
  <2> QED
    BY <2>1
<1> QED
  BY <1>1, <1>3

(* The added counters are known ones, each added once.                     *)
CountersInv ==
    /\ to_add \in Seq(hwcpipe_counter)
    /\ counters_ \in Seq(Counters)
    /\ \A j, k \in DOMAIN counters_ :
          counters_[j].counter = counters_[k].counter => j = k
    /\ main = "gpu" => counters_ = <<>>

Config == [type : BlockTypes, map : SUBSET Nat]

(* The configuration of the back-end has an entry for each type of block,  *)
(* and in it at least the offsets of the counters that were added.         *)
IsConfig(T) ==
    /\ Represents(backend_config_, T, Config)
    /\ DOMAIN T = 0..3
    /\ \A type \in BlockTypes : T[TypeNo[type]].type = type
    /\ \A k \in DOMAIN counters_ :
          counters_[k].def.offset \in T[TypeNo[counters_[k].def.type]].map

ConfigInv == main # "gpu" => \E T : IsConfig(T)

(* What is configured of the cache is enabled in the driver.               *)
EnabledInv ==
    (IsSetUp /\ \E k \in DOMAIN counters_ : counters_[k].def.type = "memory") =>
        enabled["memory"] = MMU_L2_MASK

ConfigurationInv == CountersInv /\ ConfigInv /\ EnabledInv

LEMMA AllTypesMapped ==
    ASSUME NEW Vals, NEW empty, \A type \in BlockTypes : empty[type] \in Vals
    PROVE  \E T : /\ Represents(WithAllTypes(empty), T, Vals)
                  /\ DOMAIN T = 0..3
                  /\ \A type \in BlockTypes : T[TypeNo[type]] = empty[type]
<1> DEFINE m0 == hashmap__init
           m1 == hashmap__put(m0, 0, empty["fe"])
           m2 == hashmap__put(m1, 1, empty["tiler"])
           m3 == hashmap__put(m2, 2, empty["memory"])
           m4 == hashmap__put(m3, 3, empty["core"])
           T1 == With(NoTable, 0, empty["fe"])
           T2 == With(T1, 1, empty["tiler"])
           T3 == With(T2, 2, empty["memory"])
           T4 == With(T3, 3, empty["core"])
<1>1. WithAllTypes(empty) = m4
  BY DEF WithAllTypes, TypeNo
<1>2. /\ empty["fe"] \in Vals /\ empty["tiler"] \in Vals
      /\ empty["memory"] \in Vals /\ empty["core"] \in Vals
  BY DEF BlockTypes
<1>3. Represents(m0, NoTable, Vals)
  BY InitiallyEmpty
<1> HIDE DEF m0
<1>4. Represents(m1, T1, Vals)
  BY <1>2, <1>3, PutAdds DEF NoTable
<1>5. DOMAIN T1 = {0} /\ T1[0] = empty["fe"]
  BY DEF With, NoTable
<1> HIDE DEF m1, T1
<1>6. Represents(m2, T2, Vals)
  BY <1>2, <1>4, <1>5, PutAdds
<1>7. DOMAIN T2 = {0, 1} /\ T2[0] = empty["fe"] /\ T2[1] = empty["tiler"]
  BY <1>5 DEF With
<1> HIDE DEF m2, T2
<1>8. Represents(m3, T3, Vals)
  BY <1>2, <1>6, <1>7, PutAdds
<1>9. DOMAIN T3 = {0, 1, 2} /\ T3[0] = empty["fe"] /\ T3[1] = empty["tiler"]
      /\ T3[2] = empty["memory"]
  BY <1>7 DEF With
<1> HIDE DEF m3, T3
<1>10. Represents(m4, T4, Vals)
  BY <1>2, <1>8, <1>9, PutAdds
<1>11. DOMAIN T4 = 0..3 /\ T4[0] = empty["fe"] /\ T4[1] = empty["tiler"]
       /\ T4[2] = empty["memory"] /\ T4[3] = empty["core"]
  BY <1>9 DEF With
<1> HIDE DEF m4, T4
<1>12. \A type \in BlockTypes : T4[TypeNo[type]] = empty[type]
  BY <1>11 DEF TypeNo, BlockTypes
<1> QED
  BY <1>1, <1>10, <1>11, <1>12

LEMMA ConfigurationInit == Init => ConfigurationInv
<1> SUFFICES ASSUME Init PROVE ConfigurationInv
  OBVIOUS
<1>1. to_add \in Seq(hwcpipe_counter)
  <2>1. device \in Devices /\ to_add \in CounterLists[device]
    BY DEF Init, InstanceInit
  <2> QED
    BY <2>1, SamplerAssumption
<1>2. CountersInv
  <2>1. counters_ = <<>> /\ DOMAIN counters_ = {}
    BY DEF Init
  <2> QED
    BY <1>1, <2>1 DEF CountersInv
<1> QED
  BY <1>2 DEF Init, ConfigurationInv, ConfigInv, EnabledInv, IsSetUp

(* The empty configuration.                                                *)
LEMMA ConfigInitialized ==
    ASSUME ConfigurationInv, sampler_config__init
    PROVE  ConfigurationInv'
<1>1. /\ main = "gpu" /\ main' = "config" /\ counters_ = <<>>
      /\ UNCHANGED <<to_add, counters_>>
      /\ backend_config_' = EmptyConfig
  BY DEF sampler_config__init, MainAt, ConfigurationInv, CountersInv
<1>2. CountersInv'
  BY <1>1 DEF ConfigurationInv, CountersInv
<1> DEFINE empty == [type \in BlockTypes |-> [type |-> type, map |-> {}]]
<1>3. \A type \in BlockTypes : /\ empty[type] \in Config
                               /\ empty[type].type = type
  BY DEF Config
<1>4. EmptyConfig = WithAllTypes(empty)
  BY DEF EmptyConfig
<1> HIDE DEF empty
<1>5. PICK T : /\ Represents(EmptyConfig, T, Config)
               /\ DOMAIN T = 0..3
               /\ \A type \in BlockTypes : T[TypeNo[type]] = empty[type]
  BY <1>3, <1>4, AllTypesMapped
<1>6. ConfigInv'
  BY <1>1, <1>3, <1>5 DEF ConfigInv, IsConfig
<1> QED
  BY <1>1, <1>2, <1>6 DEF ConfigurationInv, EnabledInv, IsSetUp

(* A counter is added to the set and to the entry of its type of block.    *)
LEMMA CounterAdded ==
    ASSUME ConfigurationInv, sampler_config__add_counter
    PROVE  ConfigurationInv'
<1> DEFINE counter == Head(to_add)
           definition == Definition(counter)
           key == TypeNo[definition.type]
           config == hashmap__get(backend_config_, key)
           rc == [counter |-> counter, def |-> definition]
           new == [config EXCEPT !.map = @ \union {definition.offset}]
           Added == \E k \in DOMAIN counters_ : counters_[k].counter = counter
<1>1. /\ main = "config" /\ main' = main /\ to_add # <<>>
      /\ to_add' = Tail(to_add)
      /\ \/ Added /\ UNCHANGED <<counters_, backend_config_>>
         \/ /\ ~Added /\ counters_' = <<rc>> \o counters_
            /\ backend_config_' = Changed(backend_config_, key, new)
  BY DEF sampler_config__add_counter, MainAt
<1>2. to_add \in Seq(hwcpipe_counter) /\ counters_ \in Seq(Counters)
  BY DEF ConfigurationInv, CountersInv
<1>3. counter \in hwcpipe_counter /\ to_add' \in Seq(hwcpipe_counter)
  <2>1. to_add # <<>> /\ to_add' = Tail(to_add) /\ to_add \in Seq(hwcpipe_counter)
    BY <1>1, <1>2
  <2> QED
    BY <2>1, HeadTailProperties
<1> HIDE DEF counter
<1>4. rc \in Counters /\ rc.counter = counter /\ rc.def = definition
  BY <1>3 DEF Counters
<1>5. definition.type \in BlockTypes /\ definition.offset \in Nat
  BY DefinitionTyped
<1> HIDE DEF definition, rc, new, Added
<1>6. CASE Added
  BY <1>1, <1>3, <1>6 DEF ConfigurationInv, CountersInv, ConfigInv, EnabledInv,
     IsSetUp, IsConfig, Added
<1>7. CASE ~Added
  <2>1. counters_' = <<rc>> \o counters_
        /\ backend_config_' = Changed(backend_config_, key, new)
    BY <1>1, <1>7
  <2>2. /\ counters_' \in Seq(Counters) /\ counters_'[1] = rc
        /\ \A k \in DOMAIN counters_' :
              k = 1 \/ (k - 1 \in DOMAIN counters_
                        /\ counters_'[k] = counters_[k - 1])
    BY <1>2, <1>4, <2>1, InFront
  <2>3. CountersInv'
    <3>1. ASSUME NEW j \in DOMAIN counters_', NEW k \in DOMAIN counters_',
                 counters_'[j].counter = counters_'[k].counter
          PROVE  j = k
      <4>1. DOMAIN counters_' \subseteq Int
        BY <2>2
      <4>2. CASE j # 1 /\ k # 1
        <5>1. j - 1 \in DOMAIN counters_ /\ k - 1 \in DOMAIN counters_
              /\ counters_[j - 1].counter = counters_[k - 1].counter
          BY <2>2, <3>1, <4>2
        <5>2. j - 1 = k - 1
          BY <5>1 DEF ConfigurationInv, CountersInv
        <5> QED
          BY <4>1, <5>2
      <4>3. ASSUME NEW l \in DOMAIN counters_', l # 1
            PROVE  counters_'[l].counter # counters_'[1].counter
        BY <1>4, <1>7, <2>2, <4>3 DEF Added
      <4> QED
        BY <3>1, <4>2, <4>3
    <3> QED
      BY <1>1, <1>3, <2>2, <3>1 DEF CountersInv
  <2>4. PICK T : IsConfig(T)
    BY <1>1 DEF ConfigurationInv, ConfigInv
  <2>5. key \in DOMAIN T /\ config = T[key] /\ T[key] \in Config
    BY <1>5, <2>4, TypeNumbers, TableFound DEF IsConfig
  <2>6. new \in Config /\ new.type = T[key].type
        /\ new.map = T[key].map \union {definition.offset}
    BY <1>5, <2>5 DEF Config, new
  <2> DEFINE U == [T EXCEPT ![key] = new]
  <2>7. Represents(backend_config_', U, Config)
    BY <2>1, <2>4, <2>5, <2>6, ChangeUpdates DEF IsConfig
  <2>8. /\ DOMAIN U = 0..3 /\ U[key] = new
        /\ \A n \in 0..3 : n # key => U[n] = T[n]
    BY <2>4, <2>5 DEF IsConfig
  <2> HIDE DEF U, config
  <2>9. \A n \in 0..3 : U[n].type = T[n].type /\ T[n].map \subseteq U[n].map
    BY <2>5, <2>6, <2>8
  <2>10. \A type \in BlockTypes : U[TypeNo[type]].type = type
    BY <2>4, <2>9, TypeNumbers DEF IsConfig
  <2>11. ASSUME NEW k \in DOMAIN counters_'
         PROVE  counters_'[k].def.offset \in U[TypeNo[counters_'[k].def.type]].map
    <3>1. CASE k = 1
      BY <1>4, <2>2, <2>6, <2>8, <3>1
    <3>2. CASE k # 1
      <4>1. k - 1 \in DOMAIN counters_ /\ counters_'[k] = counters_[k - 1]
        BY <2>2, <3>2
      <4>2. counters_[k - 1] \in Counters
        BY <1>2, <4>1
      <4>3. counters_[k - 1].def.type \in BlockTypes
        <5>1. PICK c \in hwcpipe_counter : counters_[k - 1] = [counter |-> c,
                                                      def |-> Definition(c)]
          BY <4>2 DEF Counters
        <5> QED
          BY <5>1, DefinitionTyped
      <4> QED
        BY <2>4, <2>9, <4>1, <4>3, TypeNumbers DEF IsConfig
    <3> QED
      BY <3>1, <3>2
  <2>12. ConfigInv'
    BY <2>7, <2>8, <2>10, <2>11 DEF ConfigInv, IsConfig
  <2> QED
    BY <1>1, <2>3, <2>12 DEF ConfigurationInv, EnabledInv, IsSetUp
<1> QED
  BY <1>6, <1>7

(* Setting the reader up enables what is configured of the cache.          *)
LEMMA MemoryEnabled ==
    ASSUME ConfigurationInv, vinstr_setup
    PROVE  ConfigurationInv'
<1>1. main = "mapping" /\ main' \in {"mapping", "start"}
      /\ UNCHANGED <<to_add, counters_, backend_config_>>
  BY DEF vinstr_setup, MainAt, configVars
<1>2. CountersInv' /\ ConfigInv'
  BY <1>1 DEF ConfigurationInv, CountersInv, ConfigInv, IsConfig
<1> SUFFICES ASSUME main' = "start",
                    NEW k \in DOMAIN counters_, counters_[k].def.type = "memory"
             PROVE  enabled'["memory"] = MMU_L2_MASK
  BY <1>1, <1>2 DEF ConfigurationInv, EnabledInv, IsSetUp
<1> DEFINE configs == {node.value : node \in Nodes(backend_config_)}
           types == {config.type : config \in {c \in configs : c.map # {}}}
           MapOf(type) == hashmap__get(backend_config_, TypeNo[type]).map
<1>3. enabled' = [type \in BlockTypes |->
                     IF type \notin types THEN {}
                     ELSE IF type = "memory" THEN MMU_L2_MASK
                     ELSE convert_by_mask(MapOf(type))]
  BY <1>1, Zenon DEF vinstr_setup
<1>4. PICK T : IsConfig(T)
  BY <1>1 DEF ConfigurationInv, ConfigInv
<1>5. counters_[k].def.offset \in T[2].map /\ T[2].type = "memory" /\ 2 \in DOMAIN T
  BY <1>4 DEF IsConfig, TypeNo, BlockTypes
<1>6. [key |-> 2, value |-> T[2]] \in Nodes(backend_config_)
  BY <1>4, <1>5 DEF IsConfig, Represents
<1>7. T[2] \in configs
  BY <1>6
<1> HIDE DEF configs, MapOf
<1>8. "memory" \in types
  BY <1>5, <1>7
<1> HIDE DEF types
<1> QED
  BY <1>3, <1>8 DEF BlockTypes

(* Everything else leaves the configuration alone.                         *)
LEMMA ConfigurationStep ==
    ConfigurationInv /\ [Next]_vars => ConfigurationInv'
<1> SUFFICES ASSUME ConfigurationInv, [Next]_vars PROVE ConfigurationInv'
  OBVIOUS
<1>1. CASE sampler_config__init \/ sampler_config__add_counter \/ vinstr_setup
  BY <1>1, ConfigInitialized, CounterAdded, MemoryEnabled
<1>2. ASSUME UNCHANGED <<configVars, enabled>>, main' = "gpu" <=> main = "gpu",
             IsSetUp' => IsSetUp
      PROVE  ConfigurationInv'
  BY <1>2 DEF ConfigurationInv, CountersInv, ConfigInv, EnabledInv, IsConfig,
     configVars
<1>3. ASSUME OpenDevice \/ DeviceFails \/ sampler__init \/ ReserveMappings
             \/ MapCounter \/ StartBackend \/ SetInProgress
             \/ sampler__stop_sampling
      PROVE  ConfigurationInv'
  <2>1. /\ UNCHANGED <<configVars, enabled>>
        /\ main' = "gpu" <=> main = "gpu"
        /\ IsSetUp' => IsSetUp
    BY <1>3 DEF OpenDevice, DeviceFails, sampler__init, ReserveMappings,
       MapCounter, StartBackend, SetInProgress, sampler__stop_sampling,
       StopBackend, ClearInProgress, MainAt, setupVars, IsSetUp
  <2> QED
    BY <1>2, <2>1
<1>4. ASSUME HandleUsr1 \/ GpuTraffic \/ TimePasses \/ DriverRefuses
             \/ UNCHANGED vars
      PROVE  ConfigurationInv'
  <2>1. UNCHANGED <<configVars, enabled, main>>
    BY <1>4 DEF HandleUsr1, sampler__sample_now, CollectSample, DeliverSample,
       GpuTraffic, TimePasses, DriverRefuses, setupVars, vars
  <2>2. (IsSetUp' <=> IsSetUp) /\ (main' = "gpu" <=> main = "gpu")
    BY <2>1 DEF IsSetUp
  <2> QED
    BY <1>2, <2>1, <2>2
<1> QED
  BY <1>1, <1>3, <1>4 DEF Next, StartUp

-----------------------------------------------------------------------------
(* The mappings.                                                           *)

BlockEntry == [offset : Nat, pos : Nat]

(* The entries of a type of block, when P has the positions of counters.   *)
Entries(P, number) ==
    {[offset |-> Definition(c).offset, pos |-> P[c]] :
        c \in {c \in DOMAIN P : TypeNo[Definition(c).type] = number}}

(* The first n of the added counters have been taken from to_map.          *)
Pending(n) ==
    /\ n \in 0..Len(counters_)
    /\ Len(to_map) = Len(counters_) - n
    /\ \A k \in 1..Len(to_map) : to_map[k] = counters_[n + k]

HardwareAmong(n) ==
    {counters_[k].counter :
        k \in {k \in 1..n : counters_[k].def.tag = "hardware"}}

OwnPositions(P) ==
    /\ \A c \in DOMAIN P : P[c] \in 1..Len(sample_buffer_)
    /\ \A c, d \in DOMAIN P : P[c] = P[d] => c = d

HasEntries(T, P) ==
    /\ DOMAIN T = 0..3
    /\ \A number \in 0..3 : T[number] = Entries(P, number)

(* The hardware ones among them have positions of their own, under which   *)
(* both maps find them.                                                    *)
IsMapping(n, P, T) ==
    /\ Pending(n)
    /\ Represents(counter_to_buffer_pos_, P, Nat)
    /\ DOMAIN P = HardwareAmong(n)
    /\ OwnPositions(P)
    /\ Represents(counters_by_block_map_, T, SUBSET BlockEntry)
    /\ HasEntries(T, P)

IsMapped == main \in {"mapping", "start", "started", "paused", "stopping"}

MappingInv ==
    /\ sample_buffer_ \in Seq(Nat) /\ to_map \in Seq(Counters)
    /\ ~IsMapped => sample_buffer_ = <<>>
    /\ IsMapped => \E n, P, T : IsMapping(n, P, T)
    /\ IsSetUp => to_map = <<>>

LEMMA MappingReserved ==
    ASSUME ConfigurationInv, MappingInv, ReserveMappings
    PROVE  MappingInv'
<1>1. /\ main = "sampler" /\ main' = "mapping"
      /\ counter_to_buffer_pos_' = hashmap__reserve(hashmap__init, Len(counters_))
      /\ counters_by_block_map_' = EmptyBlockMap
      /\ to_map' = counters_ /\ counters_' = counters_
      /\ sample_buffer_' = sample_buffer_
  BY DEF ReserveMappings, MainAt, configVars, sampleVars
<1>2. counters_ \in Seq(Counters) /\ Len(counters_) \in Nat
  BY DEF ConfigurationInv, CountersInv
<1>3. Represents(counter_to_buffer_pos_', NoTable, Nat)
  BY <1>1, <1>2, InitiallyEmpty
<1> DEFINE empty == [type \in BlockTypes |-> {}]
<1>4. \A type \in BlockTypes : empty[type] = {} /\ empty[type] \in SUBSET BlockEntry
  OBVIOUS
<1>5. EmptyBlockMap = WithAllTypes(empty)
  BY DEF EmptyBlockMap
<1> HIDE DEF empty
<1>6. PICK T : /\ Represents(EmptyBlockMap, T, SUBSET BlockEntry)
               /\ DOMAIN T = 0..3
               /\ \A type \in BlockTypes : T[TypeNo[type]] = empty[type]
  BY <1>4, <1>5, AllTypesMapped
<1>7. \A number \in 0..3 : T[number] = {}
  BY <1>4, <1>6, TypeNumbers
<1>8. /\ DOMAIN NoTable = {} /\ \A number \in 0..3 : Entries(NoTable, number) = {}
  BY DEF NoTable, Entries
<1>9. \A k \in 1..Len(counters_) : counters_[k] = counters_[0 + k]
  BY <1>2
<1>10. Pending(0)' /\ HardwareAmong(0)' = {}
  BY <1>1, <1>2, <1>9 DEF Pending, HardwareAmong
<1>11. OwnPositions(NoTable)' /\ HasEntries(T, NoTable)
  BY <1>6, <1>7, <1>8 DEF OwnPositions, HasEntries
<1>12. IsMapping(0, NoTable, T)'
  BY <1>1, <1>3, <1>6, <1>8, <1>10, <1>11 DEF IsMapping
<1> QED
  BY <1>1, <1>2, <1>12 DEF MappingInv, IsMapped, IsSetUp

LEMMA CounterMapped ==
    ASSUME ConfigurationInv, MappingInv, MapCounter
    PROVE  MappingInv'
<1> DEFINE rc == Head(to_map)
           pos == Len(sample_buffer_) + 1
           key == TypeNo[rc.def.type]
           entry == [offset |-> rc.def.offset, pos |-> pos]
           entries == hashmap__get(counters_by_block_map_, key) \union {entry}
           Hardware == rc.def.tag = "hardware"
<1>1. /\ main = "mapping" /\ main' = main /\ to_map # <<>>
      /\ to_map' = Tail(to_map) /\ counters_' = counters_
  BY DEF MapCounter, MainAt, configVars
<1>2. \/ /\ Hardware
         /\ counter_to_buffer_pos_' =
                hashmap__put(counter_to_buffer_pos_, rc.counter, pos)
         /\ counters_by_block_map_' = Changed(counters_by_block_map_, key, entries)
         /\ sample_buffer_' = Append(sample_buffer_, 0)
      \/ /\ ~Hardware
         /\ UNCHANGED <<counter_to_buffer_pos_, counters_by_block_map_,
                        sample_buffer_>>
  BY DEF MapCounter
<1>3. PICK n, P, T : IsMapping(n, P, T)
  BY <1>1 DEF MappingInv, IsMapped
<1>4. /\ counters_ \in Seq(Counters) /\ Len(counters_) \in Nat
      /\ to_map \in Seq(Counters) /\ Len(to_map) \in Nat
      /\ sample_buffer_ \in Seq(Nat) /\ Len(sample_buffer_) \in Nat
      /\ \A j, k \in 1..Len(counters_) :
            counters_[j].counter = counters_[k].counter => j = k
  BY DEF ConfigurationInv, CountersInv, MappingInv
<1>5. /\ to_map' \in Seq(Counters) /\ Len(to_map') = Len(to_map) - 1
      /\ \A k \in 1..Len(to_map') : to_map'[k] = to_map[k + 1]
      /\ rc = to_map[1] /\ Len(to_map) > 0
  BY <1>1, <1>4, HeadTailProperties
<1> HIDE DEF rc
<1>6. /\ n \in Nat /\ n + 1 \in 1..Len(counters_) /\ rc = counters_[n + 1]
      /\ rc \in Counters
      /\ Len(to_map') = Len(counters_) - (n + 1)
      /\ \A k \in 1..Len(to_map') : to_map'[k] = counters_[(n + 1) + k]
  <2>1. n \in 0..Len(counters_) /\ Len(to_map) = Len(counters_) - n
        /\ \A k \in 1..Len(to_map) : to_map[k] = counters_[n + k]
    BY <1>3 DEF IsMapping, Pending
  <2>2. n + 1 \in 1..Len(counters_) /\ rc = counters_[n + 1]
        /\ Len(to_map') = Len(counters_) - (n + 1)
    BY <1>4, <1>5, <2>1
  <2>3. ASSUME NEW k \in 1..Len(to_map')
        PROVE  to_map'[k] = counters_[(n + 1) + k]
    <3>1. k + 1 \in 1..Len(to_map) /\ n + (k + 1) = (n + 1) + k
      BY <1>4, <1>5, <2>1
    <3> QED
      BY <1>5, <2>1, <3>1
  <2> QED
    BY <1>4, <2>1, <2>2, <2>3
<1>7. PICK c \in hwcpipe_counter : rc.counter = c /\ rc.def = Definition(c)
  <2>1. PICK c \in hwcpipe_counter : rc = [counter |-> c, def |-> Definition(c)]
    BY <1>6 DEF Counters
  <2> QED
    BY <2>1
<1>8. \A k : k \in 1..(n + 1) <=> k \in 1..n \/ k = n + 1
  BY <1>6
<1>9. Pending(n + 1)'
  <2>1. n + 1 \in 0..Len(counters_)
    BY <1>4, <1>6
  <2> QED
    BY <1>1, <1>6, <2>1 DEF Pending
<1>10. CASE ~Hardware
  <2>1. UNCHANGED <<counter_to_buffer_pos_, counters_by_block_map_, sample_buffer_>>
    BY <1>2, <1>10
  <2>2. HardwareAmong(n + 1)' = HardwareAmong(n)
    BY <1>1, <1>6, <1>8, <1>10 DEF HardwareAmong
  <2> HIDE DEF Hardware
  <2>3. OwnPositions(P)'
    BY <1>3, <2>1 DEF IsMapping, OwnPositions
  <2>4. IsMapping(n + 1, P, T)'
    BY <1>3, <1>9, <2>1, <2>2, <2>3 DEF IsMapping
  <2> QED
    BY <1>1, <1>4, <1>5, <2>1, <2>4 DEF MappingInv, IsMapped, IsSetUp
<1>11. CASE Hardware
  <2>1. /\ counter_to_buffer_pos_' = hashmap__put(counter_to_buffer_pos_, c, pos)
        /\ counters_by_block_map_' = Changed(counters_by_block_map_, key, entries)
        /\ sample_buffer_' = Append(sample_buffer_, 0)
    BY <1>2, <1>7, <1>11
  <2>2. rc.def.type = "memory" /\ rc.def.offset \in Nat /\ key = 2
    BY <1>7, <1>11, DefinitionTyped DEF TypeNo
  <2>3. c \notin DOMAIN P
    <3>1. ASSUME NEW k \in 1..n PROVE counters_[k].counter # c
      <4>1. k \in 1..Len(counters_) /\ n + 1 \in 1..Len(counters_) /\ k # n + 1
        BY <1>4, <1>6
      <4>2. counters_[n + 1].counter = c
        BY <1>6, <1>7
      <4> QED
        BY <1>4, <4>1, <4>2
    <3> QED
      BY <1>3, <3>1 DEF IsMapping, HardwareAmong
  <2>4. /\ sample_buffer_' \in Seq(Nat) /\ pos \in Nat
        /\ Len(sample_buffer_') = pos
    BY <1>4, <2>1
  <2> DEFINE Whole == With(P, c, pos)
  <2>5. PICK Q : Q = Whole
    OBVIOUS
  <2>6. /\ DOMAIN Q = DOMAIN P \union {c} /\ Q[c] = pos
        /\ \A d \in DOMAIN P : Q[d] = P[d]
    BY <2>3, <2>5 DEF With
  <2>7. Represents(counter_to_buffer_pos_', Q, Nat)
    <3>1. Represents(counter_to_buffer_pos_, P, Nat) /\ c \in Nat
      BY <1>3, <1>7 DEF IsMapping, hwcpipe_counter
    <3>2. Represents(hashmap__put(counter_to_buffer_pos_, c, pos),
                     With(P, c, pos), Nat)
      BY <2>3, <2>4, <3>1, PutAdds
    <3> QED
      BY <2>1, <2>5, <3>2
  <2> HIDE DEF Whole
  <2>8. entries = T[2] \union {entry} /\ entries \in SUBSET BlockEntry
    <3>1. Represents(counters_by_block_map_, T, SUBSET BlockEntry) /\ 2 \in DOMAIN T
      BY <1>3 DEF IsMapping, HasEntries
    <3>2. hashmap__get(counters_by_block_map_, 2) = T[2]
          /\ T[2] \in SUBSET BlockEntry
      BY <3>1, TableFound
    <3>3. entry \in BlockEntry
      BY <2>2, <2>4 DEF BlockEntry
    <3> HIDE DEF entry
    <3> QED
      BY <2>2, <3>2, <3>3
  <2> HIDE DEF entries
  <2>9. PICK U : U = [T EXCEPT ![2] = entries]
    OBVIOUS
  <2>10. Represents(counters_by_block_map_', U, SUBSET BlockEntry)
    <3>1. Represents(counters_by_block_map_, T, SUBSET BlockEntry) /\ 2 \in DOMAIN T
      BY <1>3 DEF IsMapping, HasEntries
    <3> QED
      BY <2>1, <2>2, <2>8, <2>9, <3>1, ChangeUpdates
  <2>11. /\ DOMAIN U = 0..3 /\ U[2] = T[2] \union {entry}
        /\ \A number \in 0..3 : number # 2 => U[number] = T[number]
    BY <1>3, <2>8, <2>9 DEF IsMapping, HasEntries
  <2>12. \A number \in 0..3 : U[number] = Entries(Q, number)
    <3>1. TypeNo[Definition(c).type] = 2 /\ Definition(c).offset = rc.def.offset
      BY <1>7, <2>2
    <3>2. ASSUME NEW number \in 0..3, number # 2
          PROVE  Entries(Q, number) = Entries(P, number)
      BY <2>6, <3>1, <3>2 DEF Entries
    <3>3. Entries(Q, 2) = Entries(P, 2) \union {entry}
      BY <2>3, <2>6, <3>1 DEF Entries
    <3> HIDE DEF entry
    <3> QED
      BY <1>3, <2>11, <3>2, <3>3 DEF IsMapping, HasEntries
  <2>13. DOMAIN Q = HardwareAmong(n + 1)'
    <3>1. DOMAIN P = HardwareAmong(n)
      BY <1>3 DEF IsMapping
    <3>2. HardwareAmong(n + 1)' = HardwareAmong(n) \union {c}
      BY <1>1, <1>6, <1>7, <1>8, <1>11 DEF HardwareAmong
    <3> QED
      BY <2>6, <3>1, <3>2
  <2>14. OwnPositions(Q)'
    <3>1. OwnPositions(P)
      BY <1>3 DEF IsMapping
    <3> HIDE DEF pos
    <3>2. ASSUME NEW d \in DOMAIN P
          PROVE  Q[d] \in 1..Len(sample_buffer_') /\ Q[d] # pos
      <4>1. Q[d] \in 1..Len(sample_buffer_)
        BY <2>6, <3>1 DEF OwnPositions
      <4> QED
        BY <1>4, <2>4, <4>1 DEF pos
    <3>3. pos \in 1..Len(sample_buffer_')
      BY <1>4, <2>4 DEF pos
    <3>4. ASSUME NEW d \in DOMAIN Q, NEW e \in DOMAIN Q, Q[d] = Q[e]
          PROVE  d = e
      BY <2>6, <3>1, <3>2, <3>4 DEF OwnPositions
    <3> QED
      BY <2>6, <3>2, <3>3, <3>4 DEF OwnPositions
  <2> HIDE DEF key, pos, Hardware
  <2>15. IsMapping(n + 1, Q, U)'
    <3>1. HasEntries(U, Q)
      BY <2>11, <2>12 DEF HasEntries
    <3> QED
      BY <1>9, <2>7, <2>10, <2>13, <2>14, <3>1 DEF IsMapping
  <2> QED
    BY <1>1, <1>5, <2>4, <2>15 DEF MappingInv, IsMapped, IsSetUp
<1> QED
  BY <1>10, <1>11

-----------------------------------------------------------------------------
(* Adding up the blocks of a sample.                                       *)

(* What is mapped to a position, in the blocks of a type, and what it adds *)
(* to the accumulator there.                                               *)
Found(type, pos) ==
    {m \in hashmap__get(counters_by_block_map_, TypeNo[type]) : m.pos = pos}

BlockSum(values, entry, pos) ==
    SumFunction([m \in Found(entry.type, pos) |->
                    BlockValue(values, entry.offset, m.offset)])

PositionSum(values, pos) ==
    SumFunction([entry \in layout_ |-> BlockSum(values, entry, pos)])

LEMMA FilledByPosition ==
    ASSUME NEW values
    PROVE  Filled(values) =
               [pos \in DOMAIN sample_buffer_ |->
                   Cleared(sample_buffer_[pos]) + PositionSum(values, pos)]
  BY DEF Filled, PositionSum, BlockSum, Found

LEMMA BlockValueTyped ==
    ASSUME NEW values \in [Cells -> Values], NEW position, NEW offset
    PROVE  BlockValue(values, position, offset) \in Nat
  BY BackendAssumption DEF BlockValue, Values

LEMMA SumOfOne ==
    ASSUME NEW x, NEW f, DOMAIN f = {x}, f[x] \in Nat
    PROVE  SumFunction(f) = f[x]
<1>1. IsFiniteSet({x}) /\ {x} \ {x} = {}
  BY FS_Singleton
<1>2. SumFunctionOnSet(f, {x}) = f[x] + SumFunctionOnSet(f, {x} \ {x})
  BY <1>1, SumOfMore
<1>3. SumFunctionOnSet(f, {}) = 0
  BY SumOfNone
<1> QED
  BY <1>1, <1>2, <1>3 DEF SumFunction

(* Every counter with a position is one of the memory system's.            *)
LEMMA MappedInMemory ==
    ASSUME ConfigurationInv, NEW n, NEW P, NEW T, IsMapping(n, P, T)
    PROVE  /\ DOMAIN P \subseteq hwcpipe_counter
           /\ \A c \in DOMAIN P : Definition(c).type = "memory"
<1> SUFFICES ASSUME NEW c \in DOMAIN P
             PROVE  c \in hwcpipe_counter /\ Definition(c).type = "memory"
  OBVIOUS
<1>1. n \in 0..Len(counters_) /\ DOMAIN P = HardwareAmong(n)
  BY DEF IsMapping, Pending
<1>2. PICK k \in 1..n : /\ counters_[k].def.tag = "hardware"
                        /\ counters_[k].counter = c
  BY <1>1 DEF HardwareAmong
<1>3. counters_ \in Seq(Counters) /\ Len(counters_) \in Nat
  BY DEF ConfigurationInv, CountersInv
<1>4. counters_[k] \in Counters
  <2>1. k \in 1..Len(counters_)
    BY <1>1, <1>3
  <2> QED
    BY <1>3, <2>1
<1>5. PICK d \in hwcpipe_counter : counters_[k] = [counter |-> d, def |-> Definition(d)]
  BY <1>4 DEF Counters
<1>6. d = c /\ Definition(c).tag = "hardware"
  BY <1>2, <1>5
<1> QED
  BY <1>6, DefinitionTyped

(* A position belongs to one counter, which is read in every block of the  *)
(* memory system and in no other.                                          *)
LEMMA FoundAt ==
    ASSUME ConfigurationInv, NEW n, NEW P, NEW T, IsMapping(n, P, T),
           NEW pos, NEW type \in BlockTypes
    PROVE  /\ \A c \in DOMAIN P : P[c] = pos =>
                 Found(type, pos) =
                     IF type = "memory"
                     THEN {[offset |-> Definition(c).offset, pos |-> pos]}
                     ELSE {}
           /\ (\A c \in DOMAIN P : P[c] # pos) => Found(type, pos) = {}
<1>1. TypeNo[type] \in 0..3
  BY TypeNumbers
<1>2. /\ Represents(counters_by_block_map_, T, SUBSET BlockEntry)
      /\ DOMAIN T = 0..3
      /\ T[TypeNo[type]] = Entries(P, TypeNo[type])
      /\ OwnPositions(P)
  BY <1>1 DEF IsMapping, HasEntries
<1>3. hashmap__get(counters_by_block_map_, TypeNo[type]) =
          Entries(P, TypeNo[type])
  BY <1>1, <1>2, TableFound
<1>4. Found(type, pos) = {m \in Entries(P, TypeNo[type]) : m.pos = pos}
  BY <1>3 DEF Found
<1>5. \A c \in DOMAIN P : Definition(c).type = "memory"
  BY MappedInMemory
<1>6. TypeNo["memory"] = TypeNo[type] <=> type = "memory"
  BY TypeNumbers DEF BlockTypes
<1>7. ASSUME type # "memory" PROVE Found(type, pos) = {}
  BY <1>4, <1>5, <1>6, <1>7 DEF Entries
<1>8. ASSUME type = "memory"
      PROVE  Found(type, pos) = {[offset |-> Definition(c).offset, pos |-> pos] :
                                     c \in {c \in DOMAIN P : P[c] = pos}}
  BY <1>4, <1>5, <1>8 DEF Entries
<1>9. ASSUME NEW c \in DOMAIN P, P[c] = pos
      PROVE  {d \in DOMAIN P : P[d] = pos} = {c}
  BY <1>2, <1>9 DEF OwnPositions
<1>10. (\A c \in DOMAIN P : P[c] # pos) => {d \in DOMAIN P : P[d] = pos} = {}
  OBVIOUS
<1> HIDE DEF Found
<1> QED
  BY <1>7, <1>8, <1>9, <1>10

LEMMA BlockSumAt ==
    ASSUME ConfigurationInv, NEW n, NEW P, NEW T, IsMapping(n, P, T),
           NEW values \in [Cells -> Values], NEW pos,
           NEW entry, entry.type \in BlockTypes
    PROVE  /\ BlockSum(values, entry, pos) \in Nat
           /\ \A c \in DOMAIN P : P[c] = pos =>
                 BlockSum(values, entry, pos) =
                     IF entry.type = "memory"
                     THEN BlockValue(values, entry.offset, Definition(c).offset)
                     ELSE 0
<1> DEFINE found == Found(entry.type, pos)
           f == [m \in found |-> BlockValue(values, entry.offset, m.offset)]
<1>1. BlockSum(values, entry, pos) = SumFunction(f)
  BY DEF BlockSum
<1>2. ASSUME found = {} PROVE SumFunction(f) = 0
  <2>1. DOMAIN f = {}
    BY <1>2
  <2> HIDE DEF f
  <2> QED
    BY <2>1, SumOfNone DEF SumFunction
<1>3. ASSUME NEW m, found = {m}
      PROVE  /\ SumFunction(f) = BlockValue(values, entry.offset, m.offset)
             /\ SumFunction(f) \in Nat
  <2>1. DOMAIN f = {m} /\ f[m] = BlockValue(values, entry.offset, m.offset)
    BY <1>3
  <2>2. f[m] \in Nat
    BY <2>1, BlockValueTyped
  <2> HIDE DEF f
  <2> QED
    BY <2>1, <2>2, SumOfOne
<1>4. ASSUME NEW c \in DOMAIN P, P[c] = pos
      PROVE  /\ BlockSum(values, entry, pos) =
                     IF entry.type = "memory"
                     THEN BlockValue(values, entry.offset, Definition(c).offset)
                     ELSE 0
             /\ BlockSum(values, entry, pos) \in Nat
  <2> DEFINE m == [offset |-> Definition(c).offset, pos |-> pos]
  <2>1. found = IF entry.type = "memory" THEN {m} ELSE {}
    BY <1>4, FoundAt
  <2>2. m.offset = Definition(c).offset
    OBVIOUS
  <2> HIDE DEF m, found, f
  <2>3. CASE entry.type = "memory"
    <3>1. found = {m}
      BY <2>1, <2>3
    <3>2. /\ SumFunction(f) = BlockValue(values, entry.offset, m.offset)
          /\ SumFunction(f) \in Nat
      BY <1>3, <3>1
    <3> QED
      BY <1>1, <2>2, <2>3, <3>2
  <2>4. CASE entry.type # "memory"
    BY <1>1, <1>2, <2>1, <2>4
  <2> QED
    BY <2>3, <2>4
<1>5. ASSUME \A c \in DOMAIN P : P[c] # pos
      PROVE  BlockSum(values, entry, pos) \in Nat
  <2>1. found = {}
    BY <1>5, FoundAt
  <2> HIDE DEF found, f
  <2> QED
    BY <1>1, <1>2, <2>1
<1> QED
  BY <1>4, <1>5

LEMMA FiniteImage ==
    ASSUME NEW S, IsFiniteSet(S), NEW f
    PROVE  IsFiniteSet({f[x] : x \in S})
<1> DEFINE T == {f[x] : x \in S}
           g == [x \in S |-> f[x]]
<1>1. g \in Surjection(S, T)
  BY DEF Surjection
<1> HIDE DEF g, T
<1>2. IsFiniteSet(T)
  BY <1>1, FS_Surjection
<1> QED
  BY <1>2 DEF T

(* The reader's blocks are finitely many, of the four types.               *)
LEMMA LayoutTyped ==
    ASSUME DeviceInv, LayoutInv, IsSetUp
    PROVE  /\ IsFiniteSet(layout_)
           /\ \A e \in layout_ : e.type \in BlockTypes /\ e.offset \in Nat
<1> DEFINE v4 == is_v4_layout(constants.gpu_id)
           slices == Number(constants.num_l2_slices)
           mask == constants.shader_core_mask
           extents(types) == filter_block_extents(
               construct_block_extents(v4, slices, constants.num_shader_cores),
               types)
<1>1. PICK types : layout_ = Layout(v4, extents(types), slices, mask)
  BY DEF LayoutInv
<1>2. slices \in Nat /\ mask \in SUBSET (0..63)
  BY NumberTyped DEF DeviceInv, DeviceTypeInv
<1> HIDE DEF v4, slices, mask, extents
<1> DEFINE Fe == {Entry("fe", 0, 0)}
           Tiler == {Entry("tiler", 0, 1)}
           MemoryAt(i) == Entry("memory", i, MemoryOffset(i))
           Memory == {MemoryAt(i) : i \in 0..((slices % 256) - 1)}
           CoreAt(i) == Entry("core", Cardinality({j \in mask : j < i}),
                              CoreOffset(slices, mask, i))
           Core == {CoreAt(i) : i \in mask}
           all == Fe \union Tiler \union Memory \union Core
<1>3. layout_ \subseteq all
  BY <1>1 DEF Layout, sample_layout_non_v4, BlocksIf
<1>4. IsFiniteSet(all)
  <2>1. IsFiniteSet(Memory)
    <3>1. (slices % 256) - 1 \in Int
      BY <1>2
    <3>2. IsFiniteSet(0..((slices % 256) - 1))
      BY <3>1, FS_BoundedSetOfNaturals, FS_Interval
    <3> DEFINE f == [i \in 0..((slices % 256) - 1) |-> MemoryAt(i)]
    <3>3. Memory = {f[i] : i \in 0..((slices % 256) - 1)}
      OBVIOUS
    <3> DEFINE I == 0..((slices % 256) - 1)
    <3>4. IsFiniteSet(I) /\ Memory = {f[i] : i \in I}
      BY <3>2, <3>3
    <3> HIDE DEF f, Memory, I
    <3>5. IsFiniteSet({f[i] : i \in I})
      BY <3>4, FiniteImage
    <3> QED
      BY <3>4, <3>5
  <2>2. IsFiniteSet(Core)
    <3>1. IsFiniteSet(mask)
      <4>1. IsFiniteSet(0..63)
        BY FS_BoundedSetOfNaturals
      <4> QED
        BY <1>2, <4>1, FS_Subset
    <3> DEFINE f == [i \in mask |-> CoreAt(i)]
    <3>2. Core = {f[i] : i \in mask}
      OBVIOUS
    <3> HIDE DEF f, Core
    <3> QED
      BY <3>1, <3>2, FiniteImage
  <2>3. IsFiniteSet(Fe) /\ IsFiniteSet(Tiler)
    BY FS_Singleton
  <2> HIDE DEF Fe, Tiler, Memory, Core
  <2>4. IsFiniteSet(Fe \union Tiler) /\ IsFiniteSet(Memory \union Core)
    BY <2>1, <2>2, <2>3, FS_Union
  <2>5. IsFiniteSet((Fe \union Tiler) \union (Memory \union Core))
    BY <2>4, FS_Union
  <2>6. all = (Fe \union Tiler) \union (Memory \union Core)
    OBVIOUS
  <2> QED
    BY <2>5, <2>6
<1>5. ASSUME NEW e \in all PROVE e.type \in BlockTypes /\ e.offset \in Nat
  <2>1. CASE e \in Fe \union Tiler
    BY <2>1 DEF Entry, BlockTypes
  <2>2. CASE e \in Memory
    BY <2>2 DEF Entry, MemoryOffset, BlockTypes
  <2>3. CASE e \in Core
    <3>1. PICK i \in mask : e = CoreAt(i)
      BY <2>3
    <3>2. i \in Nat /\ e.type = "core" /\ e.offset = 2 + slices + i
      BY <1>2, <3>1 DEF Entry, CoreOffset
    <3> QED
      BY <1>2, <3>2 DEF BlockTypes
  <2> QED
    BY <2>1, <2>2, <2>3
<1> HIDE DEF all
<1> QED
  BY <1>3, <1>4, <1>5, FS_Subset

(* What is left of an accumulator is a multiple of the word.               *)
LEMMA ClearedIsMultiple ==
    ASSUME NEW a \in Nat
    PROVE  /\ Cleared(a) \in Nat
           /\ \A b \in Nat : (Cleared(a) + b) % WORD = b % WORD
<1> DEFINE q == a \div WORD
           r == a % WORD
<1>1. WORD \in Nat \ {0}
  BY BackendAssumption
<1>2. q \in Nat /\ r \in 0..(WORD - 1) /\ a = WORD * q + r
  BY <1>1, DivisionWithRemainder
<1>3. Cleared(a) = a - r
  BY DEF Cleared
<1> HIDE DEF q, r
<1> DEFINE m == WORD * q
<1>4. m \in Nat /\ Cleared(a) = m
  <2>1. m \in Int
    BY <1>1, <1>2
  <2>2. a = m + r
    BY <1>2
  <2> HIDE DEF m
  <2> QED
    BY <1>1, <1>2, <1>3, <2>1, <2>2
<1>5. ASSUME NEW b \in Nat PROVE (Cleared(a) + b) % WORD = b % WORD
  <2> DEFINE p == b \div WORD
             s == b % WORD
             sum == m + b
             p2 == sum \div WORD
             s2 == sum % WORD
  <2>1. p \in Nat /\ s \in 0..(WORD - 1) /\ b = WORD * p + s
    BY <1>1, DivisionWithRemainder
  <2>2. sum \in Nat
    BY <1>4
  <2>3. p2 \in Nat /\ s2 \in 0..(WORD - 1) /\ sum = WORD * p2 + s2
    <3> HIDE DEF sum
    <3> QED
      BY <1>1, <2>2, DivisionWithRemainder
  <2>4. sum = m + b
    OBVIOUS
  <2> HIDE DEF p, s, p2, s2, sum
  <2>5. WORD * (q + p) = WORD * q + WORD * p
    BY <1>1, <1>2, <2>1
  <2>6. WORD * (q + p) + s = WORD * p2 + s2
    <3> DEFINE wq == WORD * q
               wp == WORD * p
               wqp == WORD * (q + p)
               wp2 == WORD * p2
    <3>1. wq \in Int /\ wp \in Int /\ wqp \in Int /\ wp2 \in Int
      BY <1>1, <1>2, <2>1, <2>3
    <3>2. wqp = wq + wp /\ b = wp + s /\ sum = wp2 + s2 /\ sum = wq + b
      BY <2>1, <2>3, <2>4, <2>5
    <3> HIDE DEF wq, wp, wqp, wp2
    <3>3. s \in Int /\ s2 \in Int
      BY <1>1, <2>1, <2>3
    <3>4. wqp + s = wp2 + s2
      BY <3>1, <3>2, <3>3
    <3> QED
      BY <3>4 DEF wqp, wp2
  <2>7. q + p \in Int /\ p2 \in Int
    BY <1>2, <2>1, <2>3
  <2>8. s = s2
    BY <1>1, <2>1, <2>3, <2>6, <2>7, RemainderUnique
  <2>9. Cleared(a) + b = sum
    BY <1>4, <2>4
  <2> QED
    BY <2>8, <2>9 DEF s, s2
<1> QED
  BY <1>4, <1>5

LEMMA PositionSumTyped ==
    ASSUME ConfigurationInv, MappingInv, DeviceInv, LayoutInv, IsSetUp,
           NEW values \in [Cells -> Values], NEW pos
    PROVE  PositionSum(values, pos) \in Nat
<1>1. PICK n, P, T : IsMapping(n, P, T)
  BY DEF MappingInv, IsMapped, IsSetUp
<1>2. IsFiniteSet(layout_) /\ \A e \in layout_ : e.type \in BlockTypes
  BY LayoutTyped
<1> DEFINE f == [entry \in layout_ |-> BlockSum(values, entry, pos)]
<1>3. \A e \in layout_ : f[e] \in Nat
  BY <1>1, <1>2, BlockSumAt
<1>4. DOMAIN f = layout_ /\ PositionSum(values, pos) = SumFunction(f)
  BY DEF PositionSum
<1> HIDE DEF f
<1> QED
  BY <1>2, <1>3, <1>4, SumOfMore DEF SumFunction

(* A sample leaves as many accumulators as there were, all of them numbers.*)
LEMMA FilledTyped ==
    ASSUME ConfigurationInv, MappingInv, DeviceInv, LayoutInv, IsSetUp,
           NEW values \in [Cells -> Values]
    PROVE  /\ Filled(values) \in Seq(Nat)
           /\ Len(Filled(values)) = Len(sample_buffer_)
<1> DEFINE At(pos) == Cleared(sample_buffer_[pos]) + PositionSum(values, pos)
           filled == [pos \in 1..Len(sample_buffer_) |-> At(pos)]
<1>1. sample_buffer_ \in Seq(Nat) /\ Len(sample_buffer_) \in Nat
      /\ DOMAIN sample_buffer_ = 1..Len(sample_buffer_)
  BY DEF MappingInv
<1>2. Filled(values) = filled
  BY <1>1, FilledByPosition
<1>3. ASSUME NEW pos \in 1..Len(sample_buffer_) PROVE At(pos) \in Nat
  <2>1. sample_buffer_[pos] \in Nat
    BY <1>1
  <2>2. Cleared(sample_buffer_[pos]) \in Nat /\ PositionSum(values, pos) \in Nat
    BY <2>1, ClearedIsMultiple, PositionSumTyped
  <2> QED
    BY <2>2
<1> HIDE DEF At
<1>4. filled \in Seq(Nat) /\ Len(filled) = Len(sample_buffer_)
  BY <1>1, <1>3
<1> QED
  BY <1>2, <1>4

(* Only a sampler that has been started takes samples.                     *)
StartedInv ==
    /\ active_ => main \in {"started", "paused", "stopping"}
    /\ valid_sample_buffer_ => active_

LEMMA StartedStep ==
    BackendInv /\ StartedInv /\ [Next]_vars => StartedInv'
<1> SUFFICES ASSUME BackendInv, StartedInv, [Next]_vars PROVE StartedInv'
  OBVIOUS
<1> USE DEF StartedInv
<1>1. ASSUME OpenDevice \/ sampler_config__init \/ sampler_config__add_counter
             \/ sampler__init \/ ReserveMappings
      PROVE  StartedInv'
  BY <1>1 DEF OpenDevice, sampler_config__init, sampler_config__add_counter,
     sampler__init, ReserveMappings, MainAt, backendVars, sampleVars
<1>2. ASSUME DeviceFails \/ MapCounter \/ vinstr_setup
      PROVE  StartedInv'
  BY <1>2 DEF DeviceFails, MapCounter, vinstr_setup, MainAt, backendVars,
     sampleVars, Exit
<1>3. ASSUME StartBackend \/ SetInProgress \/ sampler__stop_sampling
      PROVE  StartedInv'
  BY <1>3 DEF StartBackend, SetInProgress, sampler__stop_sampling, StopBackend,
     ClearInProgress, Start, Stop,
     Dump, Exit, MainAt, backendVars, sampleVars
<1>4. ASSUME sampler__sample_now \/ DeliverSample PROVE StartedInv'
  <2>1. UNCHANGED <<main, active_>>
    <3>1. CASE sampler__sample_now
      BY <3>1 DEF sampler__sample_now, RequestSample, Dump, Exit
    <3>2. CASE DeliverSample
      BY <3>2 DEF DeliverSample, PutSample, Exit
    <3> QED
      BY <1>4, <3>1, <3>2
  <2>2. UNCHANGED valid_sample_buffer_
    BY <1>4 DEF sampler__sample_now, DeliverSample, sampleVars
  <2> QED
    BY <2>1, <2>2
<1>5. ASSUME CollectSample PROVE StartedInv'
  <2>1. active_
    BY <1>5 DEF CollectSample, GetSample, BackendInv
  <2> QED
    BY <1>5, <2>1 DEF CollectSample, GetSample, Exit
<1>6. ASSUME GpuTraffic \/ TimePasses \/ DriverRefuses \/ UNCHANGED vars
      PROVE  StartedInv'
  BY <1>6 DEF GpuTraffic, TimePasses, DriverRefuses, Traffic, Tick,
     ReaderRefuses, Exit, vars, backendVars, sampleVars
<1> QED
  BY <1>1, <1>2, <1>3, <1>4, <1>5, <1>6 DEF Next, StartUp, HandleUsr1

(* What a step that fills the sample buffer works with.                    *)
LEMMA SampleTaken ==
    ASSUME BackendInv, StartedInv, CollectSample, place' = "fetched"
    PROVE  /\ main \in {"started", "paused", "stopping"} /\ exited = "no"
           /\ place = "requested"
           /\ held' \in Sample
           /\ held'.values \in [Cells -> Values]
           /\ sample_buffer_' = Filled(held'.values)
           /\ valid_sample_buffer_' = TRUE /\ fetched' = held'.values
           /\ UNCHANGED <<device, constants, layout_, enabled, mappingVars,
                          configVars, main, exited>>
<1>1. place = "requested" /\ exited = "no" /\ unread # <<>>
  BY DEF CollectSample, GetSample
<1>2. GetSample
  BY <1>1 DEF CollectSample, Exit
<1>3. held' = unread[1] /\ exited' = exited
  BY <1>1, <1>2 DEF GetSample, Exit
<1>4. unread \in Seq(Sample)
  BY DEF BackendInv, BackendTypeOK
<1>5. held' \in Sample
  BY <1>1, <1>3, <1>4
<1>6. held'.values \in [Cells -> Values]
  BY <1>5 DEF Sample
<1>7. main \in {"started", "paused", "stopping"}
  BY <1>1 DEF BackendInv, StartedInv
<1> QED
  BY <1>1, <1>3, <1>5, <1>6, <1>7 DEF CollectSample, instanceVars, setupVars

LEMMA MappingInit == Init => MappingInv
<1> SUFFICES ASSUME Init PROVE MappingInv
  OBVIOUS
<1>1. sample_buffer_ = <<>> /\ to_map = <<>> /\ main = "gpu"
  BY DEF Init
<1>2. sample_buffer_ \in Seq(Nat) /\ to_map \in Seq(Counters)
  BY <1>1
<1> QED
  BY <1>1, <1>2 DEF MappingInv, IsMapped, IsSetUp

(* As long as the accumulators and the counters keep their number, and the *)
(* maps stay as they are, every position belongs to the same counter.      *)
LEMMA MappingKept ==
    ASSUME MappingInv, UNCHANGED <<counters_, mappingVars>>,
           IsMapped' <=> IsMapped, IsSetUp' => IsSetUp \/ to_map = <<>>,
           sample_buffer_' \in Seq(Nat),
           Len(sample_buffer_') = Len(sample_buffer_)
    PROVE  MappingInv'
<1>1. ~IsMapped' => sample_buffer_' = <<>>
  <2>1. sample_buffer_ = <<>> => Len(sample_buffer_) = 0
    OBVIOUS
  <2>2. Len(sample_buffer_') = 0 => sample_buffer_' = <<>>
    OBVIOUS
  <2> QED
    BY <2>1, <2>2 DEF MappingInv
<1>2. ASSUME NEW n, NEW P, NEW T, IsMapping(n, P, T) PROVE IsMapping(n, P, T)'
  BY <1>2 DEF IsMapping, Pending, HardwareAmong, OwnPositions, HasEntries,
     mappingVars
<1>3. IsMapped' => \E n, P, T : IsMapping(n, P, T)'
  BY <1>2 DEF MappingInv
<1> QED
  BY <1>1, <1>3 DEF MappingInv, mappingVars

LEMMA MappingStep ==
    /\ ConfigurationInv /\ MappingInv /\ DeviceInv /\ LayoutInv
    /\ BackendInv /\ StartedInv /\ [Next]_vars
    => MappingInv'
<1> SUFFICES ASSUME ConfigurationInv, MappingInv, DeviceInv, LayoutInv,
                    BackendInv, StartedInv, [Next]_vars
             PROVE  MappingInv'
  OBVIOUS
<1>1. CASE ReserveMappings \/ MapCounter
  BY <1>1, MappingReserved, CounterMapped
<1>2. ASSUME UNCHANGED <<mappingVars, sample_buffer_>>, counters_' = counters_,
             IsMapped' <=> IsMapped, IsSetUp' => IsSetUp \/ to_map = <<>>
      PROVE  MappingInv'
  BY <1>2, MappingKept DEF MappingInv
<1>3. ASSUME OpenDevice \/ DeviceFails \/ sampler_config__init \/ sampler__init
             \/ vinstr_setup \/ StartBackend \/ SetInProgress
             \/ sampler__stop_sampling
      PROVE  MappingInv'
  <2>1. UNCHANGED <<mappingVars, sample_buffer_>> /\ counters_' = counters_
    BY <1>3 DEF OpenDevice, DeviceFails, sampler_config__init, sampler__init,
       vinstr_setup, StartBackend, SetInProgress, sampler__stop_sampling,
       StopBackend, ClearInProgress, configVars, sampleVars
  <2>2. /\ IsMapped' <=> IsMapped
        /\ IsSetUp' => IsSetUp \/ to_map = <<>>
    BY <1>3 DEF OpenDevice, DeviceFails, sampler_config__init, sampler__init,
       vinstr_setup, StartBackend, SetInProgress, sampler__stop_sampling,
       StopBackend, ClearInProgress, MainAt, IsMapped, IsSetUp
  <2> QED
    BY <1>2, <2>1, <2>2
<1>4. ASSUME sampler_config__add_counter PROVE MappingInv'
  <2>1. main = "config" /\ UNCHANGED <<main, mappingVars, sample_buffer_>>
    BY <1>4 DEF sampler_config__add_counter, MainAt, sampleVars
  <2> QED
    BY <2>1 DEF MappingInv, IsMapped, IsSetUp, mappingVars
<1>5. ASSUME sampler__sample_now \/ DeliverSample \/ GpuTraffic \/ TimePasses \/ DriverRefuses \/ UNCHANGED vars
      PROVE  MappingInv'
  <2>1. UNCHANGED <<mappingVars, sample_buffer_, counters_, main>>
    BY <1>5 DEF sampler__sample_now, DeliverSample, GpuTraffic, TimePasses, DriverRefuses, configVars, sampleVars, vars
  <2>2. (IsMapped' <=> IsMapped) /\ (IsSetUp' <=> IsSetUp)
    BY <2>1 DEF IsMapped, IsSetUp
  <2> QED
    BY <1>2, <2>1, <2>2
<1>6. ASSUME CollectSample PROVE MappingInv'
  <2>1. UNCHANGED <<mappingVars, counters_, main>>
    BY <1>6 DEF CollectSample, configVars
  <2>2. (IsMapped' <=> IsMapped) /\ (IsSetUp' <=> IsSetUp)
    BY <2>1 DEF IsMapped, IsSetUp
  <2>3. CASE place' # "fetched"
    <3>1. sample_buffer_' = sample_buffer_
      BY <1>6, <2>3 DEF CollectSample
    <3> QED
      BY <1>2, <2>1, <2>2, <3>1
  <2>4. CASE place' = "fetched"
    <3>1. /\ IsSetUp /\ sample_buffer_' = Filled(held'.values)
          /\ held'.values \in [Cells -> Values]
      BY <1>6, <2>4, SampleTaken DEF IsSetUp
    <3>2. /\ sample_buffer_' \in Seq(Nat)
          /\ Len(sample_buffer_') = Len(sample_buffer_)
      BY <3>1, FilledTyped
    <3> QED
      BY <2>1, <2>2, <3>2, MappingKept
  <2> QED
    BY <2>3, <2>4
<1> QED
  BY <1>1, <1>3, <1>4, <1>5, <1>6 DEF Next, StartUp, HandleUsr1

(* Everything that the properties of the samples rest on.                  *)
SamplerInv ==
    /\ DeviceInv /\ BackendInv /\ LayoutInv
    /\ ConfigurationInv /\ MappingInv /\ StartedInv
    /\ main \in {"gpu", "config", "sampler", "mapping", "start", "started",
                 "paused", "stopping"}
    /\ beats \in Int \X Int

LEMMA AsIntTyped == \A n \in Int : AsInt(n) \in Int
  BY ConversionAssumption DEF AsInt

LEMMA KnownInTable ==
    ASSUME ConfigurationInv, NEW n, NEW P, NEW T, IsMapping(n, P, T),
           NEW c \in hwcpipe_counter
    PROVE  /\ Known(c) <=> c \in DOMAIN P
           /\ Known(c) => hashmap__get(counter_to_buffer_pos_, c) = P[c]
<1>1. Represents(counter_to_buffer_pos_, P, Nat) /\ c \in Nat
  BY DEF IsMapping, hwcpipe_counter
<1> QED
  BY <1>1, TableFound DEF Known

(* The value of a counter is an accumulator.                               *)
LEMMA CounterValueTyped ==
    ASSUME ConfigurationInv, MappingInv, IsMapped, NEW c \in BeatCounters, Known(c)
    PROVE  CounterValue(c) \in Nat
<1>1. PICK n, P, T : IsMapping(n, P, T)
  BY DEF MappingInv
<1>2. c \in DOMAIN P /\ hashmap__get(counter_to_buffer_pos_, c) = P[c]
  BY <1>1, BeatDefinitions, KnownInTable
<1>3. P[c] \in 1..Len(sample_buffer_)
  BY <1>1, <1>2 DEF IsMapping, OwnPositions
<1>4. sample_buffer_ \in Seq(Nat)
  BY DEF MappingInv
<1> QED
  BY <1>2, <1>3, <1>4 DEF CounterValue

LEMMA SamplerInit == Init => SamplerInv
<1> SUFFICES ASSUME Init PROVE SamplerInv
  OBVIOUS
<1>1. DeviceInv /\ BackendInv
  BY DeviceInvInit, BackendInitInv DEF Init
<1>2. LayoutInv /\ StartedInv
  BY DEF Init, BackendInit, LayoutInv, StartedInv, IsSetUp
<1>3. ConfigurationInv /\ MappingInv
  BY ConfigurationInit, MappingInit
<1> QED
  BY <1>1, <1>2, <1>3 DEF SamplerInv, Init

LEMMA BackendStep == BackendInv /\ [Next]_vars => BackendInv'
<1>1. [Next]_vars => [BackendNext]_backendVars
  BY SamplerStepIsBackendStep DEF vars
<1> QED
  BY <1>1, BackendStepInv

LEMMA SamplerStep == SamplerInv /\ [Next]_vars => SamplerInv'
<1> SUFFICES ASSUME SamplerInv, [Next]_vars PROVE SamplerInv'
  OBVIOUS
<1>1. /\ DeviceInv /\ BackendInv /\ LayoutInv /\ ConfigurationInv
      /\ MappingInv /\ StartedInv
  BY DEF SamplerInv
<1>2. DeviceInv' /\ BackendInv' /\ LayoutInv'
  BY <1>1, DeviceInvStep, BackendStep, LayoutInvStep
<1>3. ConfigurationInv' /\ MappingInv' /\ StartedInv'
  BY <1>1, ConfigurationStep, MappingStep, StartedStep
<1>4. main' \in {"gpu", "config", "sampler", "mapping", "start", "started",
                 "paused", "stopping"}
  <2>1. ASSUME StartUp \/ sampler__stop_sampling
        PROVE  \/ main' = main
               \/ main' \in {"config", "sampler", "mapping", "start", "started",
                             "paused", "stopping"}
    BY <2>1 DEF StartUp, OpenDevice, DeviceFails, sampler_config__init,
       sampler_config__add_counter, sampler__init, ReserveMappings, MapCounter,
       vinstr_setup, StartBackend, SetInProgress, sampler__stop_sampling,
       StopBackend, ClearInProgress
  <2>2. ASSUME HandleUsr1 \/ GpuTraffic \/ TimePasses \/ DriverRefuses
               \/ UNCHANGED vars
        PROVE  main' = main
    BY <2>2 DEF HandleUsr1, sampler__sample_now, CollectSample, DeliverSample,
       GpuTraffic, TimePasses, DriverRefuses, vars
  <2> QED
    BY <2>1, <2>2 DEF SamplerInv, Next
<1>5. beats' \in Int \X Int
  <2>1. CASE UNCHANGED beats
    BY <2>1 DEF SamplerInv
  <2>2. CASE DeliverSample /\ ~UNCHANGED beats
    <3>1. /\ \A counter \in BeatCounters : Known(counter)
          /\ PutSample
          /\ beats' = <<AsInt(CounterValue(MaliExtBusWrBt)),
                        AsInt(CounterValue(MaliExtBusRdBt))>>
      BY <2>2 DEF DeliverSample
    <3>2. IsMapped
      BY <1>1, <3>1 DEF PutSample, BackendInv, StartedInv, IsMapped
    <3>3. \A counter \in BeatCounters : AsInt(CounterValue(counter)) \in Int
      BY <1>1, <3>1, <3>2, CounterValueTyped, AsIntTyped
    <3> QED
      BY <3>1, <3>3 DEF BeatCounters
  <2>3. DeliverSample \/ UNCHANGED beats
    BY DEF Next, StartUp, HandleUsr1, OpenDevice, DeviceFails,
       sampler_config__init, sampler_config__add_counter, sampler__init,
       ReserveMappings, MapCounter, vinstr_setup, StartBackend, SetInProgress,
       sampler__sample_now, CollectSample, sampler__stop_sampling, StopBackend,
       ClearInProgress, GpuTraffic,
       TimePasses, DriverRefuses, sampleVars, vars
  <2> QED
    BY <2>1, <2>2, <2>3
<1> QED
  BY <1>2, <1>3, <1>4, <1>5 DEF SamplerInv

THEOREM SamplerInvariant == Spec => []SamplerInv
  BY SamplerInit, SamplerStep, PTL DEF Spec

(* The types of the sampler's variables: the driver's property values, the *)
(* buffers and sessions of the back-end, and every accumulator a number,   *)
(* through any number of starts, stops and samples.                        *)
THEOREM SamplerTypeCorrect == Spec => []SamplerTypeOK
<1>1. SamplerInv => SamplerTypeOK
  <2> SUFFICES ASSUME SamplerInv PROVE SamplerTypeOK
    OBVIOUS
  <2>1. InstanceTypeOK
    <3>1. data \in Seq(Bytes)
      BY DEF SamplerInv, DeviceInv, DeviceTypeInv
    <3>2. \A k \in DOMAIN data : data[k] \in Bytes
      BY <3>1
    <3> QED
      BY <3>2 DEF SamplerInv, DeviceInv, DeviceTypeInv, InstanceTypeOK, Bytes
  <2>2. BackendTypeOK
    BY DEF SamplerInv, BackendInv
  <2>3. \A pos \in DOMAIN sample_buffer_ : sample_buffer_[pos] \in Nat
    BY DEF SamplerInv, MappingInv
  <2> QED
    BY <2>1, <2>2, <2>3 DEF SamplerInv, SamplerTypeOK
<1> QED
  BY <1>1, SamplerInvariant, PTL

(* A configured counter of beats is enabled in the driver and has a        *)
(* position that the other one does not share, whatever else is configured,*)
(* how often and in which order, and however the maps had to grow.         *)
THEOREM BeatsStayConfigured == Spec => []BeatsConfigured
<1>1. SamplerInv => BeatsConfigured
  <2> SUFFICES ASSUME SamplerInv, NEW c \in BeatCounters, IsSetUp,
                      NEW k \in DOMAIN counters_, counters_[k].counter = c
               PROVE  /\ (Definition(c).offset \div 4) \in enabled["memory"]
                      /\ Known(c)
                      /\ \A other \in BeatCounters \ {c} :
                            Known(other) =>
                                hashmap__get(counter_to_buffer_pos_, other) #
                                hashmap__get(counter_to_buffer_pos_, c)
    BY DEF BeatsConfigured
  <2>1. ConfigurationInv /\ MappingInv
    BY DEF SamplerInv
  <2>2. counters_ \in Seq(Counters) /\ Len(counters_) \in Nat
        /\ k \in 1..Len(counters_)
    BY <2>1 DEF ConfigurationInv, CountersInv
  <2>3. counters_[k].def = Definition(c)
    <3>1. counters_[k] \in Counters
      BY <2>2
    <3>2. PICK d \in hwcpipe_counter : counters_[k] = [counter |-> d, def |-> Definition(d)]
      BY <3>1 DEF Counters
    <3> QED
      BY <3>2
  <2>4. /\ Definition(c).tag = "hardware" /\ Definition(c).type = "memory"
        /\ (Definition(c).offset \div 4) \in MMU_L2_MASK
    BY BeatDefinitions
  <2>5. enabled["memory"] = MMU_L2_MASK
    BY <2>1, <2>3, <2>4 DEF ConfigurationInv, EnabledInv
  <2>6. PICK n, P, T : IsMapping(n, P, T)
    BY <2>1 DEF MappingInv, IsMapped, IsSetUp
  <2>7. n = Len(counters_)
    <3>1. n \in 0..Len(counters_) /\ Len(to_map) = Len(counters_) - n
          /\ to_map = <<>>
      BY <2>1, <2>6 DEF MappingInv, IsMapping, Pending
    <3> QED
      BY <2>2, <3>1
  <2>8. c \in DOMAIN P
    BY <2>2, <2>3, <2>4, <2>6, <2>7 DEF IsMapping, HardwareAmong
  <2>9. \A other \in BeatCounters :
           /\ Known(other) <=> other \in DOMAIN P
           /\ Known(other) => hashmap__get(counter_to_buffer_pos_, other) = P[other]
    BY <2>1, <2>6, BeatDefinitions, KnownInTable
  <2>10. OwnPositions(P)
    BY <2>6 DEF IsMapping
  <2> QED
    BY <2>4, <2>5, <2>8, <2>9, <2>10 DEF OwnPositions
<1> QED
  BY <1>1, SamplerInvariant, PTL

-----------------------------------------------------------------------------
(* What a sample has counted.                                              *)

SliceCount == Number(Reported(l2_num_l2_slices))

(* Only the first n slices have counted anything.                          *)
CountedIn(n, values) ==
    \A cell \in Cells : ~(cell[1] < n) => values[cell] = 0

(* Nothing is counted in a slice that the device does not have.            *)
TrafficInv ==
    /\ CountedIn(SliceCount, counting)
    /\ \A k \in 1..Len(unread) : CountedIn(SliceCount, unread[k].values)
    /\ CountedIn(SliceCount, held.values)
    /\ CountedIn(SliceCount, fetched)

LEMMA SameDevice ==
    [Next]_vars => device' = device /\ SliceCount' = SliceCount
<1> SUFFICES ASSUME [Next]_vars PROVE device' = device /\ SliceCount' = SliceCount
  OBVIOUS
<1>1. InstanceNext \/ SecondPass \/ UNCHANGED instanceVars
  BY InstanceSteps
<1>2. device' = device
  BY <1>1 DEF InstanceNext, handle__create, instance__version_check,
     instance__set_flags, instance__props_post_r21, prop_decoder__next,
     DeriveConstants, SecondPass, instanceVars
<1> QED
  BY <1>2 DEF SliceCount, Reported

LEMMA NothingCounted == \A n : CountedIn(n, NoTraffic)
  BY DEF CountedIn, NoTraffic

LEMMA TrafficInit == Init => TrafficInv
<1> SUFFICES ASSUME Init PROVE TrafficInv
  OBVIOUS
<1>1. counting = NoTraffic /\ held.values = NoTraffic /\ fetched = NoTraffic
      /\ Len(unread) = 0
  BY DEF Init, BackendInit, NoSample
<1> QED
  BY <1>1, NothingCounted DEF TrafficInv

(* What the steps of the sampler do to the counters and the buffers.       *)
LEMMA BackendEffects ==
    ASSUME [Next]_vars
    PROVE  /\ \/ UNCHANGED counting \/ counting' = NoTraffic \/ GpuTraffic
           /\ \/ UNCHANGED unread
              \/ unread' = Append(unread, [nr |-> dumps + 1, timestamp |-> now,
                                           values |-> counting])
              \/ unread # <<>> /\ unread' = Tail(unread)
           /\ \/ UNCHANGED held \/ held' = NoSample
              \/ unread # <<>> /\ held' = unread[1]
           /\ fetched' = fetched \/ fetched' = held'.values
<1>1. ASSUME OpenDevice \/ DeviceFails \/ sampler_config__init
             \/ sampler_config__add_counter \/ sampler__init \/ ReserveMappings
             \/ MapCounter \/ vinstr_setup \/ StartBackend \/ SetInProgress
      PROVE  /\ UNCHANGED <<unread, held, fetched>>
             /\ UNCHANGED counting \/ counting' = NoTraffic
  BY <1>1 DEF OpenDevice, DeviceFails, sampler_config__init,
     sampler_config__add_counter, sampler__init, ReserveMappings, MapCounter,
     vinstr_setup, StartBackend, SetInProgress, Start, Exit, backendVars,
     sampleVars
<1>2. ASSUME sampler__sample_now \/ sampler__stop_sampling
      PROVE  /\ UNCHANGED <<held, fetched>>
             /\ UNCHANGED counting \/ counting' = NoTraffic
             /\ \/ UNCHANGED unread
                \/ unread' = Append(unread, [nr |-> dumps + 1, timestamp |-> now,
                                             values |-> counting])
  <2>1. UNCHANGED fetched
    BY <1>2 DEF sampler__sample_now, sampler__stop_sampling, StopBackend,
       ClearInProgress, sampleVars
  <2>2. \/ Dump("idle") \/ Dump("requested") \/ UNCHANGED backendVars
        \/ \E reason \in Exits : Exit(reason)
    BY <1>2 DEF sampler__sample_now, sampler__stop_sampling, StopBackend,
       ClearInProgress, Stop, RequestSample,
       Exits
  <2> QED
    BY <2>1, <2>2 DEF Dump, Exit, backendVars
<1>3. ASSUME CollectSample \/ DeliverSample
      PROVE  /\ UNCHANGED counting
             /\ \/ UNCHANGED unread
                \/ unread # <<>> /\ unread' = Tail(unread)
             /\ \/ UNCHANGED held \/ held' = NoSample
                \/ unread # <<>> /\ held' = unread[1]
             /\ fetched' = fetched \/ fetched' = held'.values
  BY <1>3 DEF CollectSample, DeliverSample, GetSample, PutSample, Exit
<1>4. ASSUME GpuTraffic \/ TimePasses \/ DriverRefuses \/ UNCHANGED vars
      PROVE  /\ UNCHANGED <<unread, held, fetched>>
             /\ UNCHANGED counting \/ GpuTraffic
  BY <1>4 DEF GpuTraffic, TimePasses, DriverRefuses, Traffic, Tick,
     ReaderRefuses, Exit, vars, backendVars, sampleVars
<1> QED
  BY <1>1, <1>2, <1>3, <1>4 DEF Next, StartUp, HandleUsr1

LEMMA TrafficStep == BackendInv /\ TrafficInv /\ [Next]_vars => TrafficInv'
<1> SUFFICES ASSUME BackendInv, TrafficInv, [Next]_vars PROVE TrafficInv'
  OBVIOUS
<1> DEFINE n == SliceCount
<1>1. n' = n
  BY SameDevice
<1>2. counting \in [Cells -> Values] /\ unread \in Seq(Sample)
      /\ Len(unread) \in Nat
  BY DEF BackendInv, BackendTypeOK
<1>3. CountedIn(n, counting')
  <2>1. ASSUME GpuTraffic PROVE CountedIn(n, counting')
    <3>1. PICK cell \in Cells :
             /\ cell[1] < n
             /\ counting' = [counting EXCEPT ![cell] =
                    IF @ + Amounts[cell] < WORD THEN @ + Amounts[cell]
                    ELSE WORD - 1]
      BY <2>1 DEF GpuTraffic, Traffic, SliceCount
    <3>2. \A other \in Cells : other # cell => counting'[other] = counting[other]
      BY <1>2, <3>1
    <3> HIDE DEF n
    <3> QED
      BY <3>1, <3>2 DEF TrafficInv, CountedIn, n
  <2> QED
    BY <2>1, BackendEffects, NothingCounted DEF TrafficInv
<1>4. unread # <<>> => CountedIn(n, unread[1].values)
  <2>1. unread # <<>> => 1 \in 1..Len(unread)
    BY <1>2
  <2> QED
    BY <2>1 DEF TrafficInv
<1>5. CountedIn(n, held'.values)
  <2>1. NoSample.values = NoTraffic
    BY DEF NoSample
  <2> QED
    BY <1>4, <2>1, BackendEffects, NothingCounted DEF TrafficInv
<1>6. CountedIn(n, fetched')
  BY <1>5, BackendEffects DEF TrafficInv
<1>7. \A k \in 1..Len(unread') : CountedIn(n, unread'[k].values)
  <2>1. CASE UNCHANGED unread
    BY <2>1 DEF TrafficInv
  <2>2. ASSUME NEW s, s.values = counting, unread' = Append(unread, s),
               NEW k \in 1..Len(unread')
        PROVE  CountedIn(n, unread'[k].values)
    <3>1. k \in 1..Len(unread) \/ k = Len(unread) + 1
      BY <1>2, <2>2
    <3>2. CASE k \in 1..Len(unread)
      <4>1. unread'[k] = unread[k]
        BY <1>2, <2>2, <3>2
      <4> QED
        BY <3>2, <4>1 DEF TrafficInv
    <3>3. CASE k = Len(unread) + 1
      <4>1. unread'[k] = s
        BY <1>2, <2>2, <3>3
      <4> QED
        BY <2>2, <4>1 DEF TrafficInv
    <3> QED
      BY <3>1, <3>2, <3>3
  <2>3. ASSUME unread # <<>>, unread' = Tail(unread), NEW k \in 1..Len(unread')
        PROVE  CountedIn(n, unread'[k].values)
    <3>1. unread'[k] = unread[k + 1] /\ k + 1 \in 1..Len(unread)
      BY <1>2, <2>3
    <3> QED
      BY <3>1 DEF TrafficInv
  <2> DEFINE s == [nr |-> dumps + 1, timestamp |-> now, values |-> counting]
  <2>4. s.values = counting
    OBVIOUS
  <2>5. \/ UNCHANGED unread \/ unread' = Append(unread, s)
        \/ unread # <<>> /\ unread' = Tail(unread)
    BY BackendEffects
  <2> HIDE DEF s
  <2> QED
    BY <2>1, <2>2, <2>3, <2>4, <2>5
<1> HIDE DEF n
<1> QED
  BY <1>1, <1>3, <1>5, <1>6, <1>7 DEF TrafficInv, n

(* The slices of every device fit into the array of entries.              *)
FewSlices ==
    \A d \in Devices :
        Number(ReportedBy(d, l2_num_l2_slices)) \in 0..MAX_BLOCKS_MEMORY

(* In a supported device the blocks of the memory system lie on end, each  *)
(* at a place of its own.                                                  *)
LEMMA SlicesOnEnd ==
    ASSUME FewSlices, SamplerInv, SlicesReadOnce, IsSetUp, SupportedDevice,
           enabled["memory"] # {}
    PROVE  /\ SliceCount \in Nat
           /\ {e.offset : e \in {e \in layout_ : e.type = "memory"}} =
                  2..(1 + SliceCount)
           /\ \A e, f \in layout_ : e.offset = f.offset => e = f
<1>1. SliceCount \in Nat
  BY DEF SamplerInv, DeviceInv, DecodeInv, FewSlices, SliceCount, Reported
<1> DEFINE memory == {e \in layout_ : e.type = "memory"}
           offsets == {e.offset : e \in layout_}
           Offset == [e \in layout_ |-> e.offset]
<1>2. /\ {e.offset : e \in memory} = 2..(1 + SliceCount)
      /\ Cardinality(offsets) = Cardinality(layout_)
  BY DEF SlicesReadOnce, SliceCount
<1>3. IsFiniteSet(layout_)
  BY LayoutTyped DEF SamplerInv
<1>4. Offset \in Surjection(layout_, offsets)
  BY DEF Surjection
<1>5. Offset \in Injection(layout_, offsets)
  <2> HIDE DEF Offset, offsets
  <2> QED
    BY <1>2, <1>3, <1>4, FS_Surjection
<1>6. \A e, f \in layout_ : e.offset = f.offset => e = f
  BY <1>5 DEF Injection, IsInjective
<1> QED
  BY <1>1, <1>2, <1>6

LEMMA CellsOfOffset ==
    ASSUME NEW values \in [Cells -> Values], NEW offset,
           CountedIn(SliceCount, values)
    PROVE  LET all == {cell \in Cells : cell[2] = offset}
               own == {cell \in all : cell[1] < SliceCount}
           IN  SumFunctionOnSet(values, all) = SumFunctionOnSet(values, own)
<1> DEFINE all == {cell \in Cells : cell[2] = offset}
           own == {cell \in all : cell[1] < SliceCount}
<1>1. IsFiniteSet(all)
  BY SamplerAssumption, FS_Subset
<1>2. \A cell \in all : values[cell] \in Nat
  BY BackendAssumption DEF Values
<1>3. own \in SUBSET all /\ \A cell \in all \ own : values[cell] = 0
  BY DEF CountedIn
<1> HIDE DEF all, own
<1> QED
  BY <1>1, <1>2, <1>3, SumWithoutZeros DEF all, own

(* The sum over the blocks of the memory system is the sum over the cells. *)
LEMMA BlocksAreCells ==
    ASSUME NEW layout, IsFiniteSet(layout),
           \A e \in layout : e.offset \in Nat,
           \A e, f \in layout : e.offset = f.offset => e = f,
           SliceCount \in Nat,
           {e.offset : e \in {e \in layout : e.type = "memory"}} =
               2..(1 + SliceCount),
           NEW values \in [Cells -> Values], CountedIn(SliceCount, values),
           NEW offset, NEW f,
           \A e \in layout :
              f[e] = IF e.type = "memory"
                     THEN BlockValue(values, e.offset, offset) ELSE 0
    PROVE  SumFunctionOnSet(f, layout) =
               SumFunctionOnSet(values, {cell \in Cells : cell[2] = offset})
<1> DEFINE CellOf(e) == <<e.offset - 2, offset>>
           read == {e \in layout : e.type = "memory" /\ CellOf(e) \in Cells}
           own == {cell \in {cell \in Cells : cell[2] = offset} :
                      cell[1] < SliceCount}
           h == [e \in read |-> CellOf(e)]
<1>1. \A e \in layout : f[e] \in Nat
  BY BlockValueTyped
<1>2. read \in SUBSET layout /\ \A e \in layout \ read : f[e] = 0
  BY DEF BlockValue
<1>3. SumFunctionOnSet(f, layout) = SumFunctionOnSet(f, read)
  <2> HIDE DEF read
  <2> QED
    BY <1>1, <1>2, SumWithoutZeros
<1>4. \A e \in read : f[e] \in Nat /\ values[h[e]] = f[e]
  BY <1>1 DEF BlockValue
<1>5. \A e, d \in read : h[e] = h[d] => e = d
  <2> SUFFICES ASSUME NEW e \in read, NEW d \in read, h[e] = h[d] PROVE e = d
    OBVIOUS
  <2>1. e.offset - 2 = d.offset - 2
    OBVIOUS
  <2>2. e.offset \in Nat /\ d.offset \in Nat /\ e \in layout /\ d \in layout
    OBVIOUS
  <2>3. e.offset = d.offset
    BY <2>1, <2>2
  <2> QED
    BY <2>2, <2>3
<1>6. {h[e] : e \in read} = own
  <2>1. ASSUME NEW e \in read PROVE h[e] \in own
    <3>1. e.offset \in 2..(1 + SliceCount)
      OBVIOUS
    <3>2. h[e] = CellOf(e) /\ CellOf(e) \in Cells
          /\ CellOf(e)[1] = e.offset - 2 /\ CellOf(e)[2] = offset
      OBVIOUS
    <3> HIDE DEF h, read, CellOf
    <3>3. e.offset - 2 < SliceCount
      BY <3>1
    <3> QED
      BY <3>2, <3>3
  <2>2. ASSUME NEW cell \in own PROVE \E e \in read : h[e] = cell
    <3>1. /\ cell \in Nat \X Nat /\ cell \in Cells
          /\ cell[2] = offset /\ cell[1] < SliceCount
      BY SamplerAssumption
    <3>2. cell[1] + 2 \in 2..(1 + SliceCount)
      BY <3>1
    <3>3. PICK e \in layout : e.type = "memory" /\ e.offset = cell[1] + 2
      <4>1. cell[1] + 2 \in {e.offset : e \in {e \in layout : e.type = "memory"}}
        BY <3>2
      <4> QED
        BY <4>1
    <3>4. CellOf(e) = cell
      BY <3>1, <3>3
    <3>5. e \in read /\ h[e] = cell
      BY <3>1, <3>3, <3>4
    <3> QED
      BY <3>5
  <2> HIDE DEF h, read, own
  <2> QED
    BY <2>1, <2>2
<1>7. IsFiniteSet(read)
  BY FS_Subset
<1> HIDE DEF h, read, own
<1>8. SumFunctionOnSet(f, read) = SumFunctionOnSet(values, {h[e] : e \in read})
  BY <1>4, <1>5, <1>7, SumRenamed
<1>9. SumFunctionOnSet(values, {cell \in Cells : cell[2] = offset}) =
          SumFunctionOnSet(values, own)
  BY CellsOfOffset DEF own
<1> QED
  BY <1>3, <1>6, <1>8, <1>9

(* Only a sample that is fetched changes the accumulators once they are    *)
(* valid, and what they are read with.                                     *)
LEMMA SampleKept ==
    ASSUME StartedInv, [Next]_vars, ~(CollectSample /\ place' = "fetched")
    PROVE  /\ valid_sample_buffer_' = valid_sample_buffer_
           /\ valid_sample_buffer_ =>
                 UNCHANGED <<constants, counter_to_buffer_pos_, sample_buffer_,
                             fetched>>
<1>1. ASSUME MapCounter PROVE ~valid_sample_buffer_ /\ UNCHANGED valid_sample_buffer_
  BY <1>1 DEF MapCounter, MainAt, StartedInv
<1>2. ASSUME OpenDevice \/ sampler__init \/ ReserveMappings
      PROVE  ~valid_sample_buffer_ /\ UNCHANGED valid_sample_buffer_
  BY <1>2 DEF OpenDevice, sampler__init, ReserveMappings, MainAt, StartedInv,
     sampleVars
<1>3. ASSUME \/ DeviceFails \/ sampler_config__init
             \/ sampler_config__add_counter \/ vinstr_setup \/ StartBackend
             \/ SetInProgress \/ sampler__sample_now \/ sampler__stop_sampling
             \/ GpuTraffic \/ TimePasses \/ DriverRefuses \/ UNCHANGED vars
      PROVE  UNCHANGED <<constants, counter_to_buffer_pos_, sample_buffer_,
                         fetched, valid_sample_buffer_>>
  BY <1>3 DEF DeviceFails, sampler_config__init, sampler_config__add_counter,
     vinstr_setup, StartBackend, SetInProgress, sampler__sample_now,
     sampler__stop_sampling, StopBackend, ClearInProgress, GpuTraffic,
     TimePasses, DriverRefuses, instanceVars,
     mappingVars, sampleVars, vars
<1>4. ASSUME CollectSample \/ DeliverSample
      PROVE  UNCHANGED <<constants, counter_to_buffer_pos_, sample_buffer_,
                         fetched, valid_sample_buffer_>>
  BY <1>4 DEF CollectSample, DeliverSample, instanceVars, mappingVars
<1> QED
  BY <1>1, <1>2, <1>3, <1>4 DEF Next, StartUp, HandleUsr1

(* A counter that has a position is enabled in the driver.                 *)
LEMMA KnownIsEnabled ==
    ASSUME ConfigurationInv, MappingInv, IsSetUp, NEW c \in BeatCounters, Known(c)
    PROVE  enabled["memory"] # {}
<1>1. PICK n, P, T : IsMapping(n, P, T)
  BY DEF MappingInv, IsMapped, IsSetUp
<1>2. c \in DOMAIN P
  BY <1>1, BeatDefinitions, KnownInTable
<1>3. n \in 0..Len(counters_) /\ DOMAIN P = HardwareAmong(n)
  BY <1>1 DEF IsMapping, Pending
<1>4. PICK k \in 1..n : counters_[k].counter = c
  BY <1>2, <1>3 DEF HardwareAmong
<1>5. counters_ \in Seq(Counters) /\ Len(counters_) \in Nat
  BY DEF ConfigurationInv, CountersInv
<1>6. k \in DOMAIN counters_ /\ counters_[k] \in Counters
  <2>1. k \in 1..Len(counters_)
    BY <1>3, <1>5
  <2> QED
    BY <1>5, <2>1
<1>7. PICK d \in hwcpipe_counter : counters_[k] = [counter |-> d, def |-> Definition(d)]
  BY <1>6 DEF Counters
<1>8. counters_[k].def.type = "memory"
  BY <1>4, <1>7, BeatDefinitions
<1>9. enabled["memory"] = MMU_L2_MASK
  BY <1>6, <1>8 DEF ConfigurationInv, EnabledInv
<1> QED
  BY <1>9 DEF MMU_L2_MASK

(* What the position of a counter is filled with.                          *)
LEMMA FilledWithTraffic ==
    ASSUME FewSlices, SamplerInv, SlicesReadOnce, IsSetUp, SupportedDevice,
           NEW c \in BeatCounters, Known(c),
           NEW values \in [Cells -> Values], CountedIn(SliceCount, values)
    PROVE  LET pos == hashmap__get(counter_to_buffer_pos_, c)
               own == {cell \in Cells : cell[2] = Definition(c).offset}
           IN  Filled(values)[pos] % WORD = SumFunctionOnSet(values, own) % WORD
<1> DEFINE pos == hashmap__get(counter_to_buffer_pos_, c)
           own == {cell \in Cells : cell[2] = Definition(c).offset}
           f == [e \in layout_ |-> BlockSum(values, e, pos)]
<1>1. ConfigurationInv /\ MappingInv /\ DeviceInv /\ LayoutInv
  BY DEF SamplerInv
<1>2. PICK n, P, T : IsMapping(n, P, T)
  BY <1>1 DEF MappingInv, IsMapped, IsSetUp
<1>3. c \in DOMAIN P /\ P[c] = pos
  BY <1>1, <1>2, BeatDefinitions, KnownInTable
<1>4. sample_buffer_ \in Seq(Nat) /\ pos \in DOMAIN sample_buffer_
  BY <1>1, <1>2, <1>3 DEF MappingInv, IsMapping, OwnPositions
<1> HIDE DEF pos
<1>5. Filled(values)[pos] = Cleared(sample_buffer_[pos]) + PositionSum(values, pos)
  BY <1>4, FilledByPosition
<1>6. sample_buffer_[pos] \in Nat /\ PositionSum(values, pos) \in Nat
  BY <1>1, <1>4, PositionSumTyped
<1>7. Filled(values)[pos] % WORD = PositionSum(values, pos) % WORD
  BY <1>5, <1>6, ClearedIsMultiple
<1>8. IsFiniteSet(layout_)
      /\ \A e \in layout_ : e.type \in BlockTypes /\ e.offset \in Nat
  BY <1>1, LayoutTyped
<1>9. \A e \in layout_ :
         f[e] = IF e.type = "memory"
                THEN BlockValue(values, e.offset, Definition(c).offset) ELSE 0
  BY <1>1, <1>2, <1>3, <1>8, BlockSumAt
<1>10. DOMAIN f = layout_ /\ PositionSum(values, pos) = SumFunction(f)
  BY DEF PositionSum
<1> HIDE DEF f
<1>11. enabled["memory"] # {}
  BY <1>1, KnownIsEnabled
<1>12. /\ SliceCount \in Nat
       /\ {e.offset : e \in {e \in layout_ : e.type = "memory"}} =
              2..(1 + SliceCount)
       /\ \A e, d \in layout_ : e.offset = d.offset => e = d
  BY <1>11, SlicesOnEnd
<1> DEFINE offset == Definition(c).offset
           layout == layout_
<1>13. SumFunctionOnSet(f, layout_) = SumFunctionOnSet(values, own)
  <2> HIDE DEF offset
  <2> QED
    BY <1>8, <1>9, <1>12, BlocksAreCells DEF offset
<1>14. PositionSum(values, pos) = SumFunctionOnSet(values, own)
  BY <1>10, <1>13 DEF SumFunction
<1> QED
  BY <1>7, <1>14 DEF pos

LEMMA ValueStep ==
    ASSUME FewSlices
    PROVE  /\ SamplerInv /\ SlicesReadOnce /\ TrafficInv /\ TrafficInv'
           /\ ValueIsTraffic /\ [Next]_vars
           => ValueIsTraffic'
<1> SUFFICES ASSUME SamplerInv, SlicesReadOnce, TrafficInv, TrafficInv',
                    ValueIsTraffic, [Next]_vars,
                    NEW c \in BeatCounters,
                    valid_sample_buffer_', SupportedDevice', Known(c)'
             PROVE  CounterValue(c)' % WORD =
                        SumFunctionOnSet(fetched',
                            {cell \in Cells : cell[2] = Definition(c).offset})
                        % WORD
  BY DEF ValueIsTraffic, SlicesSum
<1>1. device' = device /\ SliceCount' = SliceCount
  BY SameDevice
<1>2. CASE ~(CollectSample /\ place' = "fetched")
  <2>1. /\ valid_sample_buffer_
        /\ UNCHANGED <<constants, counter_to_buffer_pos_, sample_buffer_, fetched>>
    BY <1>2, SampleKept DEF SamplerInv
  <2>2. SupportedDevice /\ Known(c) /\ CounterValue(c)' = CounterValue(c)
    BY <1>1, <2>1 DEF SupportedDevice, Reported, Known, CounterValue
  <2> QED
    BY <2>1, <2>2 DEF ValueIsTraffic, SlicesSum
<1>3. CASE CollectSample /\ place' = "fetched"
  <2>1. /\ main \in {"started", "paused", "stopping"}
        /\ held'.values \in [Cells -> Values]
        /\ sample_buffer_' = Filled(held'.values)
        /\ fetched' = held'.values
        /\ UNCHANGED <<device, constants, mappingVars>>
    BY <1>3, SampleTaken DEF SamplerInv
  <2>2. SupportedDevice /\ Known(c)
    BY <2>1 DEF SupportedDevice, Reported, Known, mappingVars
  <2>3. CountedIn(SliceCount, held'.values)
    BY <1>1, <2>1 DEF TrafficInv
  <2> DEFINE pos == hashmap__get(counter_to_buffer_pos_, c)
  <2>4. CounterValue(c)' = Filled(held'.values)[pos]
    BY <2>1 DEF CounterValue, mappingVars
  <2> HIDE DEF pos
  <2>5. IsSetUp
    BY <2>1 DEF IsSetUp
  <2>6. Filled(held'.values)[pos] % WORD =
            SumFunctionOnSet(held'.values,
                {cell \in Cells : cell[2] = Definition(c).offset}) % WORD
    BY <2>1, <2>2, <2>3, <2>5, FilledWithTraffic DEF pos
  <2> QED
    BY <2>1, <2>4, <2>6
<1> QED
  BY <1>2, <1>3

(* The value of a counter of beats is, up to a multiple of the word, what  *)
(* all slices of the cache have counted between two dumps: no block is     *)
(* left out, read twice or mixed up with another, and no earlier sample    *)
(* gets into it.  For every device with at most 16 slices.                 *)
THEOREM ValuesAreTraffic ==
    ASSUME \A d \in Devices :
               Number(ReportedBy(d, l2_num_l2_slices)) \in 0..MAX_BLOCKS_MEMORY
    PROVE  Spec => []ValueIsTraffic
<1>1. FewSlices
  BY DEF FewSlices
<1>2. Init => TrafficInv /\ ValueIsTraffic
  BY TrafficInit DEF Init, ValueIsTraffic
<1>3. SamplerInv /\ TrafficInv /\ [Next]_vars => TrafficInv'
  BY TrafficStep DEF SamplerInv
<1>4. /\ SamplerInv /\ SlicesReadOnce /\ TrafficInv /\ TrafficInv'
      /\ ValueIsTraffic /\ [Next]_vars
      => ValueIsTraffic'
  BY <1>1, ValueStep
<1>5. Spec => []SlicesReadOnce
  BY EverySliceReadOnce
<1> QED
  BY <1>2, <1>3, <1>4, <1>5, SamplerInvariant, PTL DEF Spec

-----------------------------------------------------------------------------
(* The charge.                                                             *)

(* Two numbers with the same remainder.                                    *)
LEMMA IntDivision ==
    ASSUME NEW m \in Int, NEW n \in Nat \ {0}
    PROVE  /\ m \div n \in Int /\ m % n \in 0..(n - 1)
           /\ m = n * (m \div n) + (m % n)
OBVIOUS

LEMMA AsIntDiffers ==
    ASSUME NEW m \in Int
    PROVE  \E k \in Int : AsInt(m) = m + INT_MODULUS * k
<1> DEFINE M == INT_MODULUS
           q == m \div M
           r == m % M
           w == M * q
<1>1. M \in Nat \ {0}
  BY ConversionAssumption
<1>2. q \in Int /\ r \in 0..(M - 1) /\ m = w + r
  BY <1>1, IntDivision
<1>3. AsInt(m) = r \/ AsInt(m) = r - M
  BY DEF AsInt
<1> HIDE DEF M, q, r
<1>4. w \in Int /\ M * (-q) = -w /\ M * (-q - 1) = -w - M
  BY <1>1, <1>2
<1> HIDE DEF w
<1>5. AsInt(m) = m + M * (-q) \/ AsInt(m) = m + M * (-q - 1)
  BY <1>1, <1>2, <1>3, <1>4
<1>6. -q \in Int /\ -q - 1 \in Int
  BY <1>2
<1> QED
  BY <1>5, <1>6 DEF M

(* An int has room for a number that fits, whatever multiple of the        *)
(* modulus is added.                                                       *)
LEMMA AsIntFits ==
    ASSUME NEW b \in Nat, FitsInt(b), NEW k \in Int
    PROVE  AsInt(b + INT_MODULUS * k) = b
<1> DEFINE M == INT_MODULUS
           m == b + M * k
           q == m \div M
           r == m % M
<1>1. M \in Nat \ {0} /\ 2 * b < M
  BY ConversionAssumption DEF FitsInt
<1>2. M * k \in Int
  BY <1>1
<1>3. m \in Int
  BY <1>2
<1>4. q \in Int /\ r \in 0..(M - 1) /\ m = M * q + r
  <2> HIDE DEF m, M
  <2> QED
    BY <1>1, <1>3, IntDivision
<1>5. M * k + b = M * q + r
  BY <1>2, <1>4
<1>6. r = b
  <2> HIDE DEF m, M, q, r
  <2>1. b \in 0..(M - 1)
    BY <1>1
  <2> QED
    BY <1>1, <1>4, <1>5, <2>1, RemainderUnique
<1> QED
  BY <1>1, <1>6 DEF AsInt

(* Two sums of beats in ints come to the same bytes as what they stand for.*)
LEMMA ChargeOfBeats ==
    ASSUME WORD = INT_MODULUS,
           NEW rd \in Nat, NEW wr \in Nat, NEW v \in Nat, NEW w \in Nat,
           v % WORD = rd % WORD, w % WORD = wr % WORD,
           FitsInt(BEAT_SIZE * (rd + wr))
    PROVE  SampleInEvents(AsInt(w), AsInt(v)) =
               (BEAT_SIZE * (rd + wr)) \div CACHE_LINE_SIZE
<1> DEFINE M == INT_MODULUS
           B == BEAT_SIZE
           bytes == B * (rd + wr)
<1>1. M \in Nat \ {0} /\ B \in Nat \ {0} /\ CACHE_LINE_SIZE \in Nat \ {0}
  BY ConversionAssumption
<1>2. ASSUME NEW x \in Nat, NEW y \in Nat, x % WORD = y % WORD
      PROVE  \E k \in Int : AsInt(x) = y + M * k
  <2> DEFINE p == x \div M
             q == y \div M
             s == y % M
             wp == M * p
             wq == M * q
  <2>1. p \in Int /\ x = wp + s /\ q \in Int /\ y = wq + s /\ s \in Int
    BY <1>1, <1>2, DivisionWithRemainder
  <2>2. PICK k \in Int : AsInt(x) = x + M * k
    BY AsIntDiffers
  <2> HIDE DEF M, p, q, s
  <2>3. wp \in Int /\ wq \in Int /\ M * k \in Int
    BY <1>1, <2>1
  <2>4. M * ((p - q) + k) = (wp - wq) + M * k
    BY <1>1, <2>1
  <2> HIDE DEF wp, wq
  <2>5. x + M * k = y + ((wp - wq) + M * k)
    BY <2>1, <2>3
  <2>6. (p - q) + k \in Int /\ AsInt(x) = y + M * ((p - q) + k)
    BY <2>1, <2>2, <2>4, <2>5 DEF M
  <2> QED
    BY <2>6
<1>3. PICK j \in Int : AsInt(v) = rd + M * j
  BY <1>2
<1>4. PICK k \in Int : AsInt(w) = wr + M * k
  BY <1>2
<1> HIDE DEF M, B
<1>5. AsInt(w) * B + AsInt(v) * B = bytes + M * (B * (k + j))
  <2>1. (wr + M * k) * B = B * wr + M * (B * k)
    BY <1>1
  <2>2. (rd + M * j) * B = B * rd + M * (B * j)
    BY <1>1
  <2>3. B * (k + j) = B * k + B * j
    BY <1>1
  <2>4. M * (B * k + B * j) = M * (B * k) + M * (B * j)
    <3>1. B * k \in Int /\ B * j \in Int
      BY <1>1
    <3> QED
      BY <1>1, <3>1
  <2>5. bytes = B * rd + B * wr
    BY <1>1
  <2> DEFINE a1 == M * (B * k)
             a2 == M * (B * j)
             b1 == B * wr
             b2 == B * rd
  <2>6. a1 \in Int /\ a2 \in Int /\ b1 \in Int /\ b2 \in Int
    <3>1. B * k \in Int /\ B * j \in Int
      BY <1>1
    <3> QED
      BY <1>1, <3>1
  <2>7. (b1 + a1) + (b2 + a2) = (b2 + b1) + (a1 + a2)
    <3> HIDE DEF a1, a2, b1, b2
    <3> QED
      BY <2>6
  <2> QED
    BY <1>3, <1>4, <2>1, <2>2, <2>3, <2>4, <2>5, <2>7
<1>6. bytes \in Nat /\ B * (k + j) \in Int
  BY <1>1
<1> HIDE DEF bytes
<1>7. AsInt(AsInt(w) * B + AsInt(v) * B) = bytes
  BY <1>5, <1>6, AsIntFits DEF M, B, bytes
<1> DEFINE events == bytes \div CACHE_LINE_SIZE
<1>8. events \in Nat /\ events <= bytes
  <2> DEFINE C == CACHE_LINE_SIZE
             r == bytes % C
  <2>1. events \in Nat /\ r \in 0..(C - 1) /\ bytes = C * events + r
    BY <1>1, <1>6, DivisionWithRemainder
  <2> HIDE DEF events, r
  <2>2. C * events >= events
    BY <1>1, <2>1
  <2>3. C * events \in Int /\ r \in Nat
    BY <1>1, <2>1
  <2> HIDE DEF C
  <2> QED
    BY <1>6, <2>1, <2>2, <2>3
<1>9. FitsInt(events)
  <2>1. 2 * bytes < M
    BY DEF FitsInt, bytes, B, M
  <2> HIDE DEF events
  <2> QED
    BY <1>1, <1>6, <1>8, <2>1 DEF FitsInt, M
<1>10. AsInt(events) = events
  <2> HIDE DEF events
  <2>1. AsInt(events + INT_MODULUS * 0) = events
    BY <1>8, <1>9, AsIntFits
  <2>2. INT_MODULUS * 0 = 0
    BY ConversionAssumption
  <2> QED
    BY <1>8, <2>1, <2>2
<1> QED
  BY <1>7, <1>10 DEF SampleInEvents, B, bytes

(* Between two samples the ints are those of the last one.                 *)
ChargeInv ==
    (place = "idle" /\ valid_sample_buffer_ /\ exited = "no") =>
        /\ \A counter \in BeatCounters : Known(counter)
        /\ beats = <<AsInt(CounterValue(MaliExtBusWrBt)),
                     AsInt(CounterValue(MaliExtBusRdBt))>>

LEMMA ChargeStep ==
    SamplerInv /\ ChargeInv /\ [Next]_vars => ChargeInv'
<1> SUFFICES ASSUME SamplerInv, ChargeInv, [Next]_vars,
                    place' = "idle", valid_sample_buffer_', exited' = "no"
             PROVE  /\ \A counter \in BeatCounters : Known(counter)'
                    /\ beats' = <<AsInt(CounterValue(MaliExtBusWrBt)'),
                                  AsInt(CounterValue(MaliExtBusRdBt)')>>
  BY DEF ChargeInv
<1>1. /\ valid_sample_buffer_
      /\ UNCHANGED <<counter_to_buffer_pos_, sample_buffer_>>
  BY SampleKept DEF SamplerInv
<1>2. \A counter : (Known(counter)' <=> Known(counter))
                   /\ CounterValue(counter)' = CounterValue(counter)
  BY <1>1 DEF Known, CounterValue
<1>3. CASE DeliverSample
  BY <1>2, <1>3 DEF DeliverSample, Exit
<1>4. CASE ~DeliverSample
  <2>1. beats' = beats
    BY <1>4 DEF Next, StartUp, HandleUsr1, OpenDevice, DeviceFails,
       sampler_config__init, sampler_config__add_counter, sampler__init,
       ReserveMappings, MapCounter, vinstr_setup, StartBackend, SetInProgress,
       sampler__sample_now, CollectSample, sampler__stop_sampling, StopBackend,
       ClearInProgress, GpuTraffic,
       TimePasses, DriverRefuses, sampleVars, vars
  <2>2. place = "idle" /\ exited = "no"
    <3>1. ASSUME StartUp \/ sampler__stop_sampling
          PROVE  place = "idle" /\ exited = "no"
      BY <3>1 DEF StartUp, OpenDevice, DeviceFails, sampler_config__init,
         sampler_config__add_counter, sampler__init, ReserveMappings, MapCounter,
         vinstr_setup, StartBackend, SetInProgress, sampler__stop_sampling,
         StopBackend, ClearInProgress,
         MainAt, Exit
    <3>2. ASSUME sampler__sample_now PROVE place = "idle" /\ exited = "no"
      BY <3>2 DEF sampler__sample_now
    <3>3. ASSUME CollectSample PROVE FALSE
      BY <3>3 DEF CollectSample, GetSample, Exit
    <3>4. ASSUME GpuTraffic \/ TimePasses \/ DriverRefuses \/ UNCHANGED vars
          PROVE  place = "idle" /\ exited = "no"
      BY <3>4 DEF GpuTraffic, TimePasses, DriverRefuses, Traffic, Tick,
         ReaderRefuses, Exit, vars, backendVars
    <3> QED
      BY <1>4, <3>1, <3>2, <3>3, <3>4 DEF Next, HandleUsr1
  <2> QED
    BY <1>1, <1>2, <2>1, <2>2 DEF ChargeInv
<1> QED
  BY <1>3, <1>4

(* The traffic of an offset is a number.                                   *)
LEMMA SlicesSumTyped ==
    ASSUME SamplerInv, fetched \in [Cells -> Values], NEW offset
    PROVE  SlicesSum(offset) \in Nat
<1> DEFINE own == {cell \in Cells : cell[2] = offset}
<1>1. IsFiniteSet(own)
  BY SamplerAssumption, FS_Subset
<1>2. \A cell \in own : fetched[cell] \in Nat
  BY BackendAssumption DEF Values
<1> HIDE DEF own
<1> QED
  BY <1>1, <1>2, SumOfMore DEF SlicesSum, own

FetchedTyped == fetched \in [Cells -> Values]

LEMMA FetchedStep == SamplerInv /\ FetchedTyped /\ [Next]_vars => FetchedTyped'
<1> SUFFICES ASSUME SamplerInv, FetchedTyped, [Next]_vars PROVE FetchedTyped'
  OBVIOUS
<1>1. CASE CollectSample /\ place' = "fetched"
  BY <1>1, SampleTaken DEF SamplerInv, FetchedTyped
<1>2. CASE ~(CollectSample /\ place' = "fetched")
  <2>1. fetched' = fetched
    BY <1>2 DEF Next, StartUp, HandleUsr1, OpenDevice, DeviceFails,
       sampler_config__init, sampler_config__add_counter, sampler__init,
       ReserveMappings, MapCounter, vinstr_setup, StartBackend, SetInProgress,
       sampler__sample_now, CollectSample, DeliverSample,
       sampler__stop_sampling, StopBackend, ClearInProgress,
       GpuTraffic, TimePasses, DriverRefuses, sampleVars, vars
  <2> QED
    BY <2>1 DEF FetchedTyped
<1> QED
  BY <1>1, <1>2

(* As soon as a sample is delivered the module is charged the traffic of   *)
(* both directions, as long as the bytes fit into an int, although the     *)
(* directions are swapped and each counter squeezed into an int on the way.*)
(* A counter and an int have as many values, as in the code.               *)
THEOREM ChargesAreTraffic ==
    ASSUME WORD = INT_MODULUS,
           \A d \in Devices :
               Number(ReportedBy(d, l2_num_l2_slices)) \in 0..MAX_BLOCKS_MEMORY
    PROVE  Spec => []ChargeIsTraffic
<1>1. Init => ChargeInv /\ FetchedTyped
  <2>1. NoTraffic \in [Cells -> Values]
    BY BackendAssumption DEF NoTraffic, Values
  <2> QED
    BY <2>1 DEF Init, ChargeInv, FetchedTyped
<1>2. SamplerInv /\ ChargeInv /\ FetchedTyped /\ ValueIsTraffic => ChargeIsTraffic
  <2> SUFFICES ASSUME SamplerInv, ChargeInv, FetchedTyped, ValueIsTraffic,
                      place = "idle", valid_sample_buffer_, SupportedDevice,
                      exited = "no",
                      FitsInt(BEAT_SIZE * (SlicesSum(32) + SlicesSum(47)))
               PROVE  SampleInEvents(beats[1], beats[2]) =
                          (BEAT_SIZE * (SlicesSum(32) + SlicesSum(47)))
                          \div CACHE_LINE_SIZE
    BY DEF ChargeIsTraffic
  <2> DEFINE rd == SlicesSum(32)
             wr == SlicesSum(47)
             v == CounterValue(MaliExtBusRdBt)
             w == CounterValue(MaliExtBusWrBt)
  <2>1. beats[1] = AsInt(w) /\ beats[2] = AsInt(v)
        /\ \A counter \in BeatCounters : Known(counter)
    BY DEF ChargeInv
  <2>2. rd \in Nat /\ wr \in Nat
    BY SlicesSumTyped DEF FetchedTyped
  <2>3. IsMapped
    BY DEF SamplerInv, StartedInv, IsMapped
  <2>4. v \in Nat /\ w \in Nat
    BY <2>1, <2>3, CounterValueTyped DEF SamplerInv, BeatCounters
  <2>5. v % WORD = rd % WORD /\ w % WORD = wr % WORD
    <3>1. /\ Definition(MaliExtBusRdBt).offset = 32
          /\ Definition(MaliExtBusWrBt).offset = 47
          /\ MaliExtBusRdBt \in BeatCounters /\ MaliExtBusWrBt \in BeatCounters
      BY DEF Definition, BeatCounters, MaliExtBusRdBt, MaliExtBusWrBt,
         MaliExtBusRd, MaliExtBusWr
    <3> QED
      BY <2>1, <3>1 DEF ValueIsTraffic
  <2> HIDE DEF rd, wr, v, w
  <2>6. FitsInt(BEAT_SIZE * (rd + wr))
    BY DEF rd, wr
  <2> QED
    BY <2>1, <2>2, <2>4, <2>5, <2>6, ChargeOfBeats DEF rd, wr
<1>3. Spec => []ValueIsTraffic
  BY ValuesAreTraffic
<1> QED
  BY <1>1, <1>2, <1>3, ChargeStep, FetchedStep, SamplerInvariant, PTL DEF Spec
=============================================================================
