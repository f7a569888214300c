--------------------------- MODULE DeviceInstance ---------------------------
(***************************************************************************)
(* How the profiler opens a Mali device and learns its constants: the      *)
(* driver calls of instance__init, any of which may be refused, and the    *)
(* decoder of the property buffer.  It runs twice, for the gpu structure   *)
(* and again for the sampler, each time with a descriptor of its own.      *)
(*                                                                         *)
(* A number is the set of its one bits.  A device is what the driver       *)
(* reports: a sequence of properties, each with its bytes, of which the    *)
(* buffer lacks the last "cut" bytes.  Constants that are only printed     *)
(* (cache size, bus width, tile size) are left out.                        *)
(***************************************************************************)
EXTENDS GpuProduct, Sequences, FiniteSets, FiniteSetsExt, SequencesExt

CONSTANTS
    Devices,        \* records [props, cut]; a property has an id and bytes
    Uninitialized   \* sets of bits that a variable holds which nobody wrote

(* A property is 1, 2, 4 or 8 bytes wide, and a variable 64 bits.          *)
Property ==
    {p \in [id : 0..255, bytes : Seq(0..255)] : Len(p.bytes) \in {1, 2, 4, 8}}

ASSUME DeviceAssumption ==
    /\ \A d \in Devices : d.props \in Seq(Property) /\ d.cut \in Nat
    /\ Uninitialized \subseteq SUBSET (0..63)

(* Property numbers, from the kernel interface. *)
l2_num_l2_slices          == 15
raw_core_features         == 30
raw_gpu_id                == 55
raw_thread_features       == 59
coherency_num_core_groups == 62
coherency_group(i)        == 64 + i

VARIABLES
    device,         \* the device the kernel has
    pass,           \* 1: gpu__init, 2: sampler__init
    stage,          \* where instance__init is
    device_fd,      \* the descriptor it uses
    handshake,      \* what the driver has accepted on it
    data,           \* bytes of the buffer that are not decoded yet
    decoded,        \* property number -> value, the ones decoded so far
    constants       \* what the pass before has made of them

instanceVars ==
    <<device, pass, stage, device_fd, handshake, data, decoded, constants>>

Stages == {"open", "version", "flags", "props", "decode", "decoded", "failed"}

Number(bits) == SumFunction([i \in bits |-> 2^i])

Bits(byte) == {i \in 0..7 : (byte \div 2^i) % 2 = 1}

(* Little endian. *)
Read(bytes) ==
    UNION {{8 * (k - 1) + i : i \in Bits(bytes[k])} : k \in DOMAIN bytes}

(* The two low bits of a property's head are the binary logarithm of its   *)
(* size, the eight above them its number.                                  *)
prop_decoder__to_prop_metadata(head) ==
    [size |-> 2 ^ Number(head \intersect {0, 1}),
     id   |-> Number({i - 2 : i \in head \intersect 2..9})]

(* What the driver puts into the buffer. *)
Encode(prop) ==
    LET log2 == CHOOSE n \in 0..3 : 2^n = Len(prop.bytes)
        head == 4 * prop.id + log2
    IN  <<head % 256, head \div 256, 0, 0>> \o prop.bytes

Buffer(d) ==
    LET whole == FlattenSeq([k \in DOMAIN d.props |-> Encode(d.props[k])])
    IN  SubSeq(whole, 1, Len(whole) - d.cut)

NoConstants ==
    [gpu_id |-> 0, warp_width |-> 0, num_l2_slices |-> {},
     shader_core_mask |-> {}, num_shader_cores |-> 0, num_exec_engines |-> 0]

InstanceInit ==
    /\ device \in Devices
    /\ pass = 1 /\ stage = "open"
    /\ device_fd = "none" /\ handshake = "none"
    /\ data = <<>> /\ decoded = <<>>
    /\ constants = NoConstants

-----------------------------------------------------------------------------
(* gpu__init gives up when the device cannot be opened, but main does not  *)
(* look; sampler__init does not look either and goes on with descriptor 0. *)
handle__create ==
    /\ stage = "open"
    /\ \/ device_fd' = "open" /\ stage' = "version"
       \/ pass = 1 /\ stage' = "decoded" /\ UNCHANGED device_fd
       \/ pass = 2 /\ stage' = "version" /\ device_fd' = "stdin"
    /\ handshake' = "none"
    /\ UNCHANGED <<device, pass, data, decoded, constants>>

(* A refused check closes the descriptor, and a version of 0.0 is dropped; *)
(* both are returned as errors that nobody looks at, with the version left *)
(* uninitialized.                                                          *)
instance__version_check ==
    /\ stage = "version"
    /\ \/ device_fd = "open" /\ handshake' = "version" /\ UNCHANGED device_fd
       \/ device_fd = "open" /\ UNCHANGED <<device_fd, handshake>>
       \/ device_fd' = "closed" /\ UNCHANGED handshake
    /\ stage' = "flags"
    /\ UNCHANGED <<device, pass, data, decoded, constants>>

(* An uninitialized version may read as an old driver, for which the call  *)
(* is left out.                                                            *)
instance__set_flags ==
    /\ stage = "flags"
    /\ \/ device_fd = "open" /\ stage' = "props" /\ handshake' = "flags"
       \/ handshake = "none" /\ stage' = "props" /\ UNCHANGED handshake
       \/ stage' = "failed" /\ UNCHANGED handshake
    /\ UNCHANGED <<device, pass, device_fd, data, decoded, constants>>

(* Variant: a refused call is reported, and the empty buffer decoded. *)
PropsReported ==
    /\ stage = "props"
    /\ stage' = "decode"
    /\ data' = IF device_fd = "open" THEN Buffer(device) ELSE <<>>
    /\ decoded' = <<>>
    /\ UNCHANGED <<device, pass, device_fd, handshake, constants>>

(* The driver reports properties once it has accepted the flags. *)
instance__props_post_r21 ==
    /\ stage = "props"
    /\ \/ /\ device_fd = "open" /\ handshake = "flags"
          /\ stage' = "decode"
          /\ data' = Buffer(device)
          /\ decoded' = <<>>
       \/ stage' = "failed" /\ UNCHANGED <<data, decoded>>
    /\ UNCHANGED <<device, pass, device_fd, handshake, constants>>

With(table, id, value) ==
    [i \in DOMAIN table \union {id} |-> IF i = id THEN value ELSE table[i]]

(* Variant: the head of a property without its value is left in the buffer.*)
KeepsHead ==
    /\ stage = "decode" /\ Len(data) >= 4
    /\ LET meta == prop_decoder__to_prop_metadata(Read(SubSeq(data, 1, 4)))
           body == SubSeq(data, 5, Len(data))
       IN  /\ Len(body) >= meta.size
           /\ data' = SubSeq(body, meta.size + 1, Len(body))
           /\ decoded' = With(decoded, meta.id,
                               Read(SubSeq(body, 1, meta.size)))
    /\ UNCHANGED <<device, pass, stage, device_fd, handshake, constants>>

(* One property, or what is taken for one.  Of a property whose value is   *)
(* not all there only the head is consumed, and the rest is decoded as the *)
(* next one.  With less than a head left nothing is consumed, and the loop *)
(* goes round without end: no step.  The readers of 8 and 16 bits add the  *)
(* bits they read to a variable that nobody initialized.                   *)
prop_decoder__next ==
    /\ stage = "decode" /\ Len(data) >= 4
    /\ LET meta == prop_decoder__to_prop_metadata(Read(SubSeq(data, 1, 4)))
           body == SubSeq(data, 5, Len(data))
           value == Read(SubSeq(body, 1, meta.size))
       IN  \/ /\ Len(body) < meta.size
              /\ data' = body
              /\ UNCHANGED decoded
           \/ /\ Len(body) >= meta.size
              /\ data' = SubSeq(body, meta.size + 1, Len(body))
              /\ \E garbage \in IF meta.size <= 2
                                THEN {u \intersect 0..(8 * meta.size - 1) :
                                          u \in Uninitialized}
                                ELSE {{}} :
                     decoded' = With(decoded, meta.id, value \union garbage)
    /\ UNCHANGED <<device, pass, stage, device_fd, handshake, constants>>

(* The constants are zero unless reported, a local variable is not. *)
Constant(id) == IF id \in DOMAIN decoded THEN decoded[id] ELSE {}
Local(id) == IF id \in DOMAIN decoded THEN {decoded[id]} ELSE Uninitialized

(* Variant: the last core group is forgotten. *)
OneGroupLess(n) == 0..(n - 2)

GroupsOf(n) == 0..(n - 1)

GroupReported(i) == i \in 0..15 /\ coherency_group(i) \in DOMAIN decoded

(* The end of prop_decoder__run.  Groups that were not reported add what   *)
(* their array elements hold, groups beyond the array what lies behind it. *)
(* A mask has 64 bits, of which the builtin that counts them takes 32.     *)
Derived(core_features, thread_features, core_mask) ==
    LET id == product_id__from_raw_product_id(
                Number({i - 16 : i \in Constant(raw_gpu_id) \intersect 16..31}))
        mask == UNION {IF GroupReported(i)
                       THEN decoded[coherency_group(i)] ELSE core_mask :
                       i \in GroupsOf(
                           Number(Constant(coherency_num_core_groups)))}
        cores == Cardinality(mask \intersect 0..31)
    IN  [gpu_id |-> id,
         warp_width |-> IF raw_gpu_id \in DOMAIN decoded
                        THEN get_warp_width(id) ELSE 0,
         num_l2_slices |-> Constant(l2_num_l2_slices),
         shader_core_mask |-> mask,
         num_shader_cores |-> cores,
         num_exec_engines |->
             get_num_exec_engines(id, cores,
                 Number(core_features \intersect 0..3),
                 Number(thread_features \intersect 0..15))]

DeriveConstants ==
    /\ stage = "decode" /\ data = <<>>
    /\ \E core_features \in Local(raw_core_features),
          thread_features \in Local(raw_thread_features),
          core_mask \in Uninitialized :
         constants' = Derived(core_features, thread_features, core_mask)
    /\ stage' = "decoded" /\ decoded' = <<>>
    /\ UNCHANGED <<device, pass, device_fd, handshake, data>>

(* sampler__init starts over, with a new descriptor. *)
SecondPass ==
    /\ stage = "decoded" /\ pass = 1
    /\ pass' = 2 /\ stage' = "open"
    /\ UNCHANGED <<device, device_fd, handshake, data, decoded, constants>>

InstanceNext ==
    \/ handle__create \/ instance__version_check \/ instance__set_flags
    \/ instance__props_post_r21 \/ prop_decoder__next \/ DeriveConstants

-----------------------------------------------------------------------------
(* Properties.                                                             *)

InstanceTypeOK ==
    /\ pass \in {1, 2} /\ stage \in Stages
    /\ device_fd \in {"none", "open", "stdin", "closed"}
    /\ handshake \in {"none", "version", "flags"}
    /\ \A k \in DOMAIN data : data[k] \in 0..255
    /\ \A id \in DOMAIN decoded : decoded[id] \subseteq 0..63
    /\ constants.num_shader_cores \in 0..32

(* What a device says of a property: the last report counts. *)
ReportedBy(d, id) ==
    LET own == {k \in DOMAIN d.props : d.props[k].id = id}
    IN  IF own = {} THEN {} ELSE Read(d.props[Max(own)].bytes)

Reported(id) == ReportedBy(device, id)

ReportedWide(d, id) ==
    \A k \in DOMAIN d.props : d.props[k].id = id => Len(d.props[k].bytes) >= 4

Wide(id) == ReportedWide(device, id)

(* What the sampler works with is what the driver reported: the mask of    *)
(* the shader cores is the union of the core groups, and a number of 32 or *)
(* 64 bits is exact.  One of 8 or 16 bits, as drivers report the slices,   *)
(* has at least the bits reported.  Only a buffer with missing bytes may   *)
(* give other constants.                                                   *)
ConstantsAreReported ==
    (pass = 2 /\ stage = "decoded" /\ device.cut = 0) =>
        LET groups == 0..(Number(Reported(coherency_num_core_groups)) - 1)
        IN  /\ Reported(l2_num_l2_slices) \subseteq constants.num_l2_slices
            /\ Wide(l2_num_l2_slices) =>
                   constants.num_l2_slices = Reported(l2_num_l2_slices)
            /\ constants.shader_core_mask =
                   UNION {Reported(coherency_group(i)) : i \in groups}

(* Whichever calls are refused, the sampler is set up with a device that   *)
(* is open and has accepted the flags.                                     *)
SetUpOnOpenDevice ==
    (pass = 2 /\ stage = "decoded") => device_fd = "open" /\ handshake = "flags"
=============================================================================
