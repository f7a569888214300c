---------------------------- MODULE SampleLayout ----------------------------
(***************************************************************************)
(* Where the blocks of a sample lie in a buffer of the driver.  A layout   *)
(* is the set of its entries, offsets counted in blocks: the order of the  *)
(* entries does not matter to a reader that adds them up.                  *)
(***************************************************************************)
EXTENDS Integers, FiniteSets

BlockTypes == {"fe", "tiler", "memory", "core"}

MAX_BLOCKS_MEMORY == 16
MAX_SHADER_CORES  == 64
MAX_BLOCKS        == 1 + 1 + MAX_BLOCKS_MEMORY + MAX_SHADER_CORES

(* How many blocks of a type the device has, in eight bits each. *)
construct_block_extents(v4, num_l2_slices, num_shader_cores) ==
    [type \in BlockTypes |->
        CASE type \in {"fe", "tiler"} -> 1
          [] type = "memory" -> IF v4 THEN 1 ELSE num_l2_slices % 256
          [] type = "core"   -> num_shader_cores % 256]

(* Only the types that a configuration names are kept. *)
filter_block_extents(extents, types) ==
    [type \in BlockTypes |-> IF type \in types THEN extents[type] ELSE 0]

Entry(type, index, offset) ==
    [type |-> type, index |-> index, offset |-> offset]

(* Variant: the cores follow each other without gaps for missing ones. *)
CoreOffsetPacked(slices, mask, i) ==
    2 + slices + Cardinality({j \in mask : j < i})

CoreOffset(slices, mask, i) == 2 + slices + i

BlocksIf(type, extents, entries) == IF extents[type] # 0 THEN entries ELSE {}

(* Variant: the blocks of the cache begin where the tiler's does. *)
MemoryOffsetAtTiler(i) == 1 + i

MemoryOffset(i) == 2 + i

sample_layout_non_v4(extents, slices, mask) ==
    UNION {
        BlocksIf("fe", extents, {Entry("fe", 0, 0)}),
        BlocksIf("tiler", extents, {Entry("tiler", 0, 1)}),
        BlocksIf("memory", extents,
            {Entry("memory", i, MemoryOffset(i)) : i \in 0..((slices % 256) - 1)}),
        BlocksIf("core", extents,
            {Entry("core", Cardinality({j \in mask : j < i}),
                   CoreOffset(slices, mask, i)) : i \in mask})}

(* sample_layout__init_with_args: the layout of v4 products is not written *)
(* yet, and stays empty.                                                   *)
Layout(v4, extents, slices, mask) ==
    IF v4 THEN {} ELSE sample_layout_non_v4(extents, slices, mask)
=============================================================================
