----------------------------- MODULE GpuProduct -----------------------------
(***************************************************************************)
(* What the profiler knows of the Mali products: how a product number is   *)
(* normalised, and the two tables, warp width and execution engines, that  *)
(* are looked up with it.  A number without table entry, or a variant that *)
(* is not in it, gives 0.                                                  *)
(***************************************************************************)
EXTENDS Integers

T60X == \h6956

VersionStyle(raw) ==
    CASE raw = T60X    -> "legacy_t60x"
      [] raw < \h1000  -> "legacy_txxx"
      [] OTHER         -> "arch_product_major"

product_id__from_versions(arch_major, product_major) ==
    arch_major * \h1000 + product_major

(* Architecture and product major survive, what lies between does not. *)
product_id__from_raw_product_id(raw) ==
    IF VersionStyle(raw) = "arch_product_major"
    THEN product_id__from_versions(raw \div \h1000, raw % 16)
    ELSE raw

ArchMajor(id) == (id \div \h1000) % 16

GpuFamily(id) ==
    IF VersionStyle(id) # "arch_product_major" THEN "midgard"
    ELSE IF ArchMajor(id) < 9 THEN "bifrost" ELSE "valhall"

(* The layout of T600 and T700 products up to T760. *)
is_v4_layout(id) ==
    \/ VersionStyle(id) = "legacy_t60x"
    \/ VersionStyle(id) = "legacy_txxx" /\ id < \h0760

-----------------------------------------------------------------------------
V(arch_major, product_majors) ==
    {product_id__from_versions(arch_major, p) : p \in product_majors}

WarpsOf4  == V(6, {0, 1}) \union V(7, {0, 3}) \union V(9, {4})
WarpsOf8  == V(7, {1, 2})

WarpsOf16 ==
    V(9, {0, 1, 2, 3, 5}) \union V(10, {2, 3, 4, 7}) \union V(11, {2, 3})

get_warp_width(id) ==
    CASE GpuFamily(id) = "midgard"               -> 1
      [] id \in WarpsOf4                         -> 4
      [] id \in WarpsOf8                         -> 8
      [] id \in WarpsOf16 \/ ArchMajor(id) > 11  -> 16
      [] OTHER                                   -> 0

(* The products with one answer; the others ask a register. *)
FixedEngines(n) ==
    CASE n = 1 -> V(9, {0, 1, 2, 3, 4, 5})
      [] n = 2 -> V(10, {2, 7}) \union {\h0830, \h0860}
      [] n = 3 -> V(6, {0, 1}) \union V(7, {1}) \union {\h0880}

(* G31 and G51 have a small core, told by its number of registers. *)
SmallCore(core_count, max_register) ==
    core_count = 1 /\ max_register = \h2000

(* G310, G510, G615 and G715, and G720: the variant of the core.           *)
VariantEngines(variant) ==
    CASE variant \in {0, 1} -> 1 [] variant \in 2..4 -> 2 [] OTHER -> 0

G720Engines(variant) ==
    CASE variant = 1 -> 1 [] variant = 4 -> 2 [] OTHER -> 0

get_num_exec_engines(id, core_count, variant, max_register) ==
    CASE \E n \in 1..3 : id \in FixedEngines(n) ->
             CHOOSE n \in 1..3 : id \in FixedEngines(n)
      [] id \in V(7, {0, 3}) ->
             IF SmallCore(core_count, max_register) THEN 1
             ELSE IF id \in V(7, {0}) THEN 3 ELSE 2
      [] id \in V(7, {2}) -> variant
      [] id \in V(10, {3, 4}) \union V(11, {2, 3}) -> VariantEngines(variant)
      [] id \in V(12, {0, 2}) -> G720Engines(variant)
      [] OTHER -> IF GpuFamily(id) = "midgard" THEN 1 ELSE 0
=============================================================================
