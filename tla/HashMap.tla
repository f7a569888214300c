------------------------------ MODULE HashMap ------------------------------
(***************************************************************************)
(* The hash map of the sampler: chains that grow at their head, doubled in *)
(* number when the next entry would fill three quarters of them.  Keys are *)
(* enumeration values stored in four bytes, those put into a map below 256.*)
(* The program's maps, ten chains for at most four entries, stay as they   *)
(* are; a smaller CAPACITY makes them grow.                                *)
(***************************************************************************)
EXTENDS Integers, Sequences, FiniteSetsExt, SequencesExt

CONSTANT CAPACITY   \* chains of an empty map, 10

ASSUME CapacityAssumption == CAPACITY \in Nat \ {0}

(* 31^3 times the low byte; the other three are 0. *)
hashmap__hash(capacity, key) == (29791 * key) % capacity

NoChains(capacity) == [i \in 0..(capacity - 1) |-> <<>>]

hashmap__init == [nodes |-> NoChains(CAPACITY), capacity |-> CAPACITY]

Size(map) == Len(FlattenSeq([i \in 1..map.capacity |-> map.nodes[i - 1]]))

PushFront(nodes, index, node) == [nodes EXCEPT ![index] = <<node>> \o @]

(* The nodes in the order in which they are moved, each to the head of its *)
(* chain: nodes of one chain change their order.  The position is computed *)
(* modulo "divisor".                                                       *)
Moved(map, capacity, divisor) ==
    LET all == FlattenSeq([i \in 1..map.capacity |-> map.nodes[i - 1]])
        moved[n \in 0..Len(all)] ==
            IF n = 0 THEN NoChains(capacity)
            ELSE PushFront(moved[n - 1], hashmap__hash(divisor, all[n].key),
                           all[n])
    IN  [nodes |-> moved[Len(all)], capacity |-> capacity]

(* Variant: the position is computed before the capacity is doubled. *)
RehashedByOld(map) == Moved(map, 2 * map.capacity, map.capacity)

hashmap__rehash(map) == Moved(map, 2 * map.capacity, 2 * map.capacity)

(* Reserving does compute it with the old capacity. *)
hashmap__reserve(map, capacity) ==
    IF capacity <= map.capacity THEN map
    ELSE Moved(map, capacity, map.capacity)

(* A key that is in the map gets a second node, which hides the first. *)
hashmap__put(map, key, value) ==
    LET roomy == IF 4 * (Size(map) + 1) >= 3 * map.capacity
                 THEN hashmap__rehash(map) ELSE map
    IN  [roomy EXCEPT !.nodes =
            PushFront(@, hashmap__hash(roomy.capacity, key),
                      [key |-> key, value |-> value])]

(* Where a key is in its chain; the first of several hides the others.    *)
Positions(map, key) ==
    LET chain == map.nodes[hashmap__hash(map.capacity, key)]
    IN  {k \in DOMAIN chain : chain[k].key = key}

hashmap__contains(map, key) == Positions(map, key) # {}

hashmap__get(map, key) ==
    map.nodes[hashmap__hash(map.capacity, key)][Min(Positions(map, key))].value

(* An entry is changed through the pointer that get returns.               *)
Changed(map, key, value) ==
    [map EXCEPT !.nodes[hashmap__hash(map.capacity, key)] =
        [k \in DOMAIN @ |-> IF @[k].key = key THEN [@[k] EXCEPT !.value = value]
                            ELSE @[k]]]

(* The nodes an iteration over all chains meets. *)
Nodes(map) ==
    UNION {{map.nodes[i][k] : k \in DOMAIN map.nodes[i]} : i \in DOMAIN map.nodes}
=============================================================================
