-------------------------------- MODULE Hmap --------------------------------
(***************************************************************************)
(* The hash map index of src/mos_idx_hmap.c: open addressing with linear   *)
(* probing, thombstones for removed keys, and a list of row ids per key    *)
(* that is inlined in the node or kept in an arena block.  A process may   *)
(* die between the stores of an operation; the mapped file keeps those     *)
(* already made and the next process continues from them.                  *)
(*                                                                         *)
(* What the index knows of a key is its hash: keys with one hash are one   *)
(* key to it, and hashes with one verifier, the upper 64 bits, are one     *)
(* hash here.  Not only chance gives keys one hash: hash1 is assigned from *)
(* hash2 (56), so the first 8 bytes of each block of 16 in a key are lost. *)
(* The lower bits give the home slot and are arbitrary, so every           *)
(* assignment of home slots is an initial state.                           *)
(*                                                                         *)
(* Every hash map keeps its long lists in the same arena.  A death in the  *)
(* middle of moving, growing or freeing a list leaves a node there with a  *)
(* block that is not its own, or with row ids for a descriptor (damaged);  *)
(* from then on nothing is said of what is in the arena.  Its accesses are *)
(* checked against the region (mos_arena.h:27-34), so verifiers and nodes, *)
(* which are in other files, stay as they are.  A memset or memcpy counts  *)
(* as one store.                                                           *)
(***************************************************************************)
EXTENDS Integers, Sequences

CONSTANTS
  Hashes,      \* of the keys mos_idx_hmap_put is called with
  Values,      \* row ids
  TableSize,   \* a power of two, see mos_idx_hnsw_get_index_size
  Inlined,     \* MOS_IDX_VALUES_INLINED
  Slack,       \* bound: how much larger than asked a block of the arena is
  MaxValues,   \* bound: values put under one key
  Empty,       \* MOS_IDX_EMPTY
  Thombstone,  \* MOS_IDX_THOMBSTONE
  Unknown      \* the contents of a list nothing is said of

ASSUME SizeAssumption == /\ TableSize \in Nat \ {0}
                         /\ Inlined \in Nat \ {0}
                         /\ Slack \in Nat /\ MaxValues \in Nat
ASSUME ReservedAssumption ==
  Empty # Thombstone /\ Empty \notin Hashes /\ Thombstone \notin Hashes
ASSUME UnknownAssumption == Unknown \notin Values

Slots == 0..(TableSize - 1)
Nodes == [capacity : Nat, vals : Seq(Values)]
Cleared == [capacity |-> 0, vals |-> << >>]

VARIABLES
  home,        \* hash & mask, fixed
  verifiers,   \* index_verifiers
  nodes,       \* index_values; Len(vals) is values_count
  refused,     \* the last call was a put that returned -1
  damaged      \* a call died over the arena: its blocks may be shared

vars == <<home, verifiers, nodes, refused, damaged>>

TypeOK ==
  /\ home \in [Hashes -> Slots]
  /\ verifiers \in [Slots -> Hashes \cup {Empty, Thombstone}]
  /\ nodes \in [Slots -> Nodes]
  /\ refused \in BOOLEAN
  /\ damaged \in BOOLEAN

(* mos_idx_hmap_init on a new, zero-filled file.                           *)
Init ==
  /\ home \in [Hashes -> Slots]
  /\ verifiers = [s \in Slots |-> Empty]
  /\ nodes = [s \in Slots |-> Cleared]
  /\ refused = FALSE
  /\ damaged = FALSE
-----------------------------------------------------------------------------
(* The slot at distance d on the probe path of h: (hash + d) & mask.       *)
At(h, d) == LET i == home[h] + d IN IF i < TableSize THEN i ELSE i - TableSize

(* The probe for h looks at distance d: nothing before it stopped the loop. *)
Reaches(h, d) == \A e \in 0..(d - 1) : verifiers[At(h, e)] \notin {h, Empty}

FoundAt(h, d) == Reaches(h, d) /\ verifiers[At(h, d)] = h

(* The probe for an absent h ends at an empty slot, or after the last slot. *)
EndsAt(h, d) == Reaches(h, d) /\ (d = TableSize \/ verifiers[At(h, d)] = Empty)

Buried(h, d) == verifiers[At(h, d)] = Thombstone

(* Deliberately wrong variants, each showing that a property can fail, stand *)
(* before the definition they replace.  Here: the search stops at the      *)
(* first thombstone.                                                       *)
FreshAtFirstThombstone(h, t) ==
  /\ t < TableSize /\ Reaches(h, t)
  /\ \A e \in 0..(t - 1) : ~Buried(h, e)
  /\ Buried(h, t) \/ verifiers[At(h, t)] = Empty

(* A new hash goes to the first thombstone the probe met, else to the empty *)
(* slot that ended it.                                                     *)
FreshAt(h, t) ==
  \E d \in 0..TableSize :
    /\ EndsAt(h, d)
    /\ \A e \in 0..(t - 1) : ~Buried(h, e)
    /\ \/ t < d /\ Buried(h, t)
       \/ t = d /\ d < TableSize

InArena(n) == n.capacity > Inlined

(* mos_idx_hmap_get: the list at the slot where the probe finds h.         *)
Lookup(h) ==
  IF \A d \in Slots : ~FoundAt(h, d) THEN << >>
  ELSE LET n == nodes[At(h, CHOOSE d \in Slots : FoundAt(h, d))]
       IN IF damaged /\ InArena(n) THEN <<Unknown>> ELSE n.vals

(* The capacities a node may have after taking one more value: unchanged   *)
(* while there is room, else those of a new arena block, which may be a    *)
(* larger one from the free list.  In a damaged arena a list may have      *)
(* taken any other block.                                                  *)
Capacities(n) ==
  LET asked == IF InArena(n) THEN 2 * n.capacity ELSE 4 * Inlined
      block == {asked + x : x \in 0..Slack}
  IN IF Len(n.vals) < Inlined /\ ~InArena(n) THEN {n.capacity}
     ELSE IF damaged THEN (Inlined + 1)..(Inlined + 1 + Slack)
     ELSE IF Len(n.vals) < n.capacity /\ InArena(n) THEN {n.capacity}
     ELSE block

NeedsArena(n) ==
  IF InArena(n) THEN damaged \/ Len(n.vals) >= n.capacity
  ELSE Len(n.vals) >= Inlined
-----------------------------------------------------------------------------
PutExisting(h, v) ==
  \E d \in Slots :
    LET s == At(h, d) IN
    /\ FoundAt(h, d)
    /\ Len(nodes[s].vals) < MaxValues
    /\ \E c \in Capacities(nodes[s]) :
         nodes' = [nodes EXCEPT ![s] = [capacity |-> c, vals |-> Append(@.vals, v)]]
    /\ refused' = FALSE
    /\ UNCHANGED <<home, verifiers, damaged>>

(* Wrong: a fresh slot keeps the values left in it.                        *)
PutFreshUninitialized(h, v) ==
  \E t \in Slots :
    /\ FreshAt(h, t)
    /\ nodes' = [nodes EXCEPT ![At(h, t)].vals = Append(@, v)]
    /\ verifiers' = [verifiers EXCEPT ![At(h, t)] = h]
    /\ refused' = FALSE
    /\ UNCHANGED <<home, damaged>>

PutFresh(h, v) ==
  \E t \in Slots :
    /\ FreshAt(h, t)
    /\ nodes' = [nodes EXCEPT ![At(h, t)] = [capacity |-> Inlined, vals |-> <<v>>]]
    /\ verifiers' = [verifiers EXCEPT ![At(h, t)] = h]
    /\ refused' = FALSE
    /\ UNCHANGED <<home, damaged>>

PutFull(h) ==
  /\ EndsAt(h, TableSize)
  /\ \A d \in Slots : ~Buried(h, d)
  /\ refused' = TRUE
  /\ UNCHANGED <<home, verifiers, nodes, damaged>>

(* mos_arena_allocate or mos_arena_append returned -1.                     *)
PutWithoutArena(h) ==
  /\ \E d \in Slots : FoundAt(h, d) /\ NeedsArena(nodes[At(h, d)])
  /\ refused' = TRUE
  /\ UNCHANGED <<home, verifiers, nodes, damaged>>

(* The process dies in a put: the node of a fresh slot is written but not  *)
(* yet claimed by its verifier, or a list has a new block but the new      *)
(* value is not counted yet.                                               *)
PutDies(h, v) ==
  /\ \/ \E t \in Slots :
          /\ FreshAt(h, t)
          /\ nodes' = [nodes EXCEPT ![At(h, t)] = [capacity |-> Inlined, vals |-> <<v>>]]
     \/ \E d \in Slots :
          /\ FoundAt(h, d) /\ NeedsArena(nodes[At(h, d)])
          /\ \E c \in Capacities(nodes[At(h, d)]) :
               nodes' = [nodes EXCEPT ![At(h, d)].capacity = c]
  /\ refused' = FALSE
  /\ UNCHANGED <<home, verifiers, damaged>>

(* It dies after the capacity says that the list is in the arena and before *)
(* the block's descriptor replaced the inlined values, or after            *)
(* mos_arena_append freed the old block and before the new one's           *)
(* descriptor is in the node.                                              *)
PutDiesOverArena(h) ==
  /\ \E d \in Slots :
       LET s == At(h, d) IN
       /\ FoundAt(h, d) /\ NeedsArena(nodes[s])
       /\ nodes' = [nodes EXCEPT ![s].capacity =
                       IF InArena(nodes[s]) THEN @ ELSE 4 * Inlined]
  /\ damaged' = TRUE
  /\ refused' = FALSE
  /\ UNCHANGED <<home, verifiers>>

(* mos_idx_hmap_remove_key zeroes a node of few values; one with more       *)
(* only has its arena block freed and keeps its fields.                    *)
Emptied(n) == IF Len(n.vals) <= Inlined THEN Cleared ELSE n

(* Wrong: the slot of a removed key becomes empty.                         *)
RemoveKeyToEmpty(h) ==
  \E d \in Slots :
    LET s == At(h, d) IN
    /\ FoundAt(h, d)
    /\ nodes' = [nodes EXCEPT ![s] = Emptied(@)]
    /\ verifiers' = [verifiers EXCEPT ![s] = Empty]
    /\ refused' = FALSE
    /\ UNCHANGED <<home, damaged>>

RemoveKey(h) ==
  \E d \in Slots :
    LET s == At(h, d) IN
    /\ FoundAt(h, d)
    /\ nodes' = [nodes EXCEPT ![s] = Emptied(@)]
    /\ verifiers' = [verifiers EXCEPT ![s] = Thombstone]
    /\ refused' = FALSE
    /\ UNCHANGED <<home, damaged>>

(* Nothing is removed: h is not found, or mos_arena_free returns -1, which  *)
(* it only does for a descriptor that is none.                             *)
RemoveNothing(h) ==
  /\ \A d \in Slots :
       FoundAt(h, d) => damaged /\ Len(nodes[At(h, d)].vals) > Inlined
  /\ refused' = FALSE
  /\ UNCHANGED <<home, verifiers, nodes, damaged>>

(* The process dies before the thombstone, after zeroing the node, or      *)
(* after its block was freed, which its node then still names.             *)
RemoveDies(h) ==
  \E d \in Slots :
    LET s == At(h, d) IN
    /\ FoundAt(h, d)
    /\ nodes' = [nodes EXCEPT ![s] = Emptied(@)]
    /\ damaged' = (damaged \/ Len(nodes[s].vals) > Inlined)
    /\ refused' = FALSE
    /\ UNCHANGED <<home, verifiers>>

(* A call of another hash map, which keeps its lists in the same arena,    *)
(* dies at one of these points.                                            *)
OtherIndexDies ==
  /\ damaged' = TRUE
  /\ refused' = FALSE
  /\ UNCHANGED <<home, verifiers, nodes>>

Next ==
  \/ \E h \in Hashes :
       \/ \E v \in Values : PutExisting(h, v) \/ PutFresh(h, v) \/ PutDies(h, v)
       \/ PutFull(h) \/ PutWithoutArena(h) \/ PutDiesOverArena(h)
       \/ RemoveKey(h) \/ RemoveNothing(h) \/ RemoveDies(h)
  \/ OtherIndexDies

Spec == Init /\ [][Next]_vars
-----------------------------------------------------------------------------
(* A stored key stays findable: no removal or reuse of a slot leaves an     *)
(* empty slot, where the probe would stop, between a hash's home and its   *)
(* place (mos_idx_hmap.c:171-193, 256-267, 317).                           *)
ProbePathsUnbroken ==
  \A h \in Hashes, d \in Slots :
    verifiers[At(h, d)] = h => \A e \in 0..(d - 1) : verifiers[At(h, e)] # Empty

(* A hash never occupies two slots, so its list is never split: reusing a   *)
(* thombstone requires that the whole path was searched first (195-198).   *)
KeyStoredOnce ==
  \A s, t \in Slots : verifiers[s] \in Hashes /\ verifiers[s] = verifiers[t] => s = t

(* A step as the users of the index see it: a step of the multimap, or the  *)
(* loss of lists, after a death over the arena only.                       *)
Lists == INSTANCE ValueLists
           WITH Owners <- Hashes, lists <- [h \in Hashes |-> Lookup(h)]
ListStep == Lists!Next \/ (damaged' /\ Lists!Spoil(<<Unknown>>))

(* The index is a multimap: whatever collisions of slots, removals, failing *)
(* calls and deaths came before, a hash reads back exactly the values put  *)
(* under it since it was last removed.  After a death over the arena lists *)
(* may become unknown, but only those kept there: inlined ones are still   *)
(* exact, and a hash that is removed starts anew (153-242, 272-319).       *)
IndexIsMultimap == Lists!Init /\ [][ListStep]_[h \in Hashes |-> Lookup(h)]
=============================================================================
