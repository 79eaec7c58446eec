------------------------------- MODULE Arena --------------------------------
(***************************************************************************)
(* The dynamic arena of include/mos_arena.h on top of the growing mapped   *)
(* region of src/mos_memory.c.  Memory is counted in 8-byte words, the     *)
(* size of a row id and of each half of a block descriptor, so the link    *)
(* that mos_arena_free writes into a freed block occupies two words of the *)
(* same memory that holds the callers' values.                             *)
(*                                                                         *)
(* The owners stand for the hash map nodes that hold the descriptor of     *)
(* their block and count the values in it (mos_idx_hmap.c:209-238).        *)
(***************************************************************************)
EXTENDS Integers, Sequences

CONSTANTS
  Owners,       \* holders of a block
  Values,       \* values appended, naturals like row ids
  Page,         \* MOS_PAGE_SIZE: the header's page and the first region size
  MinAlloc,     \* MOS_MIN_ARENA_ALLOC, at least the two words of a link
  FirstSize,    \* what mos_idx_hmap_put asks for (MOS_IDX_VALUES_INLINED * 4)
  RegionSizes,  \* the sizes doubling reaches before the disk is full
  Limit         \* bound: the largest of them

ASSUME PageAssumption == Page \in Nat \ {0}
ASSUME AllocAssumption == /\ MinAlloc \in Nat /\ MinAlloc >= 2
                          /\ FirstSize \in Nat /\ FirstSize >= 1
ASSUME ValuesAssumption == Values \subseteq Nat
ASSUME RegionAssumption == /\ Limit \in Nat
                           /\ Page \in RegionSizes
                           /\ RegionSizes \subseteq 1..Limit

VARIABLES
  head,      \* last_deleted_offset: descriptor of the first free block
  next,      \* next_free_offset
  region,    \* region_byte_size, the size of the file
  mem,       \* the mapped words
  block,     \* Owners -> descriptor of the block the owner holds
  used,      \* Owners -> number of values the owner has written to it
  outcome    \* how the last call ended

allocator == <<head, next, region>>
vars == <<head, next, region, mem, block, used, outcome>>

Null == -1                              \* MOS_NULL_OFFSET is (uint64_t)-1
NoBlock == [off |-> Null, size |-> 0]
Words(b) == b.off .. (b.off + b.size - 1)
Holds(o) == block[o].off # Null

Descriptors == [off : Int, size : Int]
TypeOK ==
  /\ head \in Descriptors
  /\ next \in Nat
  /\ region \in RegionSizes
  /\ mem \in [0..(Limit - 1) -> Int]
  /\ block \in [Owners -> Descriptors]
  /\ used \in [Owners -> Nat]
  /\ outcome \in {"ok", "failed", "fault"}

Init ==
  /\ head = [off |-> Null, size |-> Null]
  /\ next = Page
  /\ region = Page
  /\ mem = [w \in 0..(Limit - 1) |-> 0]
  /\ block = [o \in Owners |-> NoBlock]
  /\ used = [o \in Owners |-> 0]
  /\ outcome = "ok"
-----------------------------------------------------------------------------
(* Deliberately wrong variants, each showing that a property can fail, stand *)
(* before the definition they replace.  Here: the region is never enlarged. *)
CapacitiesIgnored(needed) == {region}

(* mos_memory_region_ensure_capacity: the sizes the region may have after  *)
(* it, none when the file cannot grow that far.                            *)
Capacities(needed) ==
  IF region >= needed THEN {region}
  ELSE {r \in RegionSizes : /\ r >= needed
                            /\ \A s \in RegionSizes : s >= needed => r <= s}

Fits(n) == head.off # Null /\ head.size >= n

LinkAt(off) == [off |-> mem[off], size |-> mem[off + 1]]

(* mos_arena_allocate(n): the block it returns and the allocator it leaves *)
(* behind.  Only the head of the free list is tried, and taken whole.      *)
AtLeast(n) == IF n < MinAlloc THEN MinAlloc ELSE n

(* Wrong: the head of the free list is handed out but stays on the list.   *)
AllocationsKeepHead(n) ==
  IF Fits(AtLeast(n))
  THEN {[block |-> head, next |-> next, region |-> region, head |-> head]}
  ELSE {[block |-> [off |-> next, size |-> AtLeast(n)],
         next |-> next + AtLeast(n), region |-> r, head |-> head] :
         r \in Capacities(next + AtLeast(n))}

Allocations(n) ==
  IF Fits(AtLeast(n))
  THEN {[block |-> head, next |-> next, region |-> region,
         head |-> IF mem[head.off] # Null THEN LinkAt(head.off) ELSE NoBlock]}
  ELSE {[block |-> [off |-> next, size |-> AtLeast(n)],
         next |-> next + AtLeast(n), region |-> r, head |-> head] :
         r \in Capacities(next + AtLeast(n))}

(* The growing mmap may move (MREMAP_MAYMOVE) while mos_arena_allocate     *)
(* still holds arena_header into the old mapping: its next access faults.  *)
Grows(n) == ~Fits(AtLeast(n)) /\ region < next + AtLeast(n)

(* Wrong: the freed block is zeroed but gets no link.                      *)
FreedWithoutLink(m, h, b) ==
  [w \in DOMAIN m |-> IF w \in Words(b) THEN 0 ELSE m[w]]

(* Memory after mos_arena_free(b) with h the head of the free list: the    *)
(* block is zeroed and its link becomes a copy of the link stored in h.    *)
Freed(m, h, b) ==
  LET zeroed == [w \in DOMAIN m |-> IF w \in Words(b) THEN 0 ELSE m[w]]
      link == IF h.off = Null THEN NoBlock
              ELSE [off |-> zeroed[h.off], size |-> zeroed[h.off + 1]]
  IN [zeroed EXCEPT ![b.off] = link.off, ![b.off + 1] = link.size]
-----------------------------------------------------------------------------
Allocate(o) ==
  /\ ~Holds(o)
  /\ \E a \in Allocations(FirstSize) :
       /\ block' = [block EXCEPT ![o] = a.block]
       /\ head' = a.head /\ next' = a.next /\ region' = a.region
  /\ outcome' = "ok"
  /\ UNCHANGED <<mem, used>>

AppendInPlace(o, v) ==
  /\ used[o] < block[o].size
  /\ mem' = [mem EXCEPT ![block[o].off + used[o]] = v]
  /\ used' = [used EXCEPT ![o] = @ + 1]
  /\ outcome' = "ok"
  /\ UNCHANGED <<allocator, block>>

(* mos_arena_append on a full block: twice the size, or just what is needed *)
(* when there is no block yet.                                             *)
GrownSize(o) == IF block[o].size > 0 THEN 2 * block[o].size ELSE used[o] + 1

(* Wrong: the last value is not copied.                                    *)
CopiedToShort(b, o) ==
  [w \in DOMAIN mem |-> IF w - b.off \in 0..(used[o] - 2)
                        THEN mem[block[o].off + (w - b.off)] ELSE mem[w]]

CopiedTo(b, o) ==
  [w \in DOMAIN mem |-> IF w - b.off \in 0..(used[o] - 1)
                        THEN mem[block[o].off + (w - b.off)] ELSE mem[w]]

AppendGrow(o, v) ==
  /\ used[o] >= block[o].size
  /\ \E a \in Allocations(GrownSize(o)) :
       LET copied == CopiedTo(a.block, o)
           kept   == IF Holds(o) THEN Freed(copied, a.head, block[o]) ELSE mem
       IN /\ mem' = [kept EXCEPT ![a.block.off + used[o]] = v]
          /\ head' = IF Holds(o) THEN block[o] ELSE a.head
          /\ block' = [block EXCEPT ![o] = a.block]
          /\ next' = a.next /\ region' = a.region
  /\ used' = [used EXCEPT ![o] = @ + 1]
  /\ outcome' = "ok"

Wanted(o) == IF Holds(o) THEN {GrownSize(o)} ELSE {FirstSize, GrownSize(o)}
AsksForMore(o) == used[o] >= block[o].size

(* ftruncate or mremap cannot provide the size: -1, nothing was changed.   *)
AllocationFails(o) ==
  /\ AsksForMore(o)
  /\ \E n \in Wanted(o) : Allocations(n) = {} \/ Grows(n)
  /\ outcome' = "failed"
  /\ UNCHANGED <<allocator, mem, block, used>>

(* The moved mapping: the process dies with the file already enlarged; a   *)
(* restart maps the file at its new size (mos_memory_region_open).         *)
AllocationFaults(o) ==
  /\ AsksForMore(o)
  /\ \E n \in Wanted(o) : Grows(n) /\ \E a \in Allocations(n) : region' = a.region
  /\ outcome' = "fault"
  /\ UNCHANGED <<head, next, mem, block, used>>

Free(o) ==
  /\ Holds(o)
  /\ mem' = Freed(mem, head, block[o])
  /\ head' = block[o]
  /\ block' = [block EXCEPT ![o] = NoBlock]
  /\ used' = [used EXCEPT ![o] = 0]
  /\ outcome' = "ok"
  /\ UNCHANGED <<next, region>>

Next ==
  \E o \in Owners :
    \/ Allocate(o)
    \/ \E v \in Values : AppendInPlace(o, v) \/ AppendGrow(o, v)
    \/ AllocationFails(o)
    \/ AllocationFaults(o)
    \/ Free(o)

Spec == Init /\ [][Next]_vars
-----------------------------------------------------------------------------
(* Every block lies behind the header page, before next_free_offset and in *)
(* the mapped file, is big enough for a link, and holds all the values its *)
(* owner counts (mos_arena.h:45-87; the accessor's check at 28-29 never    *)
(* has to refuse).                                                         *)
BlocksInside ==
  /\ Page <= next /\ next <= region
  /\ \A o \in Owners :
       /\ used[o] <= block[o].size
       /\ IF Holds(o) THEN /\ block[o].off >= Page
                           /\ block[o].size >= MinAlloc
                           /\ block[o].off + block[o].size <= next
          ELSE block[o] = NoBlock

(* No two owners share a word (mos_arena.h:45-87, 89-116).                 *)
BlocksDisjoint ==
  \A o, p \in Owners : o # p /\ Holds(o) /\ Holds(p) =>
    \/ block[o].off + block[o].size <= block[p].off
    \/ block[p].off + block[p].size <= block[o].off

(* The block the free list offers next belongs to nobody, and the link in  *)
(* it is intact: an append never wrote into it and an allocation that pops *)
(* it never takes a caller's value for a descriptor (mos_arena.h:55-68).   *)
HeadIsFree ==
  head.off # Null =>
    /\ head.off >= Page /\ head.size >= MinAlloc /\ head.off + head.size <= next
    /\ \A o \in Owners : Holds(o) =>
         \/ block[o].off + block[o].size <= head.off
         \/ head.off + head.size <= block[o].off
    /\ mem[head.off] = Null

(* What the owner reads back through its descriptor.                       *)
Contents(o) == [i \in 1..used[o] |-> mem[block[o].off + i - 1]]

Lists == INSTANCE ValueLists
           WITH lists <- [o \in Owners |-> Contents(o)]
(* Appends, growth, reuse of freed blocks and frees by other owners never   *)
(* change what an owner reads back: the arena implements value lists       *)
(* (mos_arena.h:130-157, "preserves existing bytes").                      *)
ListsPreserved == Lists!Spec
=============================================================================
