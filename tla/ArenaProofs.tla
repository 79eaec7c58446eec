---------------------------- MODULE ArenaProofs -----------------------------
(* Proofs about the dynamic arena, for any number of owners and any sizes. *)
EXTENDS Arena, TLAPS, SequenceTheorems

IInv == TypeOK /\ BlocksInside /\ BlocksDisjoint /\ HeadIsFree

(* A block that does not meet anything in use and lies inside the region.  *)
Fresh(b, nx) ==
  /\ b \in Descriptors
  /\ b.off >= Page /\ b.size >= MinAlloc /\ b.off + b.size <= nx
  /\ \A o \in Owners : Holds(o) =>
       \/ block[o].off + block[o].size <= b.off
       \/ b.off + b.size <= block[o].off

(* Growing the region yields one of its sizes, large enough.               *)
LEMMA CapacityBounds ==
  ASSUME TypeOK, NEW needed \in Nat, NEW r \in Capacities(needed)
  PROVE  r \in RegionSizes /\ r >= needed /\ r <= Limit
BY RegionAssumption DEF Capacities, TypeOK

(* What mos_arena_allocate promises: the block is fresh and large enough,  *)
(* and the head it leaves, if any, is still free and not this block.       *)
LEMMA AllocationFresh ==
  ASSUME IInv, NEW n \in Nat, NEW a \in Allocations(n)
  PROVE  /\ a.next \in Nat /\ next <= a.next /\ a.next <= a.region
         /\ a.region \in RegionSizes
         /\ Fresh(a.block, a.next)
         /\ a.block.size >= n
         /\ a.head \in Descriptors
         /\ a.head.off # Null => a.head = head /\ a.block.off = next
<1> USE PageAssumption, AllocAssumption, RegionAssumption
<1> DEFINE m == AtLeast(n)
<1>1. m \in Nat /\ m >= n /\ m >= MinAlloc
  BY DEF AtLeast
<1>2. next \in Nat /\ region \in Nat /\ head \in Descriptors
  BY DEF IInv, TypeOK
<1>3. CASE Fits(m)
  <2>1. a = [block |-> head, next |-> next, region |-> region,
             head |-> IF mem[head.off] # Null THEN LinkAt(head.off) ELSE NoBlock]
    BY <1>3 DEF Allocations
  <2>2. head.off # Null /\ head.size >= m
    BY <1>3 DEF Fits
  <2>3. mem[head.off] = Null
    BY <2>2 DEF IInv, HeadIsFree
  <2>4. a.head = NoBlock /\ a.block = head /\ a.next = next /\ a.region = region
    BY <2>1, <2>3
  <2>5. Fresh(head, next)
    BY <2>2, <1>2 DEF IInv, HeadIsFree, Fresh
  <2> QED
    BY <2>2, <2>4, <2>5, <1>1, <1>2 DEF IInv, TypeOK, BlocksInside, NoBlock, Descriptors, Null
<1>4. CASE ~Fits(m)
  <2>1. PICK r \in Capacities(next + m) :
          a = [block |-> [off |-> next, size |-> m],
               next |-> next + m, region |-> r, head |-> head]
    BY <1>4 DEF Allocations
  <2>2. r \in RegionSizes /\ r >= next + m
    BY <1>1, <1>2, CapacityBounds DEF IInv
  <2>3. Fresh([off |-> next, size |-> m], next + m)
    <3>1. \A o \in Owners : Holds(o) => block[o].off + block[o].size <= next
      BY DEF IInv, BlocksInside
    <3> QED
      BY <3>1, <1>1, <1>2 DEF Fresh, Descriptors, IInv, BlocksInside
  <2> QED
    BY <2>1, <2>2, <2>3, <1>1, <1>2
<1> QED
  BY <1>3, <1>4

(* The two words of a link are words of a block that can hold one.         *)
LEMMA LinkInside ==
  ASSUME NEW n \in Int, NEW x \in Int, NEW y \in Int, x >= 0, y >= 2, x + y <= n
  PROVE  /\ x \in 0..(n - 1) /\ x + 1 \in 0..(n - 1)
         /\ x \in x..(x + y - 1) /\ x + 1 \in x..(x + y - 1)
OBVIOUS

(* Blocks that do not overlap have no word in common.                      *)
LEMMA Apart ==
  ASSUME NEW x \in Int, NEW y \in Int, NEW u \in Int, NEW v \in Int, v >= 1,
         x + y <= u \/ u + v <= x
  PROVE  u \notin x..(x + y - 1)
OBVIOUS

(* mos_arena_free ends the list in the freed block and touches no other    *)
(* word: the head's link is Null, and that is what it copies.              *)
LEMMA FreedFacts ==
  ASSUME NEW m \in [0..(Limit - 1) -> Int], NEW h \in Descriptors, NEW b \in Descriptors,
         b.off >= 0, b.size >= MinAlloc, b.off + b.size <= Limit,
         h.off # Null => /\ h.off >= 0 /\ h.size >= MinAlloc /\ h.off + h.size <= Limit
                         /\ m[h.off] = Null
                         /\ \/ b.off + b.size <= h.off
                            \/ h.off + h.size <= b.off
  PROVE  /\ Freed(m, h, b) \in [0..(Limit - 1) -> Int]
         /\ Freed(m, h, b)[b.off] = Null
         /\ \A w \in 0..(Limit - 1) : w \notin Words(b) => Freed(m, h, b)[w] = m[w]
<1> USE AllocAssumption, RegionAssumption
<1> DEFINE zeroed == [w \in DOMAIN m |-> IF w \in Words(b) THEN 0 ELSE m[w]]
           link == IF h.off = Null THEN NoBlock
                   ELSE [off |-> zeroed[h.off], size |-> zeroed[h.off + 1]]
           new == [zeroed EXCEPT ![b.off] = link.off, ![b.off + 1] = link.size]
<1>1. Freed(m, h, b) = new
  BY DEF Freed
<1>2. zeroed \in [0..(Limit - 1) -> Int]
  OBVIOUS
<1>3. b.off \in Int /\ b.size \in Int /\ h.off \in Int /\ h.size \in Int /\ Limit \in Int
  BY DEF Descriptors
<1>4. link.off = Null /\ link.size \in Int
  <2>1. CASE h.off = Null
    BY <2>1 DEF NoBlock
  <2>2. CASE h.off # Null
    <3>1. /\ h.off >= 0 /\ h.size >= 2 /\ h.off + h.size <= Limit /\ m[h.off] = Null
          /\ b.off + b.size <= h.off \/ h.off + h.size <= b.off
      BY <2>2, <1>3
    <3>2. h.off \in 0..(Limit - 1) /\ h.off + 1 \in 0..(Limit - 1)
      BY <3>1, <1>3, LinkInside
    <3>3. h.off \notin Words(b)
      <4>1. h.size >= 1
        BY <3>1, <1>3
      <4> QED
        BY <3>1, <4>1, <1>3, Apart DEF Words
    <3>4. zeroed[h.off] = Null /\ zeroed[h.off + 1] \in Int
      BY <3>1, <3>2, <3>3, <1>2
    <3> QED
      BY <2>2, <3>4
  <2> QED
    BY <2>1, <2>2
<1>5. b.off >= 0 /\ b.size >= 2 /\ b.off + b.size <= Limit
  BY <1>3
<1>6. b.off \in 0..(Limit - 1) /\ b.off + 1 \in 0..(Limit - 1)
  BY <1>3, <1>5, LinkInside
<1>7. b.off \in Words(b) /\ b.off + 1 \in Words(b)
  BY <1>3, <1>5, LinkInside DEF Words
<1> HIDE DEF zeroed
<1> HIDE DEF link
<1>8. /\ new \in [0..(Limit - 1) -> Int] /\ new[b.off] = Null
      /\ \A w \in 0..(Limit - 1) : w \notin Words(b) => new[w] = zeroed[w]
  <2>1. link.off \in Int /\ link.size \in Int
    BY <1>4 DEF Null
  <2>2. b.off # b.off + 1
    BY <1>3
  <2>3. new \in [0..(Limit - 1) -> Int]
    BY <1>2, <2>1
  <2>4. new[b.off] = Null
    BY <1>2, <1>4, <1>6, <2>2
  <2>5. \A w \in 0..(Limit - 1) : w \notin Words(b) => new[w] = zeroed[w]
    BY <1>2, <1>7
  <2> QED
    BY <2>3, <2>4, <2>5
<1>9. \A w \in 0..(Limit - 1) : w \notin Words(b) => zeroed[w] = m[w]
  BY DEF zeroed
<1> QED
  BY <1>1, <1>8, <1>9
-----------------------------------------------------------------------------
(* An arena just initialized has no blocks.                                *)
LEMMA InitIInv == Init => IInv
BY PageAssumption, AllocAssumption, RegionAssumption
DEF Init, IInv, TypeOK, BlocksInside, BlocksDisjoint, HeadIsFree, Holds, NoBlock, Null,
    Descriptors

(* An owner that gets a fresh block keeps the layout of the arena sound.   *)
LEMMA RebindLayout ==
  ASSUME IInv, NEW o \in Owners, NEW b, NEW n \in Nat, n <= b.size,
         block' = [block EXCEPT ![o] = b], used' = [used EXCEPT ![o] = n],
         next' \in Nat, next <= next', next' <= region', region' \in RegionSizes,
         Fresh(b, next')
  PROVE  BlocksInside' /\ BlocksDisjoint'
<1> USE PageAssumption, AllocAssumption, RegionAssumption
<1>1. /\ block'[o] = b /\ used'[o] = n
      /\ \A p \in Owners \ {o} : block'[p] = block[p] /\ used'[p] = used[p]
      /\ block \in [Owners -> Descriptors] /\ next \in Nat /\ Page <= next
      /\ used \in [Owners -> Nat]
  BY DEF IInv, TypeOK, BlocksInside
<1>2. BlocksInside'
  <2>1. Page <= next' /\ next' <= region'
    BY <1>1
  <2>2. ASSUME NEW p \in Owners
        PROVE  /\ used'[p] <= block'[p].size
               /\ IF Holds(p)' THEN /\ block'[p].off >= Page
                                    /\ block'[p].size >= MinAlloc
                                    /\ block'[p].off + block'[p].size <= next'
                  ELSE block'[p] = NoBlock
    <3>1. CASE p = o
      BY <1>1, <3>1 DEF Fresh, Holds, Null, Descriptors
    <3>2. CASE p # o
      <4>1. block[p] \in Descriptors /\ used[p] \in Nat
        BY <1>1
      <4>2. /\ used[p] <= block[p].size
            /\ IF Holds(p) THEN /\ block[p].off >= Page
                                /\ block[p].size >= MinAlloc
                                /\ block[p].off + block[p].size <= next
               ELSE block[p] = NoBlock
        BY DEF IInv, BlocksInside
      <4> QED
        BY <1>1, <3>2, <4>1, <4>2 DEF Holds, Descriptors
    <3> QED
      BY <3>1, <3>2
  <2> QED
    BY <2>1, <2>2 DEF BlocksInside
<1>3. BlocksDisjoint'
  <2>1. ASSUME NEW p \in Owners, NEW q \in Owners, p # q, Holds(p)', Holds(q)'
        PROVE  \/ block'[p].off + block'[p].size <= block'[q].off
               \/ block'[q].off + block'[q].size <= block'[p].off
    <3>1. CASE p # o /\ q # o
      BY <2>1, <3>1, <1>1 DEF IInv, BlocksDisjoint, Holds
    <3>2. CASE p = o
      BY <2>1, <3>2, <1>1 DEF Fresh, Holds
    <3>3. CASE q = o
      BY <2>1, <3>3, <1>1 DEF Fresh, Holds
    <3> QED
      BY <3>1, <3>2, <3>3
  <2> QED
    BY <2>1 DEF BlocksDisjoint
<1> QED
  BY <1>2, <1>3

(* The first block of an owner.                                            *)
LEMMA AllocateIInv ==
  ASSUME IInv, NEW o \in Owners, Allocate(o)
  PROVE  IInv'
<1> USE PageAssumption, AllocAssumption, RegionAssumption
<1>1. PICK a \in Allocations(FirstSize) :
        /\ block' = [block EXCEPT ![o] = a.block]
        /\ head' = a.head /\ next' = a.next /\ region' = a.region
  BY DEF Allocate
<1>2. /\ ~Holds(o) /\ mem' = mem /\ used' = used /\ outcome' = "ok"
  BY DEF Allocate
<1>3. /\ a.next \in Nat /\ next <= a.next /\ a.next <= a.region
      /\ a.region \in RegionSizes
      /\ Fresh(a.block, a.next)
      /\ a.head \in Descriptors
      /\ a.head.off # Null => a.head = head /\ a.block.off = next
  BY AllocationFresh
<1>4. /\ block'[o] = a.block
      /\ \A p \in Owners \ {o} : block'[p] = block[p]
      /\ block \in [Owners -> Descriptors] /\ head \in Descriptors /\ next \in Nat
  BY <1>1 DEF IInv, TypeOK
<1>5. TypeOK'
  BY <1>1, <1>2, <1>3 DEF IInv, TypeOK, Fresh
<1>6. BlocksInside' /\ BlocksDisjoint'
  <2>1. used[o] = 0
    BY <1>2 DEF IInv, TypeOK, BlocksInside, NoBlock
  <2>2. used' = [used EXCEPT ![o] = 0]
    BY <2>1, <1>2 DEF IInv, TypeOK
  <2>3. 0 <= a.block.size
    BY <1>3 DEF Fresh, Descriptors
  <2> QED
    BY <1>1, <1>3, <2>2, <2>3, RebindLayout
<1>7. HeadIsFree'
  <2> SUFFICES ASSUME head'.off # Null
               PROVE  HeadIsFree'
    BY DEF HeadIsFree
  <2>1. head' = head /\ a.block.off = next
    BY <1>1, <1>3
  <2>2. /\ head.off >= Page /\ head.size >= MinAlloc /\ head.off + head.size <= next
        /\ mem[head.off] = Null
        /\ \A p \in Owners : Holds(p) =>
             \/ block[p].off + block[p].size <= head.off
             \/ head.off + head.size <= block[p].off
    BY <2>1 DEF IInv, HeadIsFree
  <2>3. \A p \in Owners : Holds(p)' =>
             \/ block'[p].off + block'[p].size <= head.off
             \/ head.off + head.size <= block'[p].off
    BY <2>1, <2>2, <1>4 DEF Holds
  <2>4. head.off + head.size <= next'
    BY <2>2, <1>1, <1>3, <1>4 DEF Descriptors
  <2> QED
    BY <2>1, <2>2, <2>3, <2>4, <1>2 DEF HeadIsFree
<1> QED
  BY <1>5, <1>6, <1>7 DEF IInv

(* An append writes inside the block of its owner and so not into the head.*)
LEMMA AppendInPlaceIInv ==
  ASSUME IInv, NEW o \in Owners, NEW v \in Values, AppendInPlace(o, v)
  PROVE  IInv'
<1> USE PageAssumption, AllocAssumption, RegionAssumption, ValuesAssumption
<1> DEFINE at == block[o].off + used[o]
<1>1. /\ used[o] < block[o].size
      /\ mem' = [mem EXCEPT ![at] = v]
      /\ used' = [used EXCEPT ![o] = @ + 1]
      /\ head' = head /\ next' = next /\ region' = region /\ block' = block
      /\ outcome' = "ok"
  BY DEF AppendInPlace, allocator
<1>2. /\ used \in [Owners -> Nat] /\ block \in [Owners -> Descriptors]
      /\ head \in Descriptors /\ mem \in [0..(Limit - 1) -> Int]
  BY DEF IInv, TypeOK
<1>3. Holds(o)
  BY <1>1, <1>2 DEF IInv, BlocksInside, NoBlock, Descriptors
<1>4. TypeOK'
  <2>1. mem' \in [0..(Limit - 1) -> Int]
    <3>1. v \in Int
      OBVIOUS
    <3> QED
      BY <1>1, <1>2, <3>1
  <2>2. used' \in [Owners -> Nat]
    BY <1>1, <1>2
  <2> QED
    BY <1>1, <2>1, <2>2 DEF IInv, TypeOK
<1>5. BlocksInside'
  BY <1>1, <1>2 DEF IInv, BlocksInside, Holds, Descriptors
<1>6. BlocksDisjoint'
  BY <1>1 DEF IInv, BlocksDisjoint, Holds
<1>7. HeadIsFree'
  <2>1. head.off # Null => head.off # at
    <3> SUFFICES ASSUME head.off # Null PROVE head.off # at
      OBVIOUS
    <3>1. \/ block[o].off + block[o].size <= head.off
          \/ head.off + head.size <= block[o].off
      BY <1>3 DEF IInv, HeadIsFree
    <3>2. head.size >= MinAlloc
      BY DEF IInv, HeadIsFree
    <3>3. /\ block[o].off \in Int /\ block[o].size \in Int /\ used[o] \in Nat
          /\ head.off \in Int /\ head.size \in Int
      BY <1>2 DEF Descriptors
    <3> QED
      BY <1>1, <3>1, <3>2, <3>3
  <2>2. mem'[head.off] = mem[head.off] \/ head.off = at
    BY <1>1, <1>2
  <2> QED
    BY <1>1, <2>1, <2>2 DEF IInv, HeadIsFree, Holds
<1> QED
  BY <1>4, <1>5, <1>6, <1>7 DEF IInv

(* Freeing a block changes no word of another.                             *)
LEMMA FreeWords ==
  ASSUME IInv, NEW o \in Owners, Holds(o)
  PROVE  /\ Freed(mem, head, block[o]) \in [0..(Limit - 1) -> Int]
         /\ Freed(mem, head, block[o])[block[o].off] = Null
         /\ \A w \in 0..(Limit - 1) : w \notin Words(block[o]) =>
              Freed(mem, head, block[o])[w] = mem[w]
<1> USE PageAssumption, AllocAssumption, RegionAssumption
<1>1. Holds(o)
  OBVIOUS
<1>2. /\ used \in [Owners -> Nat] /\ block \in [Owners -> Descriptors]
      /\ head \in Descriptors /\ mem \in [0..(Limit - 1) -> Int]
      /\ next \in Nat /\ region \in RegionSizes /\ next <= region
  BY DEF IInv, TypeOK, BlocksInside
<1>3. /\ block[o].off >= Page /\ block[o].size >= MinAlloc
      /\ block[o].off + block[o].size <= next
  BY <1>1 DEF IInv, BlocksInside
<1>4. block[o] \in Descriptors /\ block[o].off >= 0 /\ block[o].off + block[o].size <= Limit
  BY <1>2, <1>3 DEF Descriptors
<1>5. head.off # Null => /\ head.off >= 0 /\ head.size >= MinAlloc
                         /\ head.off + head.size <= Limit
                         /\ mem[head.off] = Null
                         /\ \/ block[o].off + block[o].size <= head.off
                            \/ head.off + head.size <= block[o].off
  <2> SUFFICES ASSUME head.off # Null
               PROVE  /\ head.off >= 0 /\ head.size >= MinAlloc
                      /\ head.off + head.size <= Limit
                      /\ mem[head.off] = Null
                      /\ \/ block[o].off + block[o].size <= head.off
                         \/ head.off + head.size <= block[o].off
    OBVIOUS
  <2>1. /\ head.off >= Page /\ head.size >= MinAlloc /\ head.off + head.size <= next
        /\ mem[head.off] = Null
        /\ \/ block[o].off + block[o].size <= head.off
           \/ head.off + head.size <= block[o].off
    BY <1>1 DEF IInv, HeadIsFree
  <2>2. head.off \in Int /\ head.size \in Int /\ next <= Limit
    BY <1>2 DEF Descriptors
  <2> QED
    BY <2>1, <2>2, <1>2
<1> QED
  BY <1>1, <1>2, <1>3, <1>4, <1>5, FreedFacts

(* A block that is freed becomes the head of the free list.                *)
LEMMA FreeIInv ==
  ASSUME IInv, NEW o \in Owners, Free(o)
  PROVE  IInv'
<1> USE PageAssumption, AllocAssumption, RegionAssumption
<1>1. /\ Holds(o)
      /\ mem' = Freed(mem, head, block[o])
      /\ head' = block[o]
      /\ block' = [block EXCEPT ![o] = NoBlock]
      /\ used' = [used EXCEPT ![o] = 0]
      /\ next' = next /\ region' = region /\ outcome' = "ok"
  BY DEF Free
<1>2. /\ used \in [Owners -> Nat] /\ block \in [Owners -> Descriptors]
      /\ head \in Descriptors /\ mem \in [0..(Limit - 1) -> Int]
      /\ next \in Nat /\ region \in RegionSizes /\ next <= region
  BY DEF IInv, TypeOK, BlocksInside
<1>3. /\ block[o].off >= Page /\ block[o].size >= MinAlloc
      /\ block[o].off + block[o].size <= next
  BY <1>1 DEF IInv, BlocksInside
<1>4. /\ mem' \in [0..(Limit - 1) -> Int] /\ mem'[block[o].off] = Null
  BY <1>1, FreeWords
<1>5. /\ block'[o] = NoBlock /\ used'[o] = 0
      /\ \A p \in Owners \ {o} : block'[p] = block[p] /\ used'[p] = used[p]
  BY <1>1, <1>2
<1>6. TypeOK'
  BY <1>1, <1>2, <1>4 DEF IInv, TypeOK, NoBlock, Descriptors, Null
<1>7. BlocksInside'
  <2>1. ASSUME NEW p \in Owners
        PROVE  /\ used'[p] <= block'[p].size
               /\ IF Holds(p)' THEN /\ block'[p].off >= Page
                                    /\ block'[p].size >= MinAlloc
                                    /\ block'[p].off + block'[p].size <= next'
                  ELSE block'[p] = NoBlock
    <3>1. CASE p = o
      BY <3>1, <1>5 DEF Holds, NoBlock
    <3>2. CASE p # o
      BY <3>2, <1>1, <1>5 DEF IInv, BlocksInside, Holds
    <3> QED
      BY <3>1, <3>2
  <2> QED
    BY <2>1, <1>1 DEF IInv, BlocksInside
<1>8. BlocksDisjoint'
  BY <1>5 DEF IInv, BlocksDisjoint, Holds, NoBlock
<1>9. HeadIsFree'
  <2>1. \A p \in Owners : Holds(p)' =>
             \/ block'[p].off + block'[p].size <= block[o].off
             \/ block[o].off + block[o].size <= block'[p].off
    BY <1>1, <1>5 DEF IInv, BlocksDisjoint, Holds, NoBlock
  <2> QED
    BY <1>1, <1>3, <1>4, <2>1 DEF HeadIsFree
<1> QED
  BY <1>6, <1>7, <1>8, <1>9 DEF IInv

(* Growing a list: a fresh block large enough, the values copied to it, and *)
(* the old block freed without touching any other word.                    *)
LEMMA GrowFacts ==
  ASSUME IInv, NEW o \in Owners, used[o] >= block[o].size,
         NEW a \in Allocations(GrownSize(o))
  PROVE  /\ a.next \in Nat /\ next <= a.next /\ a.next <= a.region
         /\ a.region \in RegionSizes
         /\ Fresh(a.block, a.next)
         /\ a.head \in Descriptors
         /\ a.head.off # Null => a.head = head /\ a.block.off = next
         /\ a.block \in Descriptors /\ a.block.off \in Int /\ a.block.size \in Int
         /\ a.block.off >= Page /\ a.block.off + a.block.size <= Limit
         /\ used[o] + 1 <= a.block.size
         /\ CopiedTo(a.block, o) \in [0..(Limit - 1) -> Int]
         /\ Holds(o) =>
              /\ Freed(CopiedTo(a.block, o), a.head, block[o]) \in [0..(Limit - 1) -> Int]
              /\ Freed(CopiedTo(a.block, o), a.head, block[o])[block[o].off] = Null
              /\ \A w \in 0..(Limit - 1) : w \notin Words(block[o]) =>
                   Freed(CopiedTo(a.block, o), a.head, block[o])[w] = CopiedTo(a.block, o)[w]
<1> USE PageAssumption, AllocAssumption, RegionAssumption
<1> DEFINE n == GrownSize(o)
           copied == CopiedTo(a.block, o)
<1>1. used[o] >= block[o].size
  OBVIOUS
<1>3. /\ block \in [Owners -> Descriptors]
      /\ head \in Descriptors /\ mem \in [0..(Limit - 1) -> Int]
      /\ next \in Nat /\ region \in RegionSizes
      /\ used[o] \in Nat /\ block[o].size \in Int /\ block[o].off \in Int
  BY DEF IInv, TypeOK, Descriptors
<1>4. n \in Nat /\ used[o] < n
  <2>1. used[o] <= block[o].size
    BY DEF IInv, BlocksInside
  <2> QED
    BY <1>1, <1>3, <2>1 DEF GrownSize
<1>5. /\ a.next \in Nat /\ next <= a.next /\ a.next <= a.region
      /\ a.region \in RegionSizes
      /\ Fresh(a.block, a.next)
      /\ a.block.size >= n
      /\ a.head \in Descriptors
      /\ a.head.off # Null => a.head = head /\ a.block.off = next
  BY <1>4, AllocationFresh
<1>6. /\ a.block \in Descriptors /\ a.block.off \in Int /\ a.block.size \in Int
      /\ a.block.off >= Page /\ a.block.off + a.block.size <= Limit
      /\ used[o] + 1 <= a.block.size
  <2>1. /\ a.block \in Descriptors /\ a.block.off >= Page
        /\ a.block.off + a.block.size <= a.next
    BY <1>5 DEF Fresh
  <2>2. a.block.off \in Int /\ a.block.size \in Int
    BY <2>1 DEF Descriptors
  <2>3. a.region \in 1..Limit
    BY <1>5
  <2>4. a.next <= Limit
    BY <2>3, <1>5
  <2> HIDE DEF n
  <2>5. used[o] + 1 <= a.block.size
    BY <2>2, <1>3, <1>4, <1>5
  <2> QED
    BY <2>1, <2>2, <2>4, <2>5, <1>5
<1>8. copied \in [0..(Limit - 1) -> Int]
  <2>1. ASSUME NEW w \in 0..(Limit - 1)
        PROVE  copied[w] \in Int
    <3>1. CASE w - a.block.off \in 0..(used[o] - 1)
      <4>1. copied[w] = mem[block[o].off + (w - a.block.off)]
        BY <1>3, <3>1 DEF CopiedTo
      <4>2. Holds(o)
        BY <1>1, <1>3, <3>1 DEF IInv, BlocksInside, NoBlock
      <4>3. /\ block[o].off >= Page /\ block[o].off + block[o].size <= next
            /\ next <= region /\ used[o] <= block[o].size
        BY <4>2 DEF IInv, BlocksInside
      <4>4. block[o].off + (w - a.block.off) \in 0..(Limit - 1)
        <5>1. PICK i \in 0..(used[o] - 1) : i = w - a.block.off
          BY <3>1
        <5>2. i \in Int /\ 0 <= i /\ i < used[o]
          BY <5>1, <1>3
        <5>3. next <= Limit /\ next \in Int /\ Limit \in Int
          <6>1. region \in Int /\ region <= Limit
            BY <1>3
          <6> QED
            BY <6>1, <4>3, <1>3
        <5>4. ASSUME NEW x \in Int, NEW y \in Int, NEW p \in Int, NEW q \in Int,
                     x >= 0, x + y <= p, p <= Limit, q <= y, i < q
              PROVE  x + i \in 0..(Limit - 1)
          BY <5>2, <5>3, <5>4
        <5>5. block[o].off >= 0 /\ used[o] \in Int
          BY <4>3, <1>3
        <5>6. block[o].off + i \in 0..(Limit - 1)
          BY <5>2, <5>3, <5>4, <5>5, <4>3, <1>3
        <5> QED
          BY <5>1, <5>6
      <4> QED
        BY <4>1, <4>4, <1>3
    <3>2. CASE w - a.block.off \notin 0..(used[o] - 1)
      BY <1>3, <3>2 DEF CopiedTo
    <3> QED
      BY <3>1, <3>2
  <2>2. copied = [w \in 0..(Limit - 1) |-> copied[w]]
    BY <1>3 DEF CopiedTo
  <2> HIDE DEF copied
  <2> QED
    BY <2>1, <2>2
<1>9. ASSUME a.head.off # Null
      PROVE  /\ a.head.off >= 0 /\ a.head.size >= MinAlloc /\ a.head.off + a.head.size <= Limit
             /\ a.head.off < a.block.off
             /\ mem[a.head.off] = Null /\ copied[a.head.off] = Null
  <2>1. /\ a.head = head /\ a.block.off = next
        /\ head.off >= Page /\ head.size >= MinAlloc /\ head.off + head.size <= next
        /\ mem[head.off] = Null
    BY <1>5, <1>9 DEF IInv, HeadIsFree
  <2>2. head.off \in Int /\ head.size \in Int /\ next <= Limit
    BY <1>3 DEF Descriptors, IInv, BlocksInside
  <2>3. head.off \in 0..(Limit - 1) /\ head.off < next
    BY <2>1, <2>2, <1>3
  <2>4. head.off - a.block.off \notin 0..(used[o] - 1)
    BY <2>1, <2>2, <2>3, <1>3
  <2>5. copied[head.off] = mem[head.off]
    BY <2>3, <2>4, <1>3 DEF CopiedTo
  <2> QED
    BY <2>1, <2>2, <2>3, <2>5, <1>3
<1>10. ASSUME Holds(o)
       PROVE  /\ Freed(copied, a.head, block[o]) \in [0..(Limit - 1) -> Int]
              /\ Freed(copied, a.head, block[o])[block[o].off] = Null
              /\ \A w \in 0..(Limit - 1) : w \notin Words(block[o]) =>
                   Freed(copied, a.head, block[o])[w] = copied[w]
  <2>1. /\ block[o] \in Descriptors /\ block[o].off >= Page /\ block[o].size >= MinAlloc
        /\ block[o].off + block[o].size <= next /\ next <= Limit
    BY <1>3, <1>10 DEF IInv, BlocksInside
  <2>2. a.head.off # Null => \/ block[o].off + block[o].size <= a.head.off
                             \/ a.head.off + a.head.size <= block[o].off
    BY <1>5, <1>10 DEF IInv, HeadIsFree
  <2>3. block[o].off >= 0 /\ block[o].off + block[o].size <= Limit
    BY <2>1, <1>3
  <2> HIDE DEF copied
  <2> QED
    BY <1>5, <1>8, <1>9, <2>1, <2>2, <2>3, FreedFacts
<1> QED
  BY <1>5, <1>6, <1>8, <1>10

(* An append that outgrows its block: a fresh block, then the old is freed.*)
LEMMA AppendGrowIInv ==
  ASSUME IInv, NEW o \in Owners, NEW v \in Values, AppendGrow(o, v)
  PROVE  IInv'
<1> USE PageAssumption, AllocAssumption, RegionAssumption, ValuesAssumption
<1> DEFINE n == GrownSize(o)
           copied(a) == CopiedTo(a.block, o)
           kept(a) == IF Holds(o) THEN Freed(copied(a), a.head, block[o]) ELSE mem
<1>1. PICK a \in Allocations(n) :
        /\ mem' = [kept(a) EXCEPT ![a.block.off + used[o]] = v]
        /\ head' = IF Holds(o) THEN block[o] ELSE a.head
        /\ block' = [block EXCEPT ![o] = a.block]
        /\ next' = a.next /\ region' = a.region
  BY DEF AppendGrow
<1>2. /\ used[o] >= block[o].size /\ outcome' = "ok"
      /\ used' = [used EXCEPT ![o] = used[o] + 1]
  BY DEF AppendGrow
<1>3. /\ used \in [Owners -> Nat] /\ block \in [Owners -> Descriptors]
      /\ head \in Descriptors /\ mem \in [0..(Limit - 1) -> Int]
      /\ next \in Nat /\ region \in RegionSizes
      /\ used[o] \in Nat /\ block[o].size \in Int /\ block[o].off \in Int
  BY DEF IInv, TypeOK, Descriptors
<1>5. /\ a.next \in Nat /\ next <= a.next /\ a.next <= a.region
      /\ a.region \in RegionSizes
      /\ Fresh(a.block, a.next)
      /\ a.head \in Descriptors
      /\ a.head.off # Null => a.head = head /\ a.block.off = next
  BY <1>2, GrowFacts
<1>6. /\ a.block \in Descriptors /\ a.block.off \in Int /\ a.block.size \in Int
      /\ a.block.off >= Page /\ a.block.off + a.block.size <= Limit
      /\ used[o] + 1 <= a.block.size
  BY <1>2, GrowFacts
<1>7. BlocksInside' /\ BlocksDisjoint'
  <2>1. used[o] + 1 \in Nat
    BY <1>3
  <2>2. /\ next' \in Nat /\ next <= next' /\ next' <= region' /\ region' \in RegionSizes
        /\ Fresh(a.block, next')
    BY <1>1, <1>5
  <2> QED
    BY <1>1, <1>2, <1>6, <2>1, <2>2, RebindLayout
<1>10. CASE Holds(o)
  <2>1. /\ block[o] \in Descriptors /\ block[o].off >= Page /\ block[o].size >= MinAlloc
        /\ block[o].off + block[o].size <= next /\ next <= Limit
    BY <1>3, <1>10 DEF IInv, BlocksInside
  <2>4. /\ kept(a) \in [0..(Limit - 1) -> Int] /\ kept(a)[block[o].off] = Null
    BY <1>2, <1>10, GrowFacts
  <2>5. block[o].off # a.block.off + used[o]
    <3>1. \/ block[o].off + block[o].size <= a.block.off
          \/ a.block.off + a.block.size <= block[o].off
      BY <1>5, <1>10 DEF Fresh
    <3>2. block[o].size >= 2
      BY <2>1, <1>3
    <3>3. ASSUME NEW x \in Int, NEW y \in Int, NEW p \in Int, NEW q \in Int, NEW u \in Nat,
                 x + y <= p \/ p + q <= x, y >= 2, u + 1 <= q
          PROVE  x # p + u
      BY <3>3
    <3> QED
      BY <3>1, <3>2, <3>3, <1>3, <1>6
  <2> HIDE DEF kept
  <2>6. mem' \in [0..(Limit - 1) -> Int] /\ mem'[block[o].off] = Null
    <3>1. v \in Int
      OBVIOUS
    <3>2. mem' \in [0..(Limit - 1) -> Int]
      BY <1>1, <2>4, <3>1
    <3>3. block[o].off \in 0..(Limit - 1)
      BY <2>1, <1>3
    <3> QED
      BY <1>1, <2>4, <2>5, <3>2, <3>3
  <2>7. TypeOK'
    <3>1. head' \in Descriptors /\ next' \in Nat /\ region' \in RegionSizes
      BY <1>1, <1>5, <1>10, <2>1
    <3>2. block' \in [Owners -> Descriptors]
      BY <1>1, <1>3, <1>6
    <3>3. used[o] + 1 \in Nat
      BY <1>3
    <3>4. used' \in [Owners -> Nat]
      BY <1>2, <1>3, <3>3
    <3> QED
      BY <1>2, <2>6, <3>1, <3>2, <3>4 DEF TypeOK
  <2>8. HeadIsFree'
    <3>1. head' = block[o]
      BY <1>1, <1>10
    <3>2. \A p \in Owners : Holds(p)' =>
             \/ block'[p].off + block'[p].size <= block[o].off
             \/ block[o].off + block[o].size <= block'[p].off
      <4>1. ASSUME NEW p \in Owners, Holds(p)'
            PROVE  \/ block'[p].off + block'[p].size <= block[o].off
                   \/ block[o].off + block[o].size <= block'[p].off
        <5>1. CASE p = o
          BY <5>1, <1>1, <1>3, <1>5, <1>10 DEF Fresh
        <5>2. CASE p # o
          BY <5>2, <4>1, <1>1, <1>3, <1>10 DEF IInv, BlocksDisjoint, Holds
        <5> QED
          BY <5>1, <5>2
      <4> QED
        BY <4>1
    <3>3. block[o].off + block[o].size <= next'
      BY <1>1, <1>3, <1>5, <2>1
    <3> QED
      BY <2>1, <2>6, <3>1, <3>2, <3>3 DEF HeadIsFree
  <2> QED
    BY <1>7, <2>7, <2>8 DEF IInv
<1>11. CASE ~Holds(o)
  <2>1. mem' = [mem EXCEPT ![a.block.off + used[o]] = v] /\ head' = a.head
    BY <1>1, <1>11
  <2>2. mem' \in [0..(Limit - 1) -> Int]
    <3>1. v \in Int
      OBVIOUS
    <3> QED
      BY <1>3, <2>1, <3>1
  <2>3. TypeOK'
    <3>1. head' \in Descriptors /\ next' \in Nat /\ region' \in RegionSizes
      BY <1>1, <1>5, <2>1
    <3>2. block' \in [Owners -> Descriptors] /\ used' \in [Owners -> Nat]
      BY <1>1, <1>2, <1>3, <1>6
    <3> QED
      BY <1>2, <2>2, <3>1, <3>2 DEF TypeOK
  <2>4. HeadIsFree'
    <3> SUFFICES ASSUME a.head.off # Null
                 PROVE  HeadIsFree'
      BY <2>1 DEF HeadIsFree
    <3>1. /\ a.head = head /\ a.block.off = next
          /\ head.off >= Page /\ head.size >= MinAlloc /\ head.off + head.size <= next
          /\ mem[head.off] = Null
      BY <1>5 DEF IInv, HeadIsFree
    <3>2. head.off \in Int /\ head.size \in Int
      BY <1>3 DEF Descriptors
    <3>3. mem'[head.off] = Null
      <4>1. head.off # a.block.off + used[o]
        BY <3>1, <3>2, <1>3
      <4> QED
        BY <2>1, <3>1, <4>1, <1>3
    <3>4. \A p \in Owners : Holds(p)' =>
             \/ block'[p].off + block'[p].size <= head.off
             \/ head.off + head.size <= block'[p].off
      <4>1. ASSUME NEW p \in Owners, Holds(p)'
            PROVE  \/ block'[p].off + block'[p].size <= head.off
                   \/ head.off + head.size <= block'[p].off
        <5>1. CASE p = o
          BY <5>1, <3>1, <1>1, <1>3
        <5>2. CASE p # o
          BY <5>2, <4>1, <3>1, <1>1, <1>3 DEF IInv, HeadIsFree, Holds
        <5> QED
          BY <5>1, <5>2
      <4> QED
        BY <4>1
    <3>5. head.off + head.size <= next'
      BY <3>1, <3>2, <1>1, <1>3, <1>5
    <3> QED
      BY <2>1, <3>1, <3>3, <3>4, <3>5 DEF HeadIsFree
  <2> QED
    BY <1>7, <2>3, <2>4 DEF IInv
<1> QED
  BY <1>10, <1>11

(* Calls that fail, or die with the file already enlarged, keep the layout.*)
LEMMA FaultIInv ==
  ASSUME IInv, NEW o \in Owners, AllocationFaults(o)
  PROVE  IInv'
<1>0. PICK n \in Wanted(o) : \E a \in Allocations(n) : region' = a.region
  BY DEF AllocationFaults
<1>1. PICK a \in Allocations(n) : region' = a.region
  BY <1>0
<1>2. n \in Nat
  <2>1. used[o] \in Nat /\ block[o] \in Descriptors
    BY DEF IInv, TypeOK
  <2>2. GrownSize(o) \in Nat
    BY <2>1 DEF GrownSize, Descriptors
  <2> QED
    BY <2>2, AllocAssumption DEF Wanted
<1>3. next <= a.next /\ a.next <= a.region /\ a.region \in RegionSizes /\ a.next \in Nat
  BY <1>1, <1>2, AllocationFresh
<1>4. /\ head' = head /\ next' = next /\ mem' = mem /\ block' = block /\ used' = used
      /\ outcome' = "fault"
  BY DEF AllocationFaults
<1>5. next <= region'
  <2>1. next \in Nat
    BY DEF IInv, TypeOK
  <2>2. a.region \in 1..Limit /\ Limit \in Nat
    BY <1>3, RegionAssumption
  <2> QED
    BY <1>1, <1>3, <2>1, <2>2
<1> QED
  BY <1>1, <1>3, <1>4, <1>5
  DEF IInv, TypeOK, BlocksInside, BlocksDisjoint, HeadIsFree, Holds
-----------------------------------------------------------------------------
(* Every operation preserves the invariant.                                *)
LEMMA NextIInv == IInv /\ [Next]_vars => IInv'
<1> SUFFICES ASSUME IInv, [Next]_vars
             PROVE  IInv'
  OBVIOUS
<1>1. CASE UNCHANGED vars
  BY <1>1 DEF vars, IInv, TypeOK, BlocksInside, BlocksDisjoint, HeadIsFree, Holds
<1>2. ASSUME NEW o \in Owners, Allocate(o)
      PROVE  IInv'
  BY <1>2, AllocateIInv
<1>3. ASSUME NEW o \in Owners, NEW v \in Values, AppendInPlace(o, v)
      PROVE  IInv'
  BY <1>3, AppendInPlaceIInv
<1>4. ASSUME NEW o \in Owners, NEW v \in Values, AppendGrow(o, v)
      PROVE  IInv'
  BY <1>4, AppendGrowIInv
<1>5. ASSUME NEW o \in Owners, AllocationFails(o)
      PROVE  IInv'
  BY <1>5 DEF AllocationFails, allocator, IInv, TypeOK, BlocksInside, BlocksDisjoint,
              HeadIsFree, Holds
<1>6. ASSUME NEW o \in Owners, AllocationFaults(o)
      PROVE  IInv'
  BY <1>6, FaultIInv
<1>7. ASSUME NEW o \in Owners, Free(o)
      PROVE  IInv'
  BY <1>7, FreeIInv
<1> QED
  BY <1>1, <1>2, <1>3, <1>4, <1>5, <1>6, <1>7 DEF Next

(* The layout of the arena is sound for ever: descriptors stay well-typed, *)
(* blocks lie inside the file and apart, and the block the free list       *)
(* offers next is nobody's, with its link intact.                          *)
THEOREM ArenaLayout == Spec => [](TypeOK /\ BlocksInside /\ BlocksDisjoint /\ HeadIsFree)
<1>1. IInv => TypeOK /\ BlocksInside /\ BlocksDisjoint /\ HeadIsFree
  BY DEF IInv
<1> QED
  BY InitIInv, NextIInv, <1>1, PTL DEF Spec

(* The blocks of every owner are inside the file.                          *)
THEOREM BlocksStayInside == Spec => []BlocksInside
BY ArenaLayout, PTL

(* The head of the free list stays nobody's and its link intact.           *)
THEOREM HeadStaysFree == Spec => []HeadIsFree
BY ArenaLayout, PTL
-----------------------------------------------------------------------------
(* What an owner reads is a sequence as long as the values it counts.       *)
LEMMA ContentsFacts ==
  ASSUME IInv, NEW o \in Owners
  PROVE  /\ used[o] \in Nat /\ block[o].off \in Int /\ block[o].size \in Int
         /\ used[o] <= block[o].size
         /\ used[o] > 0 => Holds(o)
         /\ Holds(o) => /\ block[o].off >= 0 /\ block[o].off + block[o].size <= Limit
                        /\ block[o].size >= 2
         /\ \A i \in 1..used[o] : /\ block[o].off + i - 1 \in Words(block[o])
                                  /\ block[o].off + i - 1 \in 0..(Limit - 1)
         /\ Contents(o) \in Seq(Int) /\ Len(Contents(o)) = used[o]
<1> USE PageAssumption, AllocAssumption, RegionAssumption
<1>1. used[o] \in Nat /\ block[o].off \in Int /\ block[o].size \in Int
  BY DEF IInv, TypeOK, Descriptors
<1>2. used[o] <= block[o].size /\ (used[o] > 0 => Holds(o))
  BY <1>1 DEF IInv, BlocksInside, NoBlock
<1>3. Holds(o) => /\ block[o].off >= 0 /\ block[o].off + block[o].size <= Limit
                  /\ block[o].size >= 2
  <2>1. next <= region /\ region \in 1..Limit /\ next \in Nat
    BY DEF IInv, TypeOK, BlocksInside
  <2>2. Holds(o) => /\ block[o].off >= Page /\ block[o].size >= MinAlloc
                    /\ block[o].off + block[o].size <= next
    BY DEF IInv, BlocksInside
  <2> QED
    BY <1>1, <2>1, <2>2
<1>4. \A i \in 1..used[o] : /\ block[o].off + i - 1 \in Words(block[o])
                            /\ block[o].off + i - 1 \in 0..(Limit - 1)
  BY <1>1, <1>2, <1>3 DEF Words
<1>5. Contents(o) \in [1..used[o] -> Int]
  BY <1>4 DEF Contents, IInv, TypeOK
<1>6. Contents(o) \in Seq(Int) /\ Len(Contents(o)) = used[o]
  BY <1>1, <1>5, IsASeq, LenProperties
<1> QED
  BY <1>1, <1>2, <1>3, <1>4, <1>6

ReadsLists == \A o \in Owners : Contents(o) \in Seq(Int) /\ Len(Contents(o)) = used[o]
LEMMA ContentsTyped == IInv => ReadsLists
BY ContentsFacts DEF ReadsLists

(* An owner whose words are left alone, or copied, reads the same list.     *)
LEMMA SameContents ==
  ASSUME NEW o \in Owners, used'[o] = used[o],
         \A i \in 1..used[o] : mem'[block'[o].off + i - 1] = mem[block[o].off + i - 1]
  PROVE  Contents(o)' = Contents(o)
BY DEF Contents

LEMMA OneMore ==
  ASSUME IInv, IInv', NEW o \in Owners, NEW v \in Int, used'[o] = used[o] + 1,
         \A i \in 1..used[o] : mem'[block'[o].off + i - 1] = mem[block[o].off + i - 1],
         mem'[block'[o].off + (used[o] + 1) - 1] = v
  PROVE  Contents(o)' = Append(Contents(o), v)
<1>1. /\ used[o] \in Nat /\ Contents(o) \in Seq(Int) /\ Len(Contents(o)) = used[o]
  BY ContentsFacts
<1>2. /\ Append(Contents(o), v) \in Seq(Int) /\ Len(Append(Contents(o), v)) = used[o] + 1
      /\ \A i \in 1..used[o] : Append(Contents(o), v)[i] = Contents(o)[i]
      /\ Append(Contents(o), v)[used[o] + 1] = v
  BY <1>1, AppendProperties
<1>3. Contents(o)' \in Seq(Int) /\ Len(Contents(o)') = used[o] + 1
  <2>1. ReadsLists'
    BY ContentsTyped, PTL
  <2> QED
    BY <2>1 DEF ReadsLists
<1>4. ASSUME NEW i \in 1..(used[o] + 1) PROVE Contents(o)'[i] = Append(Contents(o), v)[i]
  <2>1. Contents(o)'[i] = mem'[block'[o].off + i - 1]
    BY <1>4 DEF Contents
  <2>2. CASE i \in 1..used[o]
    <3>1. Contents(o)[i] = mem[block[o].off + i - 1]
      BY <2>2 DEF Contents
    <3> QED
      BY <1>2, <2>1, <2>2, <3>1
  <2>3. CASE i = used[o] + 1
    BY <1>2, <2>1, <2>3
  <2> QED
    BY <1>1, <2>2, <2>3
<1> HIDE DEF Contents
<1> QED
  BY <1>1, <1>2, <1>3, <1>4, SeqEqual

LEMMA NoValues ==
  ASSUME NEW o \in Owners, used[o] = 0
  PROVE  Contents(o) = << >>
<1>1. Contents(o) \in [1..0 -> Int]
  BY DEF Contents
<1>2. Contents(o) \in Seq(Int) /\ Len(Contents(o)) = 0
  BY <1>1, IsASeq, LenProperties
<1> QED
  BY <1>2, EmptySeq

(* The words of an owner are none of a block that is apart from its own.    *)
LEMMA WordsApart ==
  ASSUME IInv, NEW p \in Owners, NEW i \in 1..used[p],
         NEW b, b.off \in Int, b.size \in Int,
         block[p].off + block[p].size <= b.off \/ b.off + b.size <= block[p].off
  PROVE  block[p].off + i - 1 \notin Words(b)
<1>1. /\ used[p] \in Nat /\ block[p].off \in Int /\ block[p].size \in Int
      /\ used[p] <= block[p].size
  BY ContentsFacts
<1> QED
  BY <1>1 DEF Words

LEMMA OthersWords ==
  ASSUME IInv, NEW o \in Owners, NEW p \in Owners, p # o, Holds(o), NEW i \in 1..used[p]
  PROVE  block[p].off + i - 1 \notin Words(block[o])
<1>1. Holds(p)
  BY ContentsFacts
<1>2. block[o].off \in Int /\ block[o].size \in Int
  BY ContentsFacts
<1>3. block[p].off + block[p].size <= block[o].off \/ block[o].off + block[o].size <= block[p].off
  BY <1>1 DEF IInv, BlocksDisjoint
<1> QED
  BY <1>2, <1>3, WordsApart

(* The lists as the abstract module has them.                               *)
Read == [o \in Owners |-> Contents(o)]

LEMMA AllSame ==
  ASSUME \A p \in Owners : Contents(p)' = Contents(p)
  PROVE  UNCHANGED Read
BY DEF Read

LEMMA OneAppended ==
  ASSUME NEW o \in Owners, NEW v \in Values, Contents(o)' = Append(Contents(o), v),
         \A p \in Owners : p # o => Contents(p)' = Contents(p)
  PROVE  Lists!Next
<1>1. Read' = [Read EXCEPT ![o] = Append(@, v)]
  BY DEF Read
<1> QED
  BY <1>1 DEF Read, Lists!Next, Lists!Append1

LEMMA OneDropped ==
  ASSUME NEW o \in Owners, Contents(o)' = << >>,
         \A p \in Owners : p # o => Contents(p)' = Contents(p)
  PROVE  Lists!Next
<1>1. Read' = [Read EXCEPT ![o] = << >>]
  BY DEF Read
<1> QED
  BY <1>1 DEF Read, Lists!Next, Lists!Drop

(* A first block changes no list: its owner counts no values yet.           *)
LEMMA AllocateReads ==
  ASSUME IInv, NEW o \in Owners, Allocate(o)
  PROVE  UNCHANGED Read
<1>1. mem' = mem /\ used' = used /\ ~Holds(o) /\ \E b : block' = [block EXCEPT ![o] = b]
  BY DEF Allocate
<1>2. used[o] = 0
  BY <1>1, ContentsFacts
<1>3. ASSUME NEW p \in Owners PROVE Contents(p)' = Contents(p)
  <2>1. CASE p = o
    BY <1>1, <1>2, <2>1, SameContents
  <2>2. CASE p # o
    <3>1. block'[p] = block[p]
      BY <1>1, <2>2 DEF IInv, TypeOK
    <3> QED
      BY <1>1, <3>1, SameContents
  <2> QED
    BY <2>1, <2>2
<1> QED
  BY <1>3, AllSame

LEMMA AppendInPlaceReads ==
  ASSUME IInv, NEW o \in Owners, NEW v \in Values, AppendInPlace(o, v)
  PROVE  Lists!Next
<1> DEFINE at == block[o].off + used[o]
<1>1. /\ used[o] < block[o].size /\ mem' = [mem EXCEPT ![at] = v]
      /\ used' = [used EXCEPT ![o] = @ + 1] /\ block' = block
  BY DEF AppendInPlace
<1>2. /\ used[o] \in Nat /\ block[o].off \in Int /\ block[o].size \in Int /\ v \in Int
      /\ used \in [Owners -> Nat] /\ mem \in [0..(Limit - 1) -> Int]
  BY ContentsFacts, ValuesAssumption DEF IInv, TypeOK
<1>3. Holds(o)
  BY <1>1, <1>2 DEF IInv, BlocksInside, NoBlock
<1>4. block[o].off >= 0 /\ block[o].off + block[o].size <= Limit
  BY <1>3, ContentsFacts
<1>5. at \in Words(block[o]) /\ at \in 0..(Limit - 1)
  <2>1. used[o] < block[o].size /\ Limit \in Nat
    BY <1>1, RegionAssumption
  <2>2. used[o] \in Nat /\ block[o].off \in Int /\ block[o].size \in Int
    BY <1>2
  <2> QED
    BY <1>4, <2>1, <2>2 DEF Words
<1>6. mem'[at] = v /\ \A w \in 0..(Limit - 1) : w # at => mem'[w] = mem[w]
  BY <1>1, <1>2, <1>5
<1>7. used'[o] = used[o] + 1 /\ \A p \in Owners : p # o => used'[p] = used[p]
  BY <1>1, <1>2
<1>8. Contents(o)' = Append(Contents(o), v)
  <2>1. \A i \in 1..used[o] : mem'[block'[o].off + i - 1] = mem[block[o].off + i - 1]
    <3>1. \A i \in 1..used[o] : block[o].off + i - 1 \in 0..(Limit - 1) /\ block[o].off + i - 1 # at
      BY <1>2, ContentsFacts
    <3> QED
      BY <1>1, <1>6, <3>1
  <2>2. block'[o].off + (used[o] + 1) - 1 = at
    BY <1>1, <1>2
  <2>3. IInv'
    BY AppendInPlaceIInv
  <2> HIDE DEF at
  <2> QED
    BY <1>2, <1>6, <1>7, <2>1, <2>2, <2>3, OneMore
<1>9. ASSUME NEW p \in Owners, p # o PROVE Contents(p)' = Contents(p)
  <2>1. \A i \in 1..used[p] : /\ block[p].off + i - 1 \in 0..(Limit - 1)
                              /\ block[p].off + i - 1 # at
    BY <1>3, <1>5, <1>9, ContentsFacts, OthersWords
  <2> QED
    BY <1>1, <1>6, <1>7, <1>9, <2>1, SameContents
<1> QED
  BY <1>8, <1>9, OneAppended

LEMMA FreeReads ==
  ASSUME IInv, NEW o \in Owners, Free(o)
  PROVE  Lists!Next
<1>1. /\ Holds(o) /\ mem' = Freed(mem, head, block[o])
      /\ block' = [block EXCEPT ![o] = NoBlock] /\ used' = [used EXCEPT ![o] = 0]
  BY DEF Free
<1>2. /\ used \in [Owners -> Nat] /\ block \in [Owners -> Descriptors]
  BY DEF IInv, TypeOK
<1>3. \A w \in 0..(Limit - 1) : w \notin Words(block[o]) => mem'[w] = mem[w]
  BY <1>1, FreeWords
<1>4. ASSUME NEW p \in Owners, p # o PROVE Contents(p)' = Contents(p)
  <2>1. used'[p] = used[p] /\ block'[p] = block[p]
    BY <1>1, <1>2, <1>4
  <2>2. \A i \in 1..used[p] : mem'[block[p].off + i - 1] = mem[block[p].off + i - 1]
    BY <1>1, <1>3, <1>4, ContentsFacts, OthersWords
  <2> QED
    BY <2>1, <2>2, SameContents
<1>5. Contents(o)' = << >>
  <2>1. used'[o] = 0
    BY <1>1, <1>2
  <2> QED
    BY <2>1, NoValues DEF Contents
<1> QED
  BY <1>4, <1>5, OneDropped

(* The values are copied to a block nobody uses before the old one is       *)
(* freed, so a list that outgrows its block only gets longer.              *)
LEMMA AppendGrowReads ==
  ASSUME IInv, NEW o \in Owners, NEW v \in Values, AppendGrow(o, v)
  PROVE  Lists!Next
<1> DEFINE copied(a) == CopiedTo(a.block, o)
           kept(a) == IF Holds(o) THEN Freed(copied(a), a.head, block[o]) ELSE mem
<1>1. PICK a \in Allocations(GrownSize(o)) :
        /\ mem' = [kept(a) EXCEPT ![a.block.off + used[o]] = v]
        /\ block' = [block EXCEPT ![o] = a.block]
  BY DEF AppendGrow
<1>2. /\ used[o] >= block[o].size /\ used' = [used EXCEPT ![o] = used[o] + 1]
  BY DEF AppendGrow
<1>3. /\ Fresh(a.block, a.next)
      /\ a.block.off \in Int /\ a.block.size \in Int
      /\ a.block.off >= 0 /\ a.block.off + a.block.size <= Limit
      /\ used[o] + 1 <= a.block.size
  BY <1>2, GrowFacts, PageAssumption
<1>4. /\ used[o] \in Nat /\ v \in Int
      /\ used \in [Owners -> Nat] /\ mem \in [0..(Limit - 1) -> Int]
      /\ block \in [Owners -> Descriptors]
  BY ContentsFacts, ValuesAssumption DEF IInv, TypeOK
<1>num. /\ a.block.off \in Int /\ a.block.size \in Int /\ a.block.off >= 0
        /\ a.block.off + a.block.size <= Limit /\ used[o] + 1 <= a.block.size
        /\ used[o] \in Nat /\ Limit \in Nat /\ block[o].off \in Int
  BY <1>3, <1>4, ContentsFacts, RegionAssumption
<1>5. /\ block'[o] = a.block /\ used'[o] = used[o] + 1
      /\ \A p \in Owners : p # o => block'[p] = block[p] /\ used'[p] = used[p]
  BY <1>1, <1>2, <1>4
<1>6. kept(a) \in [0..(Limit - 1) -> Int]
  BY <1>2, <1>4, GrowFacts
<1>7. \A w \in 0..(Limit - 1) : Holds(o) /\ w \notin Words(block[o]) => kept(a)[w] = copied(a)[w]
  BY <1>2, GrowFacts
<1>8. \A w \in 0..(Limit - 1) : w \notin Words(a.block) => copied(a)[w] = mem[w]
  <2> SUFFICES ASSUME NEW w \in 0..(Limit - 1), w \notin Words(a.block)
               PROVE  copied(a)[w] = mem[w]
    OBVIOUS
  <2>1. w - a.block.off \notin 0..(used[o] - 1)
    BY <1>num DEF Words
  <2> QED
    BY <1>4, <2>1 DEF CopiedTo
<1>9. \A i \in 1..(used[o] + 1) : /\ a.block.off + i - 1 \in Words(a.block)
                                  /\ a.block.off + i - 1 \in 0..(Limit - 1)
  BY <1>num DEF Words
<1>10. \A i \in 1..used[o] : copied(a)[a.block.off + i - 1] = mem[block[o].off + i - 1]
  <2> SUFFICES ASSUME NEW i \in 1..used[o]
               PROVE  copied(a)[a.block.off + i - 1] = mem[block[o].off + i - 1]
    OBVIOUS
  <2>1. /\ (a.block.off + i - 1) - a.block.off \in 0..(used[o] - 1)
        /\ block[o].off + ((a.block.off + i - 1) - a.block.off) = block[o].off + i - 1
        /\ i \in 1..(used[o] + 1)
    BY <1>num
  <2>2. a.block.off + i - 1 \in DOMAIN mem
    BY <1>4, <1>9, <2>1
  <2> QED
    BY <2>1, <2>2 DEF CopiedTo
<1>11. Holds(o) => \A i \in 1..(used[o] + 1) : a.block.off + i - 1 \notin Words(block[o])
  <2> SUFFICES ASSUME Holds(o), NEW i \in 1..(used[o] + 1)
               PROVE  a.block.off + i - 1 \notin Words(block[o])
    OBVIOUS
  <2>1. \/ block[o].off + block[o].size <= a.block.off
        \/ a.block.off + a.block.size <= block[o].off
    BY <1>3 DEF Fresh
  <2>2. block[o].off \in Int /\ block[o].size \in Int
    BY ContentsFacts
  <2> QED
    BY <1>num, <2>1, <2>2 DEF Words
<1>12. used[o] > 0 => Holds(o)
  BY ContentsFacts
<1> DEFINE at == a.block.off + used[o]
<1>13. at \in 0..(Limit - 1) /\ \A i \in 1..used[o] : a.block.off + i - 1 # at
  BY <1>num
<1> HIDE DEF kept, copied
<1>14. /\ mem'[at] = v /\ \A w \in 0..(Limit - 1) : w # at => mem'[w] = kept(a)[w]
  BY <1>1, <1>6, <1>13
<1>15. Contents(o)' = Append(Contents(o), v)
  <2>1. ASSUME NEW i \in 1..used[o]
        PROVE  mem'[block'[o].off + i - 1] = mem[block[o].off + i - 1]
    <3>1. i \in 1..(used[o] + 1) /\ used[o] > 0
      BY <1>4
    <3>2. mem'[a.block.off + i - 1] = kept(a)[a.block.off + i - 1]
      BY <1>9, <1>13, <1>14, <3>1
    <3>3. kept(a)[a.block.off + i - 1] = copied(a)[a.block.off + i - 1]
      BY <1>7, <1>9, <1>11, <1>12, <3>1
    <3> QED
      BY <1>5, <1>10, <3>2, <3>3
  <2>2. block'[o].off + (used[o] + 1) - 1 = at
    BY <1>3, <1>4, <1>5
  <2>3. IInv'
    BY AppendGrowIInv
  <2> HIDE DEF at
  <2> QED
    BY <1>4, <1>5, <1>14, <2>1, <2>2, <2>3, OneMore
<1>16. ASSUME NEW p \in Owners, p # o PROVE Contents(p)' = Contents(p)
  <2>1. ASSUME NEW i \in 1..used[p]
        PROVE  mem'[block[p].off + i - 1] = mem[block[p].off + i - 1]
    <3>1. block[p].off + i - 1 \in 0..(Limit - 1) /\ Holds(p)
      <4>1. used[p] > 0
        BY <1>4
      <4> QED
        BY <4>1, ContentsFacts
    <3>2. block[p].off + i - 1 \notin Words(a.block)
      <4>1. \/ block[p].off + block[p].size <= a.block.off
            \/ a.block.off + a.block.size <= block[p].off
        BY <1>3, <3>1 DEF Fresh
      <4> QED
        BY <1>3, <4>1, WordsApart
    <3>3. Holds(o) => block[p].off + i - 1 \notin Words(block[o])
      BY <1>16, OthersWords
    <3>4. block[p].off + i - 1 # at
      <4>1. used[o] + 1 \in 1..(used[o] + 1) /\ a.block.off + (used[o] + 1) - 1 = at
        BY <1>3, <1>4
      <4>2. at \in Words(a.block)
        BY <1>9, <4>1
      <4> QED
        BY <3>2, <4>2
    <3>5. kept(a)[block[p].off + i - 1] = mem[block[p].off + i - 1]
      <4>1. CASE Holds(o)
        BY <1>7, <1>8, <3>1, <3>2, <3>3, <4>1
      <4>2. CASE ~Holds(o)
        BY <4>2 DEF kept
      <4> QED
        BY <4>1, <4>2
    <3> QED
      BY <1>14, <3>1, <3>4, <3>5
  <2> QED
    BY <1>5, <1>16, <2>1, SameContents
<1> QED
  BY <1>15, <1>16, OneAppended

LEMMA NextReads == IInv /\ [Next]_vars => [Lists!Next]_Read
<1> SUFFICES ASSUME IInv, [Next]_vars PROVE Lists!Next \/ UNCHANGED Read
  OBVIOUS
<1>1. CASE UNCHANGED <<mem, block, used>>
  BY <1>1, AllSame DEF Contents
<1>2. ASSUME NEW o \in Owners, Allocate(o) PROVE UNCHANGED Read
  BY <1>2, AllocateReads
<1>3. ASSUME NEW o \in Owners, NEW v \in Values, AppendInPlace(o, v) PROVE Lists!Next
  BY <1>3, AppendInPlaceReads
<1>4. ASSUME NEW o \in Owners, NEW v \in Values, AppendGrow(o, v) PROVE Lists!Next
  BY <1>4, AppendGrowReads
<1>5. ASSUME NEW o \in Owners, Free(o) PROVE Lists!Next
  BY <1>5, FreeReads
<1> QED
  BY <1>1, <1>2, <1>3, <1>4, <1>5 DEF Next, AllocationFails, AllocationFaults, allocator, vars

(* The arena implements value lists: no append, growth, reuse of a freed    *)
(* block or free of another owner changes what an owner reads back, for     *)
(* any number of owners and any sizes (mos_arena.h:130-157).               *)
THEOREM ArenaKeepsLists == Spec => ListsPreserved
<1>1. Init => Lists!Init
  <2> SUFFICES ASSUME Init PROVE Lists!Init
    OBVIOUS
  <2>1. \A o \in Owners : Contents(o) = << >>
    BY NoValues DEF Init
  <2> QED
    BY <2>1 DEF Lists!Init
<1>2. Read = [o \in Owners |-> Contents(o)]
  BY DEF Read
<1>3. IInv /\ [Next]_vars => [Lists!Next]_([o \in Owners |-> Contents(o)])
  BY <1>2, NextReads DEF Read
<1> QED
  BY <1>1, <1>3, InitIInv, NextIInv, PTL DEF Spec, ListsPreserved, Lists!Spec
=============================================================================
