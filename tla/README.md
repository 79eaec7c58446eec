# mos in TLA+

TLA+ modules, TLC configurations and TLAPS proofs for *mos*, a C library that
keeps records in memory-mapped files and finds them again by id, by attribute
value and by vector. Paths below are relative to the repository
(`src/mos_core.c`, `include/mos_arena.h`, ...).

## 1. The system

The library is single-threaded: no locks, no callbacks, no messages. What makes
it hard is that **every data structure lives in a file mapped with MAP_SHARED**,
that one call writes to several files one store after the other, that structures
are threaded through each other's memory (links inside freed blocks and freed
strings, row ids inside hash map nodes or arena blocks), and that files grow and
move while they are in use. When the process dies, the stores it made stay, and
`mos_load_storage` continues from them; there is no log and no recovery.

| Component | State | Operations | What makes it correct |
|---|---|---|---|
| Record storage `src/mos_core.c` | `next_free_row_id`, `last_deleted_row_id`, valid bitmap, records file | put, get, remove, get by row | a valid record is complete and indexed; get answers with the record put under that id; a row is not shared |
| Hash map index `src/mos_idx_hmap.c` | verifiers and value nodes of an open-addressing table | put, get, remove_key, bitmap_search (remove_value is a no-op) | stored keys stay reachable, occupy one slot, keep exactly their values |
| Dynamic arena `include/mos_arena.h` | header with `next_free_offset` and a free list linked through freed blocks | init, allocate, free, write, append | blocks are inside the file, disjoint, and keep their contents |
| Mapped regions `src/mos_memory.c` | file descriptor, base, size | open, ensure_capacity, close | growth either happens or changes nothing |
| String silo `src/mos_string.c` | `current_offset`, `last_deleted`, free list in freed strings | put, get, remove | live strings intact, no space lost or shared |
| Query execution `src/mos_qry.c` | execution stack, bitmap stack of one search | build, execute, get_row_ids | result is the boolean combination of the leaf results |
| HNSW index `src/mos_idx_hnsw.c` | header (count, entry node, top layer), neighbour lists in layer 0 nodes and in chunks of an arena of its own, vectors, external ids | put, bitmap_search (get and remove_key do nothing) | lists and chunks stay in their place, nodes that count are complete, a search misses nothing it is linked to, every call ends |
| Lifecycle `src/mos_core.c` | the set of open regions, header | create, load, free | a loaded storage is the one that was created |
| Configuration, layout `src/mos_core.c`, `src/mos_idx.c` | attributes and index descriptors under construction | validate, convert, sizes, sections of index files | regions big enough for what is put in them, an index for every indexed attribute |
| Index dispatch `include/mos_idx.h` | none (a table of functions per index type) | size, init, put, get, search, remove | |
| Math, OS layer, logging | none | | |

How they interact: `mos_storage_put` writes the string attributes to the silo,
the row id to every attribute index (its hash map, or the graph of a vector
attribute) and then to the id index, the record, and the valid bit. A hash map node
keeps up to `MOS_IDX_VALUES_INLINED` row ids and moves longer lists to a block of the one arena all hash maps share. A search
asks the indexes for bitmaps of row ids and combines them. All sizes are fixed
when the storage is created, except the arena's. Create and load open every file and hand out the
regions; nothing later checks whether one is mapped.

Hard behaviours: death of the process between any two stores; failures in the
middle of a put that are ignored (silo, arena, hash map, full graph); growth of the arena
with a mapping that moves; reuse of freed memory whose contents are links;
records put several times under one id; thombstones in full tables; neighbour
lists that overflow and are pruned; sizes that are computed in two places.
`PROJECT.json` lists each of these hazards at its line.

## 2. Modules

| Module | Models | Extends / instantiates |
|---|---|---|
| `ValueLists` | abstract: owners with a list each | |
| `Arena` | the arena and the growing region, word by word | `ValueLists` as refinement target |
| `ArenaProofs` | proofs about `Arena` | extends `Arena`, TLAPS |
| `Hmap` | the hash map index | `ValueLists` as refinement target |
| `MCHmap` | symmetry of hashes | extends `Hmap` |
| `HmapProofs` | proofs about `Hmap` | extends `Hmap`, TLAPS |
| `StringSilo` | the string silo with its free list | |
| `SiloProofs` | proofs about `StringSilo` | extends `StringSilo`, TLAPS |
| `RecordStore` | abstract: what `include/mos.h` promises | |
| `Storage` | put, get and remove over all files, with crashes | `RecordStore` as refinement target |
| `StorageProofs` | proofs about `Storage` | extends `Storage`, TLAPS |
| `MCStorage` | symmetry of ids and texts, a statement of the source that the code does not keep | extends `Storage` |
| `Query` | searches: execution stack, bitmap stacks, operators | |
| `QueryProofs` | proofs about `Query` | extends `Query`, TLAPS |
| `MCQuery` | the queries searched, two statements of the documentation that fail | extends `Query` |
| `Lifecycle` | create, load and free of one directory, descriptors, failing opens, deaths | |
| `LifecycleProofs` | proofs about `Lifecycle` | extends `Lifecycle`, TLAPS |
| `Hnsw` | put and search of the vector index, step by step, with crashes | |
| `HnswProofs` | proofs about `Hnsw` | extends `Hnsw`, TLAPS |
| `MCHnsw` | distances, searches, a statement of a test that the code does not keep | extends `Hnsw` |
| `Config` | from the user's configuration to the sections of the files, in bytes | |
| `MCConfig` | configurations | extends `Config` |
| `ConfigProofs` | proofs about `Config` | extends `Config`, TLAPS |

The layers meet at abstract specifications: `Arena` is shown to implement value
lists (what a hash map node needs of its block), `Hmap` is shown to implement
value lists per key (what the storage needs of its indexes), and `Storage` uses
the indexes as exactly such lists, plus the one thing that can go wrong in
`Hmap`, an entry lost for want of an arena block. `Config` shows that the files
these modules write to are large enough for them. `Hnsw` stands beside `Hmap`
below the storage: `row` is the storage's next row, and a put that dies is put
again with the same row, as `Storage` has it. `Query` takes what an index
answers as given.

Definitions whose comment starts with "Wrong" or "Deliberately wrong" are not
part of the model: each is a plausible bug in the definition that follows it,
and replacing that definition makes a run report the property that guards
against it.

### Arena

Memory is an array of 8-byte words. `head`, `next` are the header's
`last_deleted_offset` and `next_free_offset`; `region` is the size of the
mapping. `Allocations(n)` is `mos_arena_allocate`: it takes the head of the free
list whole if it is large enough, and only the head; otherwise it takes new
words, after `mos_memory_region_ensure_capacity` doubled the region if needed.
`Freed` is `mos_arena_free`, which writes the link into the freed words.
The owners stand for hash map nodes, and an owner's operations are those
`mos_idx_hmap_put` and `remove_key` perform: allocate a first block, append in
place, append with growth (allocate, copy, free the old block), free.
`AllocationFails` is a region that cannot grow, `AllocationFaults` an
`mremap` that moves the mapping under the pointer `mos_arena_allocate` holds.

### Hmap

What the index knows of a key is its hash, so `Hashes` takes the place of keys:
keys of one hash are one key to it. `home` gives every hash an arbitrary home slot.
`verifiers` and `nodes` are the two arrays of the table. The probe loop is described
by what it finds: `FoundAt(h, d)`, `EndsAt(h, d)`, `FreshAt(h, t)` are the three ways
it can end. Put has one action per outcome; `refused` is a put that returned -1,
for a full table or for want of an arena block.

`PutDies`, `PutDiesOverArena` and `RemoveDies` are a process that dies between the
stores of a call, in the order the stores have in the source. Three of these
windows leave a node with the descriptor of a block that is not its own: between
`capacity` and `arena_offset` (221-222, row ids are then read as a descriptor), in
`mos_arena_append` after the old block is freed (`mos_arena.h:147-153`), and in
`remove_key` after the block is freed and before the thombstone (311-317). From
then on, `damaged`, the blocks of the arena may be shared or overwritten, also by
other hash maps, whose deaths damage it too (`OtherIndexDies`). Nothing is then
said of the contents of a list in the arena (`Unknown`); its node may be given any
block, and a remove may fail (`RemoveNothing`). As the arena checks its accesses
against its region (`mos_arena.h:27-34`) and the table is in another file, table
and inlined lists stay as they are: that is what `IndexIsMultimap` says after such
a death.

### StringSilo

Memory is an array of 16-byte cells counted from the end of the silo, so a
string's offset is the number of its first cell, the one where a link is stored
once it is freed. `free` is a history variable, the sequence of removed blocks:
the program has only `last` and the links in memory, and `LinksFollow` says that
these represent it.

### Storage

Every store of `mos_put_internal` and `mos_storage_remove` to a mapped file is a
step; `pc` names the next one. `Crash` may happen before any of them and drops
`pc` and the record buffer, the only volatile state. The record is an id, one
string attribute (`text`, the value, and `desc`, the descriptor stored for it).
A refused `mos_string_put` leaves any descriptor at all. The row free list is
empty for good (`last_deleted_row_id` is never set to a row), so the branch of
`mos_storage_put` that uses it is dead and not modelled. Copying one record
(`memcpy`, 273) is one step: its row's valid bit is clear then.

`RecordStore` is what a user may rely on: a step puts one record in a free place,
removes the one record an id names, or does nothing. As nothing is recovered
after a death of the process, it also has `Lose`, by which one record goes; the
storage may take such steps once a death has happened, and no others: even then
no step alters a record, invents one, or touches two.

### Query

A query is a tree, given as functions of its nodes; what an index answers to a
leaf is part of the query, so every combination of answers is searched without a
model of the index (`Hmap` and `Storage` have that). `Build` is the execution
stack, `BitmapStackSize` the count of bitmaps made from it, and then one action
per step of `mos_qry_execute`, on top of the stack first. The two stacks are the
two arrays of the source with their tops: `None` is a slot set to NULL, `Garbage`
one that `malloc` left as it was. A bitmap is a set of bits with the two flags
`full` and `empty`; `WordBits` stands for 64 and `FlagBits` for the 8 bits of a
word that fit the flag, so that `mos_qry_execute_and_inline`, which stores the
word it tested in the flag, is modelled by what that store keeps. The shift by -1
that makes the mask of NOT when rows fill their words is undefined in C; it is
taken modulo the word size, as the machines the library is built for do.
EXPAND reads the groupable attribute of a row from the records file (zero where
nothing was put) and adds the rows with that value the index has.

The caller builds the tree by hand, with any number of substeps under each step
(`QueryTree`). `WellFormed` trees are executed: operators with at least one substep,
NOT and EXPAND with exactly one. Of others only EXPAND is checked, and the -1 of that
check is dropped (94-97, 170), so that what is left of them runs on stacks of the
wrong size: `RunMalformed` ends them with a fault or with a result nothing is said of.
Allocations that fail are left out. NOT returns rows that were never put, too; nothing in
the documentation says otherwise, so `Matches` has them.

### Lifecycle

One directory, one process, at most one open storage. `exists`, `identified`,
`written`, `nextFree` and `rows` are what is on disk; `table` is the process's
table of open files, with number 0 for the standard input a process starts with,
`region` the descriptors in the storage struct (`None` for a region that is
still zero, whose descriptor therefore reads 0). `OpenNext` and `OpenIndex` are
the calls of `mos_memory_region_open`, which take the least free descriptor or
fail, for want of one or (`MaxFailures` times) for another reason; `CallFaults`
is the store through a region whose failure was ignored. `Crash` may happen in
any call and while a storage is open. A death of the process keeps the files.
`written[f]` is a history variable: which create last initialised the file. `Put`
is the whole of `mos_storage_put`, reduced to which regions it needs.

### Hnsw

A vector is known by its distances only: `Dist` is a table without two equal
distances from one vector, so the heaps are sets that yield their nearest or
furthest element, and the layer a put draws is any of `Levels`. A call is in
progress from `PutReserve` or `Search` to its last step; `pc` names the next one:
`Hop` is one round of the greedy search, `Expand` one candidate of the wide
search, `Link` the new node's own list in one layer, `LinkBack` and `DropLink`
the lists of others (`links` holds what `mos_idx_hnsw_connect_neighbors` has
left to do), `StoreEntry` to `StoreCount` the last four stores (852-857). Then the
storage makes its own, of the id index, the record and the valid bit, and takes the
row (`AdvanceRow`, `mos_core.c:791`); a death before that leaves a node that counts
and whose row the next put gets again. The
stores to a node before it counts and before anything leads to it (740-775) are
one step, which nothing can observe. Asserts are those of a debug build: a
header that fails them ends the process (`PutAborts`).

What the model has because the code has it: the list a put prunes is not sorted,
and a candidate beyond the capacity is neither kept nor discarded (565-569); a
put that finds index or arena full stores nothing, and the caller keeps the
record (`PutRefused`); after a death between 770 and 857 in the first put every
later put aborts at 763 or 772; after a death in a later put the next one takes the
same node, to which lists may lead already, so that it may be linked to itself;
a search of an empty index returns row 0; removed rows stay in the graph (get
and remove do nothing, 871-884). The first candidate is always kept, so the
fallback at 840-843 is never taken and has no action. `Crash` is only an action
of puts: a search stores nothing in the file.

Left out: vectors put twice (ties), an `ef` of 0, floating point. `Zero` stands for
memory that was never written; it is no member of `Vectors`, so that the model can
tell such a node apart. A vector of zeros that is put is a member of `Vectors` like
any other, with whatever distances it has.

### Config

`cfg` is any configuration of a set, in the form of the structs of
`include/mos.h`. `Validate` is `mos_validate_config`; then every attribute goes
through `DescribeIndex` or `SkipIndex` for each index configuration and
`Convert` at its end, in the order of the loops of `mos_init_internal_config`;
`LayOut` is `mos_init_layout`, and `InitIndex` writes the sections of one index
file, as `mos_idx_create` does index after index. Sizes are in bytes, with the
sizes of the structs as constants. `Prefixes` is the comparison of names up to
the length of the first (`strncmp`, 331 and 449). Types of
attributes and indexes are any bytes, and an index type is tested by its bits
(`Supports`); `DescribeUnknown` is the call of an operation of a type there is none
of. `Cut` is what `strncpy` leaves of a name (340, 373), and `VectorDim` and
`Padded` keep the 16 bits that an index keeps of a dimension. How many chunks of upper
layers an HNSW index is expected to need (`mos_idx_hnsw.c:245`, `exp` and
`round`) is the parameter `upper` of its configuration; sizes are far below 64
bits (`ConfigsAssumption`).

What the model has because the code has it: validation looks at the type of the
first matching index configuration only, while conversion makes a descriptor for
each, of whatever type; types that are no power of two are accepted and
become fields of no bytes; nothing compares `byte_size` with the type, or
`padded_record_byte_size` with the fields; an attribute of type timestamp can
have no index; names are compared in full by validation and by 30 characters
afterwards. The failure at 353-357 cannot follow a successful validation.
`mos_calc_record_data_size_internal` and `mos_idx_data_size` are not used, and
`mos_accessor_header_attribute` (`mos_internal.h:344-353`), whose loop has no
bound, is not called with a name that is not there.

## 3. What the runs show

All bounds are CONSTANTs in the `.cfg` files. Deadlock checking is on
everywhere: there is always a call that can be made.

Fairness is assumed in one run, `hnsw`: `WF_vars(Step)`, where `Step` is every
step of a call in progress. The library is sequential, so a call that was
started is the only thing that runs until it returns or the process dies;
nothing is assumed about calls being made, or about the process staying alive.
`CallsEnd` then says that the loops of puts and searches end in every graph that
puts, refused puts and deaths can leave. The loops of the other modules are
bounded by their own counters, or one action each.

Each module has one type invariant, `TypeOK`. It is a conjunct of `SpaceAccounted`,
`BitmapsConserved`, `DescriptorsOwned`, `ListsFit` and `SectionsApart` in the
modules these belong to. It is proved of every module (section 4).

| Run | Shows | Bounds, and why they suffice |
|---|---|---|
| `arena` | `BlocksInside`, `BlocksDisjoint`, `HeadIsFree`; the refinement `ListsPreserved` | 3 owners, so that one block is live, one free and one being allocated; region sizes 3, 6, 12 words, so that growth happens twice and then fails; values 1 and 2 so that a misplaced copy is seen |
| `hmap` | `ProbePathsUnbroken`, `KeyStoredOnce`, the refinement `IndexIsMultimap` | 3 hashes in 2 slots with all assignments of home slots: chains, wrap-around, thombstones, a table that is full; 1 value inlined and up to 6 in all, so a list moves to the arena and grows there; any number of deaths, between any two stores. Hashes are interchangeable (symmetry) |
| `silo` | `StringsIntact`, `LinksFollow`, `SpaceAccounted` | 4 strings of 0, 1, 2 or 3 cells in 6 cells: exact reuse, splits, chains of free blocks, a full silo |
| `storage` | `GetIsExact`, `ValidIsIndexed`, `StringsKept`, `RowsBeyondUnused`, `RecordsStable`, the refinement `ImplementsRecordStore` | 2 ids, 3 rows: one id can hold several records, more than a node has room for; 3 strings, one of them empty, and a silo of 3, so that two valid records' strings lie below a third put after them, and one that died in a put makes the silo refuse the fourth; 1 death anywhere: the row of the interrupted call is taken by a later put, and an id it left behind is put again. Ids, and the texts that are not empty, are interchangeable (symmetry) |
| `query` | `StacksSuffice`, `BitmapsConserved`, `FreedOnce`, `NothingMissed`, `ExactOnClearedBitmaps`, `OnlyRowsPut` | 13 shapes of trees of up to 7 nodes and depth 4, all choices of operators, 4 answers per leaf: operators above, beside and below each other, leaves before and after operators that give bitmaps back; 5 rows in words of 3 bits, so the last word is partly used; 0, 3 and 5 rows put; EXPAND and NOT of two and OR of none beside the well-formed queries |
| `lifecycle` | `IdentifierLast`, `DescriptorsOwned`, `FreeCloses`, `FaultsOnlyAfterFailure` | 2 creates, so one is over the remains of another; 2 failing opens and 2 deaths in any of them; 2 indexes; 10 descriptors for 8 files, so what is leaked fills the table after three storages |
| `hnsw` | `ListsFit`, `ChunksApart`, `LinksSound`, `EntryIsHighest`, `CountedLast`, `SearchExhaustive`, `NodesStable`, and `CallsEnd` | 4 vectors on a line in every order, on layer 0 or up to layer 2; lists of 2, so a third neighbour is pruned; an arena of 4 chunks for 2 high nodes, so a third is refused; 1 death between any two steps, up to the row being taken; a wide and a narrow search after any call |
| `config` | `FieldsApart`, `HeaderHolds`, `BitmapHolds`, `SectionsApart`, `UsableWhenNamesApart` | up to 2 attributes of 15 and up to 2 indexes of 14, where one name is a prefix of another, two are cut to the same, fields overlap, types of attributes and indexes are unknown or combined, dimensions lie around 2^16; numbers of records around 64, around 63 times the words of a page, and large |

Four runs end in a counterexample to something the repository says of itself:

| Run | Statement | What the code does |
|---|---|---|
| `storage_search` | "record is no longer valid for search etc." (`mos_core.c:236`) | a removed row stays in the attribute index and searches do not consult the valid bitmap |
| `query_reuse` | "Every record matching the search query, is represented by a 1" (`mos.h:179`) | a leaf that runs after an AND or OR finds an older leaf's bits in its bitmap (348) and returns rows that do not match |
| `query_flags` | the same sentence, and "if there is a single 1 in any word, the bitmap is not empty" (`mos_qry.c:280`) | AND flags a result with rows empty (284), OR leaves a flag that is no longer true (307-318), and EXPAND of such a result returns none (367) |
| `hnsw_lost` | "Bitmap popcount must equal min(top_k, total_vectors)" (`tests/mos_fuzzy_idx_hnsw.c:216`) | a vector whose only neighbour has a full list of vectors far from each other is not linked from anywhere (`mos_idx_hnsw.c:565-569`, 643) and found by no search; 7 vectors, lists of 4 |

Other behaviour of the code that a reader may not expect is part of the models,
and the passing properties are stated around it:

* `mos_arena_allocate` uses its header pointer after `mremap` may have moved the
  mapping (`mos_arena.h:78-79`), although the arena "is resized automatically if
  needed" (`mos_core.c:681`): `AllocationFaults`.
* Only the arena's last freed block is on its free list, because free copies the
  head's link instead of linking to the head (`mos_arena.h:108-109`): `HeadIsFree`
  says that the link is always null. `arena` does not show that space is reused.
* A put into a hash map also returns -1 when the arena has no block for the list
  (`mos_idx_hmap.c:215-217`, 229-232), not only "if hash map is full"
  (`mos_idx_hmap.h:87`): `PutWithoutArena`.
* The hash of a key loses the first 8 bytes of each block of 16, because line 56 of
  `mos_idx_hmap.c` assigns `hash1` where `hash2` is meant. Strings that differ only
  there share a list: a search for one returns the records of the other. Ids have 8
  bytes and no such block. `Hmap` begins at the hash, `Storage` at ids and texts with
  different ones.
* The results of the opens are and-ed into a variable that is 0 (`mos_core.c:575`,
  674), so "Couldn't open a mmapped region." (598, 688) is never reported, and a
  storage without the region is returned: `FaultsOnlyAfterFailure` says that calls
  fault for no other reason.
* A row of a removed record is never used again (`last_deleted_row_id` is never
  set to one), so a storage is full after `max_records` puts.
* A put whose string the silo refused leaves an uninitialized descriptor in a
  valid record: `StringsKept` holds until the first refusal.
* With more records under one id than a node inlines, the lookups of get and remove
  dereference a NULL arena region, because both set another member of the union
  (`mos_core.c:867`, 902): `Fault` of `Get`, `LookupFaults`. `GetIsExact` says that a
  get faults for no other reason.
* NOT does not find the last row (`mos_qry.c:337`), which `ExactOnClearedBitmaps`
  leaves out. With `max_records` a multiple of 64 its mask comes from a shift by -1
  and bits are set for rows that do not exist, which the property then leaves out
  as well.
* The flags that `query_flags` shows to be wrong are left out of two passing
  properties by `ExpandsLeavesOnly`.
* A search of an attribute without an index dereferences the missing descriptor
  before the check for it (79-81): `PrepareFaults`.
* Free leaves the arena open and mapped (`mos_core.c:738-742`), and a refused load
  its header: `FreeCloses` excepts these two.
* A create over an older storage keeps the older one's valid bits and hash maps,
  and its identifier while the create runs (711-723).
* A conversion of a configuration that fails (336) or a conversion never finished
  leaves its allocations behind. With names that are prefixes of each other a
  valid configuration can fail so, or an attribute can get an index of a type it
  does not support, and names that are cut to the same make two attributes one:
  `UsableWhenNamesApart` is about all other names.
* An index type with more than the bit of a type, such as 3, passes validation and is
  looked up behind the table of operations (`mos_internal.h:332`, `mos_idx.c:34`):
  `DescribeUnknown`. `UsableWhenNamesApart` is about the types there are.
* Vector dimensions are cut to 16 bits, and 65529 to 65535 are padded to 0
  (`mos_math.c:98`): no room is left for the vectors, which lie over the nodes of
  layer 0 (`mos_idx_hnsw.c:269-271`). `SectionsApart` excepts these seven (`Wraps`).
* The recall of a vector search is not promised: `SearchExhaustive` is relative to
  the nodes that lists lead to from where the descent ended.

What crashes break, and no document promises: after a put that died between the
valid bit and `next_free_row_id` (790-791) the next put overwrites its record
and leaves its id leading to the new one, and a remove that died before the id
index was updated makes its id unusable. `GetIsExact` is therefore stated for
storages no call of which was interrupted, and `ImplementsRecordStore` admits
`Lose` once a death has happened. After a death in a put of the vector index a node may be
linked to itself or twice; `LinksSound` then only says that no link leads to a node
that was never written. A death after the node counts and before its row is taken
gives two nodes one row; `CountedLast` allows one such row for each death.

## 4. What is proved

TLAPS proves, for every value of the constants that satisfies the modules'
assumptions:

### Arena (`ArenaProofs`)

* `ArenaLayout`, and of it `BlocksStayInside` and `HeadStaysFree`:
  `Spec => [](TypeOK /\ BlocksInside /\ BlocksDisjoint /\ HeadIsFree)`. The
  conjunction is inductive as it stands: an allocation that reuses the head needs
  `HeadIsFree` to be disjoint from all blocks, and `HeadIsFree` needs
  `BlocksDisjoint` so that no append writes into the head and a freed block is
  nobody else's. `HeadIsFree` also says that the link in the head is always null:
  this is what makes the list safe, although it loses blocks (section 3). Lemmas
  treat allocation (`AllocationFresh`), freeing (`FreedFacts`) and the separation
  of word ranges (`Apart`) once, and each action's lemma cites them.
* `ArenaKeepsLists`: `Spec => ListsPreserved`, the refinement of `ValueLists`. A
  block's list depends on nothing but its words (`ContentsFacts`), so a step
  that writes elsewhere keeps it (`SameContents`), and a step that writes one
  word behind a list appends to that one (`OneMore`). The copy made when a block
  grows is one such case: the words are equal, the place is not.

### Hash map index (`HmapProofs`)

* `HmapSound`, and of it `KeysInOneSlot`: `Spec => [](TypeOK /\
  ProbePathsUnbroken /\ KeyStoredOnce)`, deaths of the process included. The
  conjunction is inductive: that an ended probe means an absent key
  (`EndMeansAbsent`) needs unbroken paths, and this keeps keys unique. The
  arithmetic of the circular probe path is three lemmas (`WrapInside`, `WrapOnce`,
  `WrapOnto`), and every action reduces to leaving the verifiers alone, burying a
  slot or claiming one (`VerifiersKept`, `SlotBuried`, `SlotClaimed`).
* `HmapIsMultimap`: `Spec => IndexIsMultimap`, the refinement of `ValueLists`.
  From the invariant follows `Reads`: a lookup yields the values at the one slot
  that holds the hash, or nothing. So every action comes down to one of four
  effects on the lists of all hashes, a lemma each: one value appended
  (`OneAppended`), one hash dropped (`OneDropped`), nothing (`NothingChanged`,
  most deaths included), or, after a death over the arena, lists kept there lost
  (`SomeSpoilt`). A step that keeps the nodes' values and their places falls under
  the last two (`NodesKept`).

### Record storage (`StorageProofs`)

* `CrashSafe`, and of it `NothingBeyondNextFree`: `Spec => [](TypeOK /\
  ValidIsIndexed /\ RowsBeyondUnused)`, for any number of crashes. The inductive
  invariant `IInv` adds `ValidRows` and `CallInv`, which says what the call in
  progress has already done: between two stores of a put the row is not valid
  yet, the indexes written so far hold it, and the record is complete before the
  bit is set; after a remove has cleared the bit no valid row has the id whose
  index entry goes next. A crash drops `pc`, so nothing of `CallInv` is needed
  after it: this is the argument that the order of the stores is right.
* `ValidRecordsStable`: `Spec => RecordsStable`, from `IInv`.
* `StringsKeptAlways`: `Spec => []StringsKept`, from `IInv` and `StringInv`: the
  descriptor of every valid record, and of the record between its string and its
  valid bit, points at its string.
* `GetAnswersExactly`: `Spec => []GetIsExact`, from `IInv`, `EntryInv` (below) and
  `ListInv`: while no call was interrupted, the entries under an id are of
  different rows, each valid but for the row of the call in progress. Without it
  a get could fail on an entry whose row is not valid, or a remove could clear
  one of two entries of a row.
* `StorageImplements`: `Spec => ImplementsRecordStore`, from `IInv` and `EntryInv`:
  while nothing died, the rows listed under an id hold records of that id, but
  for the row being put, which is not valid yet. A step that sets a valid bit is
  a put of the record (`PutRefines`), one that clears a bit is the removal of the
  one record its id names (`RemoveRefines`) or, after a death, a loss
  (`HeldLost`), and all others leave the valid records alone (`HeldSame`).

### String silo (`SiloProofs`)

`LiveStringsReadBack` (`StringsIntact`), `FreeListUnbroken` (`LinksFollow`) and
`NothingLostOrShared` (`SpaceAccounted`), for any strings, unit and size. The
three need each other: links are stored inside freed blocks, so that they follow
the free list only if no string is written there, and this is so because every
cell below `current` is in exactly one block, live or free. `IInv` adds that free
blocks lie inside the silo (`FreeInside`).

### Query execution (`QueryProofs`)

* `StacksAlwaysSuffice` (`StacksSuffice`), `EachBitmapInOnePlace`
  (`BitmapsConserved`) and `FreedExactlyOnce` (`FreedOnce`), for every set of
  well-formed query trees. What has to be shown is that
  `mos_qry_calc_bitmap_stack_size`, which counts over the execution stack in
  advance, counts what the execution then does. `StackInv` says where the
  execution is in that count: the results on the stack are those of the nodes
  which the steps run so far have left, free bitmaps and results together are all
  bitmaps, each once, and slots above the tops hold NULL unless they were never
  used.
* `NoMatchIsMissed` (`NothingMissed`), `ClearedBitmapsAnswerExactly`
  (`ExactOnClearedBitmaps`) and `OnlyPutRowsAnswer` (`OnlyRowsPut`). `ContentInv`
  adds to `StackInv` how the bitmap of each result relates to the rows its node
  stands for: it has at least these if the query has no NOT, exactly these if
  every leaf ran on a cleared bitmap, for which free bitmaps have to be
  cleared until the first AND or OR gives one back. The flag `empty`
  is part of it for leaves and EXPAND only: EXPAND leaves out an operand with that
  flag, and AND and OR keep flags that say nothing of their result (`mos_qry.c:284`,
  307-318).
* The execution stack, the count of bitmaps and the meaning of a query are
  recursive functions of the tree. A recursive definition says nothing to a
  prover until a function with those equations is known to exist; `FromTheEnd`
  and `FromTheStart` show it by least counterexample (`LeastNatural`), for every
  function whose values are computed from later, or earlier, ones.

### Lifecycle (`LifecycleProofs`)

`AcceptedIsInitialised` (`IdentifierLast`), `RegionsOwnDescriptors`
(`DescriptorsOwned`), `FreeLeaksArenaOnly` (`FreeCloses`) and
`NoFaultWithoutFailure` (`FaultsOnlyAfterFailure`), for any number of indexes,
descriptors, failing opens, deaths and creates. `IInv` adds where a call is and
that regions it has not come to are not mapped (`Progress`), that what is
initialised exists and was initialised in order (`Initialised`), that an open
file which no region has is an arena or a header (`Tracked`), and that while
nothing failed everything a call has come to is mapped (`Mapped`).

### HNSW index (`HnswProofs`)

All for any vectors, distances, capacities, levels and deaths.

* `ChunksNeverShared` (`ChunksApart`), `CountedNodesComplete` (`CountedLast`),
  `DescentStartsHighest` (`EntryIsHighest`) and `CountedNodesKept` (`NodesStable`).
  `IInv` adds that the chunks a put has taken lie above those of all nodes that
  count (`Reserved`, `mos_idx_hnsw.c:736-757`: a put that dies loses its chunks and
  no later one gets them), that the new node has the level drawn and the row of
  its put (`NewStored`), and which nodes the entry node is highest of, at each of
  the stores of 852-857 (`EntryInv`): entry and top layer disagree between two of
  them, and the flag is cleared before the count is raised. `RowsInv` counts the nodes
  whose row another node or the next put has too: a node that starts to count adds
  one, taking its row removes it again, and only a death in between leaves it.
* `ListsNeverOverflow` (`ListsFit`), by `FitInv`: to `IInv` it adds that no vector
  is stored twice (`VectorInv`), that the chunks even of a node given up are
  chunks of the arena (`ChunksInside`), that lists are no longer than their room
  and lead to written nodes only (`RoomInv`), and that the search, its heaps and
  the links still to be made stay among written nodes (`WalkInv`; in an empty index
  the search stands at node 0). That no vector is stored twice makes
  the distances from a call's vector tell all nodes apart (`Distances`), so that
  the sorted results are a list of nodes without repetition.
* `SearchFindsNearest` (`SearchExhaustive`), by `AnswerInv`: while a wide search has
  room, its results are everything it has seen, and the neighbours of all it
  has seen and does not hold as candidates have been seen (`ExpandedAll`). When the
  candidates run out, that set is closed under links and so is all that can be
  reached (`Reach`). The search cannot stop before: every candidate is a result
  too, hence no further than the furthest result.
* `LinksLeadToNodes` (`LinksSound`), by `LinkInv`: as long as no call died, a link
  in layer `l` leads to another node of that layer and carries its distance, and
  no list names a node twice. While a put links its node, nothing leads to that
  node in the layers it has not come to (`FreshAt`), and the lists it has still to
  add itself to do not contain it (`WillLinkBack`). `Connected` keeps this also
  when it prunes: what `Heuristic` keeps is taken from the list in its order.
* `Heuristic`, `Without`, `NewlyAdded` and `Expanded` are recursive functions over a
  list. That a function with their equations exists, and what each keeps, is
  shown by least counterexample (`LoopExists`, `LoopKeeps`, `HeuristicFacts`), as in
  `QueryProofs`, and so is that a set of nodes has a nearest one (`NearestExists`).

### Configuration and layout (`ConfigProofs`)

* `LayoutHolds`, and of it `FieldsHaveRoom` and `HeaderHasRoom`:
  `Spec => [](FieldsApart /\ DescriptorsFit /\ HeaderHolds /\ BitmapHolds)` for
  every set of configurations. `DescriptorsFit`, that no descriptor is written
  past its array (`mos_core.c:333`), is stated here only. `IInv` adds types, that
  there are no descriptors before the id index's, and that a layout only exists
  once attributes and descriptors no longer change, so that sizes computed from
  them stay right. The arithmetic is in three lemmas about any number of bytes,
  records and descriptors: rounding up to pages (`PagedFits`), words of the bitmap
  (`BitmapFits`), parts of the header (`HeaderFits`).
* `SectionsLieApart`: `Spec => []SectionsApart`, for all dimensions but the seven that
  wrap around (`PaddedDim`). The size of an index file and the
  sections in it are computed in different functions; `SectionsInv` says that
  both used the type and parameters its descriptor has had since it was made.
* `ValidIsUsable`: `Spec => []UsableWhenNamesApart`. `NamesInv` says that there is
  exactly one descriptor, with a name of its own also when cut, for every pair of an indexed
  attribute and a configuration which the loops have passed. As names are
  different there are no more of these pairs than places in the array
  (`PlaceLeft`, a pigeonhole argument), so conversion cannot run out of them.

### Assumptions

The constants' assumptions are named in the modules, and TLC evaluates them in
every run: `MinAlloc >= 2` words (a static assertion of the code), a page and
region sizes that are positive, tables with at least one slot, verifiers
that are neither of the two reserved values (for 64 bits of a hash, with
overwhelming probability; that different keys have different ones is not assumed),
at least two row ids inlined in a node (`Storage`), queries that are finite trees
(`QueriesAssumption`), at most 2^29 records, so that sizes are far below 64 bits
(`ConfigsAssumption`, which leaves types and dimensions open), and markers such as `None` that are not
among the values they stand beside. `Hnsw` assumes lists of at least two in the
upper layers and at least as many in layer 0, and distances that are symmetric
(all three metrics are, `mos_math.c:85-96`) and different from one vector to all others.

### Only model-checked

* `CallsEnd`, a liveness property under fairness, which these provers do not do.

## 5. What is not modelled, and the plan

1. `HmapArena`: the hash map with its nodes' blocks in the arena word by word. `Hmap`
   says of a list in a damaged arena only that it is unknown; the composition would
   say which lists a death can reach.

Not modelled: regions whose size is fixed are only their sizes (`Config`) and
whether they are open (`Lifecycle`); failing allocations of the process's own
memory and the paths they take.

Left out for good: the murmur hash and the floating point of distances (data),
printing and logging, the OS wrappers (their failures
are branches of the modelled callers), the ready bitmap (never read or written).
Stores are assumed to reach the mapping in source order: the death of the
process is modelled, power loss and compiler reordering are not.
