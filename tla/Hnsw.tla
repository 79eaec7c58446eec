-------------------------------- MODULE Hnsw --------------------------------
(***************************************************************************)
(* The HNSW vector index of src/mos_idx_hnsw.c: a graph of layers whose    *)
(* neighbour lists are bounded, entered at one node of its top layer.  A   *)
(* put and a search are calls of several steps: hops, expansions of a      *)
(* candidate, the stores that link a node.  The process may die between    *)
(* any two of them and the mapped file keeps the stores made.  A put of    *)
(* the storage makes its other stores, which Storage has, when the node    *)
(* counts, before it takes the row.                                        *)
(*                                                                         *)
(* A vector is only known by its distances to others.  No two vectors are  *)
(* equally far from a third (NoTies), so the order in which the heaps      *)
(* yield elements is the order of their distances.                         *)
(***************************************************************************)
EXTENDS Integers, Sequences, FiniteSets

CONSTANTS
  Vectors,         \* vectors put and searched
  Zero,            \* what the vector of a node reads that was never written
  Dist,            \* mos_math_calc_distance of two vectors
  Capacity,        \* node_capacity
  M,               \* graph_config.m: neighbours of a node in an upper layer
  MMax0,           \* graph_config.m_max0: neighbours in layer 0
  EfConstruction,  \* graph_config.ef_construction
  Levels,          \* what mos_idx_hnsw_max_layer draws, 0 to MOS_IDX_HNSW_MAX_LAYERS - 1
  ArenaChunks,     \* upper_layers_arena_size, in chunks
  HeapSize,        \* MOS_IDX_HNSW_MAX_EF_CONSTRUCTION
  Searches,        \* vector, ef, top_k and threshold of the searches made
  MaxPuts,         \* bound: puts
  MaxCrashes       \* bound: deaths of the process

Ids == 0..(Capacity - 1)
Points == Vectors \cup {Zero}

ASSUME GraphAssumption ==
  /\ Capacity \in Nat \ {0} /\ Levels \subseteq Nat /\ ArenaChunks \in Nat
  /\ M \in Nat \ {0, 1} /\ MMax0 \in Nat /\ MMax0 >= M
  /\ EfConstruction \in Nat \ {0} /\ HeapSize \in Nat \ {0}
  /\ MaxPuts \in Nat /\ MaxCrashes \in Nat
ASSUME SearchAssumption ==
  \A s \in Searches : /\ s.q \in Vectors /\ s.ef \in Nat \ {0}
                      /\ s.k \in Nat /\ s.threshold \in Int
ASSUME NoTies ==
  /\ Dist \in [Points \X Points -> Int]
  /\ \A u, v \in Points : Dist[u, v] = Dist[v, u]
  /\ \A u, v, w \in Vectors : Dist[u, v] = Dist[u, w] => v = w
  /\ Zero \notin Vectors

VARIABLES
  count, empty, entry, topLayer, nextChunk,   \* index_header
  node,      \* max_layer and arena_offset of the layer 0 nodes
  l0, upper, \* neighbour lists: in the layer 0 nodes, in the arena's chunks
  vector, external,
  row,       \* the caller's next_free_row_id, the value of the next put
  crashes,
  pc, call,  \* the call in progress, its next store or loop
  cur, layer,\* the node it has come to (current_entry_node_id), active_layer
  search,    \* candidate heap, result heap and visited bitset
  links,     \* back links and removals that connect_neighbors has left to do
  answer     \* what the last search set in the bitmap

header == <<count, empty, entry, topLayer, nextChunk>>
lists == <<l0, upper>>
stored == <<node, vector, external>>
walk == <<cur, layer, search, links>>
vars == <<header, lists, stored, row, crashes, pc, call, walk, answer>>

NoCall == [op |-> "none"]
NoSearch == [cand |-> {}, res |-> {}, seen |-> {}]
NoLinks == [owner |-> 0, drops |-> << >>, backs |-> << >>]
NoAnswer == [rows |-> {}]

(* mos_idx_hnsw_init in a new, zero-filled file.                           *)
Init ==
  /\ count = 0 /\ empty = TRUE /\ entry = 0 /\ topLayer = 0 /\ nextChunk = 0
  /\ node = [n \in Ids |-> [level |-> 0, chunk |-> 0]]
  /\ l0 = [n \in Ids |-> << >>]
  /\ upper = [c \in 0..(ArenaChunks - 1) |-> << >>]
  /\ vector = [n \in Ids |-> Zero]
  /\ external = [n \in Ids |-> 0]
  /\ row = 0 /\ crashes = 0
  /\ pc = "idle" /\ call = NoCall /\ answer = NoAnswer
  /\ cur = 0 /\ layer = 0 /\ search = NoSearch /\ links = NoLinks

Forget ==
  /\ call' = NoCall
  /\ cur' = 0 /\ layer' = 0 /\ search' = NoSearch /\ links' = NoLinks
Return == pc' = "idle" /\ Forget
-----------------------------------------------------------------------------
(* Definitions that start with "Wrong" stand before the one they replace.  *)

(* mos_idx_hnsw_get_neighbors, which finds none above a node's max_layer.  *)
Neighbors(n, l) ==
  IF l > node[n].level THEN << >>
  ELSE IF l = 0 THEN l0[n]
  ELSE upper[node[n].chunk + l - 1]

SetNeighbors(n, l, list) ==
  IF l > node[n].level THEN UNCHANGED lists
  ELSE IF l = 0 THEN l0' = [l0 EXCEPT ![n] = list] /\ UNCHANGED upper
  ELSE upper' = [upper EXCEPT ![node[n].chunk + l - 1] = list] /\ UNCHANGED l0

(* The nodes a list leads to.                                              *)
Linked(list) == {list[i].id : i \in DOMAIN list}

(* The distance of a node to the vector put or searched.                   *)
D(n) == Dist[call.q, vector[n]]
Nearest(S) == CHOOSE n \in S : \A o \in S : D(n) <= D(o)
Furthest(S) == CHOOSE n \in S : \A o \in S : D(n) >= D(o)

Push(heap, n) == IF Cardinality(heap) < HeapSize THEN heap \cup {n} ELSE heap

Begin(n) == search' = [cand |-> {n}, res |-> {n}, seen |-> {n}]

(* One neighbour of the candidate that is expanded.                        *)
Consider(s, n) ==
  LET full == Cardinality(s.res) >= call.ef
      seen == [s EXCEPT !.seen = @ \cup {n}]
  IN IF n \in s.seen THEN s
     ELSE IF full /\ D(n) >= D(Furthest(s.res)) THEN seen
     ELSE [seen EXCEPT !.cand = Push(@, n),
                       !.res = Push(IF full THEN @ \ {Furthest(@)} ELSE @, n)]

(* The candidate leaves its heap, then its neighbours are met in turn.     *)
Expanded(c) ==
  LET list == Neighbors(c, layer)
      After[i \in 0..Len(list)] ==
        IF i = 0 THEN [search EXCEPT !.cand = @ \ {c}]
        ELSE Consider(After[i - 1], list[i].id)
  IN After[Len(list)]

(* Wrong: the search stops at a candidate that is not the best so far.     *)
SearchedGreedy ==
  \A c \in search.cand : D(c) > D(Nearest(search.res))

Searched ==
  \A c \in search.cand : D(c) > D(Furthest(search.res))

(* The result heap, nearest first.                                         *)
Sorted ==
  [i \in 1..Cardinality(search.res) |->
     LET n == CHOOSE n \in search.res :
                Cardinality({o \in search.res : D(o) < D(n)}) = i - 1
     IN [id |-> n, d |-> D(n)]]

(* mos_idx_hnsw_select_neighbors_heuristic: a candidate that is closer to  *)
(* one already kept than to the vector is discarded; beyond the capacity a *)
(* candidate is neither kept nor discarded.                                *)
Weighed(s, c, capacity) ==
  IF \E i \in DOMAIN s.kept : Dist[vector[c.id], vector[s.kept[i].id]] < c.d
  THEN [s EXCEPT !.discarded = Append(@, c.id)]
  ELSE IF Len(s.kept) < capacity THEN [s EXCEPT !.kept = Append(@, c)]
  ELSE s

Heuristic(candidates, capacity) ==
  LET After[i \in 0..Len(candidates)] ==
        IF i = 0 THEN [kept |-> << >>, discarded |-> << >>]
        ELSE Weighed(After[i - 1], candidates[i], capacity)
  IN After[Len(candidates)]

ListSize(l) == IF l = 0 THEN MMax0 ELSE M

(* Wrong: the list is pruned one too late.                                 *)
ConnectedTooMany(n, l, new) ==
  LET all == Neighbors(n, l) \o new
  IN IF Len(all) <= ListSize(l) + 1 THEN [kept |-> all, discarded |-> << >>]
     ELSE Heuristic(all, ListSize(l))

(* The list mos_idx_hnsw_connect_neighbors writes for n.                   *)
Connected(n, l, new) ==
  LET all == Neighbors(n, l) \o new
  IN IF Len(all) <= ListSize(l) THEN [kept |-> all, discarded |-> << >>]
     ELSE Heuristic(all, ListSize(l))

(* The elements of a list that were newly added, which are linked back.    *)
NewlyAdded(list, new) ==
  LET After[i \in 0..Len(list)] ==
        IF i = 0 THEN << >>
        ELSE IF list[i].id \in Linked(new) THEN Append(After[i - 1], list[i])
        ELSE After[i - 1]
  IN After[Len(list)]

(* A node is dropped from a list by moving the last element to its place.  *)
Dropped(list, n, j) ==
  IF j <= Len(list) /\ list[j].id = n
  THEN SubSeq([list EXCEPT ![j] = list[Len(list)]], 1, Len(list) - 1)
  ELSE list

Without(list, n) ==
  LET After[j \in 0..Len(list)] ==
        IF j = 0 THEN list ELSE Dropped(After[j - 1], n, j)
  IN After[Len(list)]
-----------------------------------------------------------------------------
Room(lvl) == count < Capacity /\ (lvl = 0 \/ nextChunk + lvl <= ArenaChunks)
IsNew(v) == \A n \in 0..(count - 1) : vector[n] # v
Starts == pc = "idle" /\ answer' = NoAnswer

(* MOS_IDX_HNSW_ERR_FULL_INDEX: the storage keeps the record regardless.   *)
PutRefused(v, lvl) ==
  /\ Starts /\ row < MaxPuts
  /\ ~Room(lvl)
  /\ row' = row + 1
  /\ UNCHANGED <<header, lists, stored, crashes, pc, call, walk>>

(* mos_idx_hnsw_put with lvl drawn by mos_idx_hnsw_max_layer: chunks of    *)
(* the arena are cleared and taken.  A vector is put once (NoTies).        *)
PutReserve(v, lvl) ==
  /\ Starts /\ row < MaxPuts
  /\ IsNew(v) /\ Room(lvl)
  /\ upper' = [c \in DOMAIN upper |->
                 IF c \in nextChunk..(nextChunk + lvl - 1) THEN << >> ELSE upper[c]]
  /\ nextChunk' = nextChunk + lvl
  /\ pc' = "node"
  /\ call' = [op |-> "put", q |-> v, level |-> lvl, ef |-> EfConstruction]
  /\ UNCHANGED <<count, empty, entry, topLayer, l0, stored, row, crashes, walk>>

(* Wrong: where the node's chunks start is not stored.                     *)
NewNodeWithoutChunks ==
  /\ node' = [node EXCEPT ![count] = [level |-> call.level, chunk |-> 0]]
  /\ l0' = [l0 EXCEPT ![count] = << >>]

(* The stores to the new node, which nothing leads to before it is linked. *)
NewNode ==
  /\ node' = [node EXCEPT ![count] =
       [level |-> call.level,
        chunk |-> IF call.level = 0 THEN 0 ELSE nextChunk - call.level]]
  /\ l0' = [l0 EXCEPT ![count] = << >>]

(* The assertions on the header that follow.                               *)
HeaderAsserted == IF empty THEN count = 0 /\ topLayer = 0 ELSE count > 0

(* Wrong: the external id is only stored with the first node.              *)
PutNodeUnnamed ==
  /\ pc = "node" /\ HeaderAsserted
  /\ NewNode
  /\ vector' = [vector EXCEPT ![count] = call.q]
  /\ external' = IF empty THEN [external EXCEPT ![count] = row] ELSE external
  /\ IF empty THEN pc' = "entry" /\ UNCHANGED <<cur, layer>>
     ELSE pc' = "descend" /\ cur' = entry /\ layer' = topLayer
  /\ UNCHANGED <<header, upper, row, crashes, call, search, links, answer>>

(* Wrong: the vector is stored with the last node that counts.             *)
PutNodeOver ==
  /\ pc = "node" /\ HeaderAsserted
  /\ NewNode
  /\ vector' = [vector EXCEPT ![IF empty THEN 0 ELSE count - 1] = call.q]
  /\ external' = [external EXCEPT ![count] = row]
  /\ IF empty THEN pc' = "entry" /\ UNCHANGED <<cur, layer>>
     ELSE pc' = "descend" /\ cur' = entry /\ layer' = topLayer
  /\ UNCHANGED <<header, upper, row, crashes, call, search, links, answer>>

PutNode ==
  /\ pc = "node" /\ HeaderAsserted
  /\ NewNode
  /\ vector' = [vector EXCEPT ![count] = call.q]
  /\ external' = [external EXCEPT ![count] = row]
  /\ IF empty THEN pc' = "entry" /\ UNCHANGED <<cur, layer>>
     ELSE pc' = "descend" /\ cur' = entry /\ layer' = topLayer
  /\ UNCHANGED <<header, upper, row, crashes, call, search, links, answer>>

PutAborts ==
  /\ pc = "node" /\ ~HeaderAsserted
  /\ NewNode
  /\ Return
  /\ UNCHANGED <<header, upper, vector, external, row, crashes, answer>>

Search(s) ==
  /\ Starts
  /\ pc' = "descend"
  /\ call' = [op |-> "search", q |-> s.q, level |-> 0, ef |-> s.ef,
              k |-> s.k, threshold |-> s.threshold]
  /\ cur' = entry /\ layer' = topLayer
  /\ UNCHANGED <<header, lists, stored, row, crashes, search, links>>

(* mos_idx_hnsw_greedy_search, one round per step: on to the nearest       *)
(* neighbour that is nearer, or down a layer if there is none.             *)
Nearer ==
  {n \in Linked(Neighbors(cur, layer)) : D(n) < D(cur)}

(* Wrong: on to the nearest neighbour whether it is nearer or not.         *)
HopAnywhere ==
  /\ pc = "descend" /\ layer > call.level
  /\ Neighbors(cur, layer) # << >>
  /\ cur' = Nearest(Linked(Neighbors(cur, layer)))
  /\ UNCHANGED <<header, lists, stored, row, crashes, pc, call, layer, search, links, answer>>

Hop ==
  /\ pc = "descend" /\ layer > call.level
  /\ Nearer # {}
  /\ cur' = Nearest(Nearer)
  /\ UNCHANGED <<header, lists, stored, row, crashes, pc, call, layer, search, links, answer>>

LayerDown ==
  /\ pc = "descend" /\ layer > call.level
  /\ Nearer = {}
  /\ layer' = layer - 1
  /\ UNCHANGED <<header, lists, stored, row, crashes, pc, call, cur, search, links, answer>>

(* mos_idx_hnsw_get_nearest_neighbors_ascending_by_distance.               *)
BeginSearch ==
  /\ pc = "descend" /\ layer <= call.level
  /\ Begin(cur)
  /\ pc' = "expand"
  /\ UNCHANGED <<header, lists, stored, row, crashes, call, cur, layer, links, answer>>

Expand ==
  /\ pc = "expand" /\ ~Searched
  /\ search' = Expanded(Nearest(search.cand))
  /\ UNCHANGED <<header, lists, stored, row, crashes, pc, call, cur, layer, links, answer>>

(* m_max is chosen once, for the layer the search starts in.               *)
KeptAtMost == IF call.level = 0 \/ topLayer = 0 THEN MMax0 ELSE M

Link ==
  /\ pc = "expand" /\ Searched /\ call.op = "put"
  /\ LET selected == Heuristic(Sorted, KeptAtMost).kept
         list == Connected(count, layer, selected)
     IN /\ SetNeighbors(count, layer, list.kept)
        /\ links' = [owner |-> count, drops |-> list.discarded,
                     backs |-> NewlyAdded(list.kept, selected)]
        /\ cur' = selected[1].id
  /\ pc' = "link"
  /\ UNCHANGED <<header, stored, row, crashes, call, layer, search, answer>>

(* Wrong: the back link is made at the layer below.                        *)
LinkBackBelow ==
  /\ pc = "link" /\ links.drops = << >> /\ links.backs # << >>
  /\ LET to == Head(links.backs)
         l == IF layer = 0 THEN 0 ELSE layer - 1
         list == Connected(to.id, l, <<[id |-> count, d |-> to.d]>>)
     IN /\ SetNeighbors(to.id, l, list.kept)
        /\ links' = [owner |-> to.id, backs |-> Tail(links.backs), drops |-> list.discarded]
  /\ UNCHANGED <<header, stored, row, crashes, pc, call, cur, layer, search, answer>>

(* mos_idx_hnsw_connect_neighbors with is_back_link.                       *)
LinkBack ==
  /\ pc = "link" /\ links.drops = << >> /\ links.backs # << >>
  /\ LET to == Head(links.backs)
         list == Connected(to.id, layer, <<[id |-> count, d |-> to.d]>>)
     IN /\ SetNeighbors(to.id, layer, list.kept)
        /\ links' = [owner |-> to.id, backs |-> Tail(links.backs),
                     drops |-> IF layer > node[to.id].level THEN << >>
                               ELSE list.discarded]
  /\ UNCHANGED <<header, stored, row, crashes, pc, call, cur, layer, search, answer>>

DropLink ==
  /\ pc = "link" /\ links.drops # << >>
  /\ LET from == Head(links.drops)
     IN SetNeighbors(from, layer, Without(Neighbors(from, layer), links.owner))
  /\ links' = [links EXCEPT !.drops = Tail(@)]
  /\ UNCHANGED <<header, stored, row, crashes, pc, call, cur, layer, search, answer>>

LayerLinked ==
  /\ pc = "link" /\ links.drops = << >> /\ links.backs = << >>
  /\ IF layer = 0 THEN pc' = "entry" /\ UNCHANGED <<layer, search>>
     ELSE pc' = "expand" /\ layer' = layer - 1 /\ Begin(cur)
  /\ UNCHANGED <<header, lists, stored, row, crashes, call, cur, links, answer>>

(* The last five stores of a put, in their order; the last is the storage's *)
(* own, behind the node and whatever else it stores of the record.         *)
IsTop == call.level >= topLayer

StoreEntry ==
  /\ pc = "entry" /\ pc' = "layer"
  /\ entry' = IF IsTop THEN count ELSE entry
  /\ UNCHANGED <<count, empty, topLayer, nextChunk, lists, stored, row, crashes, call, walk, answer>>

(* Wrong: the top layer stays that of the first node.                      *)
StoreLayerOnce ==
  /\ pc = "layer" /\ pc' = "flag"
  /\ topLayer' = IF empty THEN call.level ELSE topLayer
  /\ UNCHANGED <<count, empty, entry, nextChunk, lists, stored, row, crashes, call, walk, answer>>

StoreLayer ==
  /\ pc = "layer" /\ pc' = "flag"
  /\ topLayer' = IF IsTop THEN call.level ELSE topLayer
  /\ UNCHANGED <<count, empty, entry, nextChunk, lists, stored, row, crashes, call, walk, answer>>

StoreFlag ==
  /\ pc = "flag" /\ pc' = "count"
  /\ empty' = FALSE
  /\ UNCHANGED <<count, entry, topLayer, nextChunk, lists, stored, row, crashes, call, walk, answer>>

StoreCount ==
  /\ pc = "count" /\ pc' = "row"
  /\ count' = count + 1
  /\ Forget
  /\ UNCHANGED <<empty, entry, topLayer, nextChunk, lists, stored, row, crashes, answer>>

AdvanceRow ==
  /\ pc = "row" /\ pc' = "idle"
  /\ row' = row + 1
  /\ UNCHANGED <<header, lists, stored, crashes, call, walk, answer>>

(* The rows of the nearest top_k results within the threshold.             *)
Answer ==
  /\ pc = "expand" /\ Searched /\ call.op = "search"
  /\ LET best == {i \in DOMAIN Sorted : i <= call.k /\ Sorted[i].d <= call.threshold}
     IN answer' = [rows |-> {external[Sorted[i].id] : i \in best},
                   call |-> call, from |-> cur]
  /\ Return
  /\ UNCHANGED <<header, lists, stored, row, crashes>>

(* The process dies in a put of the storage.  A search stores nothing, so   *)
(* that its death leaves what its end leaves.                              *)
Crash ==
  /\ call.op = "put" \/ pc = "row"
  /\ crashes < MaxCrashes
  /\ crashes' = crashes + 1
  /\ Return
  /\ UNCHANGED <<header, lists, stored, row, answer>>

Step ==
  \/ PutNode \/ PutAborts
  \/ Hop \/ LayerDown \/ BeginSearch \/ Expand \/ Answer
  \/ Link \/ LinkBack \/ DropLink \/ LayerLinked
  \/ StoreEntry \/ StoreLayer \/ StoreFlag \/ StoreCount \/ AdvanceRow

Next ==
  \/ \E v \in Vectors, lvl \in Levels : PutRefused(v, lvl) \/ PutReserve(v, lvl)
  \/ \E s \in Searches : Search(s)
  \/ Step
  \/ Crash

(* A call that was started runs on; nobody has to make calls.              *)
Spec == Init /\ [][Next]_vars /\ WF_vars(Step)
-----------------------------------------------------------------------------
Nodes == 0..(count - 1)
Known == IF call.op = "put" /\ pc # "node" THEN 0..count ELSE Nodes

TypeOK ==
  /\ count \in 0..Capacity /\ empty \in BOOLEAN /\ entry \in Ids
  /\ topLayer \in Levels \cup {0} /\ nextChunk \in 0..ArenaChunks
  /\ node \in [Ids -> [level : Nat, chunk : Nat]]
  /\ DOMAIN l0 = Ids /\ DOMAIN upper = 0..(ArenaChunks - 1)
  /\ vector \in [Ids -> Points] /\ external \in [Ids -> Nat]
  /\ row \in 0..MaxPuts /\ crashes \in 0..MaxCrashes
  /\ pc \in {"idle", "node", "descend", "expand", "link",
             "entry", "layer", "flag", "count", "row"}
  /\ cur \in Ids /\ layer \in Nat
  /\ search.cand \cup search.res \subseteq search.seen /\ search.seen \subseteq Ids

(* No list is longer than the room reserved for it, so that linking never  *)
(* writes into the next node or chunk (mos_idx_hnsw.c:611-637).            *)
(* Its first conjunct is the type invariant.                               *)
ListsFit ==
  /\ TypeOK
  /\ \A n \in Ids : Len(l0[n]) <= MMax0
  /\ \A c \in DOMAIN upper : Len(upper[c]) <= M

(* The chunks of two nodes never overlap, whatever calls died before       *)
(* (mos_idx_hnsw.c:736-757).                                               *)
Chunks(n) == node[n].chunk .. (node[n].chunk + node[n].level - 1)
ChunksApart ==
  \A n \in Known : /\ Chunks(n) \subseteq 0..(nextChunk - 1)
                   /\ \A o \in Known \ {n} : Chunks(n) \cap Chunks(o) = {}

(* A link never leads to a node that was never written.  As long as no     *)
(* call died it leads to another node, which is stored and has the layer,  *)
(* once, and has its true distance (mos_idx_hnsw.c:594-697, 792-849).      *)
LinksSound ==
  \A n \in Known : \A l \in 0..node[n].level :
    LET list == Neighbors(n, l)
    IN \A i \in DOMAIN list :
         /\ vector[list[i].id] # Zero
         /\ crashes = 0 =>
              /\ list[i].id \in Known \ {n}
              /\ node[list[i].id].level >= l
              /\ list[i].d = Dist[vector[n], vector[list[i].id]]
              /\ \A j \in DOMAIN list : list[j].id = list[i].id => j = i

(* Between calls the entry node is one of the highest, so that a descent   *)
(* passes every layer (mos_idx_hnsw.c:776-795, 852-853).                   *)
EntryIsHighest ==
  crashes = 0 /\ pc = "idle" /\ ~empty =>
    /\ entry \in Nodes /\ node[entry].level = topLayer
    /\ \A n \in Nodes : node[n].level <= topLayer

(* The nodes whose row another put gets too: the next node has it, or will   *)
(* have it.                                                                *)
SharedRows ==
  {n \in Nodes : external[n] = IF n + 1 \in Nodes THEN external[n + 1] ELSE row}

(* The nodes that count have the rows of their own puts, in their order.  A *)
(* row goes to a second node only for a death between the store that       *)
(* counts a node and the one that takes its row, no others: one row a       *)
(* death at most (mos_idx_hnsw.c:773, 857, mos_core.c:790-791).            *)
CountedLast ==
  /\ \A n \in Nodes : external[n] <= row /\ \A o \in 0..(n - 1) : external[o] <= external[n]
  /\ pc # "row" => Cardinality(SharedRows) <= crashes

(* No later call, finished or not, changes a node that counts but for its  *)
(* links (mos_idx_hnsw.c:716-775).                                         *)
NodesStable ==
  [][\A n \in Nodes : /\ n < count'
                      /\ <<node', vector', external'>> # <<node, vector, external>> =>
                           /\ node'[n] = node[n] /\ vector'[n] = vector[n]
                           /\ external'[n] = external[n]]_vars

(* The nodes a search of layer 0 that starts at n can come to.             *)
Reach(n) ==
  LET After[i \in 0..Capacity] ==
        IF i = 0 THEN {n}
        ELSE After[i - 1] \cup UNION {Linked(l0[o]) : o \in After[i - 1]}
  IN After[Capacity]

(* A search with room for everything it meets returns exactly the rows of  *)
(* the top_k nearest nodes within the threshold among those linked to      *)
(* where its descent ended (mos_idx_hnsw.c:436-507, 889-928).              *)
SearchExhaustive ==
  answer # NoAnswer =>
    LET met == Reach(answer.from)
        d == [n \in met |-> Dist[answer.call.q, vector[n]]]
        best == {n \in met : /\ d[n] <= answer.call.threshold
                             /\ Cardinality({o \in met : d[o] < d[n]}) < answer.call.k}
    IN Cardinality(met) <= answer.call.ef /\ Cardinality(met) <= HeapSize =>
         answer.rows = {external[n] : n \in best}

(* Every put and every search comes to an end: greedy hops do not go round *)
(* in circles, and a search visits no node twice                           *)
(* (mos_idx_hnsw.c:392-415, 467-500).                                      *)
CallsEnd == pc # "idle" ~> pc = "idle"
=============================================================================
