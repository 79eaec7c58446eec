----------------------------- MODULE HnswProofs ------------------------------
(* Proofs about the HNSW index, for any vectors, distances, capacities and *)
(* levels, and any number of deaths of the process.                        *)
EXTENDS Hnsw, TLAPS, FiniteSetTheorems, WellFoundedInduction

(* What the stores of the header and of a node rely on: their ranges, the  *)
(* step of the call in progress, and the room a put in progress has.       *)
Header ==
  /\ count \in 0..Capacity /\ empty \in BOOLEAN /\ entry \in Ids
  /\ topLayer \in Nat /\ nextChunk \in 0..ArenaChunks
  /\ node \in [Ids -> [level : Nat, chunk : Nat]]
  /\ external \in [Ids -> Nat] /\ DOMAIN vector = Ids
  /\ row \in Nat /\ crashes \in Nat

Walks == {"descend", "expand", "link"}
Stores == {"entry", "layer", "flag", "count"}
Calling ==
  /\ pc \in {"idle", "node", "row"} \cup Walks \cup Stores
  /\ call.op \in {"none", "put", "search"}
  /\ pc \in {"idle", "row"} <=> call.op = "none"
  /\ pc \in {"node", "link"} \cup Stores => call.op = "put"

Putting == call.op = "put" => call.level \in Nat /\ count < Capacity

(* The node of a put in progress, before and after it is stored.            *)
NewStored ==
  call.op = "put" /\ pc # "node" => node[count].level = call.level /\ external[count] = row
Reserved ==
  pc = "node" =>
    /\ call.level <= nextChunk
    /\ \A n \in Nodes : Chunks(n) \cap (nextChunk - call.level)..(nextChunk - 1) = {}

(* Of the rows, with the one that a node was just counted for.              *)
RowsInv ==
  /\ \A n \in Nodes : external[n] <= row /\ \A o \in 0..(n - 1) : external[o] <= external[n]
  /\ Cardinality(SharedRows) <= crashes + (IF pc = "row" THEN 1 ELSE 0)
  /\ pc = "row" => count > 0 /\ external[count - 1] = row

(* The entry node is one of the highest, in each step of a put: it is       *)
(* stored before the top layer, which is stored before the flag.           *)
Highest(S) ==
  entry \in S /\ node[entry].level = topLayer /\ \A n \in S : node[n].level <= topLayer
EntryInv ==
  crashes = 0 =>
    /\ pc = "count" => ~empty
    /\ pc # "count" => (empty <=> count = 0)
    /\ empty /\ pc \notin {"flag", "count"} => topLayer = 0
    /\ pc \notin {"layer", "flag", "count"} /\ ~empty => Highest(Nodes)
    /\ pc = "layer" =>
         /\ \A n \in Nodes : node[n].level <= topLayer
         /\ IF call.level >= topLayer THEN entry = count ELSE Highest(Nodes)
    /\ pc \in {"flag", "count"} => Highest(0..count)

IInv ==
  /\ Header /\ Calling /\ Putting /\ NewStored /\ Reserved
  /\ ChunksApart /\ RowsInv /\ EntryInv

-----------------------------------------------------------------------------
LEMMA CapacityPositive == Capacity \in Nat \ {0}
BY GraphAssumption

LEMMA WhoIsKnown ==
  /\ call.op = "put" /\ pc # "node" => Known = 0..count
  /\ call.op # "put" \/ pc = "node" => Known = Nodes
BY DEF Known

LEMMA RowsCounted ==
  ASSUME Header
  PROVE  /\ IsFiniteSet(SharedRows) /\ Cardinality(SharedRows) \in Nat /\ crashes \in Nat
         /\ count \in Nat /\ row \in Nat /\ Nodes \subseteq Ids
         /\ \A n \in Nodes : n \in Nat /\ external[n] \in Nat /\ n <= count - 1
<1>1. /\ count \in Nat /\ count <= Capacity /\ Capacity \in Nat /\ row \in Nat
      /\ external \in [Ids -> Nat] /\ crashes \in Nat
  BY CapacityPositive DEF Header
<1>2. Nodes \subseteq Ids /\ \A n \in Nodes : n \in Nat /\ n <= count - 1
  BY <1>1 DEF Nodes, Ids
<1>3. IsFiniteSet(Nodes)
  BY <1>1, FS_Interval DEF Nodes
<1>4. IsFiniteSet(SharedRows)
  BY <1>3, FS_Subset DEF SharedRows
<1> QED
  BY <1>1, <1>2, <1>4, FS_CardinalityType

LEMMA NodesDown ==
  ASSUME Header
  PROVE  \A n \in Nodes : \A o \in 0..(n - 1) : o \in Nodes
<1>1. count \in Nat
  BY DEF Header
<1> QED
  BY <1>1 DEF Nodes

(* The rows are as they were when no node that counts is changed.           *)
LEMMA RowsKept ==
  ASSUME Header, RowsInv, UNCHANGED <<count, row, crashes>>,
         \A n \in Nodes : external'[n] = external[n],
         pc' = pc \/ (pc # "row" /\ pc' # "row")
  PROVE  RowsInv'
<1>1. Nodes' = Nodes
  BY DEF Nodes
<1>2. SharedRows' = SharedRows
  BY <1>1 DEF SharedRows
<1>3. \A n \in Nodes : \A o \in 0..(n - 1) : o \in Nodes
  BY NodesDown
<1>4. pc = "row" => count - 1 \in Nodes
  BY RowsCounted DEF RowsInv, Nodes
<1> QED
  BY <1>1, <1>2, <1>3, <1>4 DEF RowsInv

LEMMA InitIInv == Init => IInv
<1> SUFFICES ASSUME Init PROVE IInv
  OBVIOUS
<1>1. Capacity \in Nat \ {0} /\ ArenaChunks \in Nat
  BY GraphAssumption
<1>2. Header
  BY <1>1 DEF Init, Header, Ids
<1>3. pc = "idle" /\ call.op = "none"
  BY DEF Init, NoCall
<1>4. Calling /\ Putting /\ NewStored /\ Reserved
  <2>1. Calling
    BY <1>3 DEF Calling, Stores
  <2> QED
    BY <1>3, <2>1 DEF Putting, NewStored, Reserved
<1>5. Nodes = {} /\ Known = {}
  BY <1>3 DEF Init, Nodes, Known
<1>6. ChunksApart /\ RowsInv
  <2>1. SharedRows = {} /\ crashes = 0
    BY <1>5 DEF SharedRows, Init
  <2>2. Cardinality(SharedRows) = 0
    BY <2>1, FS_EmptySet
  <2> QED
    BY <1>3, <1>5, <2>1, <2>2 DEF ChunksApart, RowsInv
<1>7. EntryInv
  BY <1>3, <1>5 DEF EntryInv, Init
<1> QED
  BY <1>2, <1>4, <1>6, <1>7 DEF IInv

(* A call that ends without a node keeps every node that counts.            *)
LEMMA ReturnIInv ==
  ASSUME IInv, Return, UNCHANGED <<header, stored, row>>,
         UNCHANGED crashes \/ (crashes' = crashes + 1),
         (pc = "expand" /\ call.op = "search") \/ crashes' = crashes + 1
  PROVE  IInv'
<1>1. pc' = "idle" /\ call'.op = "none"
  BY DEF Return, Forget, NoCall
<1>2. /\ count' = count /\ empty' = empty /\ entry' = entry /\ topLayer' = topLayer
      /\ nextChunk' = nextChunk /\ node' = node /\ external' = external /\ vector' = vector
      /\ row' = row
  BY DEF header, stored
<1>3. Header'
  BY <1>2 DEF IInv, Header, Ids
<1>4. Calling' /\ Putting' /\ NewStored' /\ Reserved'
  <2>1. Calling'
    BY <1>1 DEF Calling, Stores
  <2> QED
    BY <1>1, <2>1 DEF Putting, NewStored, Reserved
<1>5. Nodes' = Nodes /\ Known' = Nodes
  BY <1>1, <1>2 DEF Nodes, Known
<1>6. Nodes \subseteq Known
  <2>1. count \in Nat
    BY CapacityPositive DEF IInv, Header
  <2> QED
    BY <2>1 DEF Known, Nodes
<1>7. ChunksApart'
  BY <1>2, <1>5, <1>6 DEF IInv, ChunksApart, Chunks
<1>8. RowsInv'
  <2>1. CASE crashes' = crashes
    BY <1>1, <1>2, <2>1, RowsKept DEF IInv, Header
  <2>2. CASE crashes' = crashes + 1
    <3>1. SharedRows' = SharedRows
      BY <1>2, <1>5 DEF SharedRows
    <3>2. Cardinality(SharedRows) <= crashes + 1
      BY RowsCounted DEF IInv, RowsInv
    <3> QED
      BY <1>1, <1>2, <1>5, <2>2, <3>1, <3>2 DEF IInv, RowsInv
  <2> QED
    BY <2>1, <2>2
<1>9. EntryInv'
  <2>1. CASE crashes' = crashes + 1
    BY <2>1 DEF IInv, Header, EntryInv
  <2>2. CASE crashes' = crashes /\ pc = "expand"
    BY <1>1, <1>2, <1>5, <2>2 DEF IInv, EntryInv, Highest
  <2> QED
    BY <2>1, <2>2
<1> QED
  BY <1>3, <1>4, <1>7, <1>8, <1>9 DEF IInv

(* The steps that walk the graph and link the new node store nothing in     *)
(* the header and in no node.                                               *)
LEMMA WalkIInv ==
  ASSUME IInv, UNCHANGED <<header, stored, row, crashes, call>>,
         pc \in Walks, pc' \in Walks \cup {"entry"},
         pc' \in {"link", "entry"} => call.op = "put"
  PROVE  IInv'
<1>1. /\ count' = count /\ empty' = empty /\ entry' = entry /\ topLayer' = topLayer
      /\ nextChunk' = nextChunk /\ node' = node /\ external' = external /\ vector' = vector
      /\ row' = row
      /\ crashes' = crashes /\ call' = call
  BY DEF header, stored
<1>2. /\ pc \notin {"idle", "node", "layer", "flag", "count", "row"}
      /\ pc' \notin {"idle", "node", "layer", "flag", "count", "row"}
  BY DEF Walks
<1>3. Header'
  BY <1>1 DEF IInv, Header, Ids
<1>4. Calling'
  BY <1>1, <1>2 DEF IInv, Calling, Walks, Stores
<1>5. Putting' /\ NewStored' /\ Reserved'
  BY <1>1, <1>2 DEF IInv, Putting, NewStored, Reserved
<1>6. Nodes' = Nodes /\ Known' = Known
  BY <1>1, <1>2 DEF Nodes, Known
<1>7. ChunksApart' /\ RowsInv'
  BY <1>1, <1>2, <1>6, RowsKept DEF IInv, ChunksApart, Chunks, Walks
<1>8. EntryInv'
  BY <1>1, <1>2, <1>6 DEF IInv, EntryInv, Highest
<1> QED
  BY <1>3, <1>4, <1>5, <1>7, <1>8 DEF IInv

(* A row that is taken is above those of all nodes, so that only the last   *)
(* node can share it no more.                                              *)
LEMMA RowAdvanced ==
  ASSUME Header, RowsInv, row' = row + 1, UNCHANGED <<count, external, crashes>>,
         pc \in {"idle", "row"}, pc' = "idle"
  PROVE  RowsInv'
<1>1. /\ IsFiniteSet(SharedRows) /\ Cardinality(SharedRows) \in Nat /\ crashes \in Nat
      /\ count \in Nat /\ row \in Nat
      /\ \A n \in Nodes : n \in Nat /\ external[n] \in Nat /\ n <= count - 1
  BY RowsCounted
<1>2. Nodes' = Nodes /\ \A n \in Nodes : \A o \in 0..(n - 1) : o \in Nodes
  <2>1. Nodes' = Nodes
    BY DEF Nodes
  <2> QED
    BY <2>1, NodesDown
<1>3. SharedRows' = SharedRows \ {count - 1}
  <2>1. ASSUME NEW n \in Nodes
        PROVE  n \in SharedRows' <=> n \in SharedRows /\ n # count - 1
    <3>1. CASE n = count - 1
      <4>1. n + 1 \notin Nodes
        BY <1>1, <3>1 DEF Nodes
      <4>2. external[n] # row + 1
        BY <1>1 DEF RowsInv
      <4> QED
        BY <1>2, <3>1, <4>1, <4>2 DEF SharedRows
    <3>2. CASE n # count - 1
      <4>1. n + 1 \in Nodes
        BY <1>1, <3>2 DEF Nodes
      <4> QED
        BY <1>2, <3>2, <4>1 DEF SharedRows
    <3> QED
      BY <3>1, <3>2
  <2>2. SharedRows \subseteq Nodes /\ SharedRows' \subseteq Nodes
    BY <1>2 DEF SharedRows
  <2> QED
    BY <2>1, <2>2
<1>4. Cardinality(SharedRows') <= crashes
  <2>1. CASE pc = "row"
    <3>1. count - 1 \in SharedRows
      BY <1>1, <2>1 DEF RowsInv, SharedRows, Nodes
    <3>2. Cardinality(SharedRows') = Cardinality(SharedRows) - 1
      BY <1>1, <1>3, <3>1, FS_RemoveElement
    <3> QED
      BY <1>1, <2>1, <3>2 DEF RowsInv
  <2>2. CASE pc = "idle"
    <3>1. SharedRows' \subseteq SharedRows
      BY <1>3
    <3>2. Cardinality(SharedRows') <= Cardinality(SharedRows) /\ IsFiniteSet(SharedRows')
      BY <1>1, <3>1, FS_Subset
    <3>3. Cardinality(SharedRows') \in Nat /\ Cardinality(SharedRows) <= crashes
      BY <1>1, <2>2, <3>2, FS_CardinalityType DEF RowsInv
    <3> QED
      BY <1>1, <3>2, <3>3
  <2> QED
    BY <2>1, <2>2
<1>5. \A n \in Nodes : external[n] <= row + 1
  BY <1>1 DEF RowsInv
<1>6. Cardinality(SharedRows') <= crashes + 0
  BY <1>1, <1>4
<1> QED
  BY <1>2, <1>5, <1>6 DEF RowsInv

(* A refused put only uses up a row.                                        *)
LEMMA RefusedIInv ==
  ASSUME IInv, NEW v \in Vectors, NEW lvl \in Levels, PutRefused(v, lvl)
  PROVE  IInv'
<1>1. /\ count' = count /\ empty' = empty /\ entry' = entry /\ topLayer' = topLayer
      /\ nextChunk' = nextChunk /\ node' = node /\ external' = external /\ vector' = vector
      /\ row' = row + 1 /\ crashes' = crashes /\ call' = call /\ pc' = pc /\ pc = "idle"
  BY DEF PutRefused, Starts, header, stored
<1>2. count \in Nat /\ row \in Nat /\ external \in [Ids -> Nat] /\ Nodes \subseteq Ids
  BY CapacityPositive DEF IInv, Header, Nodes, Ids
<1>3. Header'
  BY <1>1 DEF IInv, Header, Ids
<1>4. Calling' /\ Putting' /\ Reserved'
  BY <1>1 DEF IInv, Calling, Putting, Reserved
<1>5. NewStored'
  BY <1>1 DEF IInv, Calling, NewStored
<1>6. Nodes' = Nodes /\ Known' = Known
  BY <1>1 DEF Nodes, Known
<1>7. ChunksApart'
  BY <1>1, <1>6 DEF IInv, ChunksApart, Chunks
<1>8. RowsInv'
  BY <1>1, RowAdvanced DEF IInv
<1>9. EntryInv'
  BY <1>1, <1>6 DEF IInv, EntryInv, Highest
<1> QED
  BY <1>3, <1>4, <1>5, <1>7, <1>8, <1>9 DEF IInv

LEMMA SearchIInv ==
  ASSUME IInv, NEW s \in Searches, Search(s)
  PROVE  IInv'
<1>1. /\ count' = count /\ empty' = empty /\ entry' = entry /\ topLayer' = topLayer
      /\ nextChunk' = nextChunk /\ node' = node /\ external' = external /\ vector' = vector
      /\ row' = row /\ crashes' = crashes
      /\ pc = "idle" /\ pc' = "descend" /\ call'.op = "search"
  BY DEF Search, Starts, header, stored
<1>2. Header'
  BY <1>1 DEF IInv, Header, Ids
<1>3. Calling' /\ Putting' /\ NewStored' /\ Reserved'
  BY <1>1 DEF Calling, Putting, NewStored, Reserved, Walks, Stores
<1>4. Nodes' = Nodes /\ Known' = Nodes /\ Known = Nodes
  BY <1>1 DEF Nodes, Known, IInv, Calling
<1>5. ChunksApart' /\ RowsInv'
  BY <1>1, <1>4, RowsKept DEF IInv, ChunksApart, Chunks
<1>6. EntryInv'
  BY <1>1, <1>4 DEF IInv, EntryInv, Highest
<1> QED
  BY <1>2, <1>3, <1>5, <1>6 DEF IInv

(* A put takes chunks above those any node has.                             *)
LEMMA ReserveIInv ==
  ASSUME IInv, NEW v \in Vectors, NEW lvl \in Levels, PutReserve(v, lvl)
  PROVE  IInv'
<1>1. /\ count' = count /\ empty' = empty /\ entry' = entry /\ topLayer' = topLayer
      /\ nextChunk' = nextChunk + lvl /\ node' = node /\ external' = external /\ vector' = vector
      /\ row' = row /\ crashes' = crashes
      /\ pc = "idle" /\ pc' = "node" /\ call'.op = "put" /\ call'.level = lvl
  BY DEF PutReserve, Starts, stored
<1>2. lvl \in Nat /\ count < Capacity /\ nextChunk' <= ArenaChunks
  BY <1>1, GraphAssumption DEF PutReserve, Room, IInv, Header
<1>3. nextChunk \in Nat /\ nextChunk' \in 0..ArenaChunks
  BY <1>1, <1>2, GraphAssumption DEF IInv, Header
<1>4. Header'
  BY <1>1, <1>3 DEF IInv, Header, Ids
<1>5. Calling'
  BY <1>1 DEF Calling, Walks, Stores
<1>6. Putting' /\ NewStored'
  BY <1>1, <1>2 DEF Putting, NewStored
<1>7. Nodes' = Nodes /\ Known' = Nodes /\ Known = Nodes
  BY <1>1 DEF Nodes, Known, IInv, Calling
<1>8. ASSUME NEW n \in Nodes PROVE Chunks(n) \subseteq 0..(nextChunk - 1)
  BY <1>7, <1>8 DEF IInv, ChunksApart
<1>9. ChunksApart'
  <2>1. 0..(nextChunk - 1) \subseteq 0..(nextChunk' - 1)
    BY <1>1, <1>2, <1>3
  <2>2. \A n \in Nodes : Chunks(n)' = Chunks(n)
    BY <1>1 DEF Chunks
  <2> QED
    BY <1>7, <1>8, <2>1, <2>2 DEF IInv, ChunksApart
<1>10. Reserved'
  <2>1. ASSUME NEW n \in Nodes PROVE Chunks(n)' \cap (nextChunk' - lvl)..(nextChunk' - 1) = {}
    <3>1. Chunks(n)' = Chunks(n) /\ Chunks(n) \subseteq 0..(nextChunk - 1)
      BY <1>1, <1>8 DEF Chunks
    <3>2. nextChunk' - lvl = nextChunk
      BY <1>1, <1>2, <1>3
    <3> QED
      BY <1>3, <3>1, <3>2
  <2> QED
    BY <1>1, <1>2, <1>3, <1>7, <2>1 DEF Reserved
<1>11. RowsInv'
  BY <1>1, RowsKept DEF IInv
<1>12. EntryInv'
  BY <1>1, <1>7 DEF IInv, EntryInv, Highest
<1> QED
  BY <1>4, <1>5, <1>6, <1>9, <1>10, <1>11, <1>12 DEF IInv

(* The stores to the new node, which does not count yet.                    *)
LEMMA NodeStored ==
  ASSUME IInv, NewNode, pc = "node"
  PROVE  /\ count \in Ids /\ count \in Nat
         /\ node' \in [Ids -> [level : Nat, chunk : Nat]]
         /\ node'[count].level = call.level /\ call.level \in Nat
         /\ call.level > 0 => node'[count].chunk = nextChunk - call.level
         /\ call.level = 0 => node'[count].chunk = 0
         /\ \A n \in Nodes : n \in Ids /\ n # count /\ node'[n] = node[n]
<1>1. call.op = "put"
  BY DEF IInv, Calling
<1>2. count \in Ids /\ count \in Nat
  BY <1>1, CapacityPositive DEF IInv, Header, Putting, Ids
<1>3. \A n \in Nodes : n \in Ids /\ n # count
  BY <1>1, CapacityPositive DEF Nodes, Ids, IInv, Header, Putting
<1>4. call.level \in Nat /\ call.level <= nextChunk /\ nextChunk \in Nat
  BY <1>1, GraphAssumption DEF IInv, Putting, Reserved, Header
<1> DEFINE c == IF call.level = 0 THEN 0 ELSE nextChunk - call.level
<1>5. c \in Nat /\ (call.level = 0 => c = 0) /\ (call.level > 0 => c = nextChunk - call.level)
  BY <1>4
<1>6. node' = [node EXCEPT ![count] = [level |-> call.level, chunk |-> c]]
  BY DEF NewNode
<1>7. node \in [Ids -> [level : Nat, chunk : Nat]]
  BY DEF IInv, Header
<1> HIDE DEF c
<1>8. [level |-> call.level, chunk |-> c] \in [level : Nat, chunk : Nat]
  BY <1>4, <1>5
<1>9. node' \in [Ids -> [level : Nat, chunk : Nat]]
  BY <1>2, <1>6, <1>7, <1>8
<1>10. node'[count] = [level |-> call.level, chunk |-> c]
  BY <1>2, <1>6, <1>7
<1>11. node'[count].level = call.level /\ node'[count].chunk = c
  BY <1>10
<1>12. \A n \in Nodes : node'[n] = node[n]
  BY <1>3, <1>6, <1>7
<1> QED
  BY <1>2, <1>3, <1>4, <1>5, <1>9, <1>11, <1>12

(* The header contradicts itself and the put is aborted: the half written   *)
(* node does not count, and a put died before.                              *)
LEMMA AbortIInv ==
  ASSUME IInv, PutAborts
  PROVE  IInv'
<1>1. /\ pc = "node" /\ ~HeaderAsserted /\ NewNode /\ Return
      /\ count' = count /\ empty' = empty /\ entry' = entry /\ topLayer' = topLayer
      /\ nextChunk' = nextChunk /\ external' = external /\ vector' = vector
      /\ row' = row /\ crashes' = crashes
  BY DEF PutAborts, header
<1>2. pc' = "idle" /\ call'.op = "none"
  BY <1>1 DEF Return, Forget, NoCall
<1>3. /\ node' \in [Ids -> [level : Nat, chunk : Nat]]
      /\ \A n \in Nodes : node'[n] = node[n]
  BY <1>1, NodeStored
<1>4. Header'
  BY <1>1, <1>3 DEF IInv, Header, Ids
<1>5. Calling'
  BY <1>2 DEF Calling, Stores
<1>6. Putting' /\ NewStored' /\ Reserved'
  BY <1>2 DEF Putting, NewStored, Reserved
<1>7. Nodes' = Nodes /\ Known' = Nodes /\ Known = Nodes
  BY <1>1, <1>2 DEF Nodes, Known
<1>8. ChunksApart'
  <2>1. \A n \in Nodes : Chunks(n)' = Chunks(n)
    BY <1>3 DEF Chunks
  <2> QED
    BY <1>1, <1>7, <2>1 DEF IInv, ChunksApart
<1>9. RowsInv'
  BY <1>1, <1>2, RowsKept DEF IInv
<1>10. crashes # 0
  <2> SUFFICES ASSUME crashes = 0 PROVE HeaderAsserted
    BY <1>1
  <2>1. (empty <=> count = 0) /\ (empty => topLayer = 0) /\ count \in Nat
    BY <1>1, CapacityPositive DEF IInv, EntryInv, Header
  <2> QED
    BY <2>1 DEF HeaderAsserted
<1>11. EntryInv'
  BY <1>1, <1>10 DEF EntryInv
<1> QED
  BY <1>4, <1>5, <1>6, <1>8, <1>9, <1>11 DEF IInv

(* The node is stored with its chunks, the ones its put took.               *)
LEMMA StoreNodeIInv ==
  ASSUME IInv, PutNode
  PROVE  IInv'
<1>1. /\ pc = "node" /\ NewNode
      /\ count' = count /\ empty' = empty /\ entry' = entry /\ topLayer' = topLayer
      /\ nextChunk' = nextChunk /\ external' = [external EXCEPT ![count] = row]
      /\ row' = row /\ crashes' = crashes /\ call' = call
      /\ vector' = [vector EXCEPT ![count] = call.q]
  BY DEF PutNode, header
<1>2. pc' = IF empty THEN "entry" ELSE "descend"
  BY DEF PutNode
<1>3. call.op = "put"
  BY <1>1 DEF IInv, Calling
<1>4. /\ count \in Ids /\ count \in Nat
      /\ node' \in [Ids -> [level : Nat, chunk : Nat]]
      /\ node'[count].level = call.level /\ call.level \in Nat
      /\ call.level > 0 => node'[count].chunk = nextChunk - call.level
      /\ call.level = 0 => node'[count].chunk = 0
      /\ \A n \in Nodes : n \in Ids /\ n # count /\ node'[n] = node[n]
  BY <1>1, NodeStored
<1>5. /\ external' \in [Ids -> Nat] /\ external'[count] = row
      /\ \A n \in Nodes : external'[n] = external[n]
  BY <1>1, <1>4 DEF IInv, Header
<1>6. Header'
  BY <1>1, <1>4, <1>5 DEF IInv, Header, Ids
<1>7. Calling'
  BY <1>1, <1>2, <1>3 DEF Calling, Walks, Stores
<1>8. Putting' /\ Reserved'
  BY <1>1, <1>2 DEF IInv, Putting, Reserved
<1>9. NewStored'
  BY <1>1, <1>4, <1>5 DEF NewStored
<1>10. Nodes' = Nodes /\ Known' = 0..count /\ Known = Nodes
  BY <1>1, <1>2, <1>3 DEF Nodes, Known
<1>11. 0..count = Nodes \cup {count}
  BY <1>4 DEF Nodes
<1>12. \A n \in Nodes : Chunks(n)' = Chunks(n) /\ Chunks(n) \subseteq 0..(nextChunk - 1)
  BY <1>4, <1>10 DEF Chunks, IInv, ChunksApart
<1>13. /\ Chunks(count)' \subseteq 0..(nextChunk - 1)
       /\ \A n \in Nodes : Chunks(count)' \cap Chunks(n) = {}
  <2>1. Chunks(count)' = node'[count].chunk .. (node'[count].chunk + call.level - 1)
    BY <1>1, <1>4 DEF Chunks
  <2>2. nextChunk \in Nat /\ call.level <= nextChunk
    BY <1>1, GraphAssumption DEF IInv, Header, Reserved
  <2>3. CASE call.level = 0
    <3>1. Chunks(count)' = {}
      BY <1>4, <2>1, <2>3
    <3> QED
      BY <3>1
  <2>4. CASE call.level > 0
    <3>1. Chunks(count)' = (nextChunk - call.level)..(nextChunk - 1)
      BY <1>4, <2>1, <2>2, <2>4
    <3>2. Chunks(count)' \subseteq 0..(nextChunk - 1)
      BY <1>4, <2>2, <3>1
    <3> QED
      BY <1>1, <3>1, <3>2 DEF IInv, Reserved
  <2> QED
    BY <1>4, <2>3, <2>4
<1>14. ChunksApart'
  <2>1. ASSUME NEW n \in Nodes \cup {count}
        PROVE  /\ Chunks(n)' \subseteq 0..(nextChunk - 1)
               /\ \A o \in (Nodes \cup {count}) \ {n} : Chunks(n)' \cap Chunks(o)' = {}
    <3>1. \A o \in Nodes : o # n /\ n # count => Chunks(n) \cap Chunks(o) = {}
      BY <1>10, <2>1 DEF IInv, ChunksApart
    <3>2. \A o : o = count => Chunks(o)' = Chunks(count)'
      BY <1>1 DEF Chunks
    <3> QED
      BY <1>12, <1>13, <2>1, <3>1, <3>2
  <2> QED
    BY <1>1, <1>10, <1>11, <2>1 DEF ChunksApart
<1>15. RowsInv'
  BY <1>1, <1>2, <1>5, RowsKept DEF IInv
<1>16. EntryInv'
  <2>1. pc' \notin {"layer", "flag", "count"} /\ pc \notin {"layer", "flag", "count"}
    BY <1>1, <1>2
  <2>2. Highest(Nodes) => Highest(Nodes)'
    BY <1>1, <1>4, <1>10 DEF Highest
  <2> QED
    BY <1>1, <1>10, <2>1, <2>2 DEF IInv, EntryInv
<1> QED
  BY <1>6, <1>7, <1>8, <1>9, <1>14, <1>15, <1>16 DEF IInv

(* The last stores of a put, one after the other.                           *)
LEMMA StoreEntryIInv ==
  ASSUME IInv, StoreEntry
  PROVE  IInv'
<1>1. /\ pc = "entry" /\ pc' = "layer"
      /\ count' = count /\ empty' = empty /\ topLayer' = topLayer
      /\ nextChunk' = nextChunk /\ node' = node /\ external' = external /\ vector' = vector
      /\ row' = row /\ crashes' = crashes /\ call' = call
      /\ entry' = IF call.level >= topLayer THEN count ELSE entry
  BY DEF StoreEntry, stored, IsTop
<1>2. call.op = "put"
  BY <1>1 DEF IInv, Calling, Stores
<1>3. count \in Nat /\ count \in Ids /\ call.level \in Nat /\ topLayer \in Nat
  BY <1>2, CapacityPositive DEF IInv, Header, Putting, Ids
<1>4. Header'
  BY <1>1, <1>3 DEF IInv, Header, Ids
<1>5. Calling'
  BY <1>1, <1>2 DEF Calling, Walks, Stores
<1>6. Putting' /\ NewStored' /\ Reserved'
  BY <1>1, <1>2 DEF IInv, Putting, NewStored, Reserved
<1>7. Nodes' = Nodes /\ Known' = Known
  BY <1>1 DEF Nodes, Known
<1>8. ChunksApart' /\ RowsInv'
  BY <1>1, <1>7, RowsKept DEF IInv, ChunksApart, Chunks
<1>9. EntryInv'
  <2> SUFFICES ASSUME crashes = 0
               PROVE  /\ empty <=> count = 0
                      /\ empty => topLayer = 0
                      /\ \A n \in Nodes : node[n].level <= topLayer
                      /\ IF call.level >= topLayer THEN entry' = count
                         ELSE entry' = entry /\ Highest(Nodes)
    BY <1>1, <1>7 DEF EntryInv, Highest
  <2>1. /\ empty <=> count = 0
        /\ empty => topLayer = 0
        /\ ~empty => Highest(Nodes)
    BY <1>1 DEF IInv, EntryInv
  <2>2. empty => Nodes = {} /\ call.level >= topLayer
    BY <1>3, <2>1 DEF Nodes
  <2> QED
    BY <1>1, <2>1, <2>2 DEF Highest
<1> QED
  BY <1>4, <1>5, <1>6, <1>8, <1>9 DEF IInv

LEMMA StoreLayerIInv ==
  ASSUME IInv, StoreLayer
  PROVE  IInv'
<1>1. /\ pc = "layer" /\ pc' = "flag"
      /\ count' = count /\ empty' = empty /\ entry' = entry
      /\ nextChunk' = nextChunk /\ node' = node /\ external' = external /\ vector' = vector
      /\ row' = row /\ crashes' = crashes /\ call' = call
      /\ topLayer' = IF call.level >= topLayer THEN call.level ELSE topLayer
  BY DEF StoreLayer, stored, IsTop
<1>2. call.op = "put"
  BY <1>1 DEF IInv, Calling, Stores
<1>3. count \in Nat /\ call.level \in Nat /\ topLayer \in Nat
      /\ node \in [Ids -> [level : Nat, chunk : Nat]]
      /\ 0..count \subseteq Ids
  BY <1>2, CapacityPositive DEF IInv, Header, Putting, Ids
<1>4. topLayer' \in Nat /\ topLayer' >= topLayer /\ topLayer' >= call.level
  BY <1>1, <1>3
<1>5. Header'
  BY <1>1, <1>4 DEF IInv, Header, Ids
<1>6. Calling'
  BY <1>1, <1>2 DEF Calling, Walks, Stores
<1>7. Putting' /\ NewStored' /\ Reserved'
  BY <1>1, <1>2 DEF IInv, Putting, NewStored, Reserved
<1>8. Nodes' = Nodes /\ Known' = Known
  BY <1>1 DEF Nodes, Known
<1>9. ChunksApart' /\ RowsInv'
  BY <1>1, <1>8, RowsKept DEF IInv, ChunksApart, Chunks
<1>10. EntryInv'
  <2> SUFFICES ASSUME crashes = 0
               PROVE  /\ empty <=> count = 0
                      /\ entry \in 0..count /\ node[entry].level = topLayer'
                      /\ \A n \in 0..count : node[n].level <= topLayer'
    BY <1>1 DEF EntryInv, Highest
  <2>1. /\ empty <=> count = 0
        /\ \A n \in Nodes : node[n].level <= topLayer
        /\ IF call.level >= topLayer THEN entry = count ELSE Highest(Nodes)
    BY <1>1 DEF IInv, EntryInv
  <2>2. node[count].level = call.level
    BY <1>1, <1>2 DEF IInv, NewStored
  <2>3. 0..count = Nodes \cup {count} /\ count \in 0..count
    BY <1>3 DEF Nodes
  <2>4. \A n \in 0..count : node[n].level \in Nat
    BY <1>3
  <2>5. \A n \in 0..count : node[n].level <= topLayer'
    BY <1>3, <1>4, <2>1, <2>2, <2>3, <2>4
  <2>6. entry \in 0..count /\ node[entry].level = topLayer'
    <3>1. CASE call.level >= topLayer
      BY <1>1, <2>1, <2>2, <2>3, <3>1
    <3>2. CASE ~(call.level >= topLayer)
      BY <1>1, <2>1, <2>3, <3>2 DEF Highest
    <3> QED
      BY <3>1, <3>2
  <2> QED
    BY <2>1, <2>5, <2>6
<1> QED
  BY <1>5, <1>6, <1>7, <1>9, <1>10 DEF IInv

LEMMA StoreFlagIInv ==
  ASSUME IInv, StoreFlag
  PROVE  IInv'
<1>1. /\ pc = "flag" /\ pc' = "count" /\ empty' = FALSE
      /\ count' = count /\ entry' = entry /\ topLayer' = topLayer
      /\ nextChunk' = nextChunk /\ node' = node /\ external' = external /\ vector' = vector
      /\ row' = row /\ crashes' = crashes /\ call' = call
  BY DEF StoreFlag, stored
<1>2. call.op = "put"
  BY <1>1 DEF IInv, Calling, Stores
<1>3. Header'
  BY <1>1 DEF IInv, Header, Ids
<1>4. Calling'
  BY <1>1, <1>2 DEF Calling, Walks, Stores
<1>5. Putting' /\ NewStored' /\ Reserved'
  BY <1>1, <1>2 DEF IInv, Putting, NewStored, Reserved
<1>6. Nodes' = Nodes /\ Known' = Known
  BY <1>1 DEF Nodes, Known
<1>7. ChunksApart' /\ RowsInv'
  BY <1>1, <1>6, RowsKept DEF IInv, ChunksApart, Chunks
<1>8. EntryInv'
  BY <1>1 DEF IInv, EntryInv, Highest
<1> QED
  BY <1>3, <1>4, <1>5, <1>7, <1>8 DEF IInv

(* The node counts: it was complete, had the next row and its own chunks.   *)
LEMMA StoreCountIInv ==
  ASSUME IInv, StoreCount
  PROVE  IInv'
<1>1. /\ pc = "count" /\ pc' = "row" /\ call'.op = "none"
      /\ count' = count + 1 /\ row' = row
      /\ empty' = empty /\ entry' = entry /\ topLayer' = topLayer
      /\ nextChunk' = nextChunk /\ node' = node /\ external' = external /\ vector' = vector
      /\ crashes' = crashes
  BY DEF StoreCount, stored, Forget, NoCall
<1>2. call.op = "put"
  BY <1>1 DEF IInv, Calling, Stores
<1>3. count \in Nat /\ count < Capacity /\ Capacity \in Nat /\ row \in Nat
      /\ external \in [Ids -> Nat] /\ 0..count \subseteq Ids
  BY <1>2, CapacityPositive DEF IInv, Header, Putting, Ids
<1>4. Header'
  BY <1>1, <1>3 DEF IInv, Header, Ids
<1>5. Calling'
  BY <1>1 DEF Calling, Stores
<1>6. Putting' /\ NewStored' /\ Reserved'
  BY <1>1 DEF Putting, NewStored, Reserved
<1>7. Nodes' = 0..count /\ Known' = 0..count /\ Known = 0..count
  BY <1>1, <1>2, <1>3 DEF Nodes, Known
<1>8. ChunksApart'
  BY <1>1, <1>7 DEF IInv, ChunksApart, Chunks
<1>9. Nodes = 0..(count - 1)
  BY DEF Nodes
<1>10. RowsInv'
  <2>1. external[count] = row
    BY <1>1, <1>2 DEF IInv, NewStored
  <2>2. /\ IsFiniteSet(SharedRows) /\ Cardinality(SharedRows) \in Nat /\ crashes \in Nat
        /\ \A n \in Nodes : n \in Nat /\ external[n] \in Nat
    BY RowsCounted DEF IInv
  <2>3. ASSUME NEW n \in 0..count
        PROVE  external[n] <= row /\ \A o \in 0..(n - 1) : external[o] <= external[n]
    <3>1. CASE n = count
      BY <1>3, <2>1, <3>1 DEF IInv, RowsInv, Nodes
    <3>2. CASE n # count
      <4>1. n \in Nodes
        BY <1>3, <2>3, <3>2 DEF Nodes
      <4> QED
        BY <4>1 DEF IInv, RowsInv
    <3> QED
      BY <3>1, <3>2
  <2>4. SharedRows' = SharedRows \cup {count} /\ count \notin SharedRows
    <3>1. ASSUME NEW n \in Nodes PROVE n \in SharedRows' <=> n \in SharedRows
      <4>1. n \in Nodes' /\ n + 1 \in Nodes' /\ (n + 1 \in Nodes \/ n + 1 = count)
        BY <1>3, <1>7, <1>9
      <4>2. n + 1 = count => n + 1 \notin Nodes
        BY <1>3, <1>9
      <4> QED
        BY <1>1, <2>1, <4>1, <4>2 DEF SharedRows
    <3>2. count \in Nodes' /\ count + 1 \notin Nodes' /\ count \notin Nodes
      BY <1>3, <1>7, <1>9
    <3>3. count \in SharedRows'
      BY <1>1, <2>1, <3>2 DEF SharedRows
    <3>4. SharedRows \subseteq Nodes /\ SharedRows' \subseteq Nodes \cup {count}
      <4>1. 0..count \subseteq Nodes \cup {count}
        BY <1>3 DEF Nodes
      <4> QED
        BY <1>7, <4>1 DEF SharedRows
    <3> QED
      BY <3>1, <3>2, <3>3, <3>4
  <2>5. Cardinality(SharedRows') <= crashes + 1
    <3>1. Cardinality(SharedRows') = Cardinality(SharedRows) + 1
      BY <2>2, <2>4, FS_AddElement
    <3>2. Cardinality(SharedRows) <= crashes
      BY <1>1, <2>2 DEF IInv, RowsInv
    <3> QED
      BY <2>2, <3>1, <3>2
  <2>6. count' > 0 /\ external'[count' - 1] = row'
    <3>1. count' - 1 = count /\ count' > 0
      BY <1>1, <1>3
    <3> QED
      BY <1>1, <2>1, <3>1
  <2> QED
    BY <1>1, <1>7, <2>3, <2>5, <2>6 DEF RowsInv
<1>11. EntryInv'
  <2> SUFFICES ASSUME crashes = 0 PROVE Highest(0..count) /\ ~(count + 1 = 0) /\ ~empty
    BY <1>1, <1>3, <1>7 DEF EntryInv, Highest
  <2> QED
    BY <1>1, <1>3 DEF IInv, EntryInv
<1> QED
  BY <1>4, <1>5, <1>6, <1>8, <1>10, <1>11 DEF IInv

LEMMA AdvanceRowIInv ==
  ASSUME IInv, AdvanceRow
  PROVE  IInv'
<1>1. /\ count' = count /\ empty' = empty /\ entry' = entry /\ topLayer' = topLayer
      /\ nextChunk' = nextChunk /\ node' = node /\ external' = external /\ vector' = vector
      /\ row' = row + 1 /\ crashes' = crashes /\ call' = call
      /\ pc = "row" /\ pc' = "idle"
  BY DEF AdvanceRow, header, stored
<1>2. call.op = "none"
  BY <1>1 DEF IInv, Calling
<1>3. row \in Nat
  BY DEF IInv, Header
<1>4. Header'
  BY <1>1, <1>3 DEF IInv, Header, Ids
<1>5. Calling' /\ Putting' /\ NewStored' /\ Reserved'
  BY <1>1, <1>2 DEF Calling, Putting, NewStored, Reserved, Stores
<1>6. Nodes' = Nodes /\ Known' = Nodes /\ Known = Nodes
  BY <1>1, <1>2 DEF Nodes, Known
<1>7. ChunksApart'
  BY <1>1, <1>6 DEF IInv, ChunksApart, Chunks
<1>8. RowsInv'
  BY <1>1, RowAdvanced DEF IInv
<1>9. EntryInv'
  BY <1>1, <1>6 DEF IInv, EntryInv, Highest
<1> QED
  BY <1>4, <1>5, <1>7, <1>8, <1>9 DEF IInv

LEMMA NextIInv == IInv /\ [Next]_vars => IInv'
<1> SUFFICES ASSUME IInv, [Next]_vars PROVE IInv'
  OBVIOUS
<1>1. ASSUME UNCHANGED vars PROVE IInv'
  <2>1. /\ count' = count /\ empty' = empty /\ entry' = entry /\ topLayer' = topLayer
        /\ nextChunk' = nextChunk /\ node' = node /\ external' = external /\ vector' = vector
        /\ row' = row /\ crashes' = crashes /\ call' = call /\ pc' = pc
    BY <1>1 DEF vars, header, stored
  <2>2. Nodes' = Nodes /\ Known' = Known
    BY <2>1 DEF Nodes, Known
  <2>3. Header' /\ Calling' /\ Putting' /\ NewStored'
    BY <2>1 DEF IInv, Header, Calling, Putting, NewStored, Ids
  <2>4. Reserved' /\ ChunksApart' /\ RowsInv' /\ EntryInv'
    BY <2>1, <2>2, RowsKept DEF IInv, Reserved, ChunksApart, Chunks, EntryInv, Highest
  <2> QED
    BY <2>3, <2>4 DEF IInv
<1>2. ASSUME NEW v \in Vectors, NEW lvl \in Levels, PutRefused(v, lvl) PROVE IInv'
  BY <1>2, RefusedIInv
<1>3. ASSUME NEW v \in Vectors, NEW lvl \in Levels, PutReserve(v, lvl) PROVE IInv'
  BY <1>3, ReserveIInv
<1>4. ASSUME NEW s \in Searches, Search(s) PROVE IInv'
  BY <1>4, SearchIInv
<1>5. CASE PutNode
  BY <1>5, StoreNodeIInv
<1>6. CASE PutAborts
  BY <1>6, AbortIInv
<1>7. CASE Hop \/ LayerDown \/ BeginSearch \/ Expand
  <2>1. UNCHANGED <<header, stored, row, crashes, call>>
    BY <1>7 DEF Hop, LayerDown, BeginSearch, Expand
  <2>2. pc \in Walks /\ pc' \in {"descend", "expand"}
    BY <1>7 DEF Hop, LayerDown, BeginSearch, Expand, Walks
  <2> QED
    BY <2>1, <2>2, WalkIInv DEF Walks
<1>8. CASE Link \/ LinkBack \/ DropLink \/ LayerLinked
  <2>1. UNCHANGED <<header, stored, row, crashes, call>>
    BY <1>8 DEF Link, LinkBack, DropLink, LayerLinked
  <2>2. pc \in Walks /\ pc' \in Walks \cup {"entry"} /\ (pc = "link" \/ call.op = "put")
    BY <1>8 DEF Link, LinkBack, DropLink, LayerLinked, Walks
  <2>3. call.op = "put"
    BY <2>2 DEF IInv, Calling
  <2> QED
    BY <2>1, <2>2, <2>3, WalkIInv
<1>9. CASE Answer
  BY <1>9, ReturnIInv DEF Answer
<1>10. CASE Crash
  BY <1>10, ReturnIInv DEF Crash
<1>11. CASE StoreEntry
  BY <1>11, StoreEntryIInv
<1>12. CASE StoreLayer
  BY <1>12, StoreLayerIInv
<1>13. CASE StoreFlag
  BY <1>13, StoreFlagIInv
<1>14. CASE StoreCount
  BY <1>14, StoreCountIInv
<1>15. CASE AdvanceRow
  BY <1>15, AdvanceRowIInv
<1> QED
  BY <1>1, <1>2, <1>3, <1>4, <1>5, <1>6, <1>7, <1>8, <1>9, <1>10, <1>11, <1>12,
     <1>13, <1>14, <1>15 DEF Next, Step

(* A node that counts is changed by no step, but for its links.             *)
NodeKept ==
  \A n \in Nodes : /\ n < count'
                   /\ <<node', vector', external'>> # <<node, vector, external>> =>
                        /\ node'[n] = node[n] /\ vector'[n] = vector[n]
                        /\ external'[n] = external[n]

LEMMA NextKeepsNodes == IInv /\ [Next]_vars => [NodeKept]_vars
<1> SUFFICES ASSUME IInv, [Next]_vars PROVE NodeKept \/ UNCHANGED vars
  OBVIOUS
<1>1. count \in Nat
  BY CapacityPositive DEF IInv, Header
<1>2. \A n \in Nodes : n < count /\ n < count + 1
  BY <1>1 DEF Nodes
<1>3. ASSUME count' = count \/ count' = count + 1,
             <<node', vector', external'>> = <<node, vector, external>>
      PROVE  NodeKept
  BY <1>2, <1>3 DEF NodeKept
<1>4. ASSUME pc = "node", NewNode, count' = count,
             vector' = vector \/ vector' = [vector EXCEPT ![count] = call.q],
             external' = external \/ external' = [external EXCEPT ![count] = row]
      PROVE  NodeKept
  <2>1. \A n \in Nodes : n # count /\ node'[n] = node[n]
    BY <1>4, NodeStored
  <2> SUFFICES ASSUME NEW n \in Nodes
               PROVE  vector'[n] = vector[n] /\ external'[n] = external[n]
    BY <1>2, <1>4, <2>1 DEF NodeKept
  <2>2. DOMAIN vector = Ids /\ external \in [Ids -> Nat] /\ n \in Ids
    BY <1>4, NodeStored DEF IInv, Header
  <2> QED
    BY <1>4, <2>1, <2>2
<1>5. CASE PutNode
  BY <1>4, <1>5 DEF PutNode, header
<1>6. CASE PutAborts
  BY <1>4, <1>6 DEF PutAborts, header
<1>7. CASE \E v \in Vectors, lvl \in Levels : PutRefused(v, lvl) \/ PutReserve(v, lvl)
  BY <1>3, <1>7 DEF PutRefused, PutReserve, header, stored
<1>8. CASE (\E s \in Searches : Search(s)) \/ Crash \/ Answer
  BY <1>3, <1>8 DEF Search, Crash, Answer, header, stored
<1>9. CASE Hop \/ LayerDown \/ BeginSearch \/ Expand
  BY <1>3, <1>9 DEF Hop, LayerDown, BeginSearch, Expand, header, stored
<1>10. CASE Link \/ LinkBack \/ DropLink \/ LayerLinked
  BY <1>3, <1>10 DEF Link, LinkBack, DropLink, LayerLinked, header, stored
<1>11. CASE StoreEntry \/ StoreLayer \/ StoreFlag \/ StoreCount \/ AdvanceRow
  BY <1>3, <1>11 DEF StoreEntry, StoreLayer, StoreFlag, StoreCount, AdvanceRow, header, stored
<1> QED
  BY <1>5, <1>6, <1>7, <1>8, <1>9, <1>10, <1>11 DEF Next, Step

(* The inductive invariant holds in every state of the index.               *)
LEMMA IndexInvariant == Spec => []IInv
BY InitIInv, NextIInv, PTL DEF Spec

(* mos_idx_hnsw_put gives every node chunks of its own, also when earlier   *)
(* puts died with their chunks taken.                                       *)
THEOREM ChunksNeverShared == Spec => []ChunksApart
<1>1. IInv => ChunksApart
  BY DEF IInv
<1> QED
  BY <1>1, IndexInvariant, PTL

(* Whatever stores deaths lose, the nodes that count have the rows of their *)
(* puts in order, and no more than one row a death goes to a second node:   *)
(* the count is the last store of mos_idx_hnsw_put, the row is taken after. *)
THEOREM CountedNodesComplete == Spec => []CountedLast
<1>1. IInv => CountedLast
  <2> SUFFICES ASSUME IInv PROVE CountedLast
    OBVIOUS
  <2>1. Cardinality(SharedRows) \in Nat /\ crashes \in Nat
    BY RowsCounted DEF IInv
  <2> QED
    BY <2>1 DEF IInv, RowsInv, CountedLast
<1> QED
  BY <1>1, IndexInvariant, PTL

(* As long as no call died, a descent starts in a node of the top layer,    *)
(* and no node is above it.                                                 *)
THEOREM DescentStartsHighest == Spec => []EntryIsHighest
<1>1. IInv => EntryIsHighest
  BY DEF IInv, EntryInv, EntryIsHighest, Highest
<1> QED
  BY <1>1, IndexInvariant, PTL

(* No step of a later put, search or death changes a node that counts but   *)
(* for its neighbour lists.                                                 *)
THEOREM CountedNodesKept == Spec => NodesStable
<1>1. Spec => [][NodeKept]_vars
  BY IndexInvariant, NextKeepsNodes, PTL DEF Spec
<1>2. NodesStable <=> [][NodeKept]_vars
  BY DEF NodesStable, NodeKept
<1> QED
  BY <1>1, <1>2

-----------------------------------------------------------------------------
(* The loops of the source are recursive functions of the rounds made.  A   *)
(* non-empty set of numbers has a least element, so that what holds before  *)
(* the first round and is kept by each one holds after the last.           *)
LEMMA LeastNatural ==
  ASSUME NEW S \in SUBSET Nat, S # {}
  PROVE  \E n \in S : \A m \in S : n <= m
<1>1. PICK R : R = OpToRel(<, Nat)
  OBVIOUS
<1>2. IsWellFoundedOn(R, Nat)
  BY <1>1, NatLessThanWellFounded
<1>3. PICK x \in S : \A y \in S : ~(<<y, x>> \in R)
  BY <1>2, WFMin
<1>4. \A y \in S : y < x => <<y, x>> \in R
  BY <1>1 DEF OpToRel
<1>5. \A y \in S : ~(y < x)
  BY <1>3, <1>4
<1> QED
  BY <1>5

LEMMA Rounds ==
  ASSUME NEW N \in Nat, NEW S, 0 \in S, \A n \in 1..N : n - 1 \in S => n \in S
  PROVE  \A n \in 0..N : n \in S
<1> DEFINE Bad == {n \in 0..N : n \notin S}
<1>1. Bad \in SUBSET Nat
  OBVIOUS
<1> SUFFICES ASSUME Bad # {} PROVE FALSE
  OBVIOUS
<1>2. PICK n \in Bad : \A m \in Bad : n <= m
  <2> HIDE DEF Bad
  <2> QED
    BY <1>1, LeastNatural
<1>3. n \in 1..N
  BY <1>2
<1>4. n - 1 \in 0..N /\ ~(n <= n - 1)
  BY <1>3
<1>5. n - 1 \in S
  BY <1>2, <1>4
<1> QED
  BY <1>2, <1>3, <1>5

(* What a loop keeps: Y[n] are the states it may be in after n rounds.      *)
LEMMA LoopKeeps ==
  ASSUME NEW N \in Nat, NEW f, NEW Y, f[0] \in Y[0],
         \A n \in 1..N : f[n - 1] \in Y[n - 1] => f[n] \in Y[n]
  PROVE  \A n \in 0..N : f[n] \in Y[n]
<1> DEFINE S == {n \in 0..N : f[n] \in Y[n]}
<1>1. 0 \in S
  OBVIOUS
<1>2. \A n \in 1..N : n - 1 \in S => n \in S
  OBVIOUS
<1> HIDE DEF S
<1>3. \A n \in 0..N : n \in S
  BY <1>1, <1>2, Rounds
<1> QED
  BY <1>3 DEF S

(* The states after each round of a loop over X exist.                      *)
Follows(f, N, x, step) == f[0] = x /\ \A n \in 1..N : f[n] = step[n][f[n - 1]]
LEMMA LoopExists ==
  ASSUME NEW N \in Nat, NEW X, NEW x \in X, NEW step \in [1..N -> [X -> X]]
  PROVE  \E f \in [0..N -> X] : Follows(f, N, x, step)
<1> DEFINE Good(f, k) == f[0] = x /\ \A n \in 1..N : n <= k => f[n] = step[n][f[n - 1]]
           S == {k \in 0..N : \E f \in [0..N -> X] : Good(f, k)}
<1>1. 0 \in S
  <2>1. [n \in 0..N |-> x] \in [0..N -> X] /\ [n \in 0..N |-> x][0] = x
    OBVIOUS
  <2>2. \A n \in 1..N : ~(n <= 0)
    OBVIOUS
  <2>3. Good([n \in 0..N |-> x], 0)
    BY <2>1, <2>2
  <2> QED
    BY <2>1, <2>3
<1>2. ASSUME NEW p \in 1..N, p - 1 \in S PROVE p \in S
  <2>1. PICK f \in [0..N -> X] : Good(f, p - 1)
    BY <1>2
  <2>2. p - 1 \in 0..N /\ p \in 0..N /\ p # 0
    BY <1>2
  <2> DEFINE g == [f EXCEPT ![p] = step[p][f[p - 1]]]
  <2>3. g \in [0..N -> X] /\ g[p] = step[p][f[p - 1]] /\ \A n \in 0..N : n # p => g[n] = f[n]
    <3>1. step[p][f[p - 1]] \in X
      BY <2>2
    <3> QED
      BY <2>2, <3>1
  <2> HIDE DEF g
  <2>4. ASSUME NEW n \in 1..N, n <= p PROVE g[n] = step[n][g[n - 1]]
    <3>1. n - 1 \in 0..N /\ n - 1 # p /\ n \in 0..N /\ g[n - 1] = f[n - 1]
      BY <2>2, <2>3, <2>4
    <3>2. CASE n = p
      BY <2>3, <3>1, <3>2
    <3>3. CASE n # p
      <4>1. n <= p - 1
        BY <2>4, <3>3
      <4> QED
        BY <2>1, <2>3, <3>1, <3>3, <4>1
    <3> QED
      BY <3>2, <3>3
  <2>5. Good(g, p)
    BY <2>1, <2>2, <2>3, <2>4
  <2> QED
    BY <2>2, <2>3, <2>5
<1>3. \A n \in 0..N : n \in S
  <2> HIDE DEF S
  <2> QED
    BY <1>1, <1>2, Rounds
<1>4. PICK f \in [0..N -> X] : Good(f, N)
  BY <1>3
<1>5. \A n \in 1..N : n <= N
  OBVIOUS
<1> QED
  BY <1>4, <1>5 DEF Follows

(* A set of nodes has a nearest one, however distances are given.           *)
LEMMA NearestExists ==
  ASSUME NEW S \in SUBSET Ids, S # {}, NEW d \in [S -> Int]
  PROVE  \E n \in S : \A o \in S : d[n] <= d[o]
<1>1. Capacity \in Nat
  BY GraphAssumption
<1> DEFINE B == {k \in 0..Capacity : \E b \in Int : \A n \in S : n < k => b <= d[n]}
<1>2. 0 \in B
  <2>1. \A n \in S : ~(n < 0)
    BY <1>1 DEF Ids
  <2> QED
    BY <1>1, <2>1
<1>3. ASSUME NEW k \in 1..Capacity, k - 1 \in B PROVE k \in B
  <2>1. PICK b \in Int : \A n \in S : n < k - 1 => b <= d[n]
    BY <1>3
  <2>2. \A n \in S : n < k => n < k - 1 \/ n = k - 1
    BY <1>1 DEF Ids
  <2>3. CASE k - 1 \in S
    <3>1. PICK c \in Int : c = d[k - 1]
      BY <2>3
    <3>2. PICK m \in Int : m <= b /\ m <= c
      <4>1. CASE b <= c
        BY <4>1
      <4>2. CASE ~(b <= c)
        BY <4>2
      <4> QED
        BY <4>1, <4>2
    <3>3. \A n \in S : n < k => m <= d[n]
      BY <2>1, <2>2, <3>1, <3>2
    <3> QED
      BY <1>1, <3>3
  <2>4. CASE k - 1 \notin S
    <3>1. \A n \in S : n < k => b <= d[n]
      BY <2>1, <2>2, <2>4
    <3> QED
      BY <1>1, <3>1
  <2> QED
    BY <2>3, <2>4
<1>4. \A k \in 0..Capacity : k \in B
  <2> HIDE DEF B
  <2> QED
    BY <1>1, <1>2, <1>3, Rounds
<1>5. PICK b \in Int : \A n \in S : b <= d[n]
  <2>1. PICK b \in Int : \A n \in S : n < Capacity => b <= d[n]
    BY <1>1, <1>4
  <2>2. \A n \in S : n < Capacity
    BY <1>1 DEF Ids
  <2> QED
    BY <2>1, <2>2
<1> DEFINE T == {d[n] - b : n \in S}
<1>6. T \in SUBSET Nat /\ T # {}
  BY <1>5
<1>7. PICK t \in T : \A u \in T : t <= u
  <2> HIDE DEF T
  <2> QED
    BY <1>6, LeastNatural
<1>8. PICK n \in S : t = d[n] - b
  BY <1>7
<1>9. \A o \in S : d[n] - b <= d[o] - b
  BY <1>7, <1>8
<1>10. \A o \in S : d[o] \in Int
  OBVIOUS
<1> QED
  BY <1>5, <1>8, <1>9, <1>10

LEMMA SomeIdsFinite ==
  ASSUME NEW S \in SUBSET Ids
  PROVE  IsFiniteSet(S) /\ Cardinality(S) \in Nat
<1>1. 0 \in Int /\ Capacity - 1 \in Int
  BY GraphAssumption
<1>2. IsFiniteSet(Ids)
  BY <1>1, FS_Interval DEF Ids
<1>3. IsFiniteSet(S)
  BY <1>2, FS_Subset
<1> QED
  BY <1>3, FS_CardinalityType

(* Nodes at different distances have different ranks, and there is one of   *)
(* every rank, so that the result heap can be sorted.                       *)
Below(S, d, n) == {o \in S : d[o] < d[n]}
LEMMA Ranks ==
  ASSUME NEW S \in SUBSET Ids, NEW d \in [S -> Int], \A n, o \in S : d[n] = d[o] => n = o
  PROVE  /\ \A n \in S : Cardinality(Below(S, d, n)) \in 0..(Cardinality(S) - 1)
         /\ \A n, o \in S : d[n] < d[o] <=> Cardinality(Below(S, d, n)) < Cardinality(Below(S, d, o))
         /\ \A i \in 1..Cardinality(S) : \E n \in S : Cardinality(Below(S, d, n)) = i - 1
         /\ \A n, o \in S : Cardinality(Below(S, d, n)) = Cardinality(Below(S, d, o)) => n = o
<1>1. IsFiniteSet(S) /\ Cardinality(S) \in Nat
  BY SomeIdsFinite
<1>2. ASSUME NEW n \in S
      PROVE  /\ IsFiniteSet(Below(S, d, n)) /\ Cardinality(Below(S, d, n)) \in Nat
             /\ Cardinality(Below(S, d, n)) < Cardinality(S)
  <2>1. Below(S, d, n) \in SUBSET (S \ {n}) /\ Below(S, d, n) \in SUBSET Ids
    BY DEF Below
  <2>2. IsFiniteSet(S \ {n}) /\ Cardinality(S \ {n}) = Cardinality(S) - 1
    BY <1>1, FS_RemoveElement
  <2>3. Cardinality(Below(S, d, n)) <= Cardinality(S \ {n})
    BY <2>1, <2>2, FS_Subset
  <2>4. IsFiniteSet(Below(S, d, n)) /\ Cardinality(Below(S, d, n)) \in Nat
    BY <2>1, SomeIdsFinite
  <2> QED
    BY <1>1, <2>2, <2>3, <2>4
<1>3. ASSUME NEW n \in S, NEW o \in S, d[n] < d[o]
      PROVE  Cardinality(Below(S, d, n)) < Cardinality(Below(S, d, o))
  <2>1. Below(S, d, n) \cup {n} \in SUBSET Below(S, d, o)
    <3>1. \A p \in S : d[p] < d[n] => d[p] < d[o]
      BY <1>3
    <3> QED
      BY <1>3, <3>1 DEF Below
  <2>2. n \notin Below(S, d, n)
    BY DEF Below
  <2>3. Cardinality(Below(S, d, n) \cup {n}) = Cardinality(Below(S, d, n)) + 1
    BY <1>2, <2>2, FS_AddElement
  <2>4. Cardinality(Below(S, d, n) \cup {n}) <= Cardinality(Below(S, d, o))
    BY <1>2, <2>1, FS_Subset
  <2>5. Cardinality(Below(S, d, n)) \in Nat /\ Cardinality(Below(S, d, o)) \in Nat
    BY <1>2
  <2> QED
    BY <2>3, <2>4, <2>5
<1>4. ASSUME NEW n \in S, NEW o \in S, n # o
      PROVE  d[n] < d[o] \/ d[o] < d[n]
  BY <1>4
<1>5. ASSUME NEW n \in S, NEW o \in S, Cardinality(Below(S, d, n)) < Cardinality(Below(S, d, o))
      PROVE  d[n] < d[o]
  <2>1. /\ Cardinality(Below(S, d, n)) \in Nat /\ Cardinality(Below(S, d, o)) \in Nat
    BY <1>2
  <2>2. n # o
    BY <1>5, <2>1
  <2>3. ~(d[o] < d[n])
    <3> SUFFICES ASSUME d[o] < d[n] PROVE FALSE
      OBVIOUS
    <3>1. Cardinality(Below(S, d, o)) < Cardinality(Below(S, d, n))
      BY <1>3
    <3> QED
      BY <1>5, <2>1, <3>1
  <2> QED
    BY <1>4, <2>2, <2>3
<1>6. ASSUME NEW n \in S, NEW o \in S, Cardinality(Below(S, d, n)) = Cardinality(Below(S, d, o))
      PROVE  n = o
  <2>1. /\ Cardinality(Below(S, d, n)) \in Nat /\ Cardinality(Below(S, d, o)) \in Nat
    BY <1>2
  <2> SUFFICES ASSUME n # o PROVE FALSE
    OBVIOUS
  <2>2. \/ Cardinality(Below(S, d, n)) < Cardinality(Below(S, d, o))
        \/ Cardinality(Below(S, d, o)) < Cardinality(Below(S, d, n))
    BY <1>3, <1>4
  <2> QED
    BY <1>6, <2>1, <2>2
<1> DEFINE T == 0..(Cardinality(S) - 1)
           r == [n \in S |-> Cardinality(Below(S, d, n))]
<1>7. r \in [S -> T]
  BY <1>1, <1>2
<1>8. r \in Injection(S, T)
  <2>1. \A n, o \in S : r[n] = r[o] => n = o
    BY <1>6
  <2> HIDE DEF r, T
  <2> QED
    BY <1>7, <2>1 DEF Injection, IsInjective
<1>9. IsFiniteSet(T) /\ Cardinality(T) = Cardinality(S)
  <2>1. 0 \in Int /\ Cardinality(S) - 1 \in Int
    BY <1>1
  <2>2. IsFiniteSet(T) /\ Cardinality(T) = IF 0 > Cardinality(S) - 1 THEN 0
                                           ELSE (Cardinality(S) - 1) - 0 + 1
    BY <2>1, FS_Interval
  <2> HIDE DEF T
  <2> QED
    BY <1>1, <2>2
<1>10. r \in Surjection(S, T)
  <2> HIDE DEF r, T
  <2> QED
    BY <1>8, <1>9, FS_Injection
<1>11. ASSUME NEW i \in 1..Cardinality(S) PROVE \E n \in S : Cardinality(Below(S, d, n)) = i - 1
  <2>1. i - 1 \in T
    BY <1>1
  <2>2. \E n \in S : r[n] = i - 1
    <3> HIDE DEF r, T
    <3> QED
      BY <1>10, <2>1 DEF Surjection
  <2> QED
    BY <2>2
<1>12. \A n \in S : Cardinality(Below(S, d, n)) \in 0..(Cardinality(S) - 1)
  BY <1>1, <1>2
<1> QED
  BY <1>3, <1>5, <1>6, <1>11, <1>12

-----------------------------------------------------------------------------
(* What the loops of the source compute.                                    *)

(* The heuristic keeps candidates, no more than there is room for, the      *)
(* first in any case, and each once.                                        *)
Different(list) == \A i, j \in DOMAIN list : list[i].id = list[j].id => i = j
From(list, cs, n) == \A i \in DOMAIN list : \E j \in 1..n : list[i] = cs[j]

IsAppended(t, k, c) ==
  /\ t # << >> /\ Len(k) \in Nat /\ Len(t) = Len(k) + 1
  /\ DOMAIN k = 1..Len(k) /\ DOMAIN t = 1..(Len(k) + 1)
  /\ \A i \in 1..Len(k) : t[i] = k[i]
  /\ t[Len(k) + 1] = c
LEMMA Appended ==
  ASSUME NEW C, NEW k \in Seq(C), NEW c \in C
  PROVE  Append(k, c) \in Seq(C) /\ IsAppended(Append(k, c), k, c)
<1>1. Append(k, c) \in Seq(C) /\ Len(Append(k, c)) = Len(k) + 1 /\ Len(k) \in Nat
  OBVIOUS
<1>2. DOMAIN Append(k, c) = 1..(Len(k) + 1) /\ DOMAIN k = 1..Len(k)
  OBVIOUS
<1>3. Len(<< >>) = 0
  OBVIOUS
<1>4. Append(k, c) # << >>
  BY <1>1, <1>3
<1>5. (\A i \in 1..Len(k) : Append(k, c)[i] = k[i]) /\ Append(k, c)[Len(k) + 1] = c
  OBVIOUS
<1> QED
  BY <1>1, <1>2, <1>4, <1>5 DEF IsAppended

(* A list made from the elements of another that were passed stays so, and  *)
(* has each once, if the next one is appended or not.                       *)
LEMMA MoreFrom ==
  ASSUME NEW cs, NEW n \in 1..Len(cs), Len(cs) \in Nat, DOMAIN cs = 1..Len(cs),
         NEW k, From(k, cs, n - 1), Different(cs) => Different(k),
         NEW t, t = k \/ IsAppended(t, k, cs[n])
  PROVE  From(t, cs, n) /\ (Different(cs) => Different(t))
<1>1. \A i \in DOMAIN k : \E j \in 1..(n - 1) : k[i] = cs[j]
  BY DEF From
<1>2. \A j \in 1..(n - 1) : j \in 1..n /\ j # n /\ j \in DOMAIN cs
  OBVIOUS
<1>3. n \in 1..n /\ n \in DOMAIN cs
  OBVIOUS
<1>4. CASE t = k
  BY <1>1, <1>2, <1>4 DEF From
<1>5. CASE IsAppended(t, k, cs[n])
  <2>1. PICK l \in Nat : l = Len(k)
    BY <1>5 DEF IsAppended
  <2>2. /\ DOMAIN t = 1..(l + 1) /\ t[l + 1] = cs[n] /\ DOMAIN k = 1..l
        /\ \A i \in 1..l : t[i] = k[i]
    BY <1>5, <2>1 DEF IsAppended
  <2>3. \A i \in 1..(l + 1) : i \in 1..l \/ i = l + 1
    OBVIOUS
  <2>4. ASSUME NEW i \in 1..(l + 1) PROVE \E j \in 1..n : t[i] = cs[j]
    <3>1. CASE i \in 1..l
      <4>1. PICK j \in 1..(n - 1) : k[i] = cs[j]
        BY <1>1, <2>2, <3>1
      <4> QED
        BY <1>2, <2>2, <3>1, <4>1
    <3> QED
      BY <1>3, <2>2, <2>3, <3>1
  <2>5. ASSUME Different(cs) PROVE Different(t)
    <3>1. ASSUME NEW i \in 1..l PROVE k[i].id # cs[n].id
      <4>1. PICK j \in 1..(n - 1) : k[i] = cs[j]
        BY <1>1, <2>2
      <4> QED
        BY <1>2, <1>3, <2>5, <4>1 DEF Different
    <3>2. ASSUME NEW i \in 1..(l + 1), NEW j \in 1..(l + 1), t[i].id = t[j].id
          PROVE  i = j
      <4>1. i \in 1..l /\ j \in 1..l => i = j
        BY <2>2, <2>5, <3>2 DEF Different
      <4>2. ~(i \in 1..l /\ j = l + 1) /\ ~(j \in 1..l /\ i = l + 1)
        BY <2>2, <3>1, <3>2
      <4> QED
        BY <2>3, <4>1, <4>2
    <3> QED
      BY <2>2, <3>2 DEF Different
  <2> QED
    BY <2>2, <2>4, <2>5 DEF From
<1> QED
  BY <1>4, <1>5

LEMMA HeuristicFacts ==
  ASSUME NEW C, NEW cs \in Seq(C), NEW capacity \in Nat
  PROVE  /\ Heuristic(cs, capacity).kept \in Seq(C)
         /\ Len(Heuristic(cs, capacity).kept) <= capacity
         /\ From(Heuristic(cs, capacity).kept, cs, Len(cs))
         /\ Different(cs) => Different(Heuristic(cs, capacity).kept)
         /\ cs # << >> /\ capacity > 0 => Heuristic(cs, capacity).kept # << >>
         /\ Heuristic(cs, capacity).discarded \in Seq(Linked(cs))
<1> DEFINE X == [kept : Seq(C), discarded : Seq(Linked(cs))]
           x == [kept |-> << >>, discarded |-> << >>]
           step == [n \in 1..Len(cs) |-> [s \in X |-> Weighed(s, cs[n], capacity)]]
<1>1. PICK N \in Nat : N = Len(cs) /\ DOMAIN cs = 1..N
  OBVIOUS
<1>2. x \in X
  OBVIOUS
<1>3. ASSUME NEW n \in 1..N, NEW s \in X
      PROVE  /\ Weighed(s, cs[n], capacity) \in X
             /\ \/ Weighed(s, cs[n], capacity).kept = s.kept
                \/ /\ IsAppended(Weighed(s, cs[n], capacity).kept, s.kept, cs[n])
                   /\ Len(s.kept) < capacity
             /\ s.kept = << >> /\ capacity > 0 => Weighed(s, cs[n], capacity).kept # << >>
  <2>1. cs[n] \in C /\ cs[n].id \in Linked(cs)
    <3>1. n \in DOMAIN cs
      BY <1>1
    <3>2. cs[n].id \in Linked(cs)
      BY <3>1 DEF Linked
    <3> QED
      BY <3>1, <3>2
  <2>2. PICK k \in Seq(C), e \in Seq(Linked(cs)) : s = [kept |-> k, discarded |-> e]
    OBVIOUS
  <2>3. Append(k, cs[n]) \in Seq(C) /\ Append(e, cs[n].id) \in Seq(Linked(cs))
    BY <2>1
  <2>4. /\ [s EXCEPT !.discarded = Append(@, cs[n].id)] = [kept |-> k, discarded |-> Append(e, cs[n].id)]
        /\ [s EXCEPT !.kept = Append(@, cs[n])] = [kept |-> Append(k, cs[n]), discarded |-> e]
        /\ s.kept = k
    <3>1. PICK a, b : a = Append(k, cs[n]) /\ b = Append(e, cs[n].id)
      OBVIOUS
    <3>2. s.kept = k /\ s.discarded = e
      BY <2>2
    <3>3. [s EXCEPT !.discarded = b] = [kept |-> k, discarded |-> b]
      BY <2>2
    <3>4. [s EXCEPT !.kept = a] = [kept |-> a, discarded |-> e]
      BY <2>2
    <3> QED
      BY <3>1, <3>2, <3>3, <3>4
  <2>5. k = << >> => DOMAIN k = {} /\ Len(k) = 0
    OBVIOUS
  <2>6. IsAppended(Append(k, cs[n]), k, cs[n])
    BY <2>1, Appended
  <2>7. \/ Weighed(s, cs[n], capacity) = [kept |-> k, discarded |-> Append(e, cs[n].id)] /\ DOMAIN k # {}
        \/ /\ Weighed(s, cs[n], capacity) = [kept |-> Append(k, cs[n]), discarded |-> e]
           /\ Len(k) < capacity
        \/ Weighed(s, cs[n], capacity) = s /\ ~(Len(k) < capacity)
    BY <2>4 DEF Weighed
  <2> QED
    <3>0. PICK a \in Seq(C), b \in Seq(Linked(cs)) : a = Append(k, cs[n]) /\ b = Append(e, cs[n].id)
      BY <2>3
    <3>1. PICK w : w = Weighed(s, cs[n], capacity)
      OBVIOUS
    <3>2. a # << >> /\ IsAppended(a, k, cs[n])
      BY <2>6, <3>0 DEF IsAppended
    <3>3. CASE w = [kept |-> k, discarded |-> b] /\ DOMAIN k # {}
      <4>1. w \in X /\ w.kept = k
        BY <3>3
      <4> QED
        BY <2>4, <2>5, <3>0, <3>1, <3>3, <4>1
    <3>4. CASE w = [kept |-> a, discarded |-> e] /\ Len(k) < capacity
      <4>1. w \in X /\ w.kept = a
        BY <3>4
      <4> QED
        BY <2>4, <3>0, <3>1, <3>2, <3>4, <4>1
    <3>5. CASE w = s /\ ~(Len(k) < capacity)
      BY <2>4, <2>5, <3>1, <3>5
    <3> QED
      BY <2>7, <3>0, <3>1, <3>3, <3>4, <3>5
<1>4. step \in [1..N -> [X -> X]]
  BY <1>1, <1>3
<1>5. PICK f \in [0..N -> X] : Follows(f, N, x, step)
  <2> HIDE DEF X, x, step
  <2> QED
    BY <1>1, <1>2, <1>4, LoopExists
<1>6. \A n \in 1..N : n - 1 \in 0..N /\ f[n] = Weighed(f[n - 1], cs[n], capacity)
  <2> SUFFICES ASSUME NEW n \in 1..N
               PROVE  n - 1 \in 0..N /\ f[n] = Weighed(f[n - 1], cs[n], capacity)
    OBVIOUS
  <2>1. n - 1 \in 0..N
    OBVIOUS
  <2>2. f[n - 1] \in X
    BY <2>1
  <2> QED
    BY <1>1, <1>5, <2>1, <2>2 DEF Follows
<1> DEFINE Solves(g) == g = [n \in 0..N |-> IF n = 0 THEN x ELSE Weighed(g[n - 1], cs[n], capacity)]
<1>7. Solves(f)
  BY <1>5, <1>6 DEF Follows
<1> DEFINE After == CHOOSE g : Solves(g)
<1>8. Solves(After)
  BY <1>7
<1>9. Heuristic(cs, capacity) = After[N]
  BY <1>1 DEF Heuristic
<1> HIDE DEF After
<1>10. After[0] = x /\ \A n \in 1..N : After[n] = Weighed(After[n - 1], cs[n], capacity)
  <2>1. \A n \in 1..N : n \in 0..N /\ n # 0
    OBVIOUS
  <2>2. 0 \in 0..N
    OBVIOUS
  <2> QED
    BY <1>8, <2>1, <2>2
<1> DEFINE Y == [n \in 0..N |-> {s \in X : /\ Len(s.kept) <= capacity
                                           /\ From(s.kept, cs, n)
                                           /\ Different(cs) => Different(s.kept)
                                           /\ n > 0 /\ capacity > 0 => s.kept # << >>}]
<1>11. After[0] \in Y[0]
  BY <1>2, <1>10 DEF From, Different
<1>12. ASSUME NEW n \in 1..N, After[n - 1] \in Y[n - 1] PROVE After[n] \in Y[n]
  <2>1. n - 1 \in 0..N /\ n \in 0..N
    OBVIOUS
  <2>2. PICK s \in X : /\ s = After[n - 1] /\ Len(s.kept) <= capacity /\ From(s.kept, cs, n - 1)
                       /\ Different(cs) => Different(s.kept)
                       /\ n - 1 > 0 /\ capacity > 0 => s.kept # << >>
    BY <1>12, <2>1
  <2>3. PICK t \in X : t = After[n] /\ t = Weighed(s, cs[n], capacity)
    BY <1>3, <1>10, <2>2
  <2>4. \/ t.kept = s.kept
        \/ IsAppended(t.kept, s.kept, cs[n]) /\ Len(s.kept) < capacity
    BY <1>3, <2>3
  <2>5. From(t.kept, cs, n) /\ (Different(cs) => Different(t.kept))
    BY <1>1, <2>2, <2>4, MoreFrom
  <2>6. Len(t.kept) <= capacity
    <3>1. PICK l \in Nat : l = Len(s.kept) /\ l <= capacity
      BY <2>2
    <3>2. \/ t.kept = s.kept
          \/ Len(t.kept) = l + 1 /\ l < capacity
      BY <2>4, <3>1 DEF IsAppended
    <3> QED
      BY <3>1, <3>2
  <2>7. capacity > 0 => t.kept # << >>
    <3>1. s.kept = << >> /\ capacity > 0 => t.kept # << >>
      BY <1>3, <2>3
    <3>2. s.kept # << >> => t.kept # << >>
      BY <2>4 DEF IsAppended
    <3> QED
      BY <3>1, <3>2
  <2> QED
    BY <2>1, <2>3, <2>5, <2>6, <2>7
<1>13. \A n \in 0..N : After[n] \in Y[n]
  <2> HIDE DEF Y
  <2> QED
    BY <1>11, <1>12, LoopKeeps
<1>14. After[N] \in Y[N] /\ N \in 0..N
  BY <1>13
<1>15. cs # << >> => N > 0
  BY <1>1
<1> QED
  BY <1>1, <1>9, <1>14, <1>15

(* Dropping from a list moves one element and forgets one.                  *)
SubList(t, s) ==
  /\ Len(t) <= Len(s)
  /\ \A i \in DOMAIN t : \E j \in DOMAIN s : t[i] = s[j]
  /\ Different(s) => Different(t)
LEMMA DroppedFacts ==
  ASSUME NEW C, NEW s \in Seq(C), NEW n, NEW j \in Nat, j > 0
  PROVE  Dropped(s, n, j) \in Seq(C) /\ SubList(Dropped(s, n, j), s)
<1>1. CASE ~(j <= Len(s) /\ s[j].id = n)
  <2>1. Dropped(s, n, j) = s
    BY <1>1 DEF Dropped
  <2> QED
    BY <2>1 DEF SubList
<1>2. CASE j <= Len(s) /\ s[j].id = n
  <2>1. PICK l \in Nat : l = Len(s) /\ DOMAIN s = 1..l /\ j \in 1..l /\ l > 0
    BY <1>2
  <2>2. PICK u : u = [s EXCEPT ![j] = s[l]]
    OBVIOUS
  <2>3. /\ u \in Seq(C) /\ Len(u) = l /\ u[j] = s[l]
        /\ \A i \in 1..l : i # j => u[i] = s[i]
    <3>1. s[l] \in C /\ s \in [1..l -> C]
      BY <2>1
    <3>2. u \in [1..l -> C]
      BY <2>1, <2>2, <3>1
    <3>3. u \in Seq(C) /\ Len(u) = l
      BY <3>2
    <3> QED
      BY <2>1, <2>2, <3>1, <3>3
  <2>4. PICK t : t = SubSeq(u, 1, l - 1)
    OBVIOUS
  <2>5. /\ t \in Seq(C) /\ Len(t) = l - 1 /\ DOMAIN t = 1..(l - 1)
        /\ \A i \in 1..(l - 1) : t[i] = u[i] /\ i \in 1..l /\ i # l
    BY <2>1, <2>3, <2>4
  <2>6. \A i \in 1..(l - 1) : t[i] = IF i = j THEN s[l] ELSE s[i]
    BY <2>3, <2>5
  <2>7. Dropped(s, n, j) = t
    BY <1>2, <2>1, <2>2, <2>4 DEF Dropped
  <2>8. \A i \in DOMAIN t : \E k \in DOMAIN s : t[i] = s[k]
    <3>1. l \in DOMAIN s
      BY <2>1
    <3> QED
      BY <2>1, <2>5, <2>6, <3>1
  <2>9. ASSUME Different(s) PROVE Different(t)
    <3> SUFFICES ASSUME NEW i \in 1..(l - 1), NEW k \in 1..(l - 1), t[i].id = t[k].id
                 PROVE  i = k
      BY <2>5 DEF Different
    <3>1. /\ i \in DOMAIN s /\ k \in DOMAIN s /\ l \in DOMAIN s
          /\ i # l /\ k # l
      BY <2>1, <2>5
    <3>2. CASE i = j
      <4>1. t[i] = s[l]
        BY <2>6, <3>2
      <4>2. k # j => t[k] = s[k]
        BY <2>6
      <4> QED
        BY <2>9, <3>1, <3>2, <4>1, <4>2 DEF Different
    <3>3. CASE i # j
      <4>1. t[i] = s[i] /\ t[k] = IF k = j THEN s[l] ELSE s[k]
        BY <2>6, <3>3
      <4> QED
        BY <2>9, <3>1, <4>1 DEF Different
    <3> QED
      BY <3>2, <3>3
  <2> QED
    BY <2>1, <2>5, <2>7, <2>8, <2>9 DEF SubList
<1> QED
  BY <1>1, <1>2

LEMMA SubListOf ==
  ASSUME NEW s, NEW t, NEW u, SubList(t, s), SubList(u, t),
         Len(s) \in Nat, Len(t) \in Nat, Len(u) \in Nat
  PROVE  SubList(u, s)
<1>1. Len(u) <= Len(s)
  BY DEF SubList
<1>2. ASSUME NEW i \in DOMAIN u PROVE \E j \in DOMAIN s : u[i] = s[j]
  <2>1. PICK k \in DOMAIN t : u[i] = t[k]
    BY DEF SubList
  <2>2. PICK j \in DOMAIN s : t[k] = s[j]
    BY DEF SubList
  <2> QED
    BY <2>1, <2>2
<1>3. Different(s) => Different(u)
  BY DEF SubList
<1> QED
  BY <1>1, <1>2, <1>3 DEF SubList

(* So does the loop that drops every place of a node.                       *)
LEMMA WithoutFacts ==
  ASSUME NEW C, NEW list \in Seq(C), NEW n
  PROVE  Without(list, n) \in Seq(C) /\ SubList(Without(list, n), list)
<1> DEFINE X == Seq(C)
           step == [j \in 1..Len(list) |-> [s \in X |-> Dropped(s, n, j)]]
<1>1. PICK N \in Nat : N = Len(list)
  OBVIOUS
<1>2. ASSUME NEW j \in 1..N, NEW s \in X
      PROVE  Dropped(s, n, j) \in X /\ SubList(Dropped(s, n, j), s)
  BY DroppedFacts
<1>3. step \in [1..N -> [X -> X]]
  BY <1>1, <1>2
<1>4. PICK f \in [0..N -> X] : Follows(f, N, list, step)
  <2> HIDE DEF X, step
  <2>1. list \in X
    BY DEF X
  <2> QED
    BY <1>1, <1>3, <2>1, LoopExists
<1>5. \A j \in 1..N : f[j] = Dropped(f[j - 1], n, j)
  <2> SUFFICES ASSUME NEW j \in 1..N PROVE f[j] = Dropped(f[j - 1], n, j)
    OBVIOUS
  <2>1. j - 1 \in 0..N
    OBVIOUS
  <2>2. f[j - 1] \in X
    BY <2>1
  <2> QED
    BY <1>1, <1>4, <2>2 DEF Follows
<1> DEFINE Solves(g) == g = [j \in 0..N |-> IF j = 0 THEN list ELSE Dropped(g[j - 1], n, j)]
<1>6. Solves(f)
  BY <1>4, <1>5 DEF Follows
<1> DEFINE After == CHOOSE g : Solves(g)
<1>7. Solves(After)
  BY <1>6
<1>8. Without(list, n) = After[N]
  BY <1>1 DEF Without
<1> HIDE DEF After
<1>9. After[0] = list /\ \A j \in 1..N : After[j] = Dropped(After[j - 1], n, j)
  <2>1. (\A j \in 1..N : j \in 0..N /\ j # 0) /\ 0 \in 0..N
    OBVIOUS
  <2> QED
    BY <1>7, <2>1
<1> DEFINE Y == [j \in 0..N |-> {s \in X : SubList(s, list)}]
<1>10. After[0] \in Y[0]
  BY <1>9 DEF SubList
<1>11. ASSUME NEW j \in 1..N, After[j - 1] \in Y[j - 1] PROVE After[j] \in Y[j]
  <2>1. j - 1 \in 0..N /\ j \in 0..N
    OBVIOUS
  <2>2. PICK s \in X : s = After[j - 1] /\ SubList(s, list)
    BY <1>11, <2>1
  <2>3. PICK t \in X : t = After[j] /\ SubList(t, s)
    BY <1>2, <1>9, <2>2
  <2>4. Len(s) \in Nat /\ Len(t) \in Nat /\ Len(list) \in Nat
    OBVIOUS
  <2>5. SubList(t, list)
    BY <2>2, <2>3, <2>4, SubListOf
  <2> QED
    BY <2>1, <2>3, <2>5
<1>12. \A j \in 0..N : After[j] \in Y[j]
  <2> HIDE DEF Y
  <2> QED
    BY <1>10, <1>11, LoopKeeps
<1>13. After[N] \in Y[N] /\ N \in 0..N
  BY <1>12
<1> QED
  BY <1>8, <1>13

(* The elements linked back are elements of the list, each once.            *)
Taken(list, new, s, i) == IF list[i].id \in Linked(new) THEN Append(s, list[i]) ELSE s
LEMMA NewlyAddedFacts ==
  ASSUME NEW C, NEW list \in Seq(C), NEW new
  PROVE  /\ NewlyAdded(list, new) \in Seq(C)
         /\ From(NewlyAdded(list, new), list, Len(list))
         /\ Different(list) => Different(NewlyAdded(list, new))
<1> DEFINE X == Seq(C)
           x == << >>
           step == [i \in 1..Len(list) |-> [s \in X |-> Taken(list, new, s, i)]]
<1>1. PICK N \in Nat : N = Len(list) /\ DOMAIN list = 1..N
  OBVIOUS
<1>2. ASSUME NEW i \in 1..N, NEW s \in X
      PROVE  /\ Taken(list, new, s, i) \in X
             /\ Taken(list, new, s, i) = s \/ IsAppended(Taken(list, new, s, i), s, list[i])
  <2>1. list[i] \in C
    BY <1>1
  <2>2. Append(s, list[i]) \in X /\ IsAppended(Append(s, list[i]), s, list[i])
    BY <2>1, Appended
  <2> QED
    BY <2>2 DEF Taken
<1>3. step \in [1..N -> [X -> X]] /\ x \in X
  BY <1>1, <1>2
<1>4. PICK f \in [0..N -> X] : Follows(f, N, x, step)
  <2> HIDE DEF X, step, x
  <2> QED
    BY <1>1, <1>3, LoopExists
<1>5. \A i \in 1..N : f[i] = Taken(list, new, f[i - 1], i)
  <2> SUFFICES ASSUME NEW i \in 1..N PROVE f[i] = Taken(list, new, f[i - 1], i)
    OBVIOUS
  <2>1. i - 1 \in 0..N
    OBVIOUS
  <2>2. f[i - 1] \in X
    BY <2>1
  <2> QED
    BY <1>1, <1>4, <2>2 DEF Follows
<1> DEFINE Solves(g) == g = [i \in 0..N |-> IF i = 0 THEN << >>
                                           ELSE IF list[i].id \in Linked(new)
                                           THEN Append(g[i - 1], list[i]) ELSE g[i - 1]]
<1>6. Solves(f)
  <2>1. f[0] = << >>
    BY <1>4 DEF Follows
  <2>2. \A i \in 1..N : f[i] = IF list[i].id \in Linked(new)
                                 THEN Append(f[i - 1], list[i]) ELSE f[i - 1]
    BY <1>5 DEF Taken
  <2> DEFINE Value(i) == IF i = 0 THEN << >>
                         ELSE IF list[i].id \in Linked(new)
                         THEN Append(f[i - 1], list[i]) ELSE f[i - 1]
  <2>3. \A i \in 0..N : i = 0 \/ i \in 1..N
    OBVIOUS
  <2>4. \A i \in 0..N : f[i] = Value(i)
    BY <2>1, <2>2, <2>3
  <2>5. f = [i \in 0..N |-> f[i]]
    OBVIOUS
  <2>6. f = [i \in 0..N |-> Value(i)]
    <3> HIDE DEF Value
    <3> QED
      BY <2>4, <2>5
  <2> QED
    BY <2>6, Zenon
<1> DEFINE After == CHOOSE g : Solves(g)
<1>7. Solves(After)
  BY <1>6
<1>8. NewlyAdded(list, new) = After[N]
  BY <1>1 DEF NewlyAdded
<1> HIDE DEF After
<1>9. After[0] = << >> /\ \A i \in 1..N : After[i] = Taken(list, new, After[i - 1], i)
  <2>1. (\A i \in 1..N : i \in 0..N /\ i # 0) /\ 0 \in 0..N
    OBVIOUS
  <2> QED
    BY <1>7, <2>1 DEF Taken
<1> DEFINE Y == [i \in 0..N |-> {s \in X : From(s, list, i) /\ (Different(list) => Different(s))}]
<1>10. After[0] \in Y[0]
  BY <1>9 DEF From, Different
<1>11. ASSUME NEW n \in 1..N, After[n - 1] \in Y[n - 1] PROVE After[n] \in Y[n]
  <2>1. n - 1 \in 0..N /\ n \in 0..N
    OBVIOUS
  <2>2. PICK s \in X : s = After[n - 1] /\ From(s, list, n - 1) /\ (Different(list) => Different(s))
    BY <1>11, <2>1
  <2>3. PICK t \in X : t = After[n] /\ (t = s \/ IsAppended(t, s, list[n]))
    BY <1>2, <1>9, <2>2
  <2>4. From(t, list, n) /\ (Different(list) => Different(t))
    BY <1>1, <2>2, <2>3, MoreFrom
  <2> QED
    BY <2>1, <2>3, <2>4
<1>12. \A i \in 0..N : After[i] \in Y[i]
  <2> HIDE DEF Y
  <2> QED
    BY <1>10, <1>11, LoopKeeps
<1>13. After[N] \in Y[N] /\ N \in 0..N
  BY <1>12
<1> QED
  BY <1>1, <1>8, <1>13

(* The heaps of a search among nodes of T.                                  *)
Heaps(T) ==
  {s \in [cand : SUBSET T, res : SUBSET T, seen : SUBSET T] : s.cand \cup s.res \subseteq s.seen}
HasRoom(T) == Cardinality(T) <= call.ef /\ Cardinality(T) <= HeapSize

(* One neighbour is met: it is seen, and where there is room for all nodes  *)
(* and none was left out before, it is a result and, if it is new, a        *)
(* candidate.                                                               *)
MetOne(T, s, n, t) ==
  /\ t \in Heaps(T) /\ t.seen = s.seen \cup {n}
  /\ s.res # {} => t.res # {}
  /\ HasRoom(T) /\ s.res = s.seen =>
       t.res = t.seen /\ t.cand = s.cand \cup ({n} \ s.seen)
LEMMA ConsiderFacts ==
  ASSUME NEW T \in SUBSET Ids, NEW s \in Heaps(T), NEW n \in T, call.ef \in Nat \ {0}
  PROVE  MetOne(T, s, n, Consider(s, n))
<1>1. PICK cand \in SUBSET T, res \in SUBSET T, seen \in SUBSET T :
        s = [cand |-> cand, res |-> res, seen |-> seen] /\ cand \cup res \subseteq seen
  BY DEF Heaps
<1>2. s.cand = cand /\ s.res = res /\ s.seen = seen
  BY <1>1
<1>3. CASE n \in seen
  <2>1. Consider(s, n) = s
    BY <1>2, <1>3 DEF Consider
  <2> QED
    BY <1>2, <1>3, <2>1 DEF MetOne
<1>4. CASE n \notin seen
  <2> DEFINE full == Cardinality(res) >= call.ef
  <2>1. PICK more, best, less :
          /\ more = Push(cand, n) /\ less = IF full THEN res \ {Furthest(res)} ELSE res
          /\ best = Push(less, n)
    OBVIOUS
  <2>2. /\ [s EXCEPT !.seen = @ \cup {n}] = [cand |-> cand, res |-> res, seen |-> seen \cup {n}]
        /\ [[s EXCEPT !.seen = @ \cup {n}] EXCEPT !.cand = more, !.res = best]
             = [cand |-> more, res |-> best, seen |-> seen \cup {n}]
    <3>1. PICK w : w = seen \cup {n}
      OBVIOUS
    <3>2. [s EXCEPT !.seen = w] = [cand |-> cand, res |-> res, seen |-> w]
      BY <1>1
    <3>3. PICK u : u = [cand |-> cand, res |-> res, seen |-> w]
      OBVIOUS
    <3>4. PICK v : v = [cand |-> more, res |-> res, seen |-> w]
      OBVIOUS
    <3>5. [u EXCEPT !.cand = more] = v
      BY <3>3, <3>4
    <3>6. [v EXCEPT !.res = best] = [cand |-> more, res |-> best, seen |-> w]
      BY <3>4
    <3> QED
      BY <1>2, <3>1, <3>2, <3>3, <3>5, <3>6
  <2>3. \/ /\ Consider(s, n) = [cand |-> cand, res |-> res, seen |-> seen \cup {n}]
           /\ full
        \/ Consider(s, n) = [cand |-> more, res |-> best, seen |-> seen \cup {n}]
    BY <1>1, <1>2, <1>4, <2>1, <2>2 DEF Consider
  <2>4. more \in {cand, cand \cup {n}} /\ best \in {less, less \cup {n}} /\ less \subseteq res
    BY <2>1 DEF Push
  <2>5. PICK t : t = Consider(s, n)
    OBVIOUS
  <2>6. t.seen = seen \cup {n} /\ t.cand \in {cand, more} /\ t.res \in {res, best}
    BY <2>3, <2>5
  <2>7. t \in Heaps(T)
    <3>1. more \in SUBSET T /\ best \in SUBSET T /\ seen \cup {n} \in SUBSET T
      BY <2>4
    <3>2. more \cup best \subseteq seen \cup {n} /\ cand \cup res \subseteq seen \cup {n}
      BY <1>1, <2>4
    <3>3. t.cand \cup t.res \subseteq t.seen
      BY <1>1, <2>4, <2>6
    <3>4. t \in [cand : SUBSET T, res : SUBSET T, seen : SUBSET T]
      BY <2>3, <2>5, <3>1
    <3> QED
      BY <3>3, <3>4 DEF Heaps
  <2>8. IsFiniteSet(T) /\ Cardinality(T) \in Nat /\ HeapSize \in Nat \ {0}
    BY SomeIdsFinite, GraphAssumption
  <2>9. res # {} => t.res # {}
    <3> SUFFICES ASSUME res # {} PROVE t.res # {}
      OBVIOUS
    <3>1. less = {} => best = {n}
      <4>1. Cardinality({}) < HeapSize
        BY <2>8, FS_EmptySet
      <4> QED
        BY <2>1, <4>1 DEF Push
    <3>2. best # {}
      BY <2>4, <3>1
    <3> QED
      BY <2>6, <3>2
  <2>10. ASSUME HasRoom(T), res = seen
         PROVE  t.res = t.seen /\ t.cand = cand \cup ({n} \ seen)
    <3>1. ASSUME NEW S \in SUBSET seen PROVE Cardinality(S) < Cardinality(T) /\ Cardinality(S) \in Nat
      <4>1. S \in SUBSET (T \ {n}) /\ S \in SUBSET Ids
        BY <1>4
      <4>2. IsFiniteSet(T \ {n}) /\ Cardinality(T \ {n}) = Cardinality(T) - 1
        BY <2>8, FS_RemoveElement
      <4>3. Cardinality(S) <= Cardinality(T \ {n})
        BY <4>1, <4>2, FS_Subset
      <4>4. Cardinality(S) \in Nat
        BY <4>1, SomeIdsFinite
      <4> QED
        BY <2>8, <4>2, <4>3, <4>4
    <3>2. cand \in SUBSET seen /\ res \in SUBSET seen
      BY <1>1
    <3>3. /\ Cardinality(cand) < HeapSize /\ Cardinality(res) < HeapSize
          /\ ~(Cardinality(res) >= call.ef)
      BY <2>8, <2>10, <3>1, <3>2 DEF HasRoom
    <3>4. less = res /\ more = cand \cup {n} /\ best = res \cup {n} /\ ~full
      BY <2>1, <3>3 DEF Push
    <3>5. t = [cand |-> more, res |-> best, seen |-> seen \cup {n}]
      BY <2>3, <2>5, <3>4
    <3> QED
      BY <1>4, <2>10, <3>4, <3>5
  <2> QED
    BY <1>2, <2>5, <2>6, <2>7, <2>9, <2>10 DEF MetOne
<1> QED
  BY <1>3, <1>4

(* An expansion meets every neighbour of the candidate.                     *)
IsExpanded(T, c, list, t) ==
  /\ t \in Heaps(T)
  /\ search.res # {} => t.res # {}
  /\ t.seen = search.seen \cup Linked(list)
  /\ HasRoom(T) /\ search.res = search.seen =>
       t.res = t.seen /\ t.cand = (search.cand \ {c}) \cup (Linked(list) \ search.seen)
Passed(list, i) == {list[j].id : j \in 1..i}
LEMMA ExpandedFacts ==
  ASSUME NEW T \in SUBSET Ids, search \in Heaps(T), NEW c, NEW C, NEW list \in Seq(C),
         list = Neighbors(c, layer), Linked(list) \subseteq T, call.ef \in Nat \ {0}
  PROVE  IsExpanded(T, c, list, Expanded(c))
<1> DEFINE X == Heaps(T)
           x == [search EXCEPT !.cand = @ \ {c}]
           step == [i \in 1..Len(list) |-> [s \in X |-> Consider(s, list[i].id)]]
<1>1. PICK N \in Nat : N = Len(list) /\ DOMAIN list = 1..N
  OBVIOUS
<1>2. x \in X /\ x.cand = search.cand \ {c} /\ x.res = search.res /\ x.seen = search.seen
  <2>1. PICK w : w = search.cand \ {c}
    OBVIOUS
  <2>2. [search EXCEPT !.cand = w] = [cand |-> w, res |-> search.res, seen |-> search.seen]
    BY DEF Heaps
  <2>3. x = [cand |-> w, res |-> search.res, seen |-> search.seen]
    BY <2>1, <2>2
  <2>4. /\ w \in SUBSET T /\ search.res \in SUBSET T /\ search.seen \in SUBSET T
        /\ w \cup search.res \subseteq search.seen
    BY <2>1 DEF Heaps
  <2> QED
    BY <2>1, <2>3, <2>4 DEF Heaps
<1>3. \A i \in 1..N : list[i].id \in T
  BY <1>1 DEF Linked
<1>4. ASSUME NEW i \in 1..N, NEW s \in X
      PROVE  MetOne(T, s, list[i].id, Consider(s, list[i].id))
  BY <1>3, ConsiderFacts
<1>5. step \in [1..N -> [X -> X]]
  BY <1>1, <1>4 DEF MetOne
<1>6. PICK f \in [0..N -> X] : Follows(f, N, x, step)
  <2> HIDE DEF X, x, step
  <2> QED
    BY <1>1, <1>2, <1>5, LoopExists
<1>7. \A i \in 1..N : f[i] = Consider(f[i - 1], list[i].id)
  <2> SUFFICES ASSUME NEW i \in 1..N PROVE f[i] = Consider(f[i - 1], list[i].id)
    OBVIOUS
  <2>1. i - 1 \in 0..N
    OBVIOUS
  <2>2. f[i - 1] \in X
    BY <2>1
  <2> HIDE DEF X, x
  <2> QED
    BY <1>1, <1>6, <2>2 DEF Follows
<1> DEFINE Solves(g) == g = [i \in 0..N |-> IF i = 0 THEN x ELSE Consider(g[i - 1], list[i].id)]
<1>8. Solves(f)
  <2> HIDE DEF X, x
  <2> QED
    BY <1>6, <1>7 DEF Follows
<1> DEFINE After == CHOOSE g : Solves(g)
<1>9. Solves(After)
  BY <1>8
<1>10. Expanded(c) = After[N]
  BY <1>1 DEF Expanded
<1> HIDE DEF After
<1>11. After[0] = x /\ \A i \in 1..N : After[i] = Consider(After[i - 1], list[i].id)
  <2>1. (\A i \in 1..N : i \in 0..N /\ i # 0) /\ 0 \in 0..N
    OBVIOUS
  <2> HIDE DEF x
  <2> QED
    BY <1>9, <2>1
<1> HIDE DEF x
<1> DEFINE Whole == HasRoom(T) /\ search.res = search.seen
           Y == [i \in 0..N |->
             {s \in X : /\ search.res # {} => s.res # {}
                        /\ s.seen = search.seen \cup Passed(list, i)
                        /\ Whole => /\ s.res = s.seen
                                    /\ s.cand = (search.cand \ {c}) \cup (Passed(list, i) \ search.seen)}]
<1>12. After[0] \in Y[0]
  <2>1. Passed(list, 0) = {} /\ 0 \in 0..N
    BY DEF Passed
  <2> QED
    BY <1>2, <1>11, <2>1
<1>13. ASSUME NEW n \in 1..N, After[n - 1] \in Y[n - 1] PROVE After[n] \in Y[n]
  <2>1. n - 1 \in 0..N /\ n \in 0..N
    OBVIOUS
  <2>2. Passed(list, n) = Passed(list, n - 1) \cup {list[n].id}
    <3>1. \A j \in 1..n : j \in 1..(n - 1) \/ j = n
      OBVIOUS
    <3>2. (\A j \in 1..(n - 1) : j \in 1..n) /\ n \in 1..n
      OBVIOUS
    <3> QED
      BY <3>1, <3>2 DEF Passed
  <2>3. PICK P : P = Passed(list, n - 1)
    OBVIOUS
  <2>4. PICK s \in X :
          /\ s = After[n - 1] /\ (search.res # {} => s.res # {}) /\ s.seen = search.seen \cup P
          /\ Whole => s.res = s.seen /\ s.cand = (search.cand \ {c}) \cup (P \ search.seen)
    <3> HIDE DEF X, Whole
    <3> QED
      BY <1>13, <2>1, <2>3
  <2>5. PICK t : t = After[n] /\ MetOne(T, s, list[n].id, t)
    BY <1>4, <1>11, <2>4
  <2>6. /\ t \in X /\ t.seen = s.seen \cup {list[n].id} /\ (s.res # {} => t.res # {})
        /\ Whole => t.res = t.seen /\ t.cand = s.cand \cup ({list[n].id} \ s.seen)
    BY <2>4, <2>5 DEF MetOne
  <2> HIDE DEF X, Whole
  <2>7. search.res # {} => t.res # {}
    BY <2>4, <2>6
  <2>8. t.seen = search.seen \cup Passed(list, n)
    BY <2>2, <2>3, <2>4, <2>6
  <2>9. Whole => /\ t.res = t.seen
                 /\ t.cand = (search.cand \ {c}) \cup (Passed(list, n) \ search.seen)
    BY <2>2, <2>3, <2>4, <2>6
  <2> QED
    BY <2>1, <2>5, <2>6, <2>7, <2>8, <2>9
<1>14. \A i \in 0..N : After[i] \in Y[i]
  <2> HIDE DEF Y
  <2> QED
    BY <1>1, <1>12, <1>13, LoopKeeps
<1>15. After[N] \in Y[N] /\ N \in 0..N
  BY <1>14
<1>16. Passed(list, N) = Linked(list)
  BY <1>1 DEF Passed, Linked
<1> QED
  BY <1>10, <1>15, <1>16 DEF IsExpanded

-----------------------------------------------------------------------------
(* What a call relies on: the nodes that lists and heaps lead to are        *)
(* written and have vectors of their own, also the last one, which a death  *)
(* may have left uncounted; lists and chunks have their room.               *)
Places == {n \in Ids : n <= count}
Written == {n \in Places : vector[n] # Zero}
Met == IF count = 0 THEN {0} ELSE Written
Entries == [id : Written, d : Int]

VectorInv ==
  /\ vector \in [Ids -> Points]
  /\ \A n \in Ids : n > count => vector[n] = Zero
  /\ \A n \in Nodes : vector[n] # Zero
  /\ \A n, o \in Written : vector[n] = vector[o] => n = o
  /\ pc = "node" => IsNew(call.q)
  /\ call.op = "put" /\ pc # "node" => vector[count] = call.q
  /\ call.op # "none" => call.q \in Vectors

BoundInv ==
  /\ topLayer \in Levels \cup {0} /\ row \in 0..MaxPuts /\ crashes \in 0..MaxCrashes
  /\ call.op = "put" => call.level \in Levels /\ row < MaxPuts
  /\ pc = "row" => row < MaxPuts
  /\ call.op # "none" => call.level \in Nat /\ call.ef \in Nat \ {0}
  /\ call.op = "search" => call.level = 0 /\ call.k \in Nat

ChunksInside == \A n \in Ids : Chunks(n) \subseteq 0..(nextChunk - 1)

RoomInv ==
  /\ DOMAIN l0 = Ids
  /\ \A n \in Ids : l0[n] \in Seq(Entries) /\ Len(l0[n]) <= MMax0
  /\ DOMAIN upper = 0..(ArenaChunks - 1)
  /\ \A c \in DOMAIN upper : upper[c] \in Seq(Entries) /\ Len(upper[c]) <= M

WalkInv ==
  /\ cur \in Met /\ entry \in Met /\ layer \in Nat
  /\ search \in Heaps(Met)
  /\ pc = "expand" => search.res # {}
  /\ pc \in {"expand", "link"} => layer <= call.level
  /\ links.drops \in Seq(Written) /\ links.backs \in Seq(Entries)

FitInv == IInv /\ VectorInv /\ BoundInv /\ ChunksInside /\ RoomInv /\ WalkInv

LEMMA SeqMore ==
  ASSUME NEW A, NEW B, A \subseteq B
  PROVE  Seq(A) \subseteq Seq(B)
<1> SUFFICES ASSUME NEW s \in Seq(A) PROVE s \in Seq(B)
  OBVIOUS
<1>1. s \in [1..Len(s) -> A] /\ Len(s) \in Nat
  OBVIOUS
<1>2. s \in [1..Len(s) -> B]
  BY <1>1
<1> QED
  BY <1>1, <1>2

LEMMA MetFacts ==
  ASSUME IInv, VectorInv
  PROVE  /\ Written \subseteq Met /\ Met \subseteq Ids /\ Written \subseteq Ids /\ 0 \in Met
         /\ call.op = "put" /\ pc # "node" => count \in Written /\ Met = Written
         /\ \A n \in Written : vector[n] \in Vectors
<1>1. count \in 0..Capacity /\ Capacity \in Nat \ {0} /\ 0 \in Ids
  BY CapacityPositive DEF IInv, Header, Ids
<1>2. Written \subseteq Ids
  BY DEF Written, Places
<1>3. count = 0 => Written \subseteq {0}
  BY <1>1 DEF Written, Places, Ids
<1>4. count # 0 => 0 \in Written
  <2>1. count # 0 => 0 \in Nodes /\ 0 <= count
    BY <1>1 DEF Nodes
  <2> QED
    BY <1>1, <2>1 DEF VectorInv, Written, Places
<1>5. ASSUME call.op = "put", pc # "node" PROVE count \in Written
  <2>1. count \in Ids /\ count <= count
    BY <1>1, <1>5 DEF IInv, Putting, Ids
  <2>2. vector[count] \in Vectors
    BY <1>5 DEF VectorInv
  <2> QED
    BY <2>1, <2>2, NoTies DEF Written, Places
<1>6. \A n \in Written : vector[n] \in Vectors
  BY DEF VectorInv, Written, Places, Points
<1> QED
  BY <1>1, <1>2, <1>3, <1>4, <1>5, <1>6 DEF Met

(* Distances tell the nodes met apart.                                      *)
LEMMA Distances ==
  ASSUME IInv, VectorInv, call.op # "none"
  PROVE  /\ \A n \in Ids : D(n) \in Int
         /\ \A n, o \in Met : D(n) = D(o) => n = o
<1>1. call.q \in Vectors /\ vector \in [Ids -> Points] /\ call.q \in Points
  BY DEF VectorInv, Points
<1>2. \A n \in Ids : D(n) \in Int
  <2> SUFFICES ASSUME NEW n \in Ids PROVE Dist[call.q, vector[n]] \in Int
    BY DEF D
  <2>1. <<call.q, vector[n]>> \in Points \X Points
    BY <1>1
  <2> QED
    BY <2>1, NoTies
<1>3. ASSUME NEW n \in Written, NEW o \in Written, D(n) = D(o) PROVE n = o
  <2>1. vector[n] \in Vectors /\ vector[o] \in Vectors
    BY MetFacts
  <2>2. PICK q \in Vectors, v \in Vectors, w \in Vectors :
          q = call.q /\ v = vector[n] /\ w = vector[o]
    BY <1>1, <2>1
  <2>3. Dist[q, v] = Dist[q, w]
    BY <1>3, <2>2 DEF D
  <2>4. v = w
    BY <2>3, NoTies
  <2> QED
    BY <2>2, <2>4 DEF VectorInv
<1> QED
  BY <1>2, <1>3 DEF Met

LEMMA NearestFacts ==
  ASSUME IInv, VectorInv, call.op # "none", NEW S \in SUBSET Ids, S # {}
  PROVE  Nearest(S) \in S /\ \A o \in S : D(Nearest(S)) <= D(o)
<1> DEFINE d == [n \in S |-> D(n)]
<1>1. d \in [S -> Int]
  BY Distances
<1>2. \E n \in S : \A o \in S : d[n] <= d[o]
  <2> HIDE DEF d
  <2> QED
    BY <1>1, NearestExists
<1>3. \E n \in S : \A o \in S : D(n) <= D(o)
  BY <1>2
<1> QED
  BY <1>3 DEF Nearest

LEMMA FurthestFacts ==
  ASSUME IInv, VectorInv, call.op # "none", NEW S \in SUBSET Ids, S # {}
  PROVE  Furthest(S) \in S /\ \A o \in S : D(Furthest(S)) >= D(o)
<1>1. \A n \in S : D(n) \in Int
  BY Distances
<1> DEFINE d == [n \in S |-> 0 - D(n)]
<1>2. d \in [S -> Int]
  BY <1>1
<1>3. \E n \in S : \A o \in S : d[n] <= d[o]
  <2> HIDE DEF d
  <2> QED
    BY <1>2, NearestExists
<1>4. PICK n \in S : \A o \in S : 0 - D(n) <= 0 - D(o)
  BY <1>3
<1>5. \A o \in S : D(n) >= D(o)
  <2> SUFFICES ASSUME NEW o \in S PROVE D(n) >= D(o)
    OBVIOUS
  <2>1. 0 - D(n) <= 0 - D(o) /\ D(n) \in Int /\ D(o) \in Int
    BY <1>1, <1>4
  <2> QED
    BY <2>1
<1> QED
  BY <1>5 DEF Furthest

(* The lists of a node, whichever layer is asked for.                       *)
LEMMA NeighborsFacts ==
  ASSUME FitInv, NEW n \in Ids, NEW l \in Nat
  PROVE  /\ Neighbors(n, l) \in Seq(Entries) /\ Len(Neighbors(n, l)) <= ListSize(l)
         /\ Linked(Neighbors(n, l)) \subseteq Written
<1>1. node \in [Ids -> [level : Nat, chunk : Nat]] /\ nextChunk \in 0..ArenaChunks
  BY DEF FitInv, IInv, Header
<1>2. Neighbors(n, l) \in Seq(Entries) /\ Len(Neighbors(n, l)) <= ListSize(l)
  <2>1. CASE l > node[n].level
    <3>1. Len(<< >>) = 0 /\ << >> \in Seq(Entries)
      OBVIOUS
    <3> QED
      BY <2>1, <3>1, GraphAssumption DEF Neighbors, ListSize
  <2>2. CASE ~(l > node[n].level) /\ l = 0
    BY <2>2 DEF Neighbors, ListSize, FitInv, RoomInv
  <2>3. CASE ~(l > node[n].level) /\ l # 0
    <3>1. PICK level \in Nat, chunk \in Nat : level = node[n].level /\ chunk = node[n].chunk
      BY <1>1
    <3>2. chunk + l - 1 \in Chunks(n)
      BY <2>3, <3>1 DEF Chunks
    <3>3. chunk + l - 1 \in DOMAIN upper
      BY <1>1, <3>2, GraphAssumption DEF FitInv, ChunksInside, RoomInv
    <3>4. Neighbors(n, l) = upper[chunk + l - 1] /\ ListSize(l) = M
      BY <2>3, <3>1 DEF Neighbors, ListSize
    <3> QED
      BY <3>3, <3>4 DEF FitInv, RoomInv
  <2> QED
    BY <2>1, <2>2, <2>3
<1>3. ASSUME NEW s \in Seq(Entries) PROVE Linked(s) \subseteq Written
  <2>1. \A i \in DOMAIN s : s[i] \in Entries
    OBVIOUS
  <2>2. \A i \in DOMAIN s : s[i].id \in Written
    BY <2>1 DEF Entries
  <2> QED
    BY <2>2 DEF Linked
<1> QED
  BY <1>2, <1>3

(* The result heap sorted: every result once, nearest first.                *)
LEMMA SortedFacts ==
  ASSUME NEW S \in SUBSET Ids, search.res = S,
         \A n \in S : D(n) \in Int, \A n, o \in S : D(n) = D(o) => n = o
  PROVE  /\ Sorted \in Seq([id : S, d : Int]) /\ Len(Sorted) = Cardinality(S)
         /\ S # {} => Sorted # << >>
         /\ \A i \in 1..Cardinality(S) :
              /\ Sorted[i].id \in S /\ Sorted[i].d = D(Sorted[i].id)
              /\ Cardinality({o \in S : D(o) < D(Sorted[i].id)}) = i - 1
         /\ Different(Sorted) /\ Linked(Sorted) = S
<1> DEFINE d == [n \in S |-> D(n)]
           Rank(n) == Cardinality({o \in S : D(o) < D(n)})
           At(i) == CHOOSE n \in S : Rank(n) = i - 1
<1>1. d \in [S -> Int] /\ \A n, o \in S : d[n] = d[o] => n = o
  OBVIOUS
<1>2. \A n \in S : Below(S, d, n) = {o \in S : D(o) < D(n)}
  BY DEF Below
<1>3. /\ \A n \in S : Cardinality(Below(S, d, n)) \in 0..(Cardinality(S) - 1)
      /\ \A i \in 1..Cardinality(S) : \E n \in S : Cardinality(Below(S, d, n)) = i - 1
      /\ \A n, o \in S : Cardinality(Below(S, d, n)) = Cardinality(Below(S, d, o)) => n = o
  <2> HIDE DEF d
  <2> QED
    BY <1>1, Ranks
<1>4. /\ \A n \in S : Rank(n) \in 0..(Cardinality(S) - 1)
      /\ \A i \in 1..Cardinality(S) : \E n \in S : Rank(n) = i - 1
      /\ \A n, o \in S : Rank(n) = Rank(o) => n = o
  <2>1. \A n \in S : Rank(n) = Cardinality(Below(S, d, n))
    BY <1>2
  <2> HIDE DEF Rank, d
  <2> QED
    BY <1>3, <2>1
<1>5. PICK N \in Nat : N = Cardinality(S)
  BY SomeIdsFinite
<1>6. Sorted = [i \in 1..N |-> [id |-> At(i), d |-> D(At(i))]]
  BY <1>5 DEF Sorted
<1> HIDE DEF Rank
<1>7. \A i \in 1..N : At(i) \in S /\ Rank(At(i)) = i - 1
  BY <1>4, <1>5
<1> HIDE DEF At
<1>8. \A i \in 1..N : D(At(i)) \in Int /\ [id |-> At(i), d |-> D(At(i))] \in [id : S, d : Int]
  BY <1>7
<1>9. Sorted \in Seq([id : S, d : Int]) /\ Len(Sorted) = N /\ DOMAIN Sorted = 1..N
  BY <1>6, <1>8
<1>10. \A i \in 1..N : Sorted[i].id = At(i) /\ Sorted[i].d = D(At(i))
  BY <1>6
<1>11. S # {} => Sorted # << >>
  <2> SUFFICES ASSUME S # {} PROVE N # 0
    BY <1>9
  <2>1. PICK n \in S : TRUE
    OBVIOUS
  <2>2. Rank(n) \in 0..(N - 1)
    BY <1>4, <1>5
  <2> QED
    BY <1>5, <2>2
<1>12. Different(Sorted)
  <2> SUFFICES ASSUME NEW i \in 1..N, NEW j \in 1..N, At(i) = At(j) PROVE i = j
    BY <1>9, <1>10 DEF Different
  <2>1. i - 1 = j - 1
    BY <1>7
  <2> QED
    BY <2>1
<1>13. Linked(Sorted) = S
  <2>1. ASSUME NEW n \in S PROVE \E i \in 1..N : At(i) = n
    <3>1. PICK r \in 0..(N - 1) : r = Rank(n)
      BY <1>4, <1>5
    <3>2. r + 1 \in 1..N /\ (r + 1) - 1 = r
      BY <1>5
    <3>3. At(r + 1) \in S /\ Rank(At(r + 1)) = Rank(n)
      BY <1>7, <3>1, <3>2
    <3> QED
      BY <1>4, <3>2, <3>3
  <2>2. \A i \in 1..N : Sorted[i].id \in S
    BY <1>7, <1>10
  <2>3. \A n \in S : \E i \in 1..N : Sorted[i].id = n
    BY <1>10, <2>1
  <2>4. Linked(Sorted) = {Sorted[i].id : i \in 1..N}
    BY <1>9 DEF Linked
  <2> QED
    BY <2>2, <2>3, <2>4
<1>14. \A i \in 1..N : /\ Sorted[i].id \in S /\ Sorted[i].d = D(Sorted[i].id)
                        /\ Rank(Sorted[i].id) = i - 1
  BY <1>7, <1>10
<1>15. \A i \in 1..N : Cardinality({o \in S : D(o) < D(Sorted[i].id)}) = i - 1
  BY <1>14 DEF Rank
<1> QED
  BY <1>5, <1>9, <1>11, <1>12, <1>13, <1>14, <1>15

(* What stays while no node is stored or counted.                           *)
LEMMA VectorKept ==
  ASSUME IInv, VectorInv, count' = count, vector' = vector,
         pc' = "node" => IsNew(call'.q),
         call'.op = "put" /\ pc' # "node" => call' = call /\ pc # "node",
         call'.op # "none" => call'.q \in Vectors
  PROVE  VectorInv' /\ Written' = Written /\ Met' = Met /\ Entries' = Entries
<1>1. Places' = Places /\ Nodes' = Nodes /\ Ids' = Ids
  BY DEF Places, Nodes, Ids
<1>2. Written' = Written
  BY <1>1 DEF Written
<1>3. VectorInv'
  BY <1>1, <1>2 DEF VectorInv, IsNew
<1> QED
  BY <1>2, <1>3 DEF Met, Entries

LEMMA RoomKept ==
  ASSUME RoomInv, UNCHANGED lists, Written' = Written
  PROVE  RoomInv'
<1>1. l0' = l0 /\ upper' = upper /\ Entries' = Entries
  BY DEF lists, Entries
<1> QED
  BY <1>1 DEF RoomInv, Ids

LEMMA ChunksKept ==
  ASSUME ChunksInside, node' = node, nextChunk' = nextChunk
  PROVE  ChunksInside'
BY DEF ChunksInside, Chunks, Ids

(* A list that is written has its room.                                     *)
LEMMA ListSet ==
  ASSUME RoomInv, Written' = Written, NEW n, NEW l \in Nat, NEW list \in Seq(Entries),
         Len(list) <= ListSize(l), SetNeighbors(n, l, list)
  PROVE  RoomInv'
<1>1. Entries' = Entries
  BY DEF Entries
<1>2. CASE UNCHANGED lists
  BY <1>2, RoomKept
<1>3. CASE l = 0 /\ l0' = [l0 EXCEPT ![n] = list] /\ upper' = upper
  BY <1>1, <1>3 DEF RoomInv, Ids, ListSize
<1>4. CASE l # 0 /\ upper' = [upper EXCEPT ![node[n].chunk + l - 1] = list] /\ l0' = l0
  BY <1>1, <1>4 DEF RoomInv, Ids, ListSize
<1> QED
  BY <1>2, <1>3, <1>4 DEF SetNeighbors

LEMMA ConnectedFacts ==
  ASSUME FitInv, NEW n \in Ids, NEW l \in Nat, NEW new \in Seq(Entries)
  PROVE  /\ Connected(n, l, new).kept \in Seq(Entries)
         /\ Len(Connected(n, l, new).kept) <= ListSize(l)
         /\ Connected(n, l, new).discarded \in Seq(Written)
<1>1. PICK all \in Seq(Entries) : all = Neighbors(n, l) \o new
  <2>1. PICK old \in Seq(Entries) : old = Neighbors(n, l)
    BY NeighborsFacts
  <2>2. old \o new \in Seq(Entries)
    OBVIOUS
  <2> QED
    BY <2>1, <2>2
<1>2. ListSize(l) \in Nat
  BY GraphAssumption DEF ListSize
<1>3. CASE Len(all) <= ListSize(l)
  <2>1. Connected(n, l, new) = [kept |-> all, discarded |-> << >>]
    BY <1>1, <1>3 DEF Connected
  <2> QED
    BY <1>3, <2>1
<1>4. CASE ~(Len(all) <= ListSize(l))
  <2>1. Connected(n, l, new) = Heuristic(all, ListSize(l))
    BY <1>1, <1>4 DEF Connected
  <2>2. \A i \in DOMAIN all : all[i] \in Entries
    OBVIOUS
  <2>3. Linked(all) \subseteq Written
    BY <2>2 DEF Linked, Entries
  <2>4. Seq(Linked(all)) \subseteq Seq(Written)
    BY <2>3, SeqMore
  <2>5. /\ Heuristic(all, ListSize(l)).kept \in Seq(Entries)
        /\ Len(Heuristic(all, ListSize(l)).kept) <= ListSize(l)
        /\ Heuristic(all, ListSize(l)).discarded \in Seq(Linked(all))
    BY <1>2, HeuristicFacts
  <2> QED
    BY <2>1, <2>4, <2>5
<1> QED
  BY <1>3, <1>4

(* A call that ends forgets where it was.                                   *)
LEMMA Returned ==
  ASSUME IInv, VectorInv, Forget, pc' \in {"idle", "row"},
         Written \subseteq Written', Met' = Met, entry' \in Met
  PROVE  WalkInv'
<1>1. /\ cur' = 0 /\ layer' = 0 /\ search' = NoSearch /\ links' = NoLinks
  BY DEF Forget
<1>2. 0 \in Met
  BY MetFacts
<1>3. NoSearch \in Heaps(Met)
  BY DEF NoSearch, Heaps
<1>4. NoLinks.drops = << >> /\ NoLinks.backs = << >>
  BY DEF NoLinks
<1>5. search' \in Heaps(Met')
  BY <1>1, <1>3
<1>6. search' \in Heaps(Met)'
  BY <1>5 DEF Heaps
<1> QED
  BY <1>1, <1>2, <1>4, <1>6 DEF WalkInv

LEMMA InitFit == Init => FitInv
<1> SUFFICES ASSUME Init PROVE FitInv
  OBVIOUS
<1>1. IInv
  BY InitIInv
<1>2. /\ count = 0 /\ entry = 0 /\ topLayer = 0 /\ nextChunk = 0
      /\ node = [n \in Ids |-> [level |-> 0, chunk |-> 0]]
      /\ l0 = [n \in Ids |-> << >>]
      /\ upper = [c \in 0..(ArenaChunks - 1) |-> << >>]
      /\ vector = [n \in Ids |-> Zero]
      /\ row = 0 /\ crashes = 0 /\ pc = "idle" /\ call.op = "none"
      /\ cur = 0 /\ layer = 0 /\ search = NoSearch /\ links = NoLinks
  BY DEF Init, NoCall
<1>3. VectorInv
  <2>1. Nodes = {} /\ Written = {}
    BY <1>2 DEF Nodes, Written, Places
  <2> QED
    BY <1>2, <2>1 DEF VectorInv, Points
<1>4. BoundInv
  BY <1>2, GraphAssumption DEF BoundInv
<1>5. ChunksInside
  BY <1>2 DEF ChunksInside, Chunks
<1>6. RoomInv
  <2>1. << >> \in Seq(Entries) /\ Len(<< >>) = 0
    OBVIOUS
  <2> QED
    BY <1>2, <2>1, GraphAssumption DEF RoomInv
<1>7. WalkInv
  <2>1. Met = {0} /\ 0 \in Met
    BY <1>2 DEF Met
  <2>2. NoSearch \in Heaps(Met)
    BY DEF NoSearch, Heaps
  <2> QED
    BY <1>2, <2>1, <2>2 DEF WalkInv, NoLinks
<1> QED
  BY <1>1, <1>3, <1>4, <1>5, <1>6, <1>7 DEF FitInv

(* The steps that change no list, no node and no count.                     *)
LEMMA QuietFit ==
  ASSUME FitInv, IInv', UNCHANGED <<count, nextChunk, lists, stored>>,
         pc' # "node",
         call'.op = "put" => call' = call /\ pc # "node",
         call'.op # "none" => call'.q \in Vectors,
         BoundInv', Met' = Met /\ Written' = Written => WalkInv'
  PROVE  FitInv'
<1>1. count' = count /\ vector' = vector /\ node' = node /\ nextChunk' = nextChunk
  BY DEF stored
<1>2. VectorInv' /\ Written' = Written /\ Met' = Met
  BY <1>1, VectorKept DEF FitInv
<1>3. ChunksInside' /\ RoomInv'
  BY <1>1, <1>2, ChunksKept, RoomKept DEF FitInv
<1> QED
  BY <1>2, <1>3 DEF FitInv

(* The end of a search, the death of a put.                                 *)
LEMMA ReturnFit ==
  ASSUME FitInv, IInv', Return, UNCHANGED <<header, lists, stored, row>>,
         crashes' \in 0..MaxCrashes
  PROVE  FitInv'
<1>1. /\ count' = count /\ entry' = entry /\ topLayer' = topLayer /\ nextChunk' = nextChunk
      /\ row' = row /\ pc' = "idle" /\ call'.op = "none"
  BY DEF header, Return, Forget, NoCall
<1>2. BoundInv'
  BY <1>1 DEF FitInv, BoundInv
<1>3. Met' = Met /\ Written' = Written => WalkInv'
  BY <1>1, Returned DEF FitInv, WalkInv, Return
<1> QED
  BY <1>1, <1>2, <1>3, QuietFit

LEMMA RefusedFit ==
  ASSUME FitInv, IInv', NEW v \in Vectors, NEW lvl \in Levels, PutRefused(v, lvl)
  PROVE  FitInv'
<1>1. /\ row < MaxPuts /\ row' = row + 1 /\ pc = "idle"
      /\ UNCHANGED <<header, lists, stored, crashes, pc, call, walk>>
  BY DEF PutRefused, Starts
<1>2. call.op = "none"
  BY <1>1 DEF FitInv, IInv, Calling
<1>3. row' \in 0..MaxPuts
  BY <1>1, GraphAssumption DEF FitInv, BoundInv
<1>4. BoundInv'
  BY <1>1, <1>2, <1>3 DEF FitInv, BoundInv, header
<1>5. Met' = Met /\ Written' = Written => WalkInv'
  BY <1>1 DEF FitInv, WalkInv, Heaps, Entries, header, walk
<1> QED
  BY <1>1, <1>2, <1>4, <1>5, QuietFit DEF header

(* Chunks are cleared for the node to come.                                 *)
LEMMA ReserveFit ==
  ASSUME FitInv, IInv', NEW v \in Vectors, NEW lvl \in Levels, PutReserve(v, lvl)
  PROVE  FitInv'
<1>1. /\ pc = "idle" /\ row < MaxPuts /\ IsNew(v) /\ Room(lvl)
      /\ upper' = [c \in DOMAIN upper |->
                     IF c \in nextChunk..(nextChunk + lvl - 1) THEN << >> ELSE upper[c]]
      /\ nextChunk' = nextChunk + lvl /\ pc' = "node"
      /\ call' = [op |-> "put", q |-> v, level |-> lvl, ef |-> EfConstruction]
      /\ count' = count /\ entry' = entry /\ topLayer' = topLayer /\ l0' = l0
      /\ node' = node /\ vector' = vector /\ row' = row /\ crashes' = crashes
      /\ cur' = cur /\ layer' = layer /\ search' = search /\ links' = links
  BY DEF PutReserve, Starts, stored, walk
<1>2. call'.op = "put" /\ call'.q = v /\ call'.level = lvl /\ call'.ef = EfConstruction
  BY <1>1
<1>3. VectorInv' /\ Written' = Written /\ Met' = Met /\ Entries' = Entries
  BY <1>1, <1>2, VectorKept DEF FitInv
<1>4. lvl \in Nat /\ nextChunk \in Nat
  BY GraphAssumption DEF FitInv, IInv, Header
<1>5. BoundInv'
  BY <1>1, <1>2, <1>4, GraphAssumption DEF FitInv, BoundInv
<1>6. ChunksInside'
  <2>1. 0..(nextChunk - 1) \subseteq 0..(nextChunk' - 1)
    BY <1>1, <1>4
  <2>2. \A n : Chunks(n)' = Chunks(n)
    BY <1>1 DEF Chunks
  <2>3. Ids' = Ids
    BY DEF Ids
  <2> QED
    BY <2>1, <2>2, <2>3 DEF FitInv, ChunksInside
<1>7. RoomInv'
  <2>1. << >> \in Seq(Entries) /\ Len(<< >>) = 0 /\ M \in Nat
    BY GraphAssumption
  <2> QED
    BY <1>1, <1>3, <2>1 DEF FitInv, RoomInv, Ids
<1>8. WalkInv'
  BY <1>1, <1>3 DEF FitInv, WalkInv, Heaps
<1> QED
  BY <1>3, <1>5, <1>6, <1>7, <1>8 DEF FitInv

LEMMA SearchFit ==
  ASSUME FitInv, IInv', NEW s \in Searches, Search(s)
  PROVE  FitInv'
<1>1. /\ pc = "idle" /\ pc' = "descend" /\ cur' = entry /\ layer' = topLayer
      /\ call' = [op |-> "search", q |-> s.q, level |-> 0, ef |-> s.ef,
                  k |-> s.k, threshold |-> s.threshold]
      /\ UNCHANGED <<header, lists, stored, row, crashes, search, links>>
  BY DEF Search, Starts
<1>2. /\ call'.op = "search" /\ call'.q \in Vectors /\ call'.level = 0
      /\ call'.ef \in Nat \ {0} /\ call'.k \in Nat
  BY <1>1, SearchAssumption
<1>3. BoundInv'
  BY <1>1, <1>2 DEF FitInv, BoundInv, header
<1>4. topLayer \in Nat
  BY GraphAssumption DEF FitInv, BoundInv
<1>5. Met' = Met /\ Written' = Written => WalkInv'
  BY <1>1, <1>4 DEF FitInv, WalkInv, Heaps, Entries, header
<1> QED
  BY <1>1, <1>2, <1>3, <1>5, QuietFit DEF header

(* The stores to the new node: its list is empty, its chunks were taken.    *)
LEMMA NewNodeFit ==
  ASSUME FitInv, NewNode, pc = "node", count' = count, nextChunk' = nextChunk, upper' = upper,
         Written \subseteq Written'
  PROVE  ChunksInside' /\ RoomInv'
<1>1. /\ count \in Ids /\ node'[count].level = call.level /\ call.level \in Nat
      /\ node' \in [Ids -> [level : Nat, chunk : Nat]]
      /\ call.level > 0 => node'[count].chunk = nextChunk - call.level
      /\ call.level = 0 => node'[count].chunk = 0
  BY NodeStored DEF FitInv
<1>2. \A n \in Ids : n # count => Chunks(n)' = Chunks(n)
  BY DEF NewNode, Chunks, FitInv, IInv, Header
<1>3. Chunks(count)' \subseteq 0..(nextChunk - 1)
  <2>1. call.op = "put" /\ call.level <= nextChunk /\ nextChunk \in Nat
    BY GraphAssumption DEF FitInv, IInv, Calling, Reserved, Header
  <2>2. PICK level \in Nat, chunk \in Nat : level = node'[count].level /\ chunk = node'[count].chunk
    BY <1>1
  <2>3. level = call.level /\ (level > 0 => chunk = nextChunk - level) /\ (level = 0 => chunk = 0)
    BY <1>1, <2>2
  <2>4. chunk .. (chunk + level - 1) \subseteq 0..(nextChunk - 1)
    BY <2>1, <2>3
  <2>5. Chunks(count)' = chunk .. (chunk + level - 1)
    BY <2>2 DEF Chunks
  <2> QED
    BY <2>4, <2>5
<1>4. ChunksInside'
  <2> SUFFICES ASSUME NEW n \in Ids PROVE Chunks(n)' \subseteq 0..(nextChunk - 1)
    BY DEF ChunksInside, Ids
  <2>1. CASE n = count
    BY <1>3, <2>1 DEF Chunks
  <2>2. CASE n # count
    BY <1>2, <2>2 DEF FitInv, ChunksInside
  <2> QED
    BY <2>1, <2>2
<1>5. Seq(Entries) \subseteq Seq(Entries')
  <2>1. Entries \subseteq Entries'
    BY DEF Entries
  <2> QED
    BY <2>1, SeqMore
<1>6. l0' = [l0 EXCEPT ![count] = << >>]
  BY DEF NewNode
<1>7. << >> \in Seq(Entries') /\ Len(<< >>) = 0 /\ MMax0 \in Nat
  BY GraphAssumption
<1>8. RoomInv'
  BY <1>5, <1>6, <1>7 DEF FitInv, RoomInv, Ids
<1> QED
  BY <1>4, <1>8

LEMMA MoreMet ==
  ASSUME WalkInv, Written \subseteq Written', Met \subseteq Met',
         cur' \in {cur, entry}, entry' = entry, layer' \in Nat,
         search' = search, links' = links, pc' \notin {"expand", "link"}
  PROVE  WalkInv'
<1>1. Seq(Written) \subseteq Seq(Written') /\ Seq(Entries) \subseteq Seq(Entries')
  <2>1. Entries \subseteq Entries'
    BY DEF Entries
  <2> QED
    BY <2>1, SeqMore
<1>2. Heaps(Met) \subseteq Heaps(Met')
  BY DEF Heaps
<1>3. search' \in Heaps(Met)'
  <2>1. search' \in Heaps(Met')
    BY <1>2 DEF WalkInv
  <2> QED
    BY <2>1 DEF Heaps
<1> QED
  BY <1>1, <1>3 DEF WalkInv

LEMMA StoreNodeFit ==
  ASSUME FitInv, IInv', PutNode
  PROVE  FitInv'
<1>1. /\ pc = "node" /\ NewNode /\ vector' = [vector EXCEPT ![count] = call.q]
      /\ count' = count /\ entry' = entry /\ topLayer' = topLayer /\ nextChunk' = nextChunk
      /\ upper' = upper /\ row' = row /\ crashes' = crashes /\ call' = call
      /\ search' = search /\ links' = links
      /\ pc' \in {"entry", "descend"}
      /\ cur' \in {cur, entry} /\ layer' \in {layer, topLayer}
  BY DEF PutNode, header
<1>2. call.op = "put" /\ call.q \in Vectors /\ IsNew(call.q)
  BY <1>1 DEF FitInv, IInv, Calling, VectorInv
<1>3. count \in Ids /\ count \in Nat
  BY <1>1, NodeStored DEF FitInv
<1>4. vector \in [Ids -> Points] /\ call.q \in Points /\ call.q # Zero
  BY <1>2, NoTies DEF FitInv, VectorInv, Points
<1>5. /\ vector' \in [Ids -> Points] /\ vector'[count] = call.q
      /\ \A n \in Ids : n # count => vector'[n] = vector[n]
  BY <1>1, <1>3, <1>4
<1>6. Places' = Places /\ Nodes' = Nodes /\ count \in Places
  BY <1>1, <1>3 DEF Places, Nodes, Ids
<1>7. Written' = Written \cup {count}
  BY <1>4, <1>5, <1>6 DEF Written, Places
<1>8. Met \subseteq Met'
  BY <1>1, <1>7 DEF Met
<1>9. VectorInv'
  <2>1. \A n \in Ids : n > count => vector'[n] = Zero
    BY <1>3, <1>5 DEF FitInv, VectorInv
  <2>2. \A n \in Nodes : vector'[n] # Zero
    <3>1. \A n \in Nodes : n \in Ids /\ n # count
      BY <1>1, NodeStored DEF FitInv
    <3> QED
      BY <1>5, <3>1 DEF FitInv, VectorInv
  <2>3. \A n \in Written : n # count => vector[n] # call.q
    <3> SUFFICES ASSUME NEW n \in Written, n # count PROVE vector[n] # call.q
      OBVIOUS
    <3>1. n \in 0..(count - 1)
      BY <1>3, CapacityPositive DEF Written, Places, Ids
    <3> QED
      BY <1>2, <3>1 DEF IsNew
  <2>4. \A n, o \in Written \cup {count} : vector'[n] = vector'[o] => n = o
    <3>1. Written \subseteq Ids
      BY DEF Written, Places
    <3> QED
      BY <1>5, <2>3, <3>1 DEF FitInv, VectorInv
  <2> QED
    BY <1>1, <1>2, <1>5, <1>6, <1>7, <2>1, <2>2, <2>4 DEF VectorInv, Ids
<1>10. ChunksInside' /\ RoomInv'
  BY <1>1, <1>7, NewNodeFit
<1>11. BoundInv'
  BY <1>1 DEF FitInv, BoundInv
<1>12. WalkInv'
  <2>1. layer' \in Nat
    BY <1>1, GraphAssumption DEF FitInv, WalkInv, BoundInv
  <2>2. Written \subseteq Written' /\ pc' \notin {"expand", "link"}
    BY <1>1, <1>7
  <2> QED
    BY <1>1, <1>8, <2>1, <2>2, MoreMet DEF FitInv
<1> QED
  BY <1>9, <1>10, <1>11, <1>12 DEF FitInv

LEMMA AbortFit ==
  ASSUME FitInv, IInv', PutAborts
  PROVE  FitInv'
<1>1. /\ pc = "node" /\ NewNode /\ Return /\ pc' = "idle" /\ call'.op = "none"
      /\ count' = count /\ entry' = entry /\ topLayer' = topLayer /\ nextChunk' = nextChunk
      /\ upper' = upper /\ vector' = vector /\ row' = row /\ crashes' = crashes
  BY DEF PutAborts, header, Return, Forget, NoCall
<1>2. VectorInv' /\ Written' = Written /\ Met' = Met
  BY <1>1, VectorKept DEF FitInv
<1>3. ChunksInside' /\ RoomInv'
  BY <1>1, <1>2, NewNodeFit
<1>4. BoundInv'
  BY <1>1 DEF FitInv, BoundInv
<1>5. WalkInv'
  BY <1>1, <1>2, Returned DEF FitInv, WalkInv, Return
<1> QED
  BY <1>2, <1>3, <1>4, <1>5 DEF FitInv

(* The steps of a walk, which only change where it is.                      *)
LEMMA WalkFit ==
  ASSUME FitInv, IInv', UNCHANGED <<header, lists, stored, row, crashes, call>>,
         pc \notin {"idle", "node", "row"}, pc' \notin {"node", "row"},
         Met' = Met /\ Written' = Written => WalkInv'
  PROVE  FitInv'
<1>1. call.q \in Vectors
  BY DEF FitInv, IInv, Calling, VectorInv
<1>2. BoundInv'
  BY DEF FitInv, BoundInv, header
<1> QED
  BY <1>1, <1>2, QuietFit DEF header

LEMMA HopFit ==
  ASSUME FitInv, IInv', Hop
  PROVE  FitInv'
<1>1. /\ pc = "descend" /\ pc' = pc /\ Nearer # {} /\ cur' = Nearest(Nearer)
      /\ layer' = layer /\ search' = search /\ links' = links
      /\ UNCHANGED <<header, lists, stored, row, crashes, call>>
  BY DEF Hop
<1>2. call.op # "none" /\ Met \subseteq Ids /\ Written \subseteq Met
  BY <1>1, MetFacts DEF FitInv, IInv, Calling
<1>3. Nearer \subseteq Met
  <2>1. Linked(Neighbors(cur, layer)) \subseteq Written
    BY <1>2, NeighborsFacts DEF FitInv, WalkInv
  <2> QED
    BY <1>2, <2>1 DEF Nearer
<1>4. cur' \in Met
  <2>1. Nearer \in SUBSET Ids
    BY <1>2, <1>3
  <2>2. Nearest(Nearer) \in Nearer
    BY <1>1, <1>2, <2>1, NearestFacts DEF FitInv
  <2> QED
    BY <1>1, <1>3, <2>2
<1>5. Met' = Met /\ Written' = Written => WalkInv'
  BY <1>1, <1>4 DEF FitInv, WalkInv, Heaps, Entries, header
<1> QED
  BY <1>1, <1>5, WalkFit

LEMMA LayerDownFit ==
  ASSUME FitInv, IInv', LayerDown
  PROVE  FitInv'
<1>1. /\ pc = "descend" /\ pc' = pc /\ layer > call.level /\ layer' = layer - 1
      /\ cur' = cur /\ search' = search /\ links' = links
      /\ UNCHANGED <<header, lists, stored, row, crashes, call>>
  BY DEF LayerDown
<1>2. call.level \in Nat /\ layer \in Nat
  BY <1>1 DEF FitInv, IInv, Calling, BoundInv, WalkInv
<1>3. layer' \in Nat
  BY <1>1, <1>2
<1>4. Met' = Met /\ Written' = Written => WalkInv'
  BY <1>1, <1>3 DEF FitInv, WalkInv, Heaps, Entries, header
<1> QED
  BY <1>1, <1>4, WalkFit

(* A search begins with one node in its heaps.                              *)
LEMMA Begun ==
  ASSUME NEW T, NEW n \in T, Begin(n)
  PROVE  search' \in Heaps(T) /\ search'.res # {}
<1>1. search' = [cand |-> {n}, res |-> {n}, seen |-> {n}]
  BY DEF Begin
<1>2. search' \in [cand : SUBSET T, res : SUBSET T, seen : SUBSET T]
  BY <1>1
<1>3. search'.cand = {n} /\ search'.res = {n} /\ search'.seen = {n}
  BY <1>1
<1> QED
  BY <1>2, <1>3 DEF Heaps

LEMMA BeginFit ==
  ASSUME FitInv, IInv', BeginSearch
  PROVE  FitInv'
<1>1. /\ pc = "descend" /\ pc' = "expand" /\ layer <= call.level /\ layer' = layer
      /\ Begin(cur) /\ cur' = cur /\ links' = links
      /\ UNCHANGED <<header, lists, stored, row, crashes, call>>
  BY DEF BeginSearch
<1>2. search' \in Heaps(Met) /\ search'.res # {}
  BY <1>1, Begun DEF FitInv, WalkInv
<1>3. Met' = Met /\ Written' = Written => WalkInv'
  BY <1>1, <1>2 DEF FitInv, WalkInv, Heaps, Entries, header
<1> QED
  BY <1>1, <1>3, WalkFit

LEMMA ExpandFit ==
  ASSUME FitInv, IInv', Expand
  PROVE  FitInv'
<1>1. /\ pc = "expand" /\ pc' = pc /\ ~Searched /\ search' = Expanded(Nearest(search.cand))
      /\ layer' = layer /\ cur' = cur /\ links' = links
      /\ UNCHANGED <<header, lists, stored, row, crashes, call>>
  BY DEF Expand
<1>2. call.op # "none" /\ call.ef \in Nat \ {0} /\ Met \subseteq Ids /\ Written \subseteq Met
  BY <1>1, MetFacts DEF FitInv, IInv, Calling, BoundInv
<1>3. search \in Heaps(Met) /\ search.cand \subseteq Met /\ search.cand # {} /\ search.res # {}
  BY <1>1 DEF FitInv, WalkInv, Heaps, Searched
<1>4. PICK c \in Ids : c = Nearest(search.cand)
  <2>1. search.cand \in SUBSET Ids
    BY <1>2, <1>3
  <2>2. Nearest(search.cand) \in search.cand
    BY <1>2, <1>3, <2>1, NearestFacts DEF FitInv
  <2> QED
    BY <2>1, <2>2
<1>5. PICK list \in Seq(Entries) : list = Neighbors(c, layer) /\ Linked(list) \subseteq Met
  <2>1. layer \in Nat
    BY DEF FitInv, WalkInv
  <2> QED
    BY <1>2, <2>1, NeighborsFacts
<1>6. IsExpanded(Met, c, list, search')
  BY <1>1, <1>2, <1>3, <1>4, <1>5, ExpandedFacts
<1>7. search' \in Heaps(Met) /\ search'.res # {}
  BY <1>3, <1>6 DEF IsExpanded
<1>8. Met' = Met /\ Written' = Written => WalkInv'
  BY <1>1, <1>7 DEF FitInv, WalkInv, Heaps, Entries, header
<1> QED
  BY <1>1, <1>8, WalkFit

(* The neighbours a put selects: results, each once, at least one.          *)
LEMMA SelectedFacts ==
  ASSUME FitInv, pc = "expand", call.op = "put",
         NEW selected, selected = Heuristic(Sorted, KeptAtMost).kept
  PROVE  /\ selected \in Seq(Entries) /\ selected # << >>
         /\ From(selected, Sorted, Len(Sorted)) /\ Different(selected)
         /\ Sorted \in Seq(Entries) /\ Different(Sorted)
         /\ Len(Sorted) = Cardinality(search.res)
         /\ \A i \in 1..Len(Sorted) :
              Sorted[i].id \in search.res /\ Sorted[i].d = D(Sorted[i].id)
<1>1. call.op # "none" /\ Met = Written /\ Met \subseteq Ids
  BY MetFacts DEF FitInv
<1>2. PICK S \in SUBSET Met : S = search.res /\ S # {}
  BY DEF FitInv, WalkInv, Heaps
<1>3. S \in SUBSET Ids /\ (\A n \in S : D(n) \in Int) /\ (\A n, o \in S : D(n) = D(o) => n = o)
  BY <1>1, <1>2, Distances DEF FitInv
<1>4. /\ Sorted \in Seq([id : S, d : Int]) /\ Sorted # << >> /\ Different(Sorted)
      /\ Len(Sorted) = Cardinality(S)
      /\ \A i \in 1..Cardinality(S) : Sorted[i].id \in S /\ Sorted[i].d = D(Sorted[i].id)
  BY <1>2, <1>3, SortedFacts
<1>5. Sorted \in Seq(Entries)
  <2>1. [id : S, d : Int] \subseteq Entries
    BY <1>1, <1>2 DEF Entries
  <2> QED
    BY <1>4, <2>1, SeqMore
<1>6. KeptAtMost \in Nat /\ KeptAtMost > 0
  BY GraphAssumption DEF KeptAtMost
<1>7. /\ selected \in Seq(Entries) /\ From(selected, Sorted, Len(Sorted))
      /\ Different(selected) /\ selected # << >>
  <2>1. /\ Heuristic(Sorted, KeptAtMost).kept \in Seq(Entries)
        /\ From(Heuristic(Sorted, KeptAtMost).kept, Sorted, Len(Sorted))
        /\ Different(Sorted) => Different(Heuristic(Sorted, KeptAtMost).kept)
        /\ Sorted # << >> /\ KeptAtMost > 0 => Heuristic(Sorted, KeptAtMost).kept # << >>
    BY <1>5, <1>6, HeuristicFacts
  <2> QED
    BY <1>4, <1>6, <2>1
<1> QED
  BY <1>2, <1>4, <1>5, <1>7

(* The steps that write one list.                                           *)
LEMMA ListFit ==
  ASSUME FitInv, IInv', UNCHANGED <<header, stored, row, crashes, call>>,
         pc' = "link", pc \in {"expand", "link"}, layer' = layer, search' = search,
         NEW n, NEW list \in Seq(Entries), Len(list) <= ListSize(layer),
         SetNeighbors(n, layer, list), cur' \in Met,
         links'.drops \in Seq(Written), links'.backs \in Seq(Entries)
  PROVE  FitInv'
<1>1. count' = count /\ vector' = vector /\ node' = node /\ nextChunk' = nextChunk
      /\ call' = call /\ entry' = entry /\ topLayer' = topLayer
  BY DEF header, stored
<1>2. VectorInv' /\ Written' = Written /\ Met' = Met /\ Entries' = Entries
  <2>1. call.op # "none" => call.q \in Vectors
    BY DEF FitInv, VectorInv
  <2> QED
    BY <1>1, <2>1, VectorKept DEF FitInv
<1>3. layer \in Nat /\ layer <= call.level
  BY DEF FitInv, WalkInv
<1>4. RoomInv'
  BY <1>2, <1>3, ListSet DEF FitInv
<1>5. ChunksInside'
  BY <1>1, ChunksKept DEF FitInv
<1>6. BoundInv'
  BY <1>1 DEF FitInv, BoundInv
<1>7. WalkInv'
  BY <1>1, <1>2, <1>3 DEF FitInv, WalkInv, Heaps
<1> QED
  BY <1>2, <1>4, <1>5, <1>6, <1>7 DEF FitInv

LEMMA LinkFit ==
  ASSUME FitInv, IInv', Link
  PROVE  FitInv'
<1>1. PICK selected : selected = Heuristic(Sorted, KeptAtMost).kept
  OBVIOUS
<1>2. PICK list : list = Connected(count, layer, selected)
  OBVIOUS
<1>3. /\ pc = "expand" /\ call.op = "put" /\ pc' = "link"
      /\ SetNeighbors(count, layer, list.kept)
      /\ links' = [owner |-> count, drops |-> list.discarded,
                   backs |-> NewlyAdded(list.kept, selected)]
      /\ cur' = selected[1].id /\ layer' = layer /\ search' = search
      /\ UNCHANGED <<header, stored, row, crashes, call>>
  BY <1>1, <1>2 DEF Link
<1>4. selected \in Seq(Entries) /\ selected # << >>
  BY <1>1, <1>3, SelectedFacts
<1>5. count \in Ids /\ layer \in Nat /\ Met = Written
  BY <1>3, MetFacts, CapacityPositive DEF FitInv, IInv, Header, Putting, WalkInv, Ids
<1>6. /\ list.kept \in Seq(Entries) /\ Len(list.kept) <= ListSize(layer)
      /\ list.discarded \in Seq(Written)
  BY <1>2, <1>4, <1>5, ConnectedFacts
<1>7. links'.drops \in Seq(Written) /\ links'.backs \in Seq(Entries)
  BY <1>3, <1>6, NewlyAddedFacts
<1>8. cur' \in Met
  <2>1. 1 \in DOMAIN selected
    BY <1>4
  <2>2. selected[1] \in Entries
    BY <1>4, <2>1
  <2> QED
    BY <1>3, <1>5, <2>2 DEF Entries
<1> QED
  BY <1>3, <1>6, <1>7, <1>8, ListFit

LEMMA HeadAndTail ==
  ASSUME NEW C, NEW s \in Seq(C), s # << >>
  PROVE  Head(s) \in C /\ Tail(s) \in Seq(C)
OBVIOUS

LEMMA LinkBackFit ==
  ASSUME FitInv, IInv', LinkBack
  PROVE  FitInv'
<1>1. PICK to : to = Head(links.backs)
  OBVIOUS
<1>2. PICK list : list = Connected(to.id, layer, <<[id |-> count, d |-> to.d]>>)
  OBVIOUS
<1>3. /\ pc = "link" /\ pc' = pc /\ links.backs # << >>
      /\ SetNeighbors(to.id, layer, list.kept)
      /\ links' = [owner |-> to.id, backs |-> Tail(links.backs),
                   drops |-> IF layer > node[to.id].level THEN << >> ELSE list.discarded]
      /\ cur' = cur /\ layer' = layer /\ search' = search
      /\ UNCHANGED <<header, stored, row, crashes, call>>
  BY <1>1, <1>2 DEF LinkBack
<1>4. call.op = "put" /\ layer \in Nat /\ cur \in Met /\ links.backs \in Seq(Entries)
  BY <1>3 DEF FitInv, IInv, Calling, WalkInv
<1>5. count \in Written /\ Written \subseteq Ids
  BY <1>3, <1>4, MetFacts DEF FitInv
<1>6. to \in Entries /\ to.id \in Ids /\ to.d \in Int
  <2>1. to \in Entries
    BY <1>1, <1>3, <1>4, HeadAndTail
  <2> QED
    BY <1>5, <2>1 DEF Entries
<1>7. <<[id |-> count, d |-> to.d]>> \in Seq(Entries)
  <2>1. [id |-> count, d |-> to.d] \in Entries
    BY <1>5, <1>6 DEF Entries
  <2> QED
    BY <2>1
<1>8. /\ list.kept \in Seq(Entries) /\ Len(list.kept) <= ListSize(layer)
      /\ list.discarded \in Seq(Written)
  BY <1>2, <1>4, <1>6, <1>7, ConnectedFacts
<1>9. links'.drops \in Seq(Written) /\ links'.backs \in Seq(Entries)
  <2>1. << >> \in Seq(Written) /\ Tail(links.backs) \in Seq(Entries)
    BY <1>3, <1>4, HeadAndTail
  <2> QED
    BY <1>3, <1>8, <2>1
<1> QED
  BY <1>3, <1>4, <1>8, <1>9, ListFit

LEMMA DropFit ==
  ASSUME FitInv, IInv', DropLink
  PROVE  FitInv'
<1>1. PICK from : from = Head(links.drops)
  OBVIOUS
<1>2. PICK list : list = Without(Neighbors(from, layer), links.owner)
  OBVIOUS
<1>3. /\ pc = "link" /\ pc' = pc /\ links.drops # << >>
      /\ SetNeighbors(from, layer, list)
      /\ links' = [links EXCEPT !.drops = Tail(@)]
      /\ cur' = cur /\ layer' = layer /\ search' = search
      /\ UNCHANGED <<header, stored, row, crashes, call>>
  BY <1>1, <1>2 DEF DropLink
<1>4. /\ layer \in Nat /\ cur \in Met
      /\ links.drops \in Seq(Written) /\ links.backs \in Seq(Entries)
  BY <1>3 DEF FitInv, WalkInv
<1>5. from \in Ids
  <2>1. from \in Written
    BY <1>1, <1>3, <1>4, HeadAndTail
  <2> QED
    BY <2>1, MetFacts DEF FitInv
<1>6. PICK old \in Seq(Entries) : old = Neighbors(from, layer) /\ Len(old) <= ListSize(layer)
  BY <1>4, <1>5, NeighborsFacts
<1>7. list \in Seq(Entries) /\ Len(list) <= ListSize(layer)
  <2>1. list \in Seq(Entries) /\ SubList(list, old)
    BY <1>2, <1>6, WithoutFacts
  <2>2. Len(list) \in Nat /\ Len(old) \in Nat /\ ListSize(layer) \in Nat
    BY <2>1, GraphAssumption DEF ListSize
  <2> QED
    BY <1>6, <2>1, <2>2 DEF SubList
<1>8. links'.drops \in Seq(Written) /\ links'.backs \in Seq(Entries)
  <2>1. PICK rest \in Seq(Written) : rest = Tail(links.drops)
    BY <1>3, <1>4, HeadAndTail
  <2>2. links' = [links EXCEPT !.drops = rest]
    BY <1>3, <2>1
  <2> QED
    BY <1>4, <2>2 DEF FitInv, WalkInv
<1> QED
  BY <1>3, <1>4, <1>7, <1>8, ListFit

LEMMA LayerLinkedFit ==
  ASSUME FitInv, IInv', LayerLinked
  PROVE  FitInv'
<1>1. /\ pc = "link" /\ links' = links /\ cur' = cur
      /\ UNCHANGED <<header, lists, stored, row, crashes, call>>
      /\ \/ layer = 0 /\ pc' = "entry" /\ layer' = layer /\ search' = search
         \/ layer # 0 /\ pc' = "expand" /\ layer' = layer - 1 /\ Begin(cur)
  BY DEF LayerLinked
<1>2. call.op = "put" /\ call.level \in Nat /\ layer \in Nat /\ layer <= call.level
  BY <1>1 DEF FitInv, IInv, Calling, Putting, WalkInv
<1>3. search' \in Heaps(Met) /\ (pc' = "expand" => search'.res # {})
  BY <1>1, Begun DEF FitInv, WalkInv
<1>4. layer' \in Nat /\ layer' <= call.level
  BY <1>1, <1>2
<1>5. Met' = Met /\ Written' = Written => WalkInv'
  BY <1>1, <1>3, <1>4 DEF FitInv, WalkInv, Heaps, Entries, header
<1> QED
  BY <1>1, <1>5, WalkFit

(* The stores of the header.                                                *)
LEMMA StoreFit ==
  ASSUME FitInv, IInv', StoreEntry \/ StoreLayer \/ StoreFlag
  PROVE  FitInv'
<1>1. /\ pc \in Stores /\ pc' \in Stores /\ call' = call /\ count' = count
      /\ nextChunk' = nextChunk /\ row' = row /\ crashes' = crashes
      /\ UNCHANGED <<lists, stored, walk>>
      /\ entry' \in {entry, count} /\ topLayer' \in {topLayer, call.level}
  BY DEF StoreEntry, StoreLayer, StoreFlag, Stores
<1>2. call.op = "put" /\ pc # "node" /\ pc' \notin {"node", "expand", "link"}
  BY <1>1 DEF FitInv, IInv, Calling, Stores
<1>3. call.q \in Vectors /\ call.level \in Levels /\ count \in Met
  BY <1>2, MetFacts DEF FitInv, VectorInv, BoundInv
<1>4. BoundInv'
  BY <1>1, <1>3 DEF FitInv, BoundInv, Stores
<1>5. Met' = Met /\ Written' = Written => WalkInv'
  BY <1>1, <1>2, <1>3 DEF FitInv, WalkInv, Heaps, Entries, walk
<1> QED
  BY <1>1, <1>2, <1>3, <1>4, <1>5, QuietFit

(* The node counts: the place after it was never written.                   *)
LEMMA StoreCountFit ==
  ASSUME FitInv, IInv', StoreCount
  PROVE  FitInv'
<1>1. /\ pc = "count" /\ count' = count + 1 /\ row' = row /\ Forget
      /\ pc' = "row" /\ call'.op = "none"
      /\ entry' = entry /\ topLayer' = topLayer /\ nextChunk' = nextChunk
      /\ node' = node /\ vector' = vector /\ crashes' = crashes /\ UNCHANGED lists
  BY DEF StoreCount, stored, Forget, NoCall
<1>2. call.op = "put"
  BY <1>1 DEF FitInv, IInv, Calling, Stores
<1>3. count \in Nat /\ Capacity \in Nat
  BY CapacityPositive DEF FitInv, IInv, Header
<1>4. count \in Written /\ Met = Written /\ Written \subseteq Ids
  BY <1>1, <1>2, MetFacts DEF FitInv
<1>5. Written' = Written
  <2>1. ASSUME NEW n \in Ids
        PROVE  n <= count + 1 /\ vector[n] # Zero <=> n <= count /\ vector[n] # Zero
    <3>1. n \in Nat /\ (n > count => vector[n] = Zero)
      BY <1>3 DEF FitInv, VectorInv, Ids
    <3> QED
      BY <1>3, <3>1
  <2> QED
    BY <1>1, <2>1 DEF Written, Places, Ids
<1>6. Met' = Met
  BY <1>1, <1>3, <1>4, <1>5 DEF Met
<1>7. VectorInv'
  <2>1. \A n \in Ids : n > count + 1 => vector[n] = Zero
    <3>1. \A n \in Ids : n \in Nat
      BY <1>3 DEF Ids
    <3> QED
      BY <1>3, <3>1 DEF FitInv, VectorInv
  <2>2. \A n \in 0..count : vector[n] # Zero
    <3>1. \A n \in 0..count : n \in Nodes \/ n = count
      BY <1>3 DEF Nodes
    <3> QED
      BY <1>4, <3>1 DEF FitInv, VectorInv, Written
  <2>3. Nodes' = 0..count
    BY <1>1, <1>3 DEF Nodes
  <2> QED
    BY <1>1, <1>5, <2>1, <2>2, <2>3 DEF FitInv, VectorInv, Ids
<1>8. RoomInv' /\ ChunksInside'
  BY <1>1, <1>5, RoomKept, ChunksKept DEF FitInv
<1>9. BoundInv'
  BY <1>1, <1>2 DEF FitInv, BoundInv
<1>10. WalkInv'
  BY <1>1, <1>5, <1>6, Returned DEF FitInv, WalkInv
<1> QED
  BY <1>7, <1>8, <1>9, <1>10 DEF FitInv

LEMMA AdvanceRowFit ==
  ASSUME FitInv, IInv', AdvanceRow
  PROVE  FitInv'
<1>1. /\ pc = "row" /\ pc' = "idle" /\ row' = row + 1
      /\ UNCHANGED <<header, lists, stored, crashes, call, walk>>
  BY DEF AdvanceRow
<1>2. call.op = "none"
  BY <1>1 DEF FitInv, IInv, Calling
<1>3. row' \in 0..MaxPuts
  BY <1>1, GraphAssumption DEF FitInv, BoundInv
<1>4. BoundInv'
  BY <1>1, <1>2, <1>3 DEF FitInv, BoundInv, header
<1>5. Met' = Met /\ Written' = Written => WalkInv'
  BY <1>1 DEF FitInv, WalkInv, Heaps, Entries, header, walk
<1> QED
  BY <1>1, <1>2, <1>4, <1>5, QuietFit DEF header

LEMMA NextFit == FitInv /\ [Next]_vars => FitInv'
<1> SUFFICES ASSUME FitInv, [Next]_vars PROVE FitInv'
  OBVIOUS
<1>1. IInv'
  BY NextIInv DEF FitInv
<1>2. CASE UNCHANGED vars
  <2>1. UNCHANGED <<count, nextChunk, lists, stored, call, pc, topLayer, row, crashes>>
        /\ UNCHANGED <<entry, walk, vector, node>>
    BY <1>2 DEF vars, header, stored
  <2>2. VectorInv' /\ Written' = Written /\ Met' = Met /\ Entries' = Entries
    <3>1. Places' = Places /\ Nodes' = Nodes
      BY <2>1 DEF Places, Nodes, Ids
    <3>2. Written' = Written
      BY <2>1, <3>1 DEF Written
    <3> QED
      BY <2>1, <3>1, <3>2 DEF FitInv, VectorInv, IsNew, Met, Entries, Ids
  <2>3. BoundInv'
    BY <2>1 DEF FitInv, BoundInv
  <2>4. ChunksInside' /\ RoomInv'
    BY <2>1, <2>2, ChunksKept, RoomKept DEF FitInv
  <2>5. WalkInv'
    BY <2>1, <2>2 DEF FitInv, WalkInv, Heaps, walk
  <2> QED
    BY <1>1, <2>2, <2>3, <2>4, <2>5 DEF FitInv
<1>3. CASE \E v \in Vectors, lvl \in Levels : PutRefused(v, lvl) \/ PutReserve(v, lvl)
  BY <1>1, <1>3, RefusedFit, ReserveFit
<1>4. CASE \E s \in Searches : Search(s)
  BY <1>1, <1>4, SearchFit
<1>5. CASE PutNode \/ PutAborts
  BY <1>1, <1>5, StoreNodeFit, AbortFit
<1>6. CASE Hop \/ LayerDown \/ BeginSearch \/ Expand
  BY <1>1, <1>6, HopFit, LayerDownFit, BeginFit, ExpandFit
<1>7. CASE Answer
  <2>1. crashes' \in 0..MaxCrashes
    BY <1>7 DEF Answer, FitInv, BoundInv
  <2> QED
    BY <1>1, <1>7, <2>1, ReturnFit DEF Answer
<1>8. CASE Crash
  <2>1. crashes' \in 0..MaxCrashes
    BY <1>8, GraphAssumption DEF Crash, FitInv, BoundInv
  <2> QED
    BY <1>1, <1>8, <2>1, ReturnFit DEF Crash
<1>9. CASE Link \/ LinkBack \/ DropLink \/ LayerLinked
  BY <1>1, <1>9, LinkFit, LinkBackFit, DropFit, LayerLinkedFit
<1>10. CASE StoreEntry \/ StoreLayer \/ StoreFlag
  BY <1>1, <1>10, StoreFit
<1>11. CASE StoreCount
  BY <1>1, <1>11, StoreCountFit
<1>12. CASE AdvanceRow
  BY <1>1, <1>12, AdvanceRowFit
<1> QED
  BY <1>2, <1>3, <1>4, <1>5, <1>6, <1>7, <1>8, <1>9, <1>10, <1>11,
     <1>12 DEF Next, Step

LEMMA FitInvariant == Spec => []FitInv
BY InitFit, NextFit, PTL DEF Spec

(* Linking never writes beyond the room of a list, in a node or in a chunk. *)
THEOREM ListsNeverOverflow == Spec => []ListsFit
<1>1. FitInv => ListsFit
  <2> SUFFICES ASSUME FitInv PROVE ListsFit
    OBVIOUS
  <2>1. Met \subseteq Ids
    BY MetFacts DEF FitInv
  <2>2. /\ count \in 0..Capacity /\ empty \in BOOLEAN /\ nextChunk \in 0..ArenaChunks
        /\ node \in [Ids -> [level : Nat, chunk : Nat]] /\ external \in [Ids -> Nat]
        /\ pc \in {"idle", "node", "descend", "expand", "link",
                   "entry", "layer", "flag", "count", "row"}
    BY DEF FitInv, IInv, Header, Calling, Walks, Stores
  <2>3. /\ cur \in Ids /\ entry \in Ids /\ layer \in Nat
        /\ search.cand \cup search.res \subseteq search.seen /\ search.seen \subseteq Ids
    BY <2>1 DEF FitInv, WalkInv, Heaps
  <2>4. TypeOK
    BY <2>2, <2>3 DEF TypeOK, FitInv, VectorInv, BoundInv, RoomInv
  <2> QED
    BY <2>4 DEF ListsFit, FitInv, RoomInv
<1> QED
  BY <1>1, FitInvariant, PTL

-----------------------------------------------------------------------------
(* What can be reached along lists: the rounds of Reach add nodes until     *)
(* nothing is added, and there are no more rounds than nodes.               *)
Closed(S) == \A o \in S : Linked(l0[o]) \subseteq S
LEMMA ReachFacts ==
  ASSUME FitInv, NEW n \in Ids
  PROVE  /\ Reach(n) \in SUBSET Ids /\ n \in Reach(n) /\ Closed(Reach(n))
         /\ \A S : n \in S /\ Closed(S) => Reach(n) \subseteq S
<1> DEFINE X == SUBSET Ids
           More(S) == S \cup UNION {Linked(l0[o]) : o \in S}
           step == [i \in 1..Capacity |-> [S \in X |-> More(S)]]
<1>1. Capacity \in Nat \ {0}
  BY CapacityPositive
<1>2. \A o \in Ids : Linked(l0[o]) \subseteq Ids
  <2> SUFFICES ASSUME NEW o \in Ids PROVE Linked(l0[o]) \subseteq Ids
    OBVIOUS
  <2>1. node[o].level \in Nat
    BY DEF FitInv, IInv, Header
  <2>2. Neighbors(o, 0) = l0[o]
    BY <2>1 DEF Neighbors
  <2> QED
    BY <2>2, NeighborsFacts, MetFacts DEF FitInv
<1>3. \A S \in X : More(S) \in X /\ S \subseteq More(S)
  BY <1>2
<1>4. step \in [1..Capacity -> [X -> X]] /\ {n} \in X
  BY <1>3
<1> HIDE DEF More
<1>5. PICK f \in [0..Capacity -> X] : Follows(f, Capacity, {n}, step)
  <2> HIDE DEF X, step
  <2> QED
    BY <1>1, <1>4, LoopExists
<1>6. \A i \in 1..Capacity : f[i] = More(f[i - 1])
  <2> SUFFICES ASSUME NEW i \in 1..Capacity PROVE f[i] = More(f[i - 1])
    OBVIOUS
  <2>1. i - 1 \in 0..Capacity
    BY <1>1
  <2>2. f[i - 1] \in X
    BY <2>1
  <2> QED
    BY <1>5, <2>2 DEF Follows
<1> DEFINE Solves(g) == g = [i \in 0..Capacity |-> IF i = 0 THEN {n} ELSE More(g[i - 1])]
<1>7. Solves(f)
  <2> HIDE DEF X
  <2> QED
    BY <1>1, <1>5, <1>6 DEF Follows
<1> DEFINE After == CHOOSE g : Solves(g)
<1>8. Solves(After)
  BY <1>7
<1>9. Reach(n) = After[Capacity]
  BY DEF Reach, More
<1> HIDE DEF After
<1>10. After[0] = {n} /\ \A i \in 1..Capacity : After[i] = More(After[i - 1])
  <2>1. (\A i \in 1..Capacity : i \in 0..Capacity /\ i # 0) /\ 0 \in 0..Capacity
    BY <1>1
  <2> QED
    BY <1>8, <2>1
<1> DEFINE Y == [i \in 0..Capacity |->
                   {S \in X : n \in S /\ (Closed(S) \/ Cardinality(S) > i)}]
<1>11. After[0] \in Y[0]
  <2>1. Cardinality({n}) = 1
    BY FS_Singleton
  <2>2. 0 \in 0..Capacity
    BY <1>1
  <2> QED
    BY <1>4, <1>10, <2>1, <2>2
<1>12. ASSUME NEW i \in 1..Capacity, After[i - 1] \in Y[i - 1] PROVE After[i] \in Y[i]
  <2>1. i - 1 \in 0..Capacity /\ i \in 0..Capacity
    BY <1>1
  <2>2. PICK S \in X : S = After[i - 1] /\ n \in S /\ (Closed(S) \/ Cardinality(S) > i - 1)
    BY <1>12, <2>1
  <2>3. PICK T \in X : T = After[i] /\ T = More(S) /\ S \subseteq T
    BY <1>3, <1>10, <2>2
  <2>4. Closed(S) => T = S
    BY <2>3 DEF More, Closed
  <2>5. ASSUME ~Closed(S) PROVE Cardinality(T) > i
    <3>1. PICK o \in S : ~(Linked(l0[o]) \subseteq S)
      BY <2>5 DEF Closed
    <3>2. PICK m \in T : m \notin S
      BY <2>3, <3>1 DEF More
    <3>3. IsFiniteSet(S) /\ IsFiniteSet(T) /\ Cardinality(S) \in Nat /\ Cardinality(T) \in Nat
      BY SomeIdsFinite
    <3>4. Cardinality(S \cup {m}) = Cardinality(S) + 1
      BY <3>2, <3>3, FS_AddElement
    <3>5. S \cup {m} \in SUBSET T
      BY <2>3, <3>2
    <3>6. Cardinality(S \cup {m}) <= Cardinality(T)
      BY <3>3, <3>5, FS_Subset
    <3> QED
      BY <2>2, <2>5, <3>3, <3>4, <3>6
  <2> QED
    BY <2>1, <2>2, <2>3, <2>4, <2>5
<1>13. \A i \in 0..Capacity : After[i] \in Y[i]
  <2> HIDE DEF Y
  <2> QED
    BY <1>1, <1>11, <1>12, LoopKeeps
<1>14. PICK R \in X : R = Reach(n) /\ n \in R /\ (Closed(R) \/ Cardinality(R) > Capacity)
  <2>1. Capacity \in 0..Capacity
    BY <1>1
  <2> QED
    BY <1>9, <1>13, <2>1
<1>15. Cardinality(R) <= Capacity
  <2>1. IsFiniteSet(Ids) /\ Cardinality(Ids) = Capacity
    <3>1. 0 \in Int /\ Capacity - 1 \in Int /\ ~(0 > Capacity - 1) /\ (Capacity - 1) - 0 + 1 = Capacity
      BY <1>1
    <3> QED
      BY <3>1, FS_Interval DEF Ids
  <2> QED
    BY <2>1, FS_Subset
<1>16. Closed(R)
  <2>1. Cardinality(R) \in Nat
    BY SomeIdsFinite
  <2> QED
    BY <1>1, <1>14, <1>15, <2>1
<1>17. ASSUME NEW S, n \in S, Closed(S) PROVE Reach(n) \subseteq S
  <2> DEFINE Z == [i \in 0..Capacity |-> SUBSET S]
  <2>1. After[0] \in Z[0]
    BY <1>1, <1>10, <1>17
  <2>2. ASSUME NEW i \in 1..Capacity, After[i - 1] \in Z[i - 1] PROVE After[i] \in Z[i]
    <3>1. i - 1 \in 0..Capacity /\ i \in 0..Capacity
      BY <1>1
    <3>2. After[i - 1] \subseteq S
      BY <2>2, <3>1
    <3> QED
      BY <1>10, <1>17, <3>1, <3>2 DEF More, Closed
  <2>3. \A i \in 0..Capacity : After[i] \in Z[i]
    <3> HIDE DEF Z
    <3> QED
      BY <1>1, <2>1, <2>2, LoopKeeps
  <2>4. Capacity \in 0..Capacity
    BY <1>1
  <2> QED
    BY <1>9, <2>3, <2>4
<1> QED
  BY <1>14, <1>16, <1>17

(* A search of layer 0 stays among what it can reach; with room for all of  *)
(* that, everything it saw is a result, and what it expanded leads to       *)
(* nothing it did not see.                                                  *)
ExpandedAll ==
  search.res = search.seen /\ \A n \in search.seen \ search.cand : Linked(l0[n]) \subseteq search.seen
Searching ==
  call.op = "search" /\ pc = "expand" =>
    /\ layer = 0 /\ cur \in search.seen /\ search \in Heaps(Reach(cur))
    /\ HasRoom(Reach(cur)) => ExpandedAll
AnswerInv == (pc # "idle" => answer = NoAnswer) /\ Searching /\ SearchExhaustive

LEMMA ReachKept ==
  ASSUME l0' = l0, cur' = cur
  PROVE  Reach(cur)' = Reach(cur)
BY DEF Reach, Linked, Ids

LEMMA InitAnswer == Init => AnswerInv
BY DEF Init, AnswerInv, Searching, SearchExhaustive

(* A search that begins, and one that goes on.                              *)
LEMMA BeginAnswer ==
  ASSUME FitInv, FitInv', AnswerInv, BeginSearch
  PROVE  AnswerInv'
<1>1. /\ pc = "descend" /\ layer <= call.level /\ Begin(cur) /\ pc' = "expand"
      /\ call' = call /\ cur' = cur /\ layer' = layer /\ answer' = answer /\ l0' = l0
  BY DEF BeginSearch, lists
<1>2. answer' = NoAnswer
  BY <1>1 DEF AnswerInv
<1>3. cur \in Ids
  BY MetFacts DEF FitInv, WalkInv
<1>4. Reach(cur)' = Reach(cur) /\ cur \in Reach(cur)
  BY <1>1, <1>3, ReachKept, ReachFacts
<1>5. search' = [cand |-> {cur}, res |-> {cur}, seen |-> {cur}]
  BY <1>1 DEF Begin
<1>6. search'.cand = {cur} /\ search'.res = {cur} /\ search'.seen = {cur}
  BY <1>5
<1>7. search' \in Heaps(Reach(cur))
  BY <1>1, <1>4, Begun
<1>8. ExpandedAll'
  BY <1>6 DEF ExpandedAll
<1>9. call.op = "search" => layer = 0
  BY <1>1 DEF FitInv, BoundInv, WalkInv
<1>10. Searching'
  <2>1. search' \in Heaps(Reach(cur)')
    BY <1>4, <1>7
  <2>2. (search \in Heaps(Reach(cur)))'
    BY <2>1 DEF Heaps
  <2> QED
    BY <1>1, <1>6, <1>8, <1>9, <2>2 DEF Searching
<1> QED
  BY <1>2, <1>10 DEF AnswerInv, SearchExhaustive, NoAnswer

LEMMA ExpandAnswer ==
  ASSUME FitInv, FitInv', AnswerInv, Expand
  PROVE  AnswerInv'
<1>1. /\ pc = "expand" /\ pc' = pc /\ ~Searched /\ search' = Expanded(Nearest(search.cand))
      /\ layer' = layer /\ cur' = cur /\ call' = call /\ answer' = answer /\ l0' = l0
  BY DEF Expand, lists
<1>2. answer' = NoAnswer
  BY <1>1 DEF AnswerInv
<1>3. ASSUME call.op = "search"
      PROVE  /\ layer = 0 /\ cur \in search'.seen /\ search' \in Heaps(Reach(cur)')
             /\ HasRoom(Reach(cur)) => ExpandedAll'
  <2>1. /\ layer = 0 /\ cur \in search.seen /\ search \in Heaps(Reach(cur))
        /\ HasRoom(Reach(cur)) => ExpandedAll
    BY <1>1, <1>3 DEF AnswerInv, Searching
  <2>2. cur \in Ids /\ call.ef \in Nat \ {0}
    BY <1>3, MetFacts DEF FitInv, WalkInv, BoundInv
  <2>3. Reach(cur) \in SUBSET Ids /\ Closed(Reach(cur)) /\ Reach(cur)' = Reach(cur)
    BY <1>1, <2>2, ReachKept, ReachFacts
  <2>4. search.cand \subseteq Reach(cur) /\ search.cand # {}
    BY <1>1, <2>1 DEF Heaps, Searched
  <2>5. PICK c \in search.cand : c = Nearest(search.cand)
    <3>1. search.cand \in SUBSET Ids
      BY <2>3, <2>4
    <3> QED
      BY <1>3, <2>4, <3>1, NearestFacts DEF FitInv
  <2>6. c \in Reach(cur) /\ c \in Ids
    BY <2>3, <2>4, <2>5
  <2>7. Neighbors(c, layer) = l0[c]
    <3>1. node[c].level \in Nat
      BY <2>6 DEF FitInv, IInv, Header
    <3> QED
      BY <2>1, <3>1 DEF Neighbors
  <2>8. PICK list \in Seq(Entries) : list = Neighbors(c, layer) /\ list = l0[c]
    BY <2>1, <2>6, <2>7, NeighborsFacts
  <2>9. Linked(list) \subseteq Reach(cur)
    BY <2>3, <2>6, <2>8 DEF Closed
  <2>10. IsExpanded(Reach(cur), c, list, search')
    BY <1>1, <2>1, <2>2, <2>3, <2>5, <2>8, <2>9, ExpandedFacts
  <2>11. cur \in search'.seen /\ search' \in Heaps(Reach(cur))
    BY <2>1, <2>10 DEF IsExpanded
  <2>12. ASSUME HasRoom(Reach(cur)) PROVE ExpandedAll'
    <3>1. /\ search'.res = search'.seen /\ search'.seen = search.seen \cup Linked(list)
          /\ search'.cand = (search.cand \ {c}) \cup (Linked(list) \ search.seen)
      BY <2>1, <2>10, <2>12 DEF IsExpanded, ExpandedAll
    <3>2. \A n \in search.seen \ search.cand : Linked(l0[n]) \subseteq search.seen
      BY <2>1, <2>12 DEF ExpandedAll
    <3>3. ASSUME NEW n \in search'.seen, n \notin search'.cand
          PROVE  Linked(l0[n]) \subseteq search'.seen
      <4>1. n \in search.seen
        BY <3>1, <3>3
      <4>2. n = c \/ n \notin search.cand
        BY <3>1, <3>3
      <4>3. CASE n = c
        BY <2>8, <3>1, <4>3
      <4>4. CASE n \notin search.cand
        BY <3>1, <3>2, <4>1, <4>4
      <4> QED
        BY <4>2, <4>3, <4>4
    <3>4. \A n : Linked(l0[n])' = Linked(l0'[n])
      BY DEF Linked
    <3> QED
      BY <1>1, <3>1, <3>3 DEF ExpandedAll, Linked
  <2> QED
    BY <2>1, <2>3, <2>11, <2>12
<1>4. cur \in Ids
  BY MetFacts DEF FitInv, WalkInv
<1>5. Reach(cur)' = Reach(cur)
  BY <1>1, ReachKept
<1>6. Searching'
  <2>1. call.op = "search" => (search \in Heaps(Reach(cur)))'
    BY <1>3 DEF Heaps
  <2>2. HasRoom(Reach(cur))' => HasRoom(Reach(cur))
    BY <1>1, <1>5 DEF HasRoom
  <2> QED
    BY <1>1, <1>3, <2>1, <2>2 DEF Searching
<1> QED
  BY <1>2, <1>6 DEF AnswerInv, SearchExhaustive, NoAnswer

(* The answer a that met and knows the vectors vs and the rows es.           *)
Exact(a, met, vs, es) ==
  LET d == [n \in met |-> Dist[a.call.q, vs[n]]]
      best == {n \in met : /\ d[n] <= a.call.threshold
                           /\ Cardinality({o \in met : d[o] < d[n]}) < a.call.k}
  IN Cardinality(met) <= a.call.ef /\ Cardinality(met) <= HeapSize =>
       a.rows = {es[n] : n \in best}
LEMMA WhatIsExhaustive ==
  ASSUME answer' # NoAnswer, Exact(answer', Reach(answer.from)', vector', external')
  PROVE  SearchExhaustive'
BY DEF SearchExhaustive, Exact
LEMMA ExhaustiveIs ==
  ASSUME answer # NoAnswer, SearchExhaustive
  PROVE  Exact(answer, Reach(answer.from), vector, external)
BY DEF SearchExhaustive, Exact

(* A search that ends with room for all it could reach has seen all of it.  *)
LEMMA AllSeen ==
  ASSUME FitInv, AnswerInv, pc = "expand", call.op = "search", Searched, HasRoom(Reach(cur))
  PROVE  search.res = Reach(cur)
<1>1. /\ cur \in search.seen /\ search \in Heaps(Reach(cur)) /\ ExpandedAll
  BY DEF AnswerInv, Searching
<1>2. cur \in Ids /\ call.op # "none"
  BY MetFacts DEF FitInv, WalkInv
<1>3. Reach(cur) \in SUBSET Ids /\ \A S : cur \in S /\ Closed(S) => Reach(cur) \subseteq S
  BY <1>2, ReachFacts
<1>4. search.seen \subseteq Reach(cur) /\ search.cand \subseteq search.seen
  BY <1>1 DEF Heaps
<1>5. search.cand = {}
  <2> SUFFICES ASSUME NEW c \in search.cand PROVE FALSE
    OBVIOUS
  <2>1. search.res \in SUBSET Ids /\ c \in search.res
    BY <1>1, <1>3, <1>4 DEF ExpandedAll
  <2>2. Furthest(search.res) \in search.res /\ D(Furthest(search.res)) >= D(c)
    BY <1>2, <2>1, FurthestFacts DEF FitInv
  <2>3. D(c) > D(Furthest(search.res))
    BY DEF Searched
  <2>4. D(c) \in Int /\ D(Furthest(search.res)) \in Int
    BY <1>2, <2>1, <2>2, Distances DEF FitInv
  <2> QED
    BY <2>2, <2>3, <2>4
<1>6. Closed(search.seen)
  BY <1>1, <1>5 DEF ExpandedAll, Closed
<1>7. Reach(cur) \subseteq search.seen
  BY <1>1, <1>3, <1>6
<1> QED
  BY <1>1, <1>4, <1>7 DEF ExpandedAll

LEMMA EndAnswer ==
  ASSUME FitInv, AnswerInv, Answer
  PROVE  AnswerInv'
<1>1. PICK best : best = {i \in DOMAIN Sorted : i <= call.k /\ Sorted[i].d <= call.threshold}
  OBVIOUS
<1>2. /\ pc = "expand" /\ Searched /\ call.op = "search" /\ pc' = "idle" /\ call'.op = "none"
      /\ answer' = [rows |-> {external[Sorted[i].id] : i \in best}, call |-> call, from |-> cur]
      /\ l0' = l0 /\ vector' = vector /\ external' = external
  BY <1>1 DEF Answer, Return, Forget, NoCall, lists, stored
<1>3. answer'.rows = {external[Sorted[i].id] : i \in best} /\ answer'.call = call /\ answer'.from = cur
  BY <1>2
<1>4. Reach(answer.from)' = Reach(cur)
  BY <1>2, <1>3 DEF Reach, Linked, Ids
<1>5. PICK met : met = Reach(cur)
  OBVIOUS
<1>6. met \in SUBSET Ids /\ call.k \in Nat /\ call.op # "none"
  <2>1. cur \in Ids
    BY MetFacts DEF FitInv, WalkInv
  <2> QED
    BY <1>2, <1>5, <2>1, ReachFacts DEF FitInv, BoundInv
<1> DEFINE wanted == {n \in met : /\ D(n) <= call.threshold
                                  /\ Cardinality({o \in met : D(o) < D(n)}) < call.k}
<1>7. ASSUME HasRoom(met) PROVE answer'.rows = {external[n] : n \in wanted}
  <2>1. search.res = met
    BY <1>2, <1>5, <1>7, AllSeen
  <2>2. (\A n \in met : D(n) \in Int) /\ (\A n, o \in met : D(n) = D(o) => n = o)
    <3>1. met \subseteq Met
      BY <2>1 DEF FitInv, WalkInv, Heaps
    <3> QED
      BY <1>6, <3>1, Distances DEF FitInv
  <2>3. PICK N \in Nat : N = Cardinality(met)
    BY <1>6, SomeIdsFinite
  <2>4. /\ DOMAIN Sorted = 1..N /\ Linked(Sorted) = met
        /\ \A i \in 1..N : /\ Sorted[i].id \in met /\ Sorted[i].d = D(Sorted[i].id)
                           /\ Cardinality({o \in met : D(o) < D(Sorted[i].id)}) = i - 1
    <3>1. Sorted \in Seq([id : met, d : Int]) /\ Len(Sorted) = Cardinality(met)
          /\ Linked(Sorted) = met
          /\ \A i \in 1..Cardinality(met) :
               /\ Sorted[i].id \in met /\ Sorted[i].d = D(Sorted[i].id)
               /\ Cardinality({o \in met : D(o) < D(Sorted[i].id)}) = i - 1
      BY <1>6, <2>1, <2>2, SortedFacts
    <3> QED
      BY <2>3, <3>1
  <2>5. \A i \in 1..N : i <= call.k <=> i - 1 < call.k
    BY <1>6
  <2>6. \A i \in 1..N : i \in best <=> Sorted[i].id \in wanted
    BY <1>1, <2>4, <2>5
  <2>7. best \subseteq 1..N
    BY <1>1, <2>4
  <2>8. \A n \in met : \E i \in 1..N : Sorted[i].id = n
    BY <2>4 DEF Linked
  <2>9. \A n \in wanted : n \in met
    OBVIOUS
  <2> HIDE DEF wanted
  <2>10. {external[Sorted[i].id] : i \in best} \subseteq {external[n] : n \in wanted}
    BY <2>6, <2>7
  <2>11. ASSUME NEW n \in wanted PROVE external[n] \in {external[Sorted[i].id] : i \in best}
    <3>1. PICK i \in 1..N : Sorted[i].id = n
      BY <2>8, <2>9
    <3>2. i \in best
      BY <2>6, <3>1
    <3> QED
      BY <3>1, <3>2
  <2> QED
    BY <1>3, <2>10, <2>11
<1>8. SearchExhaustive'
  <2> DEFINE d == [n \in met |-> Dist[call.q, vector[n]]]
             nearest == {n \in met : /\ d[n] <= call.threshold
                                     /\ Cardinality({o \in met : d[o] < d[n]}) < call.k}
  <2>1. nearest = wanted
    <3>1. \A n \in met : d[n] = D(n)
      BY DEF D
    <3> HIDE DEF d
    <3>2. \A n \in met : {o \in met : d[o] < d[n]} = {o \in met : D(o) < D(n)}
      BY <3>1
    <3> QED
      BY <3>1, <3>2
  <2>2. HasRoom(met) => answer'.rows = {external[n] : n \in nearest}
    <3> HIDE DEF nearest, wanted
    <3> QED
      BY <1>7, <2>1
  <2> QED
    <3>1. Exact(answer', met, vector, external)
      BY <1>3, <2>2 DEF Exact, HasRoom
    <3>2. Exact(answer', Reach(answer.from)', vector', external')
      BY <1>2, <1>4, <1>5, <3>1
    <3>3. answer' = NoAnswer => SearchExhaustive'
      BY DEF SearchExhaustive, NoAnswer
    <3> QED
      BY <3>2, <3>3, WhatIsExhaustive
<1> QED
  BY <1>2, <1>8 DEF AnswerInv, Searching

LEMMA NextAnswer == FitInv /\ FitInv' /\ AnswerInv /\ [Next]_vars => AnswerInv'
<1> SUFFICES ASSUME FitInv, FitInv', AnswerInv, [Next]_vars PROVE AnswerInv'
  OBVIOUS
<1>1. ASSUME answer' = NoAnswer, ~(call'.op = "search" /\ pc' = "expand") PROVE AnswerInv'
  BY <1>1 DEF AnswerInv, Searching, SearchExhaustive, NoAnswer
<1>2. CASE UNCHANGED vars
  <2>1. /\ pc' = pc /\ call' = call /\ cur' = cur /\ layer' = layer /\ search' = search
        /\ answer' = answer /\ l0' = l0 /\ vector' = vector /\ external' = external
    BY <1>2 DEF vars, lists, stored, walk
  <2>2. Reach(cur)' = Reach(cur)
    BY <2>1, ReachKept
  <2>3. Searching'
    BY <2>1, <2>2 DEF AnswerInv, Searching, Heaps, HasRoom, ExpandedAll, Linked
  <2>4. SearchExhaustive'
    <3>1. Reach(answer.from)' = Reach(answer.from)
      BY <2>1 DEF Reach, Linked, Ids
    <3> QED
      <4>1. CASE answer = NoAnswer
        BY <2>1, <4>1 DEF SearchExhaustive, NoAnswer
      <4>2. CASE answer # NoAnswer
        <5>1. Exact(answer, Reach(answer.from), vector, external)
          BY <4>2, ExhaustiveIs DEF AnswerInv
        <5>2. Exact(answer', Reach(answer.from)', vector', external')
          BY <2>1, <3>1, <5>1
        <5>3. answer' # NoAnswer
          BY <2>1, <4>2 DEF NoAnswer
        <5> QED
          BY <5>2, <5>3, WhatIsExhaustive
      <4> QED
        BY <4>1, <4>2
  <2> QED
    BY <2>1, <2>3, <2>4 DEF AnswerInv, NoAnswer
<1>3. CASE \E v \in Vectors, lvl \in Levels : PutRefused(v, lvl) \/ PutReserve(v, lvl)
  <2>1. answer' = NoAnswer /\ pc' # "expand"
    BY <1>3 DEF PutRefused, PutReserve, Starts
  <2> QED
    BY <1>1, <2>1
<1>4. CASE \E s \in Searches : Search(s)
  <2>1. answer' = NoAnswer /\ pc' # "expand"
    BY <1>4 DEF Search, Starts
  <2> QED
    BY <1>1, <2>1
<1>5. CASE PutNode \/ PutAborts \/ Hop \/ LayerDown
  <2>1. answer' = answer /\ pc # "idle" /\ pc' # "expand"
    BY <1>5 DEF PutNode, PutAborts, Hop, LayerDown, Return
  <2> QED
    BY <1>1, <2>1 DEF AnswerInv
<1>6. CASE BeginSearch
  BY <1>6, BeginAnswer
<1>7. CASE Expand
  BY <1>7, ExpandAnswer
<1>8. CASE Answer
  BY <1>8, EndAnswer
<1>9. CASE Link \/ LinkBack \/ DropLink \/ LayerLinked \/ StoreEntry \/ StoreLayer \/ StoreFlag
  <2>1. answer' = answer /\ pc # "idle" /\ call' = call /\ (pc \in {"link"} \cup Stores \/ call.op = "put")
    BY <1>9 DEF Link, LinkBack, DropLink, LayerLinked, StoreEntry, StoreLayer, StoreFlag, Stores
  <2>2. call.op = "put"
    BY <2>1 DEF FitInv, IInv, Calling
  <2> QED
    BY <1>1, <2>1, <2>2 DEF AnswerInv
<1>10. CASE StoreCount \/ AdvanceRow \/ Crash
  <2>1. answer' = answer /\ pc' # "expand" /\ (pc \in {"count", "row"} \/ call.op = "put")
    BY <1>10 DEF StoreCount, AdvanceRow, Crash, Return
  <2>2. pc # "idle"
    BY <2>1 DEF FitInv, IInv, Calling
  <2> QED
    BY <1>1, <2>1, <2>2 DEF AnswerInv
<1> QED
  BY <1>2, <1>3, <1>4, <1>5, <1>6, <1>7, <1>8, <1>9, <1>10 DEF Next, Step

(* A search that has room for every node it can reach answers with exactly  *)
(* the nearest of them, whatever deaths have left of the lists.             *)
THEOREM SearchFindsNearest == Spec => []SearchExhaustive
<1>1. AnswerInv => SearchExhaustive
  BY DEF AnswerInv
<1>2. Spec => []AnswerInv
  BY FitInvariant, InitAnswer, NextAnswer, PTL DEF Spec
<1> QED
  BY <1>1, <1>2, PTL

-----------------------------------------------------------------------------
(* The links as long as no call died: every element of a list of n at layer *)
(* l leads to another node that is stored and has the layer.                *)
IsLink(n, l, e) ==
  e.id \in Known \ {n} /\ node[e.id].level >= l /\ e.d = Dist[vector[n], vector[e.id]]
AreLinks(n, l, list) == Different(list) /\ \A i \in DOMAIN list : IsLink(n, l, list[i])

(* A layer the new node is not linked at yet.                               *)
FreshAt(l) ==
  Neighbors(count, l) = << >> /\ \A n \in Nodes : count \notin Linked(Neighbors(n, l))
OnLayer(n) == n \in Nodes /\ node[n].level >= layer
WillLinkBack(e) ==
  OnLayer(e.id) /\ e.d = Dist[call.q, vector[e.id]] /\ count \notin Linked(Neighbors(e.id, layer))

Linking ==
  /\ pc = "node" => \A c \in (nextChunk - call.level)..(nextChunk - 1) : upper[c] = << >>
  /\ pc \in Walks => OnLayer(cur)
  /\ pc = "descend" => \A l \in Nat : FreshAt(l)
  /\ pc = "expand" => (\A l \in 0..layer : FreshAt(l)) /\ \A n \in search.seen : OnLayer(n)
  /\ pc = "link" => /\ \A l \in 0..(layer - 1) : FreshAt(l)
                    /\ Different(links.backs)
                    /\ \A i \in DOMAIN links.backs : WillLinkBack(links.backs[i])
AllLinked == \A n \in Known, l \in Nat : AreLinks(n, l, Neighbors(n, l))
LinkInv == crashes = 0 => AllLinked /\ (call.op = "put" => Linking)

LEMMA SomeAreLinks ==
  ASSUME NEW n, NEW l, NEW s, NEW t, AreLinks(n, l, s), Different(s) => Different(t),
         \A i \in DOMAIN t : \E j \in DOMAIN s : t[i] = s[j]
  PROVE  AreLinks(n, l, t)
BY DEF AreLinks

(* Who is known while a put links its node.                                 *)
LEMMA WhoIsLinked ==
  ASSUME IInv, call.op = "put", pc # "node"
  PROVE  /\ Known = Nodes \cup {count} /\ count \notin Nodes /\ count \in Ids
         /\ Known \subseteq Ids /\ Nodes \subseteq Ids /\ node[count].level = call.level
<1>1. count \in Nat /\ count < Capacity /\ Capacity \in Nat
  BY CapacityPositive DEF IInv, Header, Putting
<1> QED
  BY <1>1 DEF Known, Nodes, Ids, IInv, NewStored

(* Only the list that is written changes: chunks are never shared.          *)
LEMMA OneListSet ==
  ASSUME FitInv, call.op = "put", pc # "node", node' = node,
         NEW n \in Known, NEW l \in Nat, NEW list, SetNeighbors(n, l, list),
         NEW m \in Known, NEW k \in Nat
  PROVE  Neighbors(m, k)' = IF m = n /\ k = l /\ l <= node[n].level THEN list ELSE Neighbors(m, k)
<1>1. n \in Ids /\ m \in Ids
  BY WhoIsLinked DEF FitInv
<1>2. PICK ln \in Nat, cn \in Nat : ln = node[n].level /\ cn = node[n].chunk
  BY <1>1 DEF FitInv, IInv, Header
<1>3. PICK lm \in Nat, cm \in Nat : lm = node[m].level /\ cm = node[m].chunk
  BY <1>1 DEF FitInv, IInv, Header
<1>4. /\ Neighbors(m, k) = IF k > lm THEN << >> ELSE IF k = 0 THEN l0[m] ELSE upper[cm + k - 1]
      /\ Neighbors(m, k)' = IF k > lm THEN << >> ELSE IF k = 0 THEN l0'[m] ELSE upper'[cm + k - 1]
  BY <1>3 DEF Neighbors
<1>5. DOMAIN l0 = Ids
  BY DEF FitInv, RoomInv
<1>6. CASE l > ln
  <2>1. l0' = l0 /\ upper' = upper
    BY <1>2, <1>6 DEF SetNeighbors, lists
  <2>2. ~(l <= ln)
    BY <1>6
  <2> QED
    BY <1>2, <1>4, <2>1, <2>2
<1>7. CASE ~(l > ln) /\ l = 0
  <2>1. l0' = [l0 EXCEPT ![n] = list] /\ upper' = upper
    BY <1>2, <1>7 DEF SetNeighbors
  <2>2. l0'[m] = IF m = n THEN list ELSE l0[m]
    BY <1>1, <1>5, <2>1
  <2> QED
    BY <1>2, <1>3, <1>4, <1>7, <2>1, <2>2
<1>8. CASE ~(l > ln) /\ l # 0
  <2>1. l0' = l0 /\ upper' = [upper EXCEPT ![cn + l - 1] = list]
    BY <1>2, <1>8 DEF SetNeighbors
  <2>2. CASE k > lm \/ k = 0
    <3>1. ~(m = n /\ k = l /\ l <= ln)
      BY <1>2, <1>3, <1>8, <2>2
    <3> QED
      BY <1>2, <1>4, <2>1, <2>2, <3>1
  <2>3. CASE ~(k > lm \/ k = 0)
    <3>1. cn + l - 1 \in Chunks(n) /\ cm + k - 1 \in Chunks(m)
      BY <1>2, <1>3, <1>8, <2>3 DEF Chunks
    <3>2. cm + k - 1 \in DOMAIN upper
      BY <1>1, <3>1, GraphAssumption DEF FitInv, ChunksInside, RoomInv, IInv, Header
    <3>3. cm + k - 1 = cn + l - 1 <=> m = n /\ k = l
      <4>1. CASE m = n
        BY <1>2, <1>3, <4>1
      <4>2. CASE m # n
        <5>1. Chunks(n) \cap Chunks(m) = {}
          BY <4>2 DEF FitInv, IInv, ChunksApart
        <5> QED
          BY <3>1, <4>2, <5>1
      <4> QED
        BY <4>1, <4>2
    <3>4. upper'[cm + k - 1] = IF m = n /\ k = l THEN list ELSE upper[cm + k - 1]
      BY <2>1, <3>2, <3>3
    <3>5. l <= ln
      BY <1>8
    <3> QED
      BY <1>2, <1>4, <2>3, <3>4, <3>5
  <2> QED
    BY <2>2, <2>3
<1> QED
  BY <1>6, <1>7, <1>8

(* So that a step that writes one list of links leaves all of them links.   *)
LEMMA LinksSet ==
  ASSUME FitInv, AllLinked, call.op = "put", pc # "node", pc' # "node",
         UNCHANGED <<header, stored, call>>,
         NEW n \in Known, NEW l \in Nat, NEW list, SetNeighbors(n, l, list),
         l <= node[n].level => AreLinks(n, l, list)
  PROVE  AllLinked'
<1>1. node' = node /\ vector' = vector /\ count' = count /\ call' = call
  BY DEF header, stored
<1>2. Known' = Known
  BY <1>1 DEF Known, Nodes
<1>3. ASSUME NEW m \in Known, NEW k \in Nat, NEW s, AreLinks(m, k, s)
      PROVE  AreLinks(m, k, s)'
  BY <1>1, <1>2, <1>3 DEF AreLinks, IsLink, Different
<1>4. ASSUME NEW m \in Known, NEW k \in Nat PROVE AreLinks(m, k, Neighbors(m, k))'
  <2>1. PICK s : s = IF m = n /\ k = l /\ l <= node[n].level THEN list ELSE Neighbors(m, k)
    OBVIOUS
  <2>2. Neighbors(m, k)' = s
    BY <1>1, <2>1, OneListSet
  <2>3. AreLinks(m, k, s)
    BY <2>1 DEF AllLinked
  <2>4. AreLinks(m, k, s)'
    BY <1>3, <2>3
  <2> QED
    BY <2>2, <2>4 DEF AreLinks
<1> QED
  BY <1>2, <1>4 DEF AllLinked

LEMMA LinksKept ==
  ASSUME AllLinked, Known' = Known,
         \A n \in Known : node'[n] = node[n] /\ vector'[n] = vector[n],
         \A n \in Known, l \in Nat : Neighbors(n, l)' = Neighbors(n, l)
  PROVE  AllLinked'
<1>1. ASSUME NEW n \in Known, NEW l \in Nat, NEW s, AreLinks(n, l, s)
      PROVE  AreLinks(n, l, s)'
  BY <1>1 DEF AreLinks, IsLink, Different
<1>2. ASSUME NEW n \in Known, NEW l \in Nat PROVE AreLinks(n, l, Neighbors(n, l))'
  <2>1. PICK s : s = Neighbors(n, l)
    OBVIOUS
  <2>2. AreLinks(n, l, s)'
    BY <1>1, <2>1 DEF AllLinked
  <2> QED
    BY <2>1, <2>2 DEF AreLinks
<1> QED
  BY <1>2 DEF AllLinked

LEMMA QuietLinks ==
  ASSUME AllLinked, Known' = Known, UNCHANGED <<lists, stored>>
  PROVE  AllLinked'
<1>1. node' = node /\ vector' = vector /\ l0' = l0 /\ upper' = upper
  BY DEF lists, stored
<1>2. \A n \in Known, l \in Nat : Neighbors(n, l)' = Neighbors(n, l)
  BY <1>1 DEF Neighbors
<1> QED
  BY <1>1, <1>2, LinksKept

LEMMA FreshKept ==
  ASSUME UNCHANGED <<count, lists, stored>>, NEW l \in Nat, FreshAt(l)
  PROVE  FreshAt(l)'
<1>1. node' = node /\ l0' = l0 /\ upper' = upper /\ count' = count /\ Nodes' = Nodes
  BY DEF lists, stored, Nodes
<1>2. \A n : Neighbors(n, l)' = Neighbors(n, l)
  BY <1>1 DEF Neighbors
<1>3. Neighbors(count, l)' = Neighbors(count, l)
  BY <1>1 DEF Neighbors
<1> QED
  BY <1>1, <1>2, <1>3 DEF FreshAt, Linked

LEMMA LayerKept ==
  ASSUME IInv, UNCHANGED <<count, stored>>, layer \in Nat, layer' \in Nat, layer' <= layer,
         NEW n, OnLayer(n)
  PROVE  OnLayer(n)'
<1>1. node' = node /\ Nodes' = Nodes /\ Nodes \subseteq Ids
  BY CapacityPositive DEF stored, Nodes, Ids, IInv, Header
<1>2. node[n].level \in Nat
  BY <1>1 DEF OnLayer, IInv, Header
<1> QED
  BY <1>1, <1>2 DEF OnLayer

(* Steps outside of calls and at their ends, which leave no put in progress. *)
LEMMA EndLinks ==
  ASSUME FitInv, LinkInv, UNCHANGED <<lists, stored>>,
         call'.op # "put", crashes' = 0 => crashes = 0,
         Known' = Known
  PROVE  LinkInv'
BY QuietLinks DEF LinkInv

LEMMA RefusedLinks ==
  ASSUME FitInv, LinkInv, NEW v \in Vectors, NEW lvl \in Levels, PutRefused(v, lvl)
  PROVE  LinkInv'
<1>1. pc = "idle" /\ UNCHANGED <<header, lists, stored, crashes, pc, call>>
  BY DEF PutRefused, Starts
<1>2. call.op = "none"
  BY <1>1 DEF FitInv, IInv, Calling
<1>3. Known' = Known
  BY <1>1 DEF Known, Nodes, header
<1> QED
  BY <1>1, <1>2, <1>3, EndLinks

LEMMA SearchLinks ==
  ASSUME FitInv, LinkInv, NEW s \in Searches, Search(s)
  PROVE  LinkInv'
<1>1. pc = "idle" /\ UNCHANGED <<header, lists, stored, crashes>> /\ call'.op = "search"
  BY DEF Search, Starts
<1>2. call.op = "none"
  BY <1>1 DEF FitInv, IInv, Calling
<1>3. Known' = Known
  BY <1>1, <1>2 DEF Known, Nodes, header
<1> QED
  BY <1>1, <1>3, EndLinks

LEMMA AnswerLinks ==
  ASSUME FitInv, LinkInv, Answer
  PROVE  LinkInv'
<1>1. /\ call.op = "search" /\ call'.op = "none"
      /\ UNCHANGED <<header, lists, stored, crashes>>
  BY DEF Answer, Return, Forget, NoCall
<1>2. Known' = Known
  BY <1>1 DEF Known, Nodes, header
<1> QED
  BY <1>1, <1>2, EndLinks

LEMMA StoreCountLinks ==
  ASSUME FitInv, LinkInv, StoreCount
  PROVE  LinkInv'
<1>1. /\ pc = "count" /\ call'.op = "none" /\ count' = count + 1 /\ crashes' = crashes
      /\ UNCHANGED <<lists, stored>>
  BY DEF StoreCount, Forget, NoCall
<1>2. call.op = "put"
  BY <1>1 DEF FitInv, IInv, Calling, Stores
<1>3. count \in Nat
  BY CapacityPositive DEF FitInv, IInv, Header
<1>4. Known' = Known
  BY <1>1, <1>2, <1>3 DEF Known, Nodes
<1> QED
  BY <1>1, <1>4, EndLinks

LEMMA AdvanceRowLinks ==
  ASSUME FitInv, LinkInv, AdvanceRow
  PROVE  LinkInv'
<1>1. pc = "row" /\ UNCHANGED <<header, lists, stored, crashes, call>>
  BY DEF AdvanceRow
<1>2. call.op = "none"
  BY <1>1 DEF FitInv, IInv, Calling
<1>3. Known' = Known
  BY <1>1, <1>2 DEF Known, Nodes, header
<1> QED
  BY <1>1, <1>2, <1>3, EndLinks

LEMMA StoreLinks ==
  ASSUME FitInv, LinkInv, StoreEntry \/ StoreLayer \/ StoreFlag
  PROVE  LinkInv'
<1>1. /\ pc \in Stores /\ pc' \in Stores /\ call' = call /\ count' = count
      /\ crashes' = crashes /\ UNCHANGED <<lists, stored>>
  BY DEF StoreEntry, StoreLayer, StoreFlag, Stores
<1>2. pc # "node" /\ pc' \notin {"node"} \cup Walks
  BY <1>1 DEF Stores, Walks
<1>3. Known' = Known
  BY <1>1, <1>2 DEF Known, Nodes
<1>4. Linking'
  BY <1>2 DEF Linking, Walks
<1> QED
  BY <1>1, <1>3, <1>4, QuietLinks DEF LinkInv

LEMMA ReserveLinks ==
  ASSUME FitInv, LinkInv, NEW v \in Vectors, NEW lvl \in Levels, PutReserve(v, lvl)
  PROVE  LinkInv'
<1>1. /\ pc = "idle" /\ pc' = "node" /\ nextChunk' = nextChunk + lvl
      /\ upper' = [c \in DOMAIN upper |->
                     IF c \in nextChunk..(nextChunk + lvl - 1) THEN << >> ELSE upper[c]]
      /\ call' = [op |-> "put", q |-> v, level |-> lvl, ef |-> EfConstruction]
      /\ count' = count /\ crashes' = crashes /\ l0' = l0 /\ node' = node /\ vector' = vector
      /\ Room(lvl)
  BY DEF PutReserve, Starts, stored
<1>2. call.op = "none" /\ call'.op = "put" /\ call'.level = lvl
  BY <1>1 DEF FitInv, IInv, Calling
<1>3. Known' = Known /\ Known = Nodes
  BY <1>1, <1>2 DEF Known, Nodes
<1>4. lvl \in Nat /\ nextChunk \in Nat /\ nextChunk \in 0..ArenaChunks /\ Nodes \subseteq Ids
  BY GraphAssumption DEF FitInv, IInv, Header, Nodes, Ids
<1>5. ASSUME NEW n \in Nodes, NEW l \in Nat PROVE Neighbors(n, l)' = Neighbors(n, l)
  <2>1. PICK ln \in Nat, cn \in Nat : ln = node[n].level /\ cn = node[n].chunk
    BY <1>4 DEF FitInv, IInv, Header
  <2>2. CASE l > ln \/ l = 0
    BY <1>1, <2>1, <2>2 DEF Neighbors
  <2>3. CASE ~(l > ln \/ l = 0)
    <3>1. cn + l - 1 \in Chunks(n)
      BY <2>1, <2>3 DEF Chunks
    <3>2. cn + l - 1 \in 0..(nextChunk - 1)
      BY <1>4, <3>1 DEF FitInv, ChunksInside
    <3>3. cn + l - 1 \in DOMAIN upper /\ cn + l - 1 \notin nextChunk..(nextChunk + lvl - 1)
      BY <1>4, <3>2, GraphAssumption DEF FitInv, RoomInv
    <3> QED
      BY <1>1, <2>1, <2>3, <3>3 DEF Neighbors
  <2> QED
    BY <2>2, <2>3
<1>6. crashes = 0 => AllLinked'
  BY <1>1, <1>3, <1>5, LinksKept DEF LinkInv
<1>7. Linking'
  <2>1. ASSUME NEW c \in (nextChunk' - lvl)..(nextChunk' - 1) PROVE upper'[c] = << >>
    <3>1. nextChunk + lvl <= ArenaChunks \/ lvl = 0
      BY <1>1 DEF Room
    <3>2. c \in nextChunk..(nextChunk + lvl - 1) /\ c \in 0..(ArenaChunks - 1)
      BY <1>1, <1>4, <2>1, <3>1, GraphAssumption
    <3> QED
      BY <1>1, <3>2 DEF FitInv, RoomInv
  <2> QED
    BY <1>1, <1>2, <2>1 DEF Linking, Walks
<1> QED
  BY <1>1, <1>6, <1>7 DEF LinkInv

(* The new node has no list yet, and no list leads to it.                   *)
LEMMA StoreNodeLinks ==
  ASSUME FitInv, FitInv', LinkInv, PutNode \/ PutAborts
  PROVE  LinkInv'
<1>1. /\ pc = "node" /\ NewNode /\ upper' = upper /\ count' = count /\ crashes' = crashes
      /\ nextChunk' = nextChunk
      /\ vector' = vector \/ vector' = [vector EXCEPT ![count] = call.q]
      /\ \/ call' = call /\ pc' \in {"entry", "descend"} /\ call.op = "put"
            /\ (pc' = "descend" => ~empty /\ cur' = entry /\ layer' = topLayer)
         \/ pc' = "idle" /\ call'.op = "none"
  BY DEF PutNode, PutAborts, header, Return, Forget, NoCall, FitInv, IInv, Calling
<1>2. Known = Nodes /\ Nodes' = Nodes
  BY <1>1 DEF Known, Nodes
<1>3. /\ count \in Ids /\ count \in Nat /\ call.level \in Nat
      /\ node'[count].level = call.level
      /\ call.level > 0 => node'[count].chunk = nextChunk - call.level
      /\ \A n \in Nodes : n \in Ids /\ n # count /\ node'[n] = node[n]
  BY <1>1, NodeStored DEF FitInv
<1>4. \A n \in Nodes : vector'[n] = vector[n] /\ l0'[n] = l0[n]
  BY <1>1, <1>3 DEF NewNode, FitInv, VectorInv, RoomInv
<1>5. l0'[count] = << >>
  BY <1>1, <1>3 DEF NewNode, FitInv, RoomInv
<1>6. \A n \in Nodes, l \in Nat : Neighbors(n, l)' = Neighbors(n, l)
  BY <1>1, <1>3, <1>4 DEF Neighbors
<1>7. ASSUME crashes = 0, NEW l \in Nat, call.op = "put" PROVE Neighbors(count, l)' = << >>
  <2>1. CASE l > call.level
    BY <1>1, <1>3, <2>1 DEF Neighbors
  <2>2. CASE l = 0
    BY <1>1, <1>3, <1>5, <2>2 DEF Neighbors
  <2>3. CASE ~(l > call.level) /\ l # 0
    <3>1. nextChunk \in Nat
      BY GraphAssumption DEF FitInv, IInv, Header
    <3>2. PICK c \in Int : c = nextChunk - call.level + l - 1
      BY <1>3, <3>1
    <3>3. c \in (nextChunk - call.level)..(nextChunk - 1)
      BY <1>3, <2>3, <3>1, <3>2
    <3>4. upper[c] = << >>
      BY <1>1, <1>7, <3>3 DEF LinkInv, Linking
    <3>5. node'[count].chunk = nextChunk - call.level /\ ~(l > node'[count].level)
      BY <1>3, <2>3
    <3> QED
      BY <1>1, <2>3, <3>2, <3>4, <3>5 DEF Neighbors
  <2> QED
    BY <2>1, <2>2, <2>3
<1>8. ASSUME crashes = 0 PROVE AllLinked'
  <2>1. AllLinked
    BY <1>8 DEF LinkInv
  <2>2. Known' \in {Nodes, Nodes \cup {count}} /\ (count \in Known' => call.op = "put")
    <3>1. 0..count = Nodes \cup {count}
      BY <1>3 DEF Nodes
    <3>2. pc' # "node" /\ (Known' = 0..count' \/ Known' = Nodes')
      BY <1>1 DEF Known
    <3>3. pc' = "idle" /\ call'.op = "none" => Known' = Nodes'
      BY DEF Known
    <3> QED
      BY <1>1, <1>2, <1>3, <3>1, <3>2, <3>3
  <2>3. ASSUME NEW n \in Nodes, NEW l \in Nat PROVE AreLinks(n, l, Neighbors(n, l))'
    <3>1. PICK s : s = Neighbors(n, l)
      OBVIOUS
    <3>2. AreLinks(n, l, s)
      BY <1>2, <2>1, <3>1 DEF AllLinked
    <3>3. Different(s)' /\ \A i \in DOMAIN s : IsLink(n, l, s[i])'
      BY <1>2, <1>3, <1>4, <2>2, <3>2 DEF AreLinks, IsLink, Different
    <3> QED
      BY <1>6, <3>1, <3>3 DEF AreLinks, Different
  <2>4. ASSUME NEW l \in Nat, call.op = "put" PROVE AreLinks(count, l, Neighbors(count, l))'
    <3>1. Neighbors(count, l)' = << >>
      BY <1>7, <1>8, <2>4
    <3> QED
      BY <3>1 DEF AreLinks, Different
  <2>5. \A n \in Known', l \in Nat : AreLinks(n, l, Neighbors(n, l))'
    <3> SUFFICES ASSUME NEW n \in Known', NEW l \in Nat PROVE AreLinks(n, l, Neighbors(n, l))'
      OBVIOUS
    <3>1. CASE n \in Nodes
      BY <2>3, <3>1
    <3>2. CASE n = count /\ n \notin Nodes
      <4>1. AreLinks(count, l, Neighbors(count, l))'
        BY <2>2, <2>4, <3>2
      <4>2. Neighbors(n, l)' = Neighbors(count, l)' /\ n = count'
        BY <1>1, <3>2 DEF Neighbors
      <4> QED
        BY <1>1, <4>1, <4>2 DEF AreLinks, IsLink, Different
    <3> QED
      BY <2>2, <3>1, <3>2
  <2> QED
    BY <2>5 DEF AllLinked
<1>9. ASSUME crashes = 0, pc' = "descend", NEW l \in Nat PROVE FreshAt(l)'
  <2>1. Neighbors(count, l)' = << >>
    BY <1>1, <1>7, <1>9
  <2>2. ASSUME NEW n \in Nodes PROVE count \notin Linked(Neighbors(n, l))
    <3>1. AreLinks(n, l, Neighbors(n, l))
      BY <1>2, <1>9 DEF LinkInv, AllLinked
    <3>2. count \notin Known
      BY <1>2, <1>3
    <3> QED
      BY <3>1, <3>2 DEF AreLinks, IsLink, Linked
  <2> QED
    BY <1>1, <1>2, <1>6, <2>1, <2>2 DEF FreshAt, Linked
<1>10. ASSUME crashes = 0, pc' = "descend" PROVE OnLayer(cur)'
  <2>1. entry \in Nodes /\ node[entry].level = topLayer
    BY <1>1, <1>10 DEF FitInv, IInv, EntryInv, Highest
  <2>2. node'[entry].level = topLayer /\ topLayer \in Nat
    <3>1. topLayer \in Nat
      BY GraphAssumption DEF FitInv, BoundInv
    <3> QED
      BY <1>3, <2>1, <3>1
  <2> QED
    BY <1>1, <1>2, <1>10, <2>1, <2>2 DEF OnLayer
<1>11. ASSUME crashes = 0, call'.op = "put" PROVE Linking'
  <2>1. pc' \in {"entry", "descend"}
    BY <1>1, <1>11
  <2> QED
    BY <1>9, <1>10, <1>11, <2>1 DEF Linking, Walks
<1> QED
  BY <1>1, <1>8, <1>11 DEF LinkInv

(* The links a put follows at a fresh layer lead to nodes that count and    *)
(* have the layer.                                                          *)
LEMMA LinksOnLayer ==
  ASSUME FitInv, AllLinked, call.op = "put", pc # "node", NEW n, OnLayer(n), FreshAt(layer)
  PROVE  \A m \in Linked(Neighbors(n, layer)) : OnLayer(m)
<1>1. n \in Nodes /\ n \in Known /\ layer \in Nat /\ Known = Nodes \cup {count}
  BY WhoIsLinked DEF FitInv, WalkInv, OnLayer
<1>2. AreLinks(n, layer, Neighbors(n, layer)) /\ count \notin Linked(Neighbors(n, layer))
  BY <1>1 DEF AllLinked, FreshAt
<1> SUFFICES ASSUME NEW i \in DOMAIN Neighbors(n, layer) PROVE OnLayer(Neighbors(n, layer)[i].id)
  BY DEF Linked
<1>3. IsLink(n, layer, Neighbors(n, layer)[i]) /\ Neighbors(n, layer)[i].id # count
  BY <1>2 DEF AreLinks, Linked
<1> QED
  BY <1>1, <1>3 DEF IsLink, OnLayer

(* The steps of a walk leave all lists as they are.                         *)
LEMMA WalkLinks ==
  ASSUME FitInv, LinkInv, UNCHANGED <<header, lists, stored, row, crashes, call>>,
         pc \in Walks, pc' # "node", crashes = 0 /\ call.op = "put" => Linking'
  PROVE  LinkInv'
<1>1. Known' = Known
  BY DEF Known, Nodes, header, Walks
<1> QED
  BY <1>1, QuietLinks DEF LinkInv

LEMMA HopLinks ==
  ASSUME FitInv, FitInv', LinkInv, Hop
  PROVE  LinkInv'
<1>1. /\ pc = "descend" /\ pc' = pc /\ Nearer # {} /\ cur' = Nearest(Nearer) /\ layer' = layer
      /\ UNCHANGED <<header, lists, stored, row, crashes, call>>
  BY DEF Hop
<1>2. ASSUME crashes = 0, call.op = "put" PROVE Linking'
  <2>1. AllLinked /\ OnLayer(cur) /\ \A l \in Nat : FreshAt(l)
    BY <1>1, <1>2 DEF LinkInv, Linking, Walks
  <2>2. layer \in Nat /\ cur \in Ids /\ Written \subseteq Ids
    BY MetFacts DEF FitInv, WalkInv
  <2>3. \A m \in Linked(Neighbors(cur, layer)) : OnLayer(m)
    BY <1>1, <1>2, <2>1, <2>2, LinksOnLayer
  <2>4. cur' \in Nearer
    <3>1. Nearer \in SUBSET Ids
      BY <2>2, NeighborsFacts DEF Nearer
    <3> QED
      BY <1>1, <1>2, <3>1, NearestFacts DEF FitInv
  <2>5. OnLayer(cur')
    BY <2>3, <2>4 DEF Nearer
  <2>6. OnLayer(cur)'
    BY <1>1, <2>5 DEF OnLayer, Nodes, header, stored
  <2>7. \A l \in Nat : FreshAt(l)'
    BY <1>1, <2>1, FreshKept DEF header
  <2> QED
    BY <1>1, <2>6, <2>7 DEF Linking, Walks
<1> QED
  BY <1>1, <1>2, WalkLinks DEF Walks

LEMMA LayerDownLinks ==
  ASSUME FitInv, FitInv', LinkInv, LayerDown
  PROVE  LinkInv'
<1>1. /\ pc = "descend" /\ pc' = pc /\ cur' = cur /\ layer' = layer - 1
      /\ UNCHANGED <<header, lists, stored, row, crashes, call>>
  BY DEF LayerDown
<1>2. ASSUME crashes = 0, call.op = "put" PROVE Linking'
  <2>1. OnLayer(cur) /\ \A l \in Nat : FreshAt(l)
    BY <1>1, <1>2 DEF LinkInv, Linking, Walks
  <2>2. layer \in Nat /\ layer' \in Nat /\ layer' <= layer
    BY <1>1 DEF FitInv, WalkInv
  <2>3. OnLayer(cur)'
    <3>1. PICK n : n = cur
      OBVIOUS
    <3>2. OnLayer(n)'
      BY <1>1, <2>1, <2>2, <3>1, LayerKept DEF header, FitInv
    <3> QED
      BY <1>1, <3>1, <3>2 DEF OnLayer
  <2>4. \A l \in Nat : FreshAt(l)'
    BY <1>1, <2>1, FreshKept DEF header
  <2> QED
    BY <1>1, <2>3, <2>4 DEF Linking, Walks
<1> QED
  BY <1>1, <1>2, WalkLinks DEF Walks

LEMMA BeginLinks ==
  ASSUME FitInv, FitInv', LinkInv, BeginSearch
  PROVE  LinkInv'
<1>1. /\ pc = "descend" /\ pc' = "expand" /\ cur' = cur /\ layer' = layer /\ Begin(cur)
      /\ UNCHANGED <<header, lists, stored, row, crashes, call>>
  BY DEF BeginSearch
<1>2. ASSUME crashes = 0, call.op = "put" PROVE Linking'
  <2>1. OnLayer(cur) /\ \A l \in Nat : FreshAt(l)
    BY <1>1, <1>2 DEF LinkInv, Linking, Walks
  <2>2. layer \in Nat
    BY DEF FitInv, WalkInv
  <2>3. OnLayer(cur)'
    BY <1>1, <2>1 DEF OnLayer, Nodes, header, stored
  <2>4. \A l \in 0..layer : FreshAt(l)'
    BY <1>1, <2>1, FreshKept DEF header
  <2>5. \A n \in search'.seen : OnLayer(n)'
    <3>1. search'.seen = {cur}
      BY <1>1 DEF Begin
    <3> QED
      BY <1>1, <2>3, <3>1 DEF OnLayer
  <2> QED
    BY <1>1, <2>3, <2>4, <2>5 DEF Linking, Walks
<1> QED
  BY <1>1, <1>2, WalkLinks DEF Walks

LEMMA ExpandLinks ==
  ASSUME FitInv, FitInv', LinkInv, Expand
  PROVE  LinkInv'
<1>1. /\ pc = "expand" /\ pc' = pc /\ cur' = cur /\ layer' = layer
      /\ ~Searched /\ search' = Expanded(Nearest(search.cand))
      /\ UNCHANGED <<header, lists, stored, row, crashes, call>>
  BY DEF Expand
<1>2. ASSUME crashes = 0, call.op = "put" PROVE Linking'
  <2>1. /\ AllLinked /\ OnLayer(cur) /\ \A l \in 0..layer : FreshAt(l)
        /\ \A n \in search.seen : OnLayer(n)
    BY <1>1, <1>2 DEF LinkInv, Linking, Walks
  <2>2. /\ layer \in Nat /\ search \in Heaps(Met) /\ Met \in SUBSET Ids /\ Written \subseteq Met
        /\ call.ef \in Nat \ {0}
    BY <1>2, MetFacts DEF FitInv, WalkInv, BoundInv
  <2>3. FreshAt(layer)
    <3>1. layer \in 0..layer
      BY <2>2
    <3> QED
      BY <2>1, <3>1
  <2>4. search.cand # {} /\ search.cand \subseteq search.seen /\ search.cand \in SUBSET Ids
    BY <1>1, <2>2 DEF Heaps, Searched
  <2>5. PICK c \in search.cand : c = Nearest(search.cand)
    BY <1>2, <2>4, NearestFacts DEF FitInv
  <2>6. c \in Ids /\ OnLayer(c)
    BY <2>1, <2>4, <2>5
  <2>7. PICK list \in Seq(Entries) : list = Neighbors(c, layer) /\ Linked(list) \subseteq Met
    BY <2>2, <2>6, NeighborsFacts
  <2>8. \A n \in Linked(list) : OnLayer(n)
    BY <1>1, <1>2, <2>1, <2>3, <2>6, <2>7, LinksOnLayer
  <2>9. search'.seen = search.seen \cup Linked(list)
    <3>1. IsExpanded(Met, c, list, search')
      BY <1>1, <2>2, <2>5, <2>7, ExpandedFacts
    <3> QED
      BY <3>1 DEF IsExpanded
  <2>10. \A n \in search'.seen : OnLayer(n)
    BY <2>1, <2>8, <2>9
  <2>11. \A n : OnLayer(n) => OnLayer(n)'
    BY <1>1 DEF OnLayer, Nodes, header, stored
  <2>12. OnLayer(cur)'
    BY <1>1, <2>1 DEF OnLayer, Nodes, header, stored
  <2>13. \A l \in 0..layer : FreshAt(l)'
    BY <1>1, <2>1, FreshKept DEF header
  <2> QED
    BY <1>1, <2>10, <2>11, <2>12, <2>13 DEF Linking, Walks
<1> QED
  BY <1>1, <1>2, WalkLinks DEF Walks

LEMMA LayerLinkedLinks ==
  ASSUME FitInv, FitInv', LinkInv, LayerLinked
  PROVE  LinkInv'
<1>1. /\ pc = "link" /\ cur' = cur
      /\ UNCHANGED <<header, lists, stored, row, crashes, call>>
      /\ \/ pc' = "entry"
         \/ layer # 0 /\ pc' = "expand" /\ layer' = layer - 1 /\ Begin(cur)
  BY DEF LayerLinked
<1>2. ASSUME crashes = 0, call.op = "put" PROVE Linking'
  <2>1. CASE pc' = "entry"
    BY <2>1 DEF Linking, Walks
  <2>2. CASE layer # 0 /\ pc' = "expand" /\ layer' = layer - 1 /\ Begin(cur)
    <3>1. OnLayer(cur) /\ \A l \in 0..(layer - 1) : FreshAt(l)
      BY <1>1, <1>2 DEF LinkInv, Linking, Walks
    <3>2. layer \in Nat /\ layer' \in Nat /\ layer' <= layer
      BY <2>2 DEF FitInv, WalkInv
    <3>3. OnLayer(cur)'
      <4>1. PICK n : n = cur
        OBVIOUS
      <4>2. OnLayer(n)'
        BY <1>1, <3>1, <3>2, <4>1, LayerKept DEF header, FitInv
      <4> QED
        BY <1>1, <4>1, <4>2 DEF OnLayer
    <3>4. \A l \in 0..layer' : FreshAt(l)'
      <4>1. \A l \in 0..(layer - 1) : l \in Nat
        BY <3>2
      <4> QED
        BY <1>1, <2>2, <3>1, <4>1, FreshKept DEF header
    <3>5. \A n \in search'.seen : OnLayer(n)'
      <4>1. search'.seen = {cur}
        BY <2>2 DEF Begin
      <4> QED
        BY <1>1, <3>3, <4>1 DEF OnLayer
    <3> QED
      BY <2>2, <3>3, <3>4, <3>5 DEF Linking, Walks
  <2> QED
    BY <1>1, <2>1, <2>2
<1> QED
  BY <1>1, <1>2, WalkLinks DEF Walks

LEMMA ConnectedLinks ==
  ASSUME FitInv, NEW n \in Ids, NEW l \in Nat, NEW new \in Seq(Entries), NEW all,
         all = Neighbors(n, l) \o new, AreLinks(n, l, all)
  PROVE  /\ AreLinks(n, l, Connected(n, l, new).kept)
         /\ \A i \in DOMAIN Connected(n, l, new).kept :
              \E j \in DOMAIN all : Connected(n, l, new).kept[i] = all[j]
<1>1. all \in Seq(Entries)
  <2>1. PICK old \in Seq(Entries) : old = Neighbors(n, l)
    BY NeighborsFacts
  <2>2. old \o new \in Seq(Entries)
    OBVIOUS
  <2> QED
    BY <2>1, <2>2
<1>2. CASE Len(all) <= ListSize(l)
  <2>1. Connected(n, l, new).kept = all
    BY <1>2 DEF Connected
  <2> QED
    BY <2>1
<1>3. CASE ~(Len(all) <= ListSize(l))
  <2> DEFINE kept == Connected(n, l, new).kept
  <2>1. kept = Heuristic(all, ListSize(l)).kept
    BY <1>3 DEF Connected
  <2>2. ListSize(l) \in Nat
    BY GraphAssumption DEF ListSize
  <2> HIDE DEF kept
  <2>3. From(kept, all, Len(all)) /\ (Different(all) => Different(kept))
    BY <1>1, <2>1, <2>2, HeuristicFacts
  <2>4. \A i \in DOMAIN kept : \E j \in DOMAIN all : kept[i] = all[j]
    BY <1>1, <2>3 DEF From
  <2>5. AreLinks(n, l, kept)
    BY <2>3, <2>4, SomeAreLinks
  <2> QED
    BY <2>4, <2>5 DEF kept
<1> QED
  BY <1>2, <1>3

LEMMA FreshSet ==
  ASSUME FitInv, call.op = "put", pc # "node", UNCHANGED <<count, node>>,
         NEW n \in Known, NEW k \in Nat, NEW list, SetNeighbors(n, k, list),
         NEW l \in Nat, l # k, FreshAt(l)
  PROVE  FreshAt(l)'
<1>1. Known = Nodes \cup {count} /\ Nodes' = Nodes
  BY WhoIsLinked DEF FitInv, Nodes
<1>2. \A m \in Known : Neighbors(m, l)' = Neighbors(m, l)
  BY OneListSet
<1>3. Neighbors(count, l)' = << >>
  <2>1. PICK c \in Known : c = count
    BY <1>1
  <2>2. Neighbors(c, l)' = << >>
    BY <1>2, <2>1 DEF FreshAt
  <2> QED
    BY <2>1, <2>2 DEF Neighbors
<1>4. \A m \in Nodes : Linked(Neighbors(m, l))' = Linked(Neighbors(m, l))
  BY <1>1, <1>2 DEF Linked
<1> QED
  BY <1>1, <1>3, <1>4 DEF FreshAt

(* What a step that writes one list leaves to do.                           *)
LEMMA SetLinking ==
  ASSUME FitInv, call.op = "put", pc \in {"expand", "link"}, pc' = "link", layer' = layer,
         UNCHANGED <<header, stored, call>>,
         NEW n \in Known, NEW list, SetNeighbors(n, layer, list),
         OnLayer(cur'), \A l \in 0..(layer - 1) : FreshAt(l),
         Different(links'.backs),
         \A i \in DOMAIN links'.backs : WillLinkBack(links'.backs[i]),
         \A i \in DOMAIN links'.backs :
           \/ links'.backs[i].id # n
           \/ count \notin Linked(list)
  PROVE  Linking'
<1>1. /\ node' = node /\ vector' = vector /\ count' = count /\ call' = call /\ Nodes' = Nodes
      /\ pc # "node" /\ layer \in Nat
  BY DEF header, stored, Nodes, FitInv, WalkInv
<1>2. OnLayer(cur)'
  BY <1>1 DEF OnLayer
<1>3. ASSUME NEW l \in 0..(layer - 1) PROVE FreshAt(l)'
  <2>1. l \in Nat /\ l # layer
    BY <1>1
  <2> QED
    BY <1>1, <2>1, FreshSet
<1>4. ASSUME NEW i \in DOMAIN links'.backs PROVE WillLinkBack(links.backs[i])'
  <2>1. PICK e : e = links'.backs[i]
    OBVIOUS
  <2>2. WillLinkBack(e)
    BY <2>1
  <2>3. e.id \in Known
    BY <1>1, <2>2, WhoIsLinked DEF WillLinkBack, OnLayer, FitInv
  <2>4. \/ Neighbors(e.id, layer)' = Neighbors(e.id, layer)
        \/ Neighbors(e.id, layer)' = list /\ e.id = n
    <3>1. PICK m \in Known : m = e.id
      BY <2>3
    <3>2. PICK k \in Nat : k = layer
      BY <1>1
    <3>3. Neighbors(m, k)' = IF m = n /\ k = k /\ k <= node[n].level THEN list ELSE Neighbors(m, k)
      BY <1>1, <3>2, OneListSet
    <3>4. Neighbors(e.id, layer)' = Neighbors(m, k)'
      BY <1>1, <3>1, <3>2 DEF Neighbors
    <3> QED
      BY <3>1, <3>2, <3>3, <3>4
  <2>5. count \notin Linked(Neighbors(e.id, layer)')
    BY <2>1, <2>2, <2>4 DEF WillLinkBack
  <2>6. OnLayer(e.id)' /\ e.d = Dist[call'.q, vector'[e.id]]
    BY <1>1, <2>2 DEF OnLayer, WillLinkBack
  <2>7. WillLinkBack(e)'
    BY <1>1, <2>5, <2>6 DEF WillLinkBack, Linked
  <2> QED
    BY <2>1, <2>7 DEF WillLinkBack, OnLayer, Linked, Neighbors
<1>5. Different(links.backs)'
  BY DEF Different
<1> QED
  BY <1>1, <1>2, <1>3, <1>4, <1>5 DEF Linking, Walks

LEMMA LinkLinks ==
  ASSUME FitInv, FitInv', LinkInv, Link
  PROVE  LinkInv'
<1>1. PICK selected : selected = Heuristic(Sorted, KeptAtMost).kept
  OBVIOUS
<1>2. PICK list : list = Connected(count, layer, selected).kept
  OBVIOUS
<1>3. /\ pc = "expand" /\ call.op = "put" /\ pc' = "link"
      /\ SetNeighbors(count, layer, list)
      /\ links'.backs = NewlyAdded(list, selected)
      /\ cur' = selected[1].id /\ layer' = layer
      /\ UNCHANGED <<header, stored, row, crashes, call>>
  BY <1>1, <1>2 DEF Link
<1> SUFFICES ASSUME crashes = 0 PROVE AllLinked' /\ Linking'
  BY <1>3 DEF LinkInv
<1>4. /\ AllLinked /\ \A l \in 0..layer : FreshAt(l)
      /\ \A n \in search.seen : OnLayer(n)
  BY <1>3 DEF LinkInv, Linking, Walks
<1>5. /\ layer \in Nat /\ search.res \subseteq search.seen /\ vector[count] = call.q
      /\ Known = Nodes \cup {count} /\ count \in Known /\ count \in Ids /\ count \notin Nodes
  BY <1>3, WhoIsLinked DEF FitInv, WalkInv, Heaps, VectorInv
<1>6. FreshAt(layer)
  <2>1. layer \in 0..layer
    BY <1>5
  <2> QED
    BY <1>4, <2>1
<1>7. /\ selected \in Seq(Entries) /\ selected # << >> /\ Different(selected)
      /\ From(selected, Sorted, Len(Sorted))
      /\ \A i \in 1..Len(Sorted) :
           Sorted[i].id \in search.res /\ Sorted[i].d = D(Sorted[i].id)
  BY <1>1, <1>3, SelectedFacts
<1>8. \A i \in DOMAIN selected : WillLinkBack(selected[i])
  <2> SUFFICES ASSUME NEW i \in DOMAIN selected PROVE WillLinkBack(selected[i])
    OBVIOUS
  <2>1. PICK j \in 1..Len(Sorted) : selected[i] = Sorted[j]
    BY <1>7 DEF From
  <2>2. OnLayer(selected[i].id) /\ selected[i].d = Dist[call.q, vector[selected[i].id]]
    BY <1>4, <1>5, <1>7, <2>1 DEF D
  <2> QED
    BY <1>6, <2>2 DEF WillLinkBack, FreshAt, OnLayer
<1>9. AreLinks(count, layer, selected)
  BY <1>5, <1>7, <1>8 DEF AreLinks, IsLink, WillLinkBack, OnLayer
<1>10. selected = Neighbors(count, layer) \o selected
  <2>1. << >> \o selected = selected
    BY <1>7
  <2> QED
    BY <1>6, <2>1 DEF FreshAt
<1>11. /\ AreLinks(count, layer, list)
       /\ \A i \in DOMAIN list : \E j \in DOMAIN selected : list[i] = selected[j]
  BY <1>2, <1>5, <1>7, <1>9, <1>10, ConnectedLinks
<1>12. \A i \in DOMAIN list : WillLinkBack(list[i])
  BY <1>8, <1>11
<1>13. AllLinked'
  BY <1>3, <1>4, <1>5, <1>11, LinksSet
<1>14. /\ Different(links'.backs)
       /\ \A i \in DOMAIN links'.backs : WillLinkBack(links'.backs[i])
  <2>1. list \in Seq(Entries)
    BY <1>2, <1>5, <1>7, ConnectedFacts
  <2>2. /\ From(links'.backs, list, Len(list))
        /\ Different(list) => Different(links'.backs)
    BY <1>3, <2>1, NewlyAddedFacts
  <2>3. \A i \in DOMAIN links'.backs : \E j \in DOMAIN list : links'.backs[i] = list[j]
    BY <2>1, <2>2 DEF From
  <2>4. Different(list)
    BY <1>11 DEF AreLinks
  <2> QED
    BY <1>12, <2>2, <2>3, <2>4
<1>15. OnLayer(cur')
  <2>1. 1 \in DOMAIN selected
    BY <1>7
  <2> QED
    BY <1>3, <1>8, <2>1 DEF WillLinkBack
<1>16. \A i \in DOMAIN links'.backs : links'.backs[i].id # count
  BY <1>5, <1>14 DEF WillLinkBack, OnLayer
<1>17. \A l \in 0..(layer - 1) : FreshAt(l)
  <2>1. \A l \in 0..(layer - 1) : l \in 0..layer
    BY <1>5
  <2> QED
    BY <1>4, <2>1
<1>18. Linking'
  BY <1>3, <1>5, <1>14, <1>15, <1>16, <1>17, SetLinking
<1> QED
  BY <1>13, <1>18

LEMMA LinkBackLinks ==
  ASSUME FitInv, FitInv', LinkInv, LinkBack
  PROVE  LinkInv'
<1>1. PICK to : to = Head(links.backs)
  OBVIOUS
<1>2. PICK e : e = [id |-> count, d |-> to.d]
  OBVIOUS
<1>3. PICK list : list = Connected(to.id, layer, <<e>>).kept
  OBVIOUS
<1>4. /\ pc = "link" /\ pc' = pc /\ links.backs # << >>
      /\ SetNeighbors(to.id, layer, list)
      /\ links'.backs = Tail(links.backs)
      /\ cur' = cur /\ layer' = layer
      /\ UNCHANGED <<header, stored, row, crashes, call>>
  BY <1>1, <1>2, <1>3 DEF LinkBack
<1> SUFFICES ASSUME crashes = 0, call.op = "put" PROVE AllLinked' /\ Linking'
  BY <1>4 DEF LinkInv, FitInv, IInv, Calling
<1>5. /\ AllLinked /\ OnLayer(cur) /\ \A l \in 0..(layer - 1) : FreshAt(l)
      /\ Different(links.backs) /\ \A i \in DOMAIN links.backs : WillLinkBack(links.backs[i])
  BY <1>4 DEF LinkInv, Linking, Walks
<1>6. /\ layer \in Nat /\ links.backs \in Seq(Entries) /\ vector[count] = call.q
      /\ Known = Nodes \cup {count} /\ count \in Known /\ count \in Ids /\ count \notin Nodes
      /\ count \in Written /\ node[count].level = call.level /\ layer <= call.level
      /\ Nodes \subseteq Ids
  BY <1>4, WhoIsLinked, MetFacts DEF FitInv, WalkInv, VectorInv
<1>7. PICK k \in Nat : k = Len(links.backs) /\ k > 0 /\ DOMAIN links.backs = 1..k
                       /\ to = links.backs[1] /\ DOMAIN Tail(links.backs) = 1..(k - 1)
                       /\ \A i \in 1..(k - 1) : Tail(links.backs)[i] = links.backs[i + 1]
  BY <1>1, <1>4, <1>6
<1>8. WillLinkBack(to) /\ to \in Entries
  BY <1>5, <1>6, <1>7
<1>9. to.id \in Nodes /\ node[to.id].level >= layer /\ to.id \in Known /\ to.id \in Ids
      /\ count \notin Linked(Neighbors(to.id, layer)) /\ to.d = Dist[call.q, vector[to.id]]
  BY <1>6, <1>8 DEF WillLinkBack, OnLayer
<1>10. IsLink(to.id, layer, e)
  <2>1. e.id = count /\ e.d = to.d
    BY <1>2
  <2>2. vector[to.id] \in Points /\ call.q \in Points
    BY <1>9 DEF FitInv, VectorInv, Points
  <2>3. Dist[call.q, vector[to.id]] = Dist[vector[to.id], vector[count]]
    BY <1>6, <2>2, NoTies
  <2>4. count # to.id
    BY <1>6, <1>9
  <2> QED
    BY <1>6, <1>9, <2>1, <2>3, <2>4 DEF IsLink
<1>11. <<e>> \in Seq(Entries)
  <2>1. e \in Entries
    BY <1>2, <1>6, <1>8 DEF Entries
  <2> QED
    BY <2>1
<1>12. PICK old \in Seq(Entries) : old = Neighbors(to.id, layer)
  BY <1>6, <1>9, NeighborsFacts
<1>13. AreLinks(to.id, layer, old \o <<e>>)
  <2>1. AreLinks(to.id, layer, old)
    BY <1>5, <1>6, <1>9, <1>12 DEF AllLinked
  <2>2. PICK l \in Nat : l = Len(old) /\ DOMAIN old = 1..l
    BY <1>12
  <2>3. PICK all : all = old \o <<e>>
    OBVIOUS
  <2>4. DOMAIN all = 1..(l + 1) /\ all[l + 1] = e /\ \A i \in 1..l : all[i] = old[i]
    BY <1>11, <1>12, <2>2, <2>3
  <2>5. \A i \in 1..(l + 1) : i \in 1..l \/ i = l + 1
    OBVIOUS
  <2>6. \A i \in 1..l : old[i].id # e.id
    BY <1>2, <1>9, <1>12, <2>2 DEF Linked
  <2>7. \A i \in 1..(l + 1) : IsLink(to.id, layer, all[i])
    BY <1>10, <2>1, <2>2, <2>4, <2>5 DEF AreLinks
  <2>8. Different(all)
    <3> SUFFICES ASSUME NEW i \in 1..(l + 1), NEW j \in 1..(l + 1), all[i].id = all[j].id
                 PROVE  i = j
      BY <2>4 DEF Different
    <3>1. i \in 1..l /\ j \in 1..l => i = j
      BY <2>1, <2>2, <2>4 DEF AreLinks, Different
    <3> QED
      BY <2>4, <2>5, <2>6, <3>1
  <2> QED
    BY <2>3, <2>4, <2>7, <2>8 DEF AreLinks
<1>14. AreLinks(to.id, layer, list)
  BY <1>3, <1>6, <1>9, <1>11, <1>12, <1>13, ConnectedLinks
<1>15. AllLinked'
  BY <1>4, <1>5, <1>6, <1>9, <1>14, LinksSet
<1>16. \A i \in DOMAIN links'.backs :
         /\ i \in 1..(k - 1) /\ i + 1 \in 1..k /\ i + 1 # 1 /\ 1 \in 1..k
         /\ links'.backs[i] = links.backs[i + 1]
  BY <1>4, <1>7
<1>17. Different(links'.backs)
  <2> SUFFICES ASSUME NEW i \in DOMAIN links'.backs, NEW j \in DOMAIN links'.backs,
                      links'.backs[i].id = links'.backs[j].id
               PROVE  i = j
    BY DEF Different
  <2>1. i + 1 = j + 1
    BY <1>5, <1>7, <1>16 DEF Different
  <2> QED
    BY <1>16, <2>1
<1>18. \A i \in DOMAIN links'.backs : WillLinkBack(links'.backs[i]) /\ links'.backs[i].id # to.id
  <2> SUFFICES ASSUME NEW i \in DOMAIN links'.backs
               PROVE  WillLinkBack(links'.backs[i]) /\ links'.backs[i].id # to.id
    OBVIOUS
  <2>1. i + 1 \in DOMAIN links.backs /\ 1 \in DOMAIN links.backs /\ i + 1 # 1
    BY <1>7, <1>16
  <2>2. links.backs[i + 1].id # links.backs[1].id
    BY <1>5, <2>1 DEF Different
  <2> QED
    BY <1>5, <1>7, <1>16, <2>1, <2>2
<1>19. Linking'
  BY <1>4, <1>5, <1>9, <1>17, <1>18, SetLinking
<1> QED
  BY <1>15, <1>19

LEMMA DropLinks ==
  ASSUME FitInv, FitInv', LinkInv, DropLink
  PROVE  LinkInv'
<1>1. PICK from : from = Head(links.drops)
  OBVIOUS
<1>2. PICK list : list = Without(Neighbors(from, layer), links.owner)
  OBVIOUS
<1>3. /\ pc = "link" /\ pc' = pc /\ links.drops # << >>
      /\ SetNeighbors(from, layer, list)
      /\ links'.backs = links.backs
      /\ cur' = cur /\ layer' = layer
      /\ UNCHANGED <<header, stored, row, crashes, call>>
  BY <1>1, <1>2 DEF DropLink
<1> SUFFICES ASSUME crashes = 0, call.op = "put" PROVE AllLinked' /\ Linking'
  BY <1>3 DEF LinkInv, FitInv, IInv, Calling
<1>4. /\ AllLinked /\ OnLayer(cur) /\ \A l \in 0..(layer - 1) : FreshAt(l)
      /\ Different(links.backs) /\ \A i \in DOMAIN links.backs : WillLinkBack(links.backs[i])
  BY <1>3 DEF LinkInv, Linking, Walks
<1>5. layer \in Nat /\ links.drops \in Seq(Written)
  BY DEF FitInv, WalkInv
<1>6. from \in Ids /\ from \in Known
  <2>1. from \in Written
    BY <1>1, <1>3, <1>5, HeadAndTail
  <2>2. count \in Nat /\ Known = 0..count
    BY <1>3, CapacityPositive DEF FitInv, IInv, Header, Known
  <2>3. from \in Ids /\ from <= count
    BY <2>1 DEF Written, Places
  <2> QED
    BY <2>2, <2>3, CapacityPositive DEF Ids
<1>7. PICK old \in Seq(Entries) : old = Neighbors(from, layer)
  BY <1>5, <1>6, NeighborsFacts
<1>8. SubList(list, old)
  BY <1>2, <1>7, WithoutFacts
<1>9. AreLinks(from, layer, list)
  <2>1. AreLinks(from, layer, old)
    BY <1>4, <1>5, <1>6, <1>7 DEF AllLinked
  <2> QED
    BY <1>8, <2>1, SomeAreLinks DEF SubList
<1>10. AllLinked'
  BY <1>3, <1>4, <1>5, <1>6, <1>9, LinksSet
<1>11. \A i \in DOMAIN links'.backs :
         links'.backs[i].id # from \/ count \notin Linked(list)
  <2> SUFFICES ASSUME NEW i \in DOMAIN links.backs, links.backs[i].id = from
               PROVE  count \notin Linked(list)
    BY <1>3
  <2>1. count \notin Linked(old)
    BY <1>3, <1>4, <1>7 DEF WillLinkBack
  <2> QED
    BY <1>8, <2>1 DEF SubList, Linked
<1>12. Linking'
  BY <1>3, <1>4, <1>6, <1>11, SetLinking
<1> QED
  BY <1>10, <1>12

LEMMA InitLinks == Init => LinkInv
<1> SUFFICES ASSUME Init PROVE LinkInv
  OBVIOUS
<1>1. count = 0 /\ call.op = "none"
  BY DEF Init, NoCall
<1>2. Known = {}
  BY <1>1 DEF Known, Nodes
<1> QED
  BY <1>1, <1>2 DEF LinkInv, AllLinked

LEMMA NextLinks == FitInv /\ FitInv' /\ LinkInv /\ [Next]_vars => LinkInv'
<1> SUFFICES ASSUME FitInv, FitInv', LinkInv, [Next]_vars PROVE LinkInv'
  OBVIOUS
<1>1. CASE UNCHANGED vars
  <2>1. /\ UNCHANGED <<count, lists, stored, call, pc, crashes, nextChunk, layer, cur, search, links>>
        /\ UNCHANGED <<node, vector, upper>>
    BY <1>1 DEF vars, header, stored, lists, walk
  <2>2. Known' = Known /\ Nodes' = Nodes
    BY <2>1 DEF Known, Nodes
  <2>3. crashes = 0 => AllLinked'
    BY <2>1, <2>2, QuietLinks DEF LinkInv
  <2>4. \A n : OnLayer(n) => OnLayer(n)'
    BY <2>1, <2>2 DEF OnLayer
  <2>5. OnLayer(cur) => OnLayer(cur)'
    BY <2>1, <2>2 DEF OnLayer
  <2>6. \A l \in Nat : FreshAt(l) => FreshAt(l)'
    BY <2>1, FreshKept
  <2>7. \A e : WillLinkBack(e) => WillLinkBack(e)'
    <3>1. \A e : Neighbors(e.id, layer)' = Neighbors(e.id, layer)
      BY <2>1 DEF Neighbors, lists
    <3> QED
      BY <2>1, <2>2, <3>1 DEF WillLinkBack, OnLayer, Linked
  <2>8. Different(links.backs) => Different(links.backs)'
    BY <2>1 DEF Different
  <2>9. (\A i \in DOMAIN links.backs : WillLinkBack(links.backs[i]))
          => (\A i \in DOMAIN links.backs : WillLinkBack(links.backs[i]))'
    <3> SUFFICES ASSUME \A i \in DOMAIN links.backs : WillLinkBack(links.backs[i]),
                        NEW i \in DOMAIN links'.backs
                 PROVE  WillLinkBack(links.backs[i])'
      OBVIOUS
    <3>1. PICK e : e = links.backs[i]
      OBVIOUS
    <3>2. WillLinkBack(e)' /\ e = links'.backs[i]
      BY <2>1, <2>7, <3>1
    <3> QED
      BY <3>2 DEF WillLinkBack, OnLayer, Linked, Neighbors
  <2>10. layer \in Nat
    BY DEF FitInv, WalkInv
  <2>11. Linking => Linking'
    <3>1. ASSUME Linking, pc \in Walks PROVE Linking'
      <4>1. (\A l \in 0..layer : l \in Nat) /\ \A l \in 0..(layer - 1) : l \in Nat
        BY <2>10
      <4>2. OnLayer(cur)' /\ pc' \in Walks
        BY <2>1, <2>5, <3>1 DEF Linking
      <4>3. pc = "descend" => \A l \in Nat : FreshAt(l)'
        BY <2>6, <3>1 DEF Linking
      <4>4. pc = "expand" => (\A l \in 0..layer : FreshAt(l)') /\ \A n \in search.seen : OnLayer(n)'
        BY <2>4, <2>6, <3>1, <4>1 DEF Linking
      <4>5. pc = "link" => \A l \in 0..(layer - 1) : FreshAt(l)'
        BY <2>6, <3>1, <4>1 DEF Linking
      <4>6. pc = "link" => /\ Different(links.backs)'
                           /\ (\A i \in DOMAIN links.backs : WillLinkBack(links.backs[i]))'
        BY <2>8, <2>9, <3>1 DEF Linking
      <4> QED
        BY <2>1, <4>2, <4>3, <4>4, <4>5, <4>6 DEF Linking, Walks
    <3>2. ASSUME Linking, pc \notin Walks PROVE Linking'
      BY <2>1, <3>2 DEF Linking, Walks
    <3> QED
      BY <3>1, <3>2
  <2> QED
    BY <2>1, <2>3, <2>11 DEF LinkInv
<1>2. CASE \E v \in Vectors, lvl \in Levels : PutRefused(v, lvl) \/ PutReserve(v, lvl)
  BY <1>2, RefusedLinks, ReserveLinks
<1>3. CASE \E s \in Searches : Search(s)
  BY <1>3, SearchLinks
<1>4. CASE PutNode \/ PutAborts
  BY <1>4, StoreNodeLinks
<1>5. CASE Hop \/ LayerDown \/ BeginSearch \/ Expand
  BY <1>5, HopLinks, LayerDownLinks, BeginLinks, ExpandLinks
<1>6. CASE Answer
  BY <1>6, AnswerLinks
<1>7. CASE Crash
  <2>1. crashes' # 0
    <3>1. crashes \in Nat /\ crashes' = crashes + 1
      BY <1>7, GraphAssumption DEF Crash, FitInv, BoundInv
    <3> QED
      BY <3>1
  <2> QED
    BY <2>1 DEF LinkInv
<1>8. CASE Link \/ LinkBack \/ DropLink \/ LayerLinked
  BY <1>8, LinkLinks, LinkBackLinks, DropLinks, LayerLinkedLinks
<1>9. CASE StoreEntry \/ StoreLayer \/ StoreFlag
  BY <1>9, StoreLinks
<1>10. CASE StoreCount
  BY <1>10, StoreCountLinks
<1>11. CASE AdvanceRow
  BY <1>11, AdvanceRowLinks
<1> QED
  BY <1>1, <1>2, <1>3, <1>4, <1>5, <1>6, <1>7, <1>8, <1>9, <1>10, <1>11 DEF Next, Step

(* A link leads to a node that was written, whatever died; as long as no    *)
(* call died, to another stored node of the layer, once, with its distance. *)
THEOREM LinksLeadToNodes == Spec => []LinksSound
<1>1. FitInv /\ LinkInv => LinksSound
  <2> SUFFICES ASSUME FitInv, LinkInv, NEW n \in Known, NEW l \in 0..node[n].level,
                      NEW i \in DOMAIN Neighbors(n, l)
               PROVE  LET list == Neighbors(n, l)
                      IN /\ vector[list[i].id] # Zero
                         /\ crashes = 0 =>
                              /\ list[i].id \in Known \ {n}
                              /\ node[list[i].id].level >= l
                              /\ list[i].d = Dist[vector[n], vector[list[i].id]]
                              /\ \A j \in DOMAIN list : list[j].id = list[i].id => j = i
    BY DEF LinksSound
  <2>1. n \in Ids /\ l \in Nat
    BY CapacityPositive DEF FitInv, IInv, Header, Putting, Known, Nodes, Ids
  <2>2. Neighbors(n, l)[i].id \in Written
    BY <2>1, NeighborsFacts DEF Linked
  <2>3. crashes = 0 => AreLinks(n, l, Neighbors(n, l))
    BY <2>1 DEF LinkInv, AllLinked
  <2> QED
    BY <2>2, <2>3 DEF Written, AreLinks, IsLink, Different
<1>2. Spec => []LinkInv
  BY FitInvariant, InitLinks, NextLinks, PTL DEF Spec
<1> QED
  BY <1>1, <1>2, FitInvariant, PTL
=============================================================================
