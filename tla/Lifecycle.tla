------------------------------ MODULE Lifecycle ------------------------------
(* One directory with the files of a storage, and one process that creates, *)
(* loads and frees it, with opens that fail and deaths of the process      *)
(* (mos_core.c:494-746, mos_memory.c:8-73, 102-113).  Descriptors are the  *)
(* process's numbers for open files; number 0 is its standard input first. *)
EXTENDS Integers, FiniteSets, FiniteSetsExt

CONSTANTS
  IndexCount,
  MaxRecords,
  MaxDescriptors,  \* the size of the process's table of open files
  MaxCreates,      \* bound on calls of mos_create_storage
  MaxFailures,     \* bound on opens that fail
  MaxCrashes,      \* bound on deaths of the process other than by a fault
  None, Stdin

ASSUME CountsAssumption ==
  /\ IndexCount \in Nat \ {0} /\ MaxRecords \in Nat /\ MaxDescriptors \in Nat \ {0}
  /\ MaxCreates \in Nat /\ MaxFailures \in Nat /\ MaxCrashes \in Nat
ASSUME NamesAssumption ==
  /\ None \notin Nat /\ Stdin \notin Nat /\ None # Stdin
  /\ None \notin {"create", "load", "open", "arena", "indexes", "header", "index init"}

(* The files in the order they are opened.                                 *)
Header == 1
Valid == 2
Ready == 3
Records == 4
Silo == 5
Arena == 6
Indexes == 7..(6 + IndexCount)
Files == 1..(6 + IndexCount)
Descriptors == 0..(MaxDescriptors - 1)

VARIABLES
  exists,      \* the files in the directory
  identified,  \* the header holds MOS_FILE_ID
  written,     \* written[f]: the create that last initialised the file, or 0
  nextFree,    \* next_free_row_id, the number of puts
  call,        \* the call the process is in, or None
  stage,       \* what it does next: "open" next, ...
  next,        \* the file it opens next
  region,      \* region[f]: the descriptor of the mapped region, or None
  table,       \* table[d]: the file open under descriptor d, or None
  open,        \* the process holds a storage
  creates, failures, crashes

disk == <<exists, identified, written, nextFree>>
progress == <<call, stage, next>>
process == <<progress, region, table, open>>
bounds == <<creates, failures, crashes>>
vars == <<disk, process, bounds>>

(* A new process has only its standard input open.                         *)
Started == [d \in Descriptors |-> IF d = 0 THEN Stdin ELSE None]

Restarts ==
  /\ call' = None /\ stage' = None /\ next' = Header /\ open' = FALSE
  /\ region' = [f \in Files |-> None] /\ table' = Started

Init ==
  /\ exists = {} /\ identified = FALSE /\ written = [f \in Files |-> 0]
  /\ nextFree = 0
  /\ call = None /\ stage = None /\ next = Header /\ open = FALSE
  /\ region = [f \in Files |-> None] /\ table = Started
  /\ creates = 0 /\ failures = 0 /\ crashes = 0

(* A store through a region that is not mapped.                            *)
Faults == Restarts /\ UNCHANGED <<disk, bounds>>

Enters(name, first) ==
  /\ call = None /\ ~open
  /\ call' = name /\ stage' = first /\ next' = Header
Returns(storage) == call' = None /\ stage' = None /\ next' = Header /\ open' = storage
------------------------------------------------------------------------------
(* mos_memory_region_open: the file is created when there is none.  It     *)
(* fails for want of a descriptor, of space, or of address space, in which *)
(* case a file may have been created; the region is then left zero.        *)
FreeDescriptors == {d \in Descriptors : table[d] = None}
Opened(f) ==
  /\ FreeDescriptors # {}
  /\ region' = [region EXCEPT ![f] = Min(FreeDescriptors)]
  /\ table' = [table EXCEPT ![Min(FreeDescriptors)] = f]
  /\ exists' = exists \cup {f} /\ UNCHANGED failures
OpenFails(f) ==
  /\ \/ FreeDescriptors = {} /\ UNCHANGED <<exists, failures>>
     \/ /\ failures < MaxFailures /\ failures' = failures + 1
        /\ exists' \in {exists, exists \cup {f}}
  /\ UNCHANGED <<region, table>>

CreateStart ==
  /\ creates < MaxCreates /\ creates' = creates + 1
  /\ Enters("create", "open")
  /\ region' = [f \in Files |-> None]
  /\ UNCHANGED <<disk, table, open, failures, crashes>>

(* The files up to the arena are opened one after the other; the results   *)
(* are and-ed into a 0 and never stop a call (577, 675).                   *)
OpenNext ==
  /\ stage = "open" /\ next <= Arena
  /\ Opened(next) \/ OpenFails(next)
  /\ next' = next + 1
  /\ stage' = IF next = Arena THEN IF call = "create" THEN "arena" ELSE "indexes" ELSE stage
  /\ UNCHANGED <<identified, written, nextFree, call, open, creates, crashes>>

(* mos_arena_init.                                                         *)
ArenaInit ==
  /\ stage = "arena" /\ region[Arena] # None
  /\ written' = [written EXCEPT ![Arena] = creates]
  /\ stage' = "indexes"
  /\ UNCHANGED <<exists, identified, nextFree, call, next, region, table, open, bounds>>

(* mos_create_index_mmap_regions stops at the first index it cannot open,  *)
(* and a load, which reads their number from the header, with it.          *)
IndexesDone ==
  IF call = "create"
  THEN stage' = "header" /\ UNCHANGED <<call, next, open>>
  ELSE Returns(TRUE)
(* Wrong: the loop ends one index too early.                               *)
OpenIndexOneShort ==
  /\ stage = "indexes" /\ (call = "load" => region[Header] # None)
  /\ \/ Opened(next) /\ (IF next < 5 + IndexCount
                         THEN next' = next + 1 /\ UNCHANGED <<call, stage, open>>
                         ELSE IndexesDone)
     \/ OpenFails(next) /\ IndexesDone
  /\ UNCHANGED <<identified, written, nextFree, creates, crashes>>
OpenIndex ==
  /\ stage = "indexes" /\ (call = "load" => region[Header] # None)
  /\ \/ Opened(next) /\ (IF next < 6 + IndexCount
                         THEN next' = next + 1 /\ UNCHANGED <<call, stage, open>>
                         ELSE IndexesDone)
     \/ OpenFails(next) /\ IndexesDone
  /\ UNCHANGED <<identified, written, nextFree, creates, crashes>>

(* Wrong: the identifier is written with the rest of the header.           *)
WriteHeaderIdentified ==
  /\ stage = "header" /\ region[Header] # None
  /\ written' = [written EXCEPT ![Header] = creates]
  /\ nextFree' = 0 /\ identified' = TRUE
  /\ stage' = "index init"
  /\ UNCHANGED <<exists, call, next, region, table, open, bounds>>

(* The header: counts, layout, an empty silo and no rows; not the          *)
(* identifier, and nothing in the bitmaps and the records.                 *)
WriteHeader ==
  /\ stage = "header" /\ region[Header] # None
  /\ written' = [written EXCEPT ![Header] = creates]
  /\ nextFree' = 0
  /\ stage' = "index init"
  /\ UNCHANGED <<exists, identified, call, next, region, table, open, bounds>>

(* mos_idx_create: each index gets its descriptor and the header of its    *)
(* table; what the table holds stays.                                      *)
IndexInit ==
  /\ stage = "index init" /\ \E i \in Indexes : written[i] # creates
  /\ LET i == Min({j \in Indexes : written[j] # creates}) IN
       /\ region[i] # None
       /\ written' = [written EXCEPT ![i] = creates]
  /\ UNCHANGED <<exists, identified, nextFree, process, bounds>>

WriteIdentifier ==
  /\ stage = "index init" /\ \A i \in Indexes : written[i] = creates
  /\ identified' = TRUE
  /\ Returns(TRUE)
  /\ UNCHANGED <<exists, written, nextFree, region, table, bounds>>

(* A store through a region whose failed open nobody looked at.            *)
CallFaulting ==
  \/ stage = "arena" /\ region[Arena] = None
  \/ stage = "indexes" /\ call = "load" /\ region[Header] = None
  \/ stage = "header" /\ region[Header] = None
  \/ /\ stage = "index init" /\ \E i \in Indexes : written[i] # creates
     /\ region[Min({j \in Indexes : written[j] # creates})] = None
CallFaults == CallFaulting /\ Faults
------------------------------------------------------------------------------
(* mos_load_storage maps the header's first page, which creates the file   *)
(* when there is none, and goes on if it holds the identifier.  A refused  *)
(* page stays mapped.                                                      *)
LoadStart ==
  /\ FreeDescriptors # {} /\ Header \in exists /\ identified
  /\ Enters("load", "open")
  /\ region' = [f \in Files |-> None]
  /\ UNCHANGED <<disk, table, open, bounds>>

LoadUnidentified ==
  /\ call = None /\ ~open
  /\ FreeDescriptors # {} /\ ~(Header \in exists /\ identified)
  /\ exists' = exists \cup {Header}
  /\ table' = [table EXCEPT ![Min(FreeDescriptors)] = Header]
  /\ UNCHANGED <<identified, written, nextFree, progress, region, open, bounds>>

LoadRefused ==
  /\ call = None /\ ~open
  /\ OpenFails(Header)
  /\ UNCHANGED <<identified, written, nextFree, progress, open, creates, crashes>>

(* mos_storage_put of a record with a string, as a whole: it uses the      *)
(* regions without a look, the arena's only for a key that was put before. *)
PutRegions == {Header, Valid, Records, Silo} \cup Indexes
Put ==
  /\ open /\ nextFree < MaxRecords
  /\ \A f \in PutRegions : region[f] # None
  /\ nextFree' = nextFree + 1
  /\ UNCHANGED <<exists, identified, written, process, bounds>>
PutFaulting ==
  /\ open /\ nextFree < MaxRecords
  /\ \E f \in PutRegions \cup {Arena} : region[f] = None
PutFaults == PutFaulting /\ Faults

(* Wrong: the records stay open, too; every region's mapping is kept.      *)
FreeForgetsRecords ==
  /\ open
  /\ LET Closes(f) == IF region[f] = None THEN 0 ELSE region[f] IN
       table' = [d \in Descriptors |->
                   IF \E f \in Files \ {Arena, Records} : Closes(f) = d THEN None ELSE table[d]]
  /\ open' = FALSE /\ region' = [f \in Files |-> None]
  /\ UNCHANGED <<disk, progress, bounds>>
FreeKeepsRegions ==
  /\ open
  /\ table' = [d \in Descriptors |-> IF \E f \in Files : region[f] = d THEN None ELSE table[d]]
  /\ open' = FALSE
  /\ UNCHANGED <<disk, progress, region, bounds>>

(* mos_free_storage closes every region but the arena's; the descriptor of *)
(* a region that was never opened reads 0 (108).                           *)
Free ==
  /\ open
  /\ LET Closes(f) == IF region[f] = None THEN 0 ELSE region[f] IN
       table' = [d \in Descriptors |->
                   IF \E f \in Files \ {Arena} : Closes(f) = d THEN None ELSE table[d]]
  /\ open' = FALSE /\ region' = [f \in Files |-> None]
  /\ UNCHANGED <<disk, progress, bounds>>

(* The process dies in a call or with the storage open.                    *)
Crash ==
  /\ call # None \/ open
  /\ crashes < MaxCrashes /\ crashes' = crashes + 1
  /\ Restarts
  /\ UNCHANGED <<disk, creates, failures>>

Next ==
  \/ CreateStart \/ OpenNext \/ ArenaInit \/ OpenIndex \/ WriteHeader \/ IndexInit
  \/ WriteIdentifier \/ CallFaults
  \/ LoadStart \/ LoadUnidentified \/ LoadRefused
  \/ Put \/ PutFaults \/ Free \/ Crash

Spec == Init /\ [][Next]_vars
------------------------------------------------------------------------------
(* The states the variables range over.                                    *)
TypeOK ==
  /\ exists \subseteq Files /\ identified \in BOOLEAN
  /\ written \in [Files -> 0..MaxCreates]
  /\ nextFree \in 0..MaxRecords
  /\ call \in {None, "create", "load"}
  /\ stage \in {None, "open", "arena", "indexes", "header", "index init"}
  /\ next \in Files /\ open \in BOOLEAN
  /\ region \in [Files -> Descriptors \cup {None}]
  /\ table \in [Descriptors -> Files \cup {Stdin, None}]
  /\ creates \in 0..MaxCreates /\ failures \in 0..MaxFailures
  /\ crashes \in 0..MaxCrashes

(* Whatever dies or fails, and whatever is done with the half of a storage *)
(* that this leaves, a directory is not accepted by a load before the      *)
(* header, the arena and every index have been initialised: the identifier *)
(* is the last thing a create writes (mos_core.c:723).                     *)
IdentifierLast ==
  identified => \A f \in {Header, Arena} \cup Indexes : f \in exists /\ written[f] > 0

(* Two regions of a storage never share a descriptor, and a region's       *)
(* descriptor is open under its own file: what ensure_capacity truncates   *)
(* is the file that is mapped (mos_memory.c:87).                           *)
(* Its first conjunct is the type invariant.                               *)
DescriptorsOwned ==
  TypeOK /\ \A f \in Files : region[f] # None => table[region[f]] = f

(* A process without a storage has no file of one open but arenas and      *)
(* headers it was refused: free closes all others (mos_core.c:734-742).    *)
FreeCloses ==
  call = None /\ ~open => \A d \in Descriptors : table[d] \in {None, Stdin, Header, Arena}

(* As long as every file could be opened, no call stores through a region  *)
(* that is not mapped, whatever was created, loaded, freed and left behind *)
(* before.  The table of open files is full when it was what failed        *)
(* (mos_core.c:577, 675).                                                  *)
FaultsOnlyAfterFailure ==
  CallFaulting \/ PutFaulting => failures > 0 \/ FreeDescriptors = {}
=============================================================================
