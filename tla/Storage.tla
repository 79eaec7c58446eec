------------------------------- MODULE Storage -------------------------------
(***************************************************************************)
(* Records, their valid bits, the id index, the index of a string          *)
(* attribute and the string silo of a storage (src/mos_core.c).  A put and *)
(* a remove write to these mapped files one after the other; a process     *)
(* that dies in between leaves the writes it made, and mos_load_storage    *)
(* continues from them.                                                    *)
(*                                                                         *)
(* The indexes are the multimaps that Hmap is shown to implement, except   *)
(* that a put may be lost when its list needs a new arena block.  They are *)
(* twice as large as max_records and so never full here.  Ids and texts    *)
(* stand for their hashes, and a death inside an index's own put is left   *)
(* to Hmap, where it may spoil what lists in the arena contain: an entry   *)
(* here is one that was put, and only the id index's lists are read back.  *)
(*                                                                         *)
(* The free list of rows is empty for good: last_deleted_row_id is set to  *)
(* MOS_NULL_OFFSET (712, 786) and nothing ever puts a row on it, so the    *)
(* branch of mos_storage_put that takes a row from it is dead.             *)
(* mos_string_remove has no caller either, and the silo only grows.        *)
(***************************************************************************)
EXTENDS Integers, Sequences, FiniteSets

CONSTANTS
  Ids,         \* ids the caller puts and removes
  Texts,       \* values of the indexed string attribute
  Blank,       \* the string of length 0, one of Texts
  MaxRecords,  \* max_records of the configuration
  SiloSize,    \* strings the silo has room for
  Inlined,     \* MOS_IDX_VALUES_INLINED
  None,        \* no record
  Fault,       \* no answer: the process dies in the call
  MaxCrashes   \* bound: how often the process dies in the middle of a call

ASSUME StorageAssumption ==
  /\ Blank \in Texts
  /\ MaxRecords \in Nat \ {0} /\ SiloSize \in Nat
  /\ Inlined \in Nat /\ Inlined >= 2
  /\ MaxCrashes \in 0..MaxRecords      \* keeps the indexes half empty

Rows == 0..(MaxRecords - 1)
Descs == 0..SiloSize       \* string descriptors; 0 is outside the silo
Records == [id : Ids, text : Texts, desc : Descs]
ASSUME NoneAssumption == /\ None \notin Records /\ None \notin [id : Ids, text : Texts]
                         /\ Fault \notin Records /\ Fault # None

VARIABLES
  nextFree,    \* state.next_free_row_id
  valid,       \* the rows whose bit is set in the valid bitmap
  rows,        \* the records file; text is the value its desc stands for
  idIndex,     \* Ids -> row ids, in the order they were put
  textIndex,   \* Texts -> row ids
  silo,        \* the strings written to the silo, current_offset is Len(silo)
  pc,          \* the next write of the call in progress
  record,      \* its record_buffer; for a remove only the id counts
  outcome,     \* how the last call ended
  crashes

call == <<pc, record>>
vars == <<nextFree, valid, rows, idIndex, textIndex, silo, call, outcome, crashes>>

TypeOK ==
  /\ nextFree \in 0..MaxRecords
  /\ valid \subseteq Rows
  /\ rows \in [Rows -> Records \cup {None}]
  /\ idIndex \in [Ids -> Seq(Rows)]
  /\ textIndex \in [Texts -> Seq(Rows)]
  /\ silo \in Seq(Texts) /\ Len(silo) <= SiloSize
  /\ pc \in {"idle", "string", "text index", "id index", "record", "valid",
             "advance", "id removal"}
  /\ record \in Records \cup {None}
  /\ outcome \in {"ok", "full", "refused", "fault"}
  /\ crashes \in 0..MaxCrashes

(* mos_create_storage: zero-filled files.                                  *)
Init ==
  /\ nextFree = 0 /\ valid = {} /\ silo = << >>
  /\ rows = [r \in Rows |-> None]
  /\ idIndex = [i \in Ids |-> << >>]
  /\ textIndex = [t \in Texts |-> << >>]
  /\ pc = "idle" /\ record = None
  /\ outcome = "ok" /\ crashes = 0
-----------------------------------------------------------------------------
(* Deliberately wrong variants, each showing that a property can fail, stand *)
(* before the definition they replace.  Here: the row after the put's row   *)
(* is indexed.                                                             *)
IndexPutsNextRow(index, key) ==
  {[index EXCEPT ![key] = Append(@, nextFree + 1)]}

(* mos_idx_put of the row of the put in progress, its result ignored: a     *)
(* list that has outgrown its node is lost an entry when the arena is full.*)
IndexPuts(index, key) ==
  {[index EXCEPT ![key] = Append(@, nextFree)]} \cup
  (IF Len(index[key]) >= Inlined THEN {index} ELSE {})

(* Wrong: the valid bit stays set.                                         *)
PutStartStillValid(id, text) ==
  /\ pc = "idle" /\ nextFree < MaxRecords
  /\ record' = [id |-> id, text |-> text, desc |-> 0]
  /\ pc' = "string" /\ outcome' = "ok"
  /\ UNCHANGED <<nextFree, valid, rows, idIndex, textIndex, silo, crashes>>

PutStart(id, text) ==
  /\ pc = "idle" /\ nextFree < MaxRecords
  /\ valid' = valid \ {nextFree}
  /\ record' = [id |-> id, text |-> text, desc |-> 0]
  /\ pc' = "string" /\ outcome' = "ok"
  /\ UNCHANGED <<nextFree, rows, idIndex, textIndex, silo, crashes>>

PutFull ==
  /\ pc = "idle" /\ nextFree >= MaxRecords
  /\ outcome' = "full"
  /\ UNCHANGED <<nextFree, valid, rows, idIndex, textIndex, silo, call, crashes>>

Storable(text) == text # Blank /\ Len(silo) < SiloSize

(* Wrong: current_offset is not advanced.                                  *)
PutStringOverwriting ==
  /\ pc = "string"
  /\ silo' = IF silo = << >> THEN <<record.text>>
             ELSE [silo EXCEPT ![Len(silo)] = record.text]
  /\ record' = [record EXCEPT !.desc = Len(silo')]
  /\ pc' = "text index"
  /\ UNCHANGED <<nextFree, valid, rows, idIndex, textIndex, outcome, crashes>>

(* mos_string_put.  When it refuses, its result is not looked at and the   *)
(* record gets the uninitialized str_out.                                  *)
PutString ==
  /\ pc = "string"
  /\ \/ /\ Storable(record.text)
        /\ silo' = Append(silo, record.text)
        /\ record' = [record EXCEPT !.desc = Len(silo')]
     \/ /\ ~Storable(record.text)
        /\ \E d \in Descs : record' = [record EXCEPT !.desc = d]
        /\ UNCHANGED silo
  /\ pc' = "text index"
  /\ UNCHANGED <<nextFree, valid, rows, idIndex, textIndex, outcome, crashes>>

PutTextIndex ==
  /\ pc = "text index"
  /\ textIndex' \in IndexPuts(textIndex, record.text)
  /\ pc' = "id index"
  /\ UNCHANGED <<nextFree, valid, rows, idIndex, silo, record, outcome, crashes>>

PutIdIndex ==
  /\ pc = "id index"
  /\ idIndex' \in IndexPuts(idIndex, record.id)
  /\ pc' = "record"
  /\ UNCHANGED <<nextFree, valid, rows, textIndex, silo, record, outcome, crashes>>

PutRecord ==
  /\ pc = "record"
  /\ rows' = [rows EXCEPT ![nextFree] = record]
  /\ pc' = "valid"
  /\ UNCHANGED <<nextFree, valid, idIndex, textIndex, silo, record, outcome, crashes>>

PutValid ==
  /\ pc = "valid"
  /\ valid' = valid \cup {nextFree}
  /\ pc' = "advance"
  /\ UNCHANGED <<nextFree, rows, idIndex, textIndex, silo, record, outcome, crashes>>

PutAdvance ==
  /\ pc = "advance"
  /\ nextFree' = nextFree + 1
  /\ pc' = "idle" /\ record' = None
  /\ UNCHANGED <<valid, rows, idIndex, textIndex, silo, outcome, crashes>>
-----------------------------------------------------------------------------
(* Wrong: the first of several records is removed; the valid bit stays set; *)
(* the id stays in the id index.                                           *)
RemoveStartFirstOfMany(id) ==
  /\ pc = "idle" /\ Len(idIndex[id]) >= 1
  /\ valid' = valid \ {idIndex[id][1]}
  /\ record' = [id |-> id, text |-> Blank, desc |-> 0]
  /\ pc' = "id removal" /\ outcome' = "ok"
  /\ UNCHANGED <<nextFree, rows, idIndex, textIndex, silo, crashes>>
RemoveStartStillValid(id) ==
  /\ pc = "idle" /\ Len(idIndex[id]) = 1
  /\ record' = [id |-> id, text |-> Blank, desc |-> 0]
  /\ pc' = "id removal" /\ outcome' = "ok"
  /\ UNCHANGED <<nextFree, valid, rows, idIndex, textIndex, silo, crashes>>
RemoveFromIdIndexNothing ==
  /\ pc = "id removal"
  /\ pc' = "idle" /\ record' = None
  /\ UNCHANGED <<nextFree, valid, rows, idIndex, textIndex, silo, outcome, crashes>>

(* mos_storage_remove.  The removal from the attribute indexes in between   *)
(* calls mos_idx_hmap_remove_value, which does nothing.                    *)
RemoveStart(id) ==
  /\ pc = "idle" /\ Len(idIndex[id]) = 1
  /\ valid' = valid \ {idIndex[id][1]}
  /\ record' = [id |-> id, text |-> Blank, desc |-> 0]
  /\ pc' = "id removal" /\ outcome' = "ok"
  /\ UNCHANGED <<nextFree, rows, idIndex, textIndex, silo, crashes>>

RemoveFromIdIndex ==
  /\ pc = "id removal"
  /\ idIndex' = [idIndex EXCEPT ![record.id] = << >>]
  /\ pc' = "idle" /\ record' = None
  /\ UNCHANGED <<nextFree, valid, rows, textIndex, silo, outcome, crashes>>

(* Not found, or more than one record under this id.                       *)
RemoveRefused(id) ==
  /\ pc = "idle" /\ Len(idIndex[id]) # 1 /\ Len(idIndex[id]) <= Inlined
  /\ outcome' = "refused"
  /\ UNCHANGED <<nextFree, valid, rows, idIndex, textIndex, silo, call, crashes>>

(* A list is in the arena once it has outgrown its node; a put that died    *)
(* there may have moved it already without counting its value.             *)
InArena(id) == Len(idIndex[id]) > Inlined
MayBeInArena(id) == InArena(id) \/ (crashes > 0 /\ Len(idIndex[id]) = Inlined)

(* The context get and remove build has the arena region in the wrong      *)
(* member (867, 902): reading a list that is in the arena dereferences     *)
(* NULL, before anything was written.                                      *)
LookupFaults(id) ==
  /\ pc = "idle" /\ MayBeInArena(id)
  /\ outcome' = "fault"
  /\ UNCHANGED <<nextFree, valid, rows, idIndex, textIndex, silo, call, crashes>>

(* The process is killed, or faults in the arena, and the storage loaded   *)
(* again by another.                                                       *)
Crash ==
  /\ pc # "idle" /\ crashes < MaxCrashes
  /\ crashes' = crashes + 1
  /\ pc' = "idle" /\ record' = None
  /\ UNCHANGED <<nextFree, valid, rows, idIndex, textIndex, silo, outcome>>

Next ==
  \/ \E id \in Ids : \/ \E text \in Texts : PutStart(id, text)
                     \/ RemoveStart(id) \/ RemoveRefused(id) \/ LookupFaults(id)
  \/ PutFull \/ PutString \/ PutTextIndex \/ PutIdIndex \/ PutRecord \/ PutValid
  \/ PutAdvance \/ RemoveFromIdIndex \/ Crash

Spec == Init /\ [][Next]_vars
-----------------------------------------------------------------------------
(* mos_storage_get: what it may answer, or that it faults in the lookup.   *)
Get(id) ==
  LET list == idIndex[id]
  IN (IF MayBeInArena(id) THEN {Fault} ELSE {}) \cup
     (IF InArena(id) THEN {}
      ELSE IF Len(list) = 1 /\ list[1] \in valid THEN {rows[list[1]]}
      ELSE {None})

Entry(index, key, r) == \E n \in 1..Len(index[key]) : index[key][n] = r
Overgrown(index, key) == Len(index[key]) >= Inlined
Indexed(index, key, r) == Entry(index, key, r) \/ Overgrown(index, key)

(* What the string descriptor of a row reads back.                         *)
Fetched(r) ==
  IF rows[r].desc \in 1..Len(silo) THEN silo[rows[r].desc] ELSE Blank

ValidWithId(id) == {r \in valid : rows[r].id = id}

(* Between calls of a process that never died in one, get answers with the *)
(* one record put under the id and not removed.  When there is none it     *)
(* finds nothing, and so it does for several that fit the node of the id;  *)
(* with more the call faults, or finds nothing because their entries were  *)
(* lost (mos_core.c:860-884).                                              *)
GetIsExact ==
  pc = "idle" /\ crashes = 0 =>
    \A id \in Ids :
      LET found == ValidWithId(id) IN
      /\ \A r \in valid : found = {r} => Get(id) = {rows[r]}
      /\ Cardinality(found) # 1 => Get(id) \in {{None}, {Fault}}
      /\ Get(id) = {Fault} => Cardinality(found) > Inlined

(* Even after crashes, a record with its valid bit set can be found through *)
(* both indexes, unless the arena had no room for the entry: a put sets    *)
(* the bit after the indexes and the record are written and clears it      *)
(* first, a remove clears the bit before it touches the id index           *)
(* (mos_core.c:231-277, 923-944).                                          *)
ValidIsIndexed ==
  \A r \in valid :
    Indexed(idIndex, rows[r].id, r) /\ Indexed(textIndex, rows[r].text, r)

(* A record whose string was accepted by the silo reads back that string,  *)
(* whichever puts and crashes came after it (mos_string.c:46-62).          *)
StringsKept ==
  Len(silo) < SiloSize =>
    \A r \in valid : rows[r].text # Blank => Fetched(r) = rows[r].text

(* Only the row of the put that died may have been written beyond          *)
(* next_free_row_id: no valid bit and no index entry is left further on    *)
(* (mos_core.c:788-791).                                                   *)
RowsBeyondUnused ==
  \A r \in Rows : r > nextFree =>
    /\ r \notin valid
    /\ \A id \in Ids : ~Entry(idIndex, id, r)
    /\ \A text \in Texts : ~Entry(textIndex, text, r)

(* A record is never rewritten while its valid bit is set: a reader that    *)
(* trusts the bit never sees half of an old and half of a new record       *)
(* (mos_core.c:236, 273-276).                                              *)
RecordsStable == [][\A r \in valid \cap valid' : rows'[r] = rows[r]]_vars

(* The storage is the record store its interface describes: the valid bit  *)
(* is where a put and a remove take effect.  Once the process died in a    *)
(* call, later calls may lose records, but never change or invent one.     *)
Held == [r \in Rows |-> IF r \in valid
                       THEN [id |-> rows[r].id, text |-> rows[r].text] ELSE None]
Store == INSTANCE RecordStore WITH records <- Held
ImplementsRecordStore ==
  Store!Init /\ [][Store!Next \/ (crashes > 0 /\ Store!Lose)]_Held
=============================================================================
