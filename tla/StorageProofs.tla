---------------------------- MODULE StorageProofs ----------------------------
(* Proofs about the storage, for every size of it, any number of records   *)
(* under an id, and every way the process may die.                         *)
EXTENDS Storage, FiniteSetTheorems, TLAPS

Putting == {"string", "text index", "id index", "record", "valid", "advance"}

(* What the steps of a call already done have established for the next     *)
(* one.  A crash establishes nothing: it only leaves these behind.         *)
CallInv ==
  /\ pc # "idle" => record \in Records
  /\ pc \in Putting => nextFree < MaxRecords
  /\ pc \in Putting \ {"advance"} => nextFree \notin valid
  /\ pc \in {"id index", "record", "valid"} => Indexed(textIndex, record.text, nextFree)
  /\ pc \in {"record", "valid"} => Indexed(idIndex, record.id, nextFree)
  /\ pc = "valid" => rows[nextFree] = record
  /\ pc = "id removal" => \A r \in valid : rows[r].id # record.id

ValidRows == \A r \in valid : rows[r] \in Records

IInv == TypeOK /\ CallInv /\ ValidRows /\ ValidIsIndexed /\ RowsBeyondUnused

(* What Append does to a sequence.                                         *)
LEMMA AppendFacts ==
  ASSUME NEW S, NEW s \in Seq(S), NEW e \in S
  PROVE  /\ Append(s, e) \in Seq(S)
         /\ Len(s) \in Nat /\ Len(Append(s, e)) = Len(s) + 1
         /\ Append(s, e)[Len(s) + 1] = e
         /\ \A n \in 1..Len(s) : Append(s, e)[n] = s[n]
OBVIOUS

(* Counting up to a limit.                                                 *)
LEMMA Counting ==
  ASSUME NEW m \in Nat, NEW n \in 0..m
  PROVE  /\ n \in Nat
         /\ n < m => n \in 0..(m - 1) /\ n + 1 \in 0..m
OBVIOUS

(* The row a put takes is one of the storage's.                            *)
LEMMA RowInBounds ==
  ASSUME TypeOK
  PROVE  nextFree \in Nat /\ (nextFree < MaxRecords => nextFree \in Rows)
<1>1. MaxRecords \in Nat /\ nextFree \in 0..MaxRecords
  BY StorageAssumption DEF TypeOK
<1> QED
  BY <1>1, Counting DEF Rows

(* An index put may be lost, but then the list is overgrown; it adds an    *)
(* entry for nobody else and takes none away.                              *)
LEMMA IndexPutsFacts ==
  ASSUME NEW K, NEW index \in [K -> Seq(Rows)], NEW key \in K, nextFree \in Rows,
         NEW after \in IndexPuts(index, key)
  PROVE  /\ after \in [K -> Seq(Rows)]
         /\ Indexed(after, key, nextFree)
         /\ \A k \in K, r \in Rows : Indexed(index, k, r) => Indexed(after, k, r)
         /\ \A k \in K, r \in Rows : Entry(after, k, r) =>
              Entry(index, k, r) \/ (k = key /\ r = nextFree)
<1>1. CASE after = [index EXCEPT ![key] = Append(@, nextFree)]
  <2>1. after \in [K -> Seq(Rows)]
    BY <1>1
  <2>2. \A k \in K : after[k] = IF k = key THEN Append(index[k], nextFree) ELSE index[k]
    BY <1>1
  <2>3. /\ Len(after[key]) = Len(index[key]) + 1
        /\ Len(index[key]) \in Nat
        /\ after[key][Len(index[key]) + 1] = nextFree
        /\ \A n \in 1..Len(index[key]) : after[key][n] = index[key][n]
    <3>1. index[key] \in Seq(Rows) /\ after[key] = Append(index[key], nextFree)
      BY <2>2
    <3> QED
      BY <3>1, AppendFacts
  <2>4. Indexed(after, key, nextFree)
    BY <2>3 DEF Indexed, Entry
  <2>5. ASSUME NEW k \in K, NEW r \in Rows, Indexed(index, k, r)
        PROVE  Indexed(after, k, r)
    <3>1. CASE k # key
      BY <3>1, <2>2, <2>5 DEF Indexed, Entry, Overgrown
    <3>2. CASE k = key
      BY <3>2, <2>3, <2>5, StorageAssumption DEF Indexed, Entry, Overgrown
    <3> QED
      BY <3>1, <3>2
  <2>6. ASSUME NEW k \in K, NEW r \in Rows, Entry(after, k, r)
        PROVE  Entry(index, k, r) \/ (k = key /\ r = nextFree)
    <3>1. CASE k # key
      BY <3>1, <2>2, <2>6 DEF Entry
    <3>2. CASE k = key
      <4>1. PICK n \in 1..(Len(index[key]) + 1) : after[key][n] = r
        BY <2>6, <3>2, <2>3 DEF Entry
      <4>2. n \in 1..Len(index[key]) \/ n = Len(index[key]) + 1
        BY <2>3
      <4> QED
        BY <4>1, <4>2, <3>2, <2>3 DEF Entry
    <3> QED
      BY <3>1, <3>2
  <2> QED
    BY <2>1, <2>4, <2>5, <2>6
<1>2. CASE after = index /\ Len(index[key]) >= Inlined
  BY <1>2 DEF Indexed, Overgrown
<1> QED
  BY <1>1, <1>2 DEF IndexPuts

(* A storage just created satisfies all of it.                             *)
LEMMA InitIInv == Init => IInv
<1> SUFFICES ASSUME Init
             PROVE  IInv
  OBVIOUS
<1>1. TypeOK
  BY StorageAssumption DEF Init, TypeOK, Descs
<1>2. CallInv /\ ValidRows /\ ValidIsIndexed
  BY DEF Init, CallInv, Putting, ValidRows, ValidIsIndexed
<1>3. RowsBeyondUnused
  BY DEF Init, RowsBeyondUnused, Entry
<1> QED
  BY <1>1, <1>2, <1>3 DEF IInv

(* What a step that leaves both indexes alone keeps.                       *)
LEMMA IndexesKept ==
  ASSUME UNCHANGED <<idIndex, textIndex>>
  PROVE  /\ \A k, r : /\ Indexed(idIndex, k, r)' = Indexed(idIndex, k, r)
                     /\ Indexed(textIndex, k, r)' = Indexed(textIndex, k, r)
                     /\ Entry(idIndex, k, r)' = Entry(idIndex, k, r)
                     /\ Entry(textIndex, k, r)' = Entry(textIndex, k, r)
BY DEF Indexed, Entry, Overgrown

(* Once its valid bit is clear, the row of a put may be written.           *)
LEMMA PutStartIInv ==
  ASSUME IInv, NEW id \in Ids, NEW text \in Texts, PutStart(id, text)
  PROVE  IInv'
<1> USE DEF IInv
<1>1. record' \in Records
  BY StorageAssumption DEF PutStart, Records, Descs
<1>2. TypeOK'
  BY <1>1 DEF PutStart, TypeOK
<1>3. CallInv'
  BY <1>1 DEF PutStart, CallInv, Putting, TypeOK
<1>4. ValidRows' /\ ValidIsIndexed'
  BY DEF PutStart, ValidRows, ValidIsIndexed, Indexed, Entry, Overgrown
<1>5. RowsBeyondUnused'
  BY DEF PutStart, RowsBeyondUnused, Entry
<1> QED
  BY <1>2, <1>3, <1>4, <1>5

(* Whatever mos_string_put returns, only the buffer and the silo change.    *)
LEMMA PutStringIInv == IInv /\ PutString => IInv'
<1> SUFFICES ASSUME IInv, PutString
             PROVE  IInv'
  OBVIOUS
<1> USE DEF IInv
<1>1. record \in Records /\ nextFree \in Nat /\ silo \in Seq(Texts) /\ Len(silo) <= SiloSize
  BY RowInBounds DEF PutString, CallInv, TypeOK
<1>2. /\ record' \in Records
      /\ silo' \in Seq(Texts) /\ Len(silo') <= SiloSize
  <2>1. CASE silo' = Append(silo, record.text) /\ Storable(record.text)
             /\ record' = [record EXCEPT !.desc = Len(silo')]
    <3>1. record.text \in Texts
      BY <1>1 DEF Records
    <3>2. silo' \in Seq(Texts) /\ Len(silo') = Len(silo) + 1 /\ Len(silo) \in Nat
      BY <2>1, <1>1, <3>1, AppendFacts
    <3>3. Len(silo') \in Descs
      BY <2>1, <1>1, <3>2, StorageAssumption DEF Storable, Descs
    <3> QED
      BY <2>1, <3>2, <3>3, <1>1 DEF Records, Storable, Descs
  <2>2. CASE UNCHANGED silo /\ \E d \in Descs : record' = [record EXCEPT !.desc = d]
    BY <2>2, <1>1 DEF Records
  <2> QED
    BY <2>1, <2>2 DEF PutString
<1>3. TypeOK'
  BY <1>2 DEF PutString, TypeOK
<1>4. CallInv'
  BY <1>2 DEF PutString, CallInv, Putting, TypeOK
<1>5. ValidRows' /\ ValidIsIndexed'
  BY DEF PutString, ValidRows, ValidIsIndexed, Indexed, Entry, Overgrown
<1>6. RowsBeyondUnused'
  BY DEF PutString, RowsBeyondUnused, Entry
<1> QED
  BY <1>3, <1>4, <1>5, <1>6

(* The row is entered in the attribute index or the list is overgrown.     *)
LEMMA PutTextIndexIInv == IInv /\ PutTextIndex => IInv'
<1> SUFFICES ASSUME IInv, PutTextIndex
             PROVE  IInv'
  OBVIOUS
<1> USE DEF IInv
<1>1. /\ record \in Records /\ record.text \in Texts
      /\ nextFree \in Rows /\ textIndex \in [Texts -> Seq(Rows)]
  <2>1. record \in Records /\ nextFree < MaxRecords
    BY DEF PutTextIndex, CallInv, Putting
  <2>2. nextFree \in Rows
    BY <2>1, RowInBounds
  <2> QED
    BY <2>1, <2>2 DEF TypeOK, Records
<1>2. /\ textIndex' \in [Texts -> Seq(Rows)]
      /\ Indexed(textIndex', record.text, nextFree)
      /\ \A k \in Texts, r \in Rows : Indexed(textIndex, k, r) => Indexed(textIndex', k, r)
      /\ \A k \in Texts, r \in Rows : Entry(textIndex', k, r) =>
           Entry(textIndex, k, r) \/ (k = record.text /\ r = nextFree)
  BY <1>1, IndexPutsFacts DEF PutTextIndex
<1>3. TypeOK'
  BY <1>2 DEF PutTextIndex, TypeOK
<1>4. CallInv'
  BY <1>1, <1>2 DEF PutTextIndex, CallInv, Putting, TypeOK
<1>5. ValidRows'
  BY DEF PutTextIndex, ValidRows
<1>6. ValidIsIndexed'
  <2> SUFFICES ASSUME NEW r \in valid
               PROVE  Indexed(idIndex, rows[r].id, r)' /\ Indexed(textIndex, rows[r].text, r)'
    BY DEF PutTextIndex, ValidIsIndexed
  <2>1. r \in Rows /\ rows[r].text \in Texts
    BY DEF TypeOK, ValidRows, Records
  <2>2. Indexed(textIndex', rows[r].text, r)
    BY <2>1, <1>2 DEF ValidIsIndexed
  <2> QED
    BY <2>2 DEF PutTextIndex, ValidIsIndexed, Indexed, Entry, Overgrown
<1>7. RowsBeyondUnused'
  <2> SUFFICES ASSUME NEW r \in Rows, r > nextFree
               PROVE  /\ r \notin valid
                      /\ \A id \in Ids : ~Entry(idIndex, id, r)
                      /\ \A text \in Texts : ~Entry(textIndex', text, r)
    BY DEF PutTextIndex, RowsBeyondUnused, Entry
  <2>1. r # nextFree
    BY <1>1 DEF Rows
  <2> QED
    BY <2>1, <1>2 DEF RowsBeyondUnused
<1> QED
  BY <1>3, <1>4, <1>5, <1>6, <1>7

(* The row is entered in the id index or the list is overgrown.            *)
LEMMA PutIdIndexIInv == IInv /\ PutIdIndex => IInv'
<1> SUFFICES ASSUME IInv, PutIdIndex
             PROVE  IInv'
  OBVIOUS
<1> USE DEF IInv
<1>1. /\ record \in Records /\ record.id \in Ids
      /\ nextFree \in Rows /\ idIndex \in [Ids -> Seq(Rows)]
  <2>1. record \in Records /\ nextFree < MaxRecords
    BY DEF PutIdIndex, CallInv, Putting
  <2>2. nextFree \in Rows
    BY <2>1, RowInBounds
  <2> QED
    BY <2>1, <2>2 DEF TypeOK, Records
<1>2. /\ idIndex' \in [Ids -> Seq(Rows)]
      /\ Indexed(idIndex', record.id, nextFree)
      /\ \A k \in Ids, r \in Rows : Indexed(idIndex, k, r) => Indexed(idIndex', k, r)
      /\ \A k \in Ids, r \in Rows : Entry(idIndex', k, r) =>
           Entry(idIndex, k, r) \/ (k = record.id /\ r = nextFree)
  BY <1>1, IndexPutsFacts DEF PutIdIndex
<1>3. TypeOK'
  BY <1>2 DEF PutIdIndex, TypeOK
<1>4. CallInv'
  <2>1. Indexed(textIndex, record.text, nextFree)'
    BY DEF PutIdIndex, CallInv, Indexed, Entry, Overgrown
  <2> QED
    BY <1>1, <1>2, <2>1 DEF PutIdIndex, CallInv, Putting, TypeOK
<1>5. ValidRows'
  BY DEF PutIdIndex, ValidRows
<1>6. ValidIsIndexed'
  <2> SUFFICES ASSUME NEW r \in valid
               PROVE  Indexed(idIndex, rows[r].id, r)' /\ Indexed(textIndex, rows[r].text, r)'
    BY DEF PutIdIndex, ValidIsIndexed
  <2>1. r \in Rows /\ rows[r].id \in Ids
    BY DEF TypeOK, ValidRows, Records
  <2>2. Indexed(idIndex', rows[r].id, r)
    BY <2>1, <1>2 DEF ValidIsIndexed
  <2> QED
    BY <2>2 DEF PutIdIndex, ValidIsIndexed, Indexed, Entry, Overgrown
<1>7. RowsBeyondUnused'
  <2> SUFFICES ASSUME NEW r \in Rows, r > nextFree
               PROVE  /\ r \notin valid
                      /\ \A id \in Ids : ~Entry(idIndex', id, r)
                      /\ \A text \in Texts : ~Entry(textIndex, text, r)
    BY DEF PutIdIndex, RowsBeyondUnused, Entry
  <2>1. r # nextFree
    BY <1>1 DEF Rows
  <2> QED
    BY <2>1, <1>2 DEF RowsBeyondUnused
<1> QED
  BY <1>3, <1>4, <1>5, <1>6, <1>7

(* Writing the record disturbs no valid record: its own bit is clear.      *)
LEMMA PutRecordIInv == IInv /\ PutRecord => IInv'
<1> SUFFICES ASSUME IInv, PutRecord
             PROVE  IInv'
  OBVIOUS
<1> USE DEF IInv
<1>1. record \in Records /\ nextFree < MaxRecords /\ nextFree \notin valid
  BY DEF PutRecord, CallInv, Putting
<1>2. nextFree \in Rows
  BY <1>1, RowInBounds
<1>3. \A r \in Rows : rows'[r] = IF r = nextFree THEN record ELSE rows[r]
  BY DEF PutRecord, TypeOK
<1>4. TypeOK'
  BY <1>1 DEF PutRecord, TypeOK
<1>5. CallInv'
  <2>1. /\ Indexed(textIndex, record.text, nextFree)'
        /\ Indexed(idIndex, record.id, nextFree)'
    BY DEF PutRecord, CallInv, Indexed, Entry, Overgrown
  <2>2. rows'[nextFree'] = record'
    BY <1>2, <1>3 DEF PutRecord
  <2> QED
    BY <1>1, <2>1, <2>2 DEF PutRecord, CallInv, Putting
<1>6. \A r \in valid : rows'[r] = rows[r]
  BY <1>1, <1>3 DEF TypeOK
<1>7. ValidRows'
  BY <1>6 DEF PutRecord, ValidRows
<1>8. ValidIsIndexed'
  BY <1>6 DEF PutRecord, ValidIsIndexed, Indexed, Entry, Overgrown
<1>9. RowsBeyondUnused'
  BY DEF PutRecord, RowsBeyondUnused, Entry
<1> QED
  BY <1>4, <1>5, <1>7, <1>8, <1>9

(* The bit is set when the record is written and both indexes name it.     *)
LEMMA PutValidIInv == IInv /\ PutValid => IInv'
<1> SUFFICES ASSUME IInv, PutValid
             PROVE  IInv'
  OBVIOUS
<1> USE DEF IInv
<1>1. /\ record \in Records /\ nextFree < MaxRecords
      /\ rows[nextFree] = record
      /\ Indexed(textIndex, record.text, nextFree)
      /\ Indexed(idIndex, record.id, nextFree)
  BY DEF PutValid, CallInv, Putting
<1>2. nextFree \in Rows
  BY <1>1, RowInBounds
<1>3. TypeOK'
  BY <1>2 DEF PutValid, TypeOK
<1>4. CallInv'
  BY <1>1 DEF PutValid, CallInv, Putting
<1>5. ValidRows'
  BY <1>1 DEF PutValid, ValidRows
<1>6. ValidIsIndexed'
  BY <1>1 DEF PutValid, ValidIsIndexed, Indexed, Entry, Overgrown
<1>7. RowsBeyondUnused'
  <2>1. \A r \in Rows : r > nextFree => r # nextFree
    BY <1>2 DEF Rows
  <2> QED
    BY <2>1 DEF PutValid, RowsBeyondUnused, Entry
<1> QED
  BY <1>3, <1>4, <1>5, <1>6, <1>7

(* The row is finished and the next one unused.                            *)
LEMMA PutAdvanceIInv == IInv /\ PutAdvance => IInv'
<1> SUFFICES ASSUME IInv, PutAdvance
             PROVE  IInv'
  OBVIOUS
<1> USE DEF IInv
<1>1. nextFree < MaxRecords /\ nextFree \in 0..MaxRecords
  BY DEF PutAdvance, CallInv, Putting, TypeOK
<1>2. nextFree + 1 \in 0..MaxRecords
  BY <1>1, StorageAssumption
<1>3. TypeOK'
  BY <1>2 DEF PutAdvance, TypeOK
<1>4. CallInv' /\ ValidRows' /\ ValidIsIndexed'
  BY DEF PutAdvance, CallInv, Putting, ValidRows, ValidIsIndexed, Indexed, Entry, Overgrown
<1>5. RowsBeyondUnused'
  <2>1. \A r \in Rows : r > nextFree + 1 => r > nextFree
    BY <1>1 DEF Rows
  <2> QED
    BY <2>1 DEF PutAdvance, RowsBeyondUnused, Entry
<1> QED
  BY <1>3, <1>4, <1>5

(* A remove clears the valid bit of the one record the id index names, so  *)
(* that no valid record is left under the id: the id may then leave it.    *)
LEMMA RemoveStartIInv ==
  ASSUME IInv, NEW id \in Ids, RemoveStart(id)
  PROVE  IInv'
<1> USE DEF IInv
<1>1. record' \in Records /\ record'.id = id
  <2>1. Blank \in Texts /\ 0 \in Descs
    BY StorageAssumption DEF Descs
  <2> QED
    BY <2>1 DEF RemoveStart, Records
<1>2. TypeOK'
  BY <1>1 DEF RemoveStart, TypeOK
<1>3. \A r \in valid' : rows'[r].id # record'.id
  <2> SUFFICES ASSUME NEW r \in valid, r # idIndex[id][1], rows[r].id = id
               PROVE  FALSE
    BY <1>1 DEF RemoveStart
  <2>1. Entry(idIndex, id, r) \/ Len(idIndex[id]) >= Inlined
    BY DEF ValidIsIndexed, Indexed, Overgrown
  <2>2. Len(idIndex[id]) = 1
    BY DEF RemoveStart
  <2> QED
    BY <2>1, <2>2, StorageAssumption DEF Entry
<1>4. CallInv'
  BY <1>1, <1>3 DEF RemoveStart, CallInv, Putting
<1>5. ValidRows' /\ ValidIsIndexed'
  BY DEF RemoveStart, ValidRows, ValidIsIndexed, Indexed, Entry, Overgrown
<1>6. RowsBeyondUnused'
  BY DEF RemoveStart, RowsBeyondUnused, Entry
<1> QED
  BY <1>2, <1>4, <1>5, <1>6

(* No valid record loses its entry when the id leaves the id index.        *)
LEMMA RemoveFromIdIndexIInv == IInv /\ RemoveFromIdIndex => IInv'
<1> SUFFICES ASSUME IInv, RemoveFromIdIndex
             PROVE  IInv'
  OBVIOUS
<1> USE DEF IInv
<1>1. record \in Records /\ \A r \in valid : rows[r].id # record.id
  BY DEF RemoveFromIdIndex, CallInv
<1>2. \A k \in Ids : idIndex'[k] = IF k = record.id THEN << >> ELSE idIndex[k]
  BY DEF RemoveFromIdIndex, TypeOK
<1>3. idIndex' \in [Ids -> Seq(Rows)]
  <2>1. idIndex \in [Ids -> Seq(Rows)]
    BY DEF TypeOK
  <2>2. << >> \in Seq(Rows)
    OBVIOUS
  <2> QED
    BY <2>1, <2>2 DEF RemoveFromIdIndex
<1>4. TypeOK'
  BY <1>3 DEF RemoveFromIdIndex, TypeOK
<1>5. CallInv' /\ ValidRows'
  BY DEF RemoveFromIdIndex, CallInv, Putting, ValidRows
<1>6. ValidIsIndexed'
  <2> SUFFICES ASSUME NEW r \in valid
               PROVE  Indexed(idIndex, rows[r].id, r)' /\ Indexed(textIndex, rows[r].text, r)'
    BY DEF RemoveFromIdIndex, ValidIsIndexed
  <2>1. rows[r].id \in Ids /\ idIndex'[rows[r].id] = idIndex[rows[r].id]
    BY <1>1, <1>2 DEF ValidRows, Records
  <2> QED
    BY <2>1 DEF RemoveFromIdIndex, ValidIsIndexed, Indexed, Entry, Overgrown
<1>7. RowsBeyondUnused'
  <2>1. \A k \in Ids, r \in Rows : Entry(idIndex', k, r) => Entry(idIndex, k, r)
    BY <1>2 DEF Entry
  <2> QED
    BY <2>1 DEF RemoveFromIdIndex, RowsBeyondUnused, Entry
<1> QED
  BY <1>4, <1>5, <1>6, <1>7

(* What a death in the middle of a call leaves behind satisfies it, too.   *)
LEMMA CrashIInv == IInv /\ Crash => IInv'
<1> SUFFICES ASSUME IInv, Crash
             PROVE  IInv'
  OBVIOUS
<1> USE DEF IInv
<1>1. crashes' \in 0..MaxCrashes
  <2>1. crashes \in 0..MaxCrashes
    BY DEF TypeOK
  <2>2. MaxRecords \in Nat /\ MaxCrashes \in 0..MaxRecords
    BY StorageAssumption
  <2>3. MaxCrashes \in Nat
    BY <2>2, Counting
  <2> QED
    BY <2>1, <2>3, Counting DEF Crash
<1>2. TypeOK'
  BY <1>1 DEF Crash, TypeOK
<1>3. CallInv' /\ ValidRows' /\ ValidIsIndexed' /\ RowsBeyondUnused'
  BY DEF Crash, CallInv, Putting, ValidRows, ValidIsIndexed, RowsBeyondUnused,
     Indexed, Entry, Overgrown
<1> QED
  BY <1>2, <1>3

(* Calls that are refused change nothing but the outcome.                  *)
LEMMA RefusedIInv ==
  ASSUME IInv, outcome' \in {"ok", "full", "refused", "fault"},
         UNCHANGED <<nextFree, valid, rows, idIndex, textIndex, silo, pc, record, crashes>>
  PROVE  IInv'
<1> USE DEF IInv
<1>1. TypeOK'
  BY DEF TypeOK
<1>2. CallInv' /\ ValidRows' /\ ValidIsIndexed' /\ RowsBeyondUnused'
  BY DEF CallInv, Putting, ValidRows, ValidIsIndexed, RowsBeyondUnused,
     Indexed, Entry, Overgrown
<1> QED
  BY <1>1, <1>2

(* Every step preserves the invariant.                                     *)
LEMMA NextIInv == IInv /\ [Next]_vars => IInv'
<1> SUFFICES ASSUME IInv, [Next]_vars
             PROVE  IInv'
  OBVIOUS
<1>1. ASSUME NEW id \in Ids, RemoveRefused(id) \/ LookupFaults(id)
      PROVE  IInv'
  BY <1>1, RefusedIInv DEF RemoveRefused, LookupFaults, call
<1>2. CASE PutFull
  BY <1>2, RefusedIInv DEF PutFull, call
<1>3. CASE UNCHANGED vars
  BY <1>3, RefusedIInv DEF vars, call, IInv, TypeOK
<1> QED
  BY <1>1, <1>2, <1>3, PutStartIInv, PutStringIInv, PutTextIndexIInv, PutIdIndexIInv,
     PutRecordIInv, PutValidIInv, PutAdvanceIInv, RemoveStartIInv,
     RemoveFromIdIndexIInv, CrashIInv DEF Next
-----------------------------------------------------------------------------
(* However often the process dies in the middle of a put or a remove, a    *)
(* record with its valid bit set can be found through both indexes, and    *)
(* nothing is left behind beyond the row the next put will take            *)
(* (mos_core.c:231-277, 774-795, 890-945).                                 *)
THEOREM CrashSafe == Spec => [](TypeOK /\ ValidIsIndexed /\ RowsBeyondUnused)
<1>1. IInv => TypeOK /\ ValidIsIndexed /\ RowsBeyondUnused
  BY DEF IInv
<1> QED
  BY InitIInv, NextIInv, <1>1, PTL DEF Spec

(* A record is never rewritten while its valid bit is set (236, 273-276).  *)
THEOREM ValidRecordsStable == Spec => RecordsStable
<1>1. IInv /\ [Next]_vars => [\A r \in valid \cap valid' : rows'[r] = rows[r]]_vars
  <2> SUFFICES ASSUME IInv, Next, NEW r \in valid
               PROVE  rows'[r] = rows[r]
    OBVIOUS
  <2>1. CASE PutRecord
    <3>1. nextFree \notin valid
      BY <2>1 DEF IInv, CallInv, PutRecord, Putting
    <3> QED
      BY <2>1, <3>1 DEF PutRecord, IInv, TypeOK
  <2>2. CASE UNCHANGED rows
    BY <2>2
  <2> QED
    BY <2>1, <2>2 DEF Next, PutStart, PutFull, PutString, PutTextIndex, PutIdIndex,
       PutValid, PutAdvance, RemoveStart, RemoveFromIdIndex, RemoveRefused,
       LookupFaults, Crash
<1> QED
  BY InitIInv, NextIInv, <1>1, PTL DEF Spec, RecordsStable
-----------------------------------------------------------------------------
(* The descriptor of d is that of its text, or the text was not stored.    *)
Stored(d) == d.text # Blank => d.desc \in 1..Len(silo) /\ silo[d.desc] = d.text

StringInv ==
  Len(silo) < SiloSize =>
    /\ \A r \in valid : Stored(rows[r])
    /\ pc \in {"text index", "id index", "record", "valid"} => Stored(record)

(* The silo only grows, and only the step that grows it makes descriptors. *)
LEMMA NextStringInv == IInv /\ StringInv /\ [Next]_vars => StringInv'
<1> SUFFICES ASSUME IInv, StringInv, [Next]_vars
             PROVE  StringInv'
  OBVIOUS
<1>1. CASE PutString
  <2> SUFFICES ASSUME Len(silo') < SiloSize
               PROVE  (\A r \in valid : Stored(rows[r])') /\ Stored(record)'
    BY <1>1 DEF PutString, StringInv, Stored
  <2>1. record \in Records /\ silo \in Seq(Texts) /\ Len(silo) \in Nat
    <3>1. record \in Records
      BY <1>1 DEF PutString, IInv, CallInv
    <3>2. silo \in Seq(Texts)
      BY DEF IInv, TypeOK
    <3> QED
      BY <3>1, <3>2
  <2>2. CASE Storable(record.text) /\ silo' = Append(silo, record.text)
             /\ record' = [record EXCEPT !.desc = Len(silo')]
    <3>1. /\ Len(silo') = Len(silo) + 1
          /\ silo'[Len(silo) + 1] = record.text
          /\ \A n \in 1..Len(silo) : silo'[n] = silo[n]
      <4>1. record.text \in Texts
        BY <2>1 DEF Records
      <4> QED
        BY <4>1, <2>1, <2>2, AppendFacts
    <3>2. Len(silo) < SiloSize
      BY <2>2 DEF Storable
    <3>3. Stored(record)'
      BY <2>1, <2>2, <3>1 DEF Stored, Records
    <3>4. ASSUME NEW r \in valid
          PROVE  Stored(rows[r])'
      <4>1. Stored(rows[r])
        BY <3>2 DEF StringInv
      <4>2. \A n \in 1..Len(silo) : n \in 1..Len(silo')
        BY <2>1, <3>1
      <4> QED
        BY <1>1, <4>1, <4>2, <3>1 DEF PutString, Stored
    <3> QED
      BY <3>3, <3>4
  <2>3. CASE ~Storable(record.text) /\ UNCHANGED silo
             /\ \E d \in Descs : record' = [record EXCEPT !.desc = d]
    <3>1. record.text = Blank
      BY <2>3 DEF Storable
    <3>2. record'.text = Blank
      BY <2>1, <2>3, <3>1 DEF Records
    <3> QED
      BY <1>1, <2>3, <3>2 DEF PutString, StringInv, Stored
  <2> QED
    BY <1>1, <2>2, <2>3 DEF PutString
<1>2. CASE PutRecord
  <2>1. nextFree \notin valid
    BY <1>2 DEF PutRecord, IInv, CallInv, Putting
  <2>2. \A r \in valid : rows'[r] = rows[r]
    BY <1>2, <2>1 DEF PutRecord, IInv, TypeOK
  <2> QED
    BY <1>2, <2>2 DEF PutRecord, StringInv, Stored
<1>3. CASE PutValid
  <2>1. rows[nextFree] = record
    BY <1>3 DEF PutValid, IInv, CallInv
  <2> QED
    BY <1>3, <2>1 DEF PutValid, StringInv, Stored
<1>4. CASE UNCHANGED <<silo, rows>> /\ valid' \subseteq valid
           /\ \/ pc' \in {"idle", "string", "id removal"}
              \/ UNCHANGED <<pc, record>>
  BY <1>4 DEF StringInv, Stored
<1>5. ASSUME NEW id \in Ids, NEW text \in Texts, PutStart(id, text)
      PROVE  StringInv'
  BY <1>4, <1>5 DEF PutStart
<1>6. ASSUME NEW id \in Ids, RemoveStart(id) \/ RemoveRefused(id) \/ LookupFaults(id)
      PROVE  StringInv'
  BY <1>4, <1>6 DEF RemoveStart, RemoveRefused, LookupFaults, call
<1>7. CASE PutFull \/ PutTextIndex \/ PutIdIndex \/ PutAdvance \/ RemoveFromIdIndex
           \/ Crash \/ UNCHANGED vars
  <2>1. CASE PutTextIndex \/ PutIdIndex
    <3>1. UNCHANGED <<silo, rows, valid, record>>
      BY <2>1 DEF PutTextIndex, PutIdIndex
    <3>2. pc \in {"text index", "id index"}
      BY <2>1 DEF PutTextIndex, PutIdIndex
    <3> QED
      BY <3>1, <3>2 DEF StringInv, Stored
  <2>2. CASE PutAdvance \/ RemoveFromIdIndex \/ Crash
    <3>1. UNCHANGED <<silo, rows, valid>> /\ pc' = "idle"
      BY <2>2 DEF PutAdvance, RemoveFromIdIndex, Crash
    <3> QED
      BY <3>1 DEF StringInv, Stored
  <2>3. CASE PutFull \/ UNCHANGED vars
    <3>1. UNCHANGED <<silo, rows, valid, pc, record>>
      BY <2>3 DEF PutFull, vars, call
    <3> QED
      BY <3>1 DEF StringInv, Stored
  <2> QED
    BY <1>7, <2>1, <2>2, <2>3
<1> QED
  BY <1>1, <1>2, <1>3, <1>5, <1>6, <1>7 DEF Next

(* A record whose string the silo accepted reads back that string, after   *)
(* any puts, removes and deaths of the process (mos_string.c:46-62).       *)
THEOREM StringsKeptAlways == Spec => []StringsKept
<1>1. Init => StringInv
  BY DEF Init, StringInv
<1>2. StringInv => StringsKept
  BY DEF StringInv, StringsKept, Stored, Fetched
<1> QED
  BY InitIInv, NextIInv, NextStringInv, <1>1, <1>2, PTL DEF Spec
-----------------------------------------------------------------------------
(* While no call was interrupted, only the put in progress has its row's   *)
(* valid bit or an entry of its row in the id index, and the entry of a    *)
(* valid row is under the row's id.                                        *)
EntryInv ==
  crashes = 0 =>
    /\ nextFree \in valid => pc = "advance"
    /\ pc = "advance" => rows[nextFree] = record
    /\ \A id \in Ids, r \in Rows : Entry(idIndex, id, r) =>
         IF r = nextFree THEN pc \in {"record", "valid", "advance"} /\ id = record.id
         ELSE r \in valid => rows[r].id = id

LEMMA InitEntryInv == Init => EntryInv
BY DEF Init, EntryInv, Entry

(* A step that touches neither the id index nor the records.               *)
LEMMA EntriesKept ==
  ASSUME EntryInv, UNCHANGED <<nextFree, rows, idIndex>>, valid' \subseteq valid,
         crashes' = crashes \/ crashes' # 0,
         pc \in {"record", "valid", "advance"} => UNCHANGED <<pc, record>>,
         pc' = "advance" => pc = "advance"
  PROVE  EntryInv'
<1> SUFFICES ASSUME crashes' = 0 PROVE EntryInv'
  BY DEF EntryInv
<1>1. \A id \in Ids, r \in Rows : Entry(idIndex, id, r)' = Entry(idIndex, id, r)
  BY DEF Entry
<1> QED
  BY <1>1 DEF EntryInv

LEMMA NextEntryInv == IInv /\ EntryInv /\ [Next]_vars => EntryInv'
<1> SUFFICES ASSUME IInv, EntryInv, [Next]_vars
             PROVE  EntryInv'
  OBVIOUS
<1>1. CASE PutIdIndex
  <2>1. record \in Records /\ nextFree < MaxRecords /\ nextFree \notin valid
    BY <1>1 DEF PutIdIndex, IInv, CallInv, Putting
  <2>2. nextFree \in Rows /\ record.id \in Ids /\ idIndex \in [Ids -> Seq(Rows)]
    BY <2>1, RowInBounds DEF IInv, TypeOK, Records
  <2>3. \A id \in Ids, r \in Rows : Entry(idIndex', id, r) =>
          Entry(idIndex, id, r) \/ (id = record.id /\ r = nextFree)
    BY <1>1, <2>2, IndexPutsFacts DEF PutIdIndex
  <2>4. \A id \in Ids, r \in Rows : Entry(idIndex, id, r)' = Entry(idIndex', id, r)
    BY DEF Entry
  <2> QED
    BY <1>1, <2>1, <2>3, <2>4 DEF PutIdIndex, EntryInv
<1>2. CASE PutRecord
  <2>1. nextFree \notin valid /\ pc' = "valid" /\ pc = "record"
    BY <1>2 DEF PutRecord, IInv, CallInv, Putting
  <2>2. \A r \in Rows : r # nextFree => rows'[r] = rows[r]
    BY <1>2 DEF PutRecord, IInv, TypeOK
  <2>3. UNCHANGED <<nextFree, valid, idIndex, record, crashes>>
    BY <1>2 DEF PutRecord
  <2>4. \A id \in Ids, r \in Rows : Entry(idIndex, id, r)' = Entry(idIndex, id, r)
    BY <2>3 DEF Entry
  <2> QED
    BY <2>1, <2>2, <2>3, <2>4 DEF EntryInv
<1>3. CASE PutValid
  <2>1. /\ rows[nextFree] = record /\ pc = "valid" /\ pc' = "advance"
        /\ valid' = valid \cup {nextFree}
        /\ UNCHANGED <<nextFree, rows, idIndex, record, crashes>>
    BY <1>3 DEF PutValid, IInv, CallInv
  <2>2. \A id \in Ids, r \in Rows : Entry(idIndex, id, r)' = Entry(idIndex, id, r)
    BY <2>1 DEF Entry
  <2> QED
    BY <2>1, <2>2 DEF EntryInv
<1>4. CASE PutAdvance
  <2>1. /\ pc = "advance" /\ pc' = "idle" /\ nextFree' = nextFree + 1
        /\ UNCHANGED <<valid, rows, idIndex, crashes>>
    BY <1>4 DEF PutAdvance
  <2>2. nextFree \in Nat
    BY RowInBounds DEF IInv
  <2>3. nextFree + 1 \in Rows => /\ nextFree + 1 \notin valid
                                 /\ \A id \in Ids : ~Entry(idIndex, id, nextFree + 1)
    BY <2>2 DEF IInv, RowsBeyondUnused
  <2>4. nextFree + 1 \notin valid
    BY <2>3 DEF IInv, TypeOK
  <2>5. \A id \in Ids, r \in Rows : Entry(idIndex, id, r)' = Entry(idIndex, id, r)
    BY <2>1 DEF Entry
  <2>6. crashes = 0 => \A id \in Ids, r \in Rows :
          Entry(idIndex, id, r) => r # nextFree + 1 /\ (r \in valid => rows[r].id = id)
    BY <2>1, <2>3 DEF EntryInv
  <2> QED
    BY <2>1, <2>4, <2>5, <2>6 DEF EntryInv
<1>5. CASE RemoveFromIdIndex
  <2>1. /\ pc = "id removal" /\ pc' = "idle"
        /\ UNCHANGED <<nextFree, valid, rows, crashes>>
    BY <1>5 DEF RemoveFromIdIndex
  <2>2. \A id \in Ids, r \in Rows : Entry(idIndex, id, r)' => Entry(idIndex, id, r)
    <3>1. \A id \in Ids : idIndex'[id] = idIndex[id] \/ idIndex'[id] = << >>
      BY <1>5 DEF RemoveFromIdIndex, IInv, TypeOK
    <3> QED
      BY <3>1 DEF Entry
  <2> QED
    BY <2>1, <2>2 DEF EntryInv
<1>6. ASSUME NEW id \in Ids, NEW text \in Texts, PutStart(id, text)
      PROVE  EntryInv'
  BY <1>6, EntriesKept DEF PutStart
<1>7. ASSUME NEW id \in Ids, RemoveStart(id) \/ RemoveRefused(id) \/ LookupFaults(id)
      PROVE  EntryInv'
  BY <1>7, EntriesKept DEF RemoveStart, RemoveRefused, LookupFaults, call
<1>8. CASE PutString \/ PutTextIndex
  BY <1>8, EntriesKept DEF PutString, PutTextIndex
<1>9. CASE PutFull \/ UNCHANGED vars
  BY <1>9, EntriesKept DEF PutFull, vars, call
<1>10. CASE Crash
  <2>1. crashes \in 0..MaxCrashes /\ crashes' = crashes + 1
    BY <1>10 DEF Crash, IInv, TypeOK
  <2>2. crashes' # 0
    BY <2>1
  <2> QED
    BY <2>2 DEF EntryInv
<1> QED
  BY <1>1, <1>2, <1>3, <1>4, <1>5, <1>6, <1>7, <1>8, <1>9, <1>10 DEF Next

(* Held, and what makes two of its values the same.                        *)
LEMMA HeldFacts ==
  ASSUME IInv
  PROVE  /\ \A r \in Rows : Held[r] = None <=> r \notin valid
         /\ \A r \in valid : Held[r] = [id |-> rows[r].id, text |-> rows[r].text]
<1>1. \A r \in valid : /\ r \in Rows
                       /\ [id |-> rows[r].id, text |-> rows[r].text] \in [id : Ids, text : Texts]
  BY DEF IInv, TypeOK, ValidRows, Records
<1> QED
  BY <1>1, NoneAssumption DEF Held

LEMMA HeldSame ==
  ASSUME valid' = valid, \A r \in valid : rows'[r] = rows[r]
  PROVE  UNCHANGED Held
BY DEF Held

(* A row loses its valid bit.                                              *)
LEMMA HeldLost ==
  ASSUME NEW r \in Rows, valid' = valid \ {r}, UNCHANGED rows
  PROVE  Held' = [Held EXCEPT ![r] = None]
BY DEF Held

(* A remove, while no call was interrupted, is the abstract remove.        *)
LEMMA RemoveRefines ==
  ASSUME IInv, EntryInv, crashes = 0, NEW id \in Ids, RemoveStart(id),
         idIndex[id][1] \in valid
  PROVE  Store!Next
<1>0. valid \subseteq Rows
  BY DEF IInv, TypeOK
<1>1. PICK e \in Rows : e = idIndex[id][1] /\ e \in valid
  BY <1>0
<1>2. Entry(idIndex, id, e)
  <2>1. Len(idIndex[id]) = 1
    BY DEF RemoveStart
  <2>2. 1 \in 1..Len(idIndex[id])
    BY <2>1
  <2> QED
    BY <1>1, <2>2 DEF Entry
<1>3. rows[e].id = id
  BY <1>1, <1>2 DEF EntryInv, RemoveStart
<1>4. \A r \in valid : rows[r].id = id => r = e
  <2> SUFFICES ASSUME NEW r \in valid, rows[r].id = id PROVE r = e
    OBVIOUS
  <2>1. Entry(idIndex, id, r) \/ Len(idIndex[id]) >= Inlined
    BY DEF IInv, ValidIsIndexed, Indexed, Overgrown
  <2>2. Len(idIndex[id]) = 1
    BY DEF RemoveStart
  <2> QED
    BY <2>1, <2>2, <1>1, StorageAssumption DEF Entry
<1>5. Store!Named(id) = {e}
  <2>1. ASSUME NEW r \in valid
        PROVE  Held[r].id = rows[r].id
    <3>1. Held[r] = [id |-> rows[r].id, text |-> rows[r].text]
      BY HeldFacts
    <3> QED
      BY <3>1
  <2>2. \A r \in Rows : Held[r] # None /\ Held[r].id = id <=> r = e
    BY <2>1, HeldFacts, <1>1, <1>3, <1>4
  <2> QED
    BY <2>2 DEF Store!Named
<1>6. Held' = [Held EXCEPT ![e] = None]
  BY <1>1, HeldLost DEF RemoveStart
<1>7. Store!Remove(id)
  BY <1>5, <1>6 DEF Store!Remove
<1> QED
  BY <1>7 DEF Store!Next

(* Setting the valid bit is where a put takes effect.                      *)
LEMMA PutRefines ==
  ASSUME IInv, PutValid
  PROVE  Store!Next
<1>1. /\ record \in Records /\ nextFree < MaxRecords /\ nextFree \notin valid
      /\ rows[nextFree] = record
  BY DEF PutValid, IInv, CallInv, Putting
<1>2. nextFree \in Rows
  BY <1>1, RowInBounds DEF IInv
<1>3. record.id \in Ids /\ record.text \in Texts
  BY <1>1 DEF Records
<1>4. Held[nextFree] = None
  BY <1>1, <1>2 DEF Held
<1>5. Held' = [Held EXCEPT ![nextFree] = [id |-> record.id, text |-> record.text]]
  BY <1>1, <1>2 DEF PutValid, Held
<1>6. Store!Put(record.id, record.text)
  BY <1>2, <1>4, <1>5 DEF Store!Put
<1> QED
  BY <1>3, <1>6 DEF Store!Next

LEMMA NextRefines ==
  IInv /\ EntryInv /\ [Next]_vars
    => [Store!Next \/ (crashes > 0 /\ Store!Lose)]_Held
<1> SUFFICES ASSUME IInv, EntryInv, [Next]_vars
             PROVE  Store!Next \/ (crashes > 0 /\ Store!Lose) \/ UNCHANGED Held
  OBVIOUS
<1>0. crashes = 0 \/ crashes > 0
  <2>1. crashes \in 0..MaxCrashes /\ MaxCrashes \in 0..MaxRecords /\ MaxRecords \in Nat
    BY StorageAssumption DEF IInv, TypeOK
  <2> QED
    BY <2>1
<1>1. ASSUME NEW id \in Ids, NEW text \in Texts, PutStart(id, text)
      PROVE  (crashes > 0 /\ Store!Lose) \/ UNCHANGED Held
  <2>1. nextFree \in Rows
    BY <1>1, RowInBounds DEF PutStart, IInv
  <2>2. Held' = [Held EXCEPT ![nextFree] = None]
    BY <1>1, <2>1, HeldLost DEF PutStart
  <2>3. CASE crashes = 0
    <3>1. nextFree \notin valid
      BY <1>1, <2>3 DEF PutStart, EntryInv
    <3> QED
      BY <1>1, <3>1, HeldSame DEF PutStart
  <2> QED
    BY <1>0, <2>1, <2>2, <2>3 DEF Store!Lose
<1>2. ASSUME NEW id \in Ids, RemoveStart(id)
      PROVE  Store!Next \/ (crashes > 0 /\ Store!Lose) \/ UNCHANGED Held
  <2>1. PICK e \in Rows : e = idIndex[id][1]
    <3>1. idIndex[id] \in Seq(Rows) /\ Len(idIndex[id]) = 1
      BY <1>2 DEF RemoveStart, IInv, TypeOK
    <3> QED
      BY <3>1
  <2>2. Held' = [Held EXCEPT ![e] = None]
    BY <1>2, <2>1, HeldLost DEF RemoveStart
  <2>3. CASE e \notin valid
    BY <1>2, <2>1, <2>3, HeldSame DEF RemoveStart
  <2>4. CASE e \in valid /\ crashes = 0
    BY <1>2, <2>1, <2>4, RemoveRefines
  <2> QED
    BY <1>0, <2>1, <2>2, <2>3, <2>4 DEF Store!Lose
<1>3. CASE PutRecord
  <2>1. nextFree \notin valid
    BY <1>3 DEF PutRecord, IInv, CallInv, Putting
  <2>2. valid' = valid /\ \A r \in valid : rows'[r] = rows[r]
    BY <1>3, <2>1 DEF PutRecord, IInv, TypeOK
  <2> QED
    BY <2>2, HeldSame
<1>4. CASE PutValid
  BY <1>4, PutRefines
<1>5. CASE UNCHANGED <<valid, rows>>
  BY <1>5, HeldSame
<1> QED
  BY <1>1, <1>2, <1>3, <1>4, <1>5 DEF Next, PutFull, PutString, PutTextIndex, PutIdIndex,
     PutAdvance, RemoveFromIdIndex, RemoveRefused, LookupFaults, Crash, vars

(* The storage implements the record store, for every set of ids and       *)
(* strings and every number of rows: puts take effect when the valid bit   *)
(* is set and removes when it is cleared, and only after an interrupted    *)
(* call may a record be lost (mos_core.c:231-277, 774-795, 890-945).       *)
THEOREM StorageImplements == Spec => ImplementsRecordStore
<1>1. Init => Store!Init
  BY DEF Init, Store!Init, Held
<1> QED
  BY <1>1, InitIInv, NextIInv, InitEntryInv, NextEntryInv, NextRefines, PTL
  DEF Spec, ImplementsRecordStore
-----------------------------------------------------------------------------
(* While no call was interrupted, the entries under an id are of different  *)
(* rows, each with its valid bit set but for that of the call in progress.  *)
ListInv ==
  crashes = 0 =>
    /\ pc = "advance" => nextFree \in valid
    /\ \A id \in Ids : \A m \in 1..Len(idIndex[id]) :
         /\ \/ idIndex[id][m] \in valid \cup {nextFree}
            \/ pc = "id removal" /\ id = record.id
         /\ \A n \in 1..Len(idIndex[id]) : idIndex[id][m] = idIndex[id][n] => m = n

LEMMA NoPlaces ==
  ASSUME NEW s, s = << >>
  PROVE  1..Len(s) = {}
<1>1. Len(<< >>) = 0
  OBVIOUS
<1> QED
  BY <1>1

(* A step that adds no entry and takes no valid bit away.                   *)
LEMMA ListsKept ==
  ASSUME ListInv, UNCHANGED nextFree, valid \subseteq valid' \cup {nextFree},
         \A id \in Ids : idIndex'[id] = idIndex[id] \/ idIndex'[id] = << >>,
         crashes' = crashes \/ crashes' # 0,
         pc = "id removal" => UNCHANGED <<pc, record>> \/ idIndex'[record.id] = << >>,
         pc' = "advance" => nextFree \in valid'
  PROVE  ListInv'
<1> SUFFICES ASSUME crashes' = 0 PROVE ListInv'
  BY DEF ListInv
<1>1. ASSUME NEW id \in Ids, NEW m \in 1..Len(idIndex'[id])
      PROVE  /\ \/ idIndex'[id][m] \in valid' \cup {nextFree'}
                \/ pc' = "id removal" /\ id = record'.id
             /\ \A n \in 1..Len(idIndex'[id]) : idIndex'[id][m] = idIndex'[id][n] => m = n
  <2>1. idIndex'[id] # << >>
    BY <1>1, NoPlaces
  <2>2. idIndex'[id] = idIndex[id]
    BY <2>1
  <2> QED
    BY <1>1, <2>1, <2>2 DEF ListInv
<1> QED
  BY <1>1 DEF ListInv

LEMMA NextListInv == IInv /\ EntryInv /\ ListInv /\ [Next]_vars => ListInv'
<1> SUFFICES ASSUME IInv, EntryInv, ListInv, [Next]_vars
             PROVE  ListInv'
  OBVIOUS
<1>1. CASE PutIdIndex
  <2>1. /\ pc = "id index" /\ pc' = "record" /\ UNCHANGED <<nextFree, valid, record, crashes>>
        /\ idIndex' \in IndexPuts(idIndex, record.id)
    BY <1>1 DEF PutIdIndex
  <2>2. nextFree \in Rows /\ record.id \in Ids /\ idIndex \in [Ids -> Seq(Rows)]
    <3>1. record \in Records /\ nextFree < MaxRecords
      BY <2>1 DEF IInv, CallInv, Putting
    <3> QED
      BY <3>1, RowInBounds DEF IInv, TypeOK, Records
  <2> DEFINE i == record.id
  <2>3. CASE idIndex' = [idIndex EXCEPT ![i] = Append(@, nextFree)]
    <3> SUFFICES ASSUME crashes = 0 PROVE ListInv'
      BY <2>1 DEF ListInv
    <3>1. /\ Len(idIndex[i]) \in Nat /\ Len(idIndex'[i]) = Len(idIndex[i]) + 1
          /\ idIndex'[i][Len(idIndex[i]) + 1] = nextFree
          /\ \A n \in 1..Len(idIndex[i]) : idIndex'[i][n] = idIndex[i][n]
      <4>1. idIndex'[i] = Append(idIndex[i], nextFree) /\ idIndex[i] \in Seq(Rows)
        BY <2>2, <2>3
      <4> QED
        BY <2>2, <4>1, AppendFacts
    <3>2. \A n \in 1..Len(idIndex[i]) : idIndex[i][n] # nextFree
      BY <2>1, <2>2 DEF EntryInv, Entry
    <3>3. \A m \in 1..Len(idIndex'[i]) : m = Len(idIndex[i]) + 1 \/ m \in 1..Len(idIndex[i])
      BY <3>1
    <3>4. ASSUME NEW id \in Ids, NEW m \in 1..Len(idIndex'[id])
          PROVE  /\ idIndex'[id][m] \in valid \cup {nextFree}
                 /\ \A n \in 1..Len(idIndex'[id]) : idIndex'[id][m] = idIndex'[id][n] => m = n
      <4>1. CASE id = i
        <5>1. \A n \in 1..Len(idIndex[i]) : idIndex[i][n] \in valid \cup {nextFree}
          BY <2>1, <2>2 DEF ListInv
        <5>2. \A k, n \in 1..Len(idIndex[i]) : idIndex[i][k] = idIndex[i][n] => k = n
          BY <2>2 DEF ListInv
        <5> HIDE DEF i
        <5> QED
          BY <3>1, <3>2, <3>3, <3>4, <4>1, <5>1, <5>2
      <4>2. CASE id # i
        <5>1. idIndex'[id] = idIndex[id]
          BY <2>2, <2>3, <4>2
        <5> QED
          BY <2>1, <3>4, <5>1 DEF ListInv
      <4> QED
        BY <4>1, <4>2
    <3> QED
      BY <2>1, <3>4 DEF ListInv
  <2>4. CASE idIndex' = idIndex
    BY <2>1, <2>4, ListsKept
  <2> QED
    BY <2>1, <2>3, <2>4 DEF IndexPuts
<1>2. CASE PutAdvance
  <2>1. /\ pc = "advance" /\ pc' = "idle" /\ nextFree' = nextFree + 1
        /\ UNCHANGED <<valid, idIndex, crashes>>
    BY <1>2 DEF PutAdvance
  <2> QED
    BY <2>1 DEF ListInv
<1>3. ASSUME NEW id \in Ids, RemoveStart(id) PROVE ListInv'
  <2>1. /\ pc = "idle" /\ pc' = "id removal" /\ record'.id = id
        /\ Len(idIndex[id]) = 1 /\ valid' = valid \ {idIndex[id][1]}
        /\ UNCHANGED <<nextFree, idIndex, crashes>>
    BY <1>3 DEF RemoveStart
  <2> SUFFICES ASSUME crashes = 0 PROVE ListInv'
    BY <2>1 DEF ListInv
  <2>2. ASSUME NEW o \in Ids, o # id, NEW m \in 1..Len(idIndex[o])
        PROVE  idIndex[o][m] \in valid' \cup {nextFree}
    <3>1. idIndex[o][m] \in valid \cup {nextFree}
      BY <2>1 DEF ListInv
    <3>2. CASE idIndex[o][m] = idIndex[id][1] /\ idIndex[o][m] # nextFree
      <4>1. idIndex[id][1] \in valid /\ idIndex[id][1] \in Rows
        BY <3>1, <3>2 DEF IInv, TypeOK
      <4>2. 1 \in 1..Len(idIndex[id])
        <5>1. Len(idIndex[id]) = 1
          BY <2>1
        <5> QED
          BY <5>1
      <4>3. Entry(idIndex, o, idIndex[id][1]) /\ Entry(idIndex, id, idIndex[id][1])
        BY <3>2, <4>2 DEF Entry
      <4>4. rows[idIndex[id][1]].id = o /\ rows[idIndex[id][1]].id = id
        BY <3>2, <4>1, <4>3 DEF EntryInv
      <4> QED
        BY <2>2, <4>4
    <3> QED
      BY <2>1, <3>1, <3>2
  <2> QED
    BY <2>1, <2>2 DEF ListInv
<1>4. CASE RemoveFromIdIndex
  <2>1. \A id \in Ids : idIndex'[id] = idIndex[id] \/ idIndex'[id] = << >>
    BY <1>4 DEF RemoveFromIdIndex, IInv, TypeOK
  <2>2. idIndex'[record.id] = << >>
    <3>1. record.id \in Ids
      BY <1>4 DEF RemoveFromIdIndex, IInv, CallInv, Records
    <3> QED
      BY <1>4, <3>1 DEF RemoveFromIdIndex, IInv, TypeOK
  <2> QED
    BY <1>4, <2>1, <2>2, ListsKept DEF RemoveFromIdIndex
<1>5. ASSUME NEW id \in Ids, NEW text \in Texts, PutStart(id, text)
      PROVE  ListInv'
  BY <1>5, ListsKept DEF PutStart
<1>6. ASSUME NEW id \in Ids, RemoveRefused(id) \/ LookupFaults(id)
      PROVE  ListInv'
  BY <1>6, ListsKept DEF RemoveRefused, LookupFaults, call, ListInv
<1>7. CASE PutString \/ PutTextIndex \/ PutRecord \/ PutValid
  BY <1>7, ListsKept DEF PutString, PutTextIndex, PutRecord, PutValid
<1>8. CASE PutFull \/ UNCHANGED vars
  <2>1. UNCHANGED <<nextFree, valid, idIndex, record, pc, crashes>>
    BY <1>8 DEF PutFull, vars, call
  <2> QED
    BY <2>1 DEF ListInv
<1>9. CASE Crash
  <2>1. crashes \in 0..MaxCrashes /\ crashes' = crashes + 1
    BY <1>9 DEF Crash, IInv, TypeOK
  <2>2. crashes' # 0
    BY <2>1
  <2> QED
    BY <2>2 DEF ListInv
<1> QED
  BY <1>1, <1>2, <1>3, <1>4, <1>5, <1>6, <1>7, <1>8, <1>9 DEF Next

LEMMA Several == ASSUME NEW n \in Nat \ {0, 1} PROVE 1 \in 1..n /\ 2 \in 1..n
OBVIOUS

(* The rows of a list without repetitions are as many as its entries.      *)
LEMMA AsManyRows ==
  ASSUME NEW found, IsFiniteSet(found), NEW list, Len(list) \in Nat,
         \A m \in 1..Len(list) : list[m] \in found,
         \A m, n \in 1..Len(list) : list[m] = list[n] => m = n
  PROVE  Cardinality(found) \in Nat /\ Len(list) <= Cardinality(found)
<1> DEFINE places == 1..Len(list)
           row == [m \in places |-> list[m]]
<1>1. row \in Injection(places, found)
  BY DEF Injection, IsInjective
<1>2. Cardinality(places) <= Cardinality(found)
  BY <1>1, FS_Injection
<1>3. Cardinality(places) = Len(list)
  <2>1. 1 \in Int /\ Len(list) \in Int
    OBVIOUS
  <2>2. Cardinality(1..Len(list)) = IF 1 > Len(list) THEN 0 ELSE Len(list) - 1 + 1
    BY <2>1, FS_Interval
  <2> QED
    BY <2>2
<1>4. Cardinality(found) \in Nat
  BY FS_CardinalityType
<1> QED
  BY <1>2, <1>3, <1>4

(* What the id index holds between calls is what get answers with.          *)
LEMMA InvariantsGiveGet ==
  ASSUME IInv, EntryInv, ListInv
  PROVE  GetIsExact
<1> SUFFICES ASSUME pc = "idle", crashes = 0, NEW id \in Ids
             PROVE  /\ \A r \in valid : ValidWithId(id) = {r} => Get(id) = {rows[r]}
                    /\ Cardinality(ValidWithId(id)) # 1 => Get(id) \in {{None}, {Fault}}
                    /\ Get(id) = {Fault} => Cardinality(ValidWithId(id)) > Inlined
  BY DEF GetIsExact
<1> DEFINE list == idIndex[id]
<1>1. list \in Seq(Rows) /\ Len(list) \in Nat /\ valid \subseteq Rows
  BY DEF IInv, TypeOK
<1>2. \A m \in 1..Len(list) : list[m] \in valid /\ rows[list[m]].id = id
  <2> SUFFICES ASSUME NEW m \in 1..Len(list)
               PROVE  list[m] \in valid /\ rows[list[m]].id = id
    OBVIOUS
  <2>1. list[m] \in Rows /\ Entry(idIndex, id, list[m])
    BY <1>1 DEF Entry
  <2>2. list[m] # nextFree
    BY <2>1 DEF EntryInv
  <2> QED
    BY <2>1, <2>2 DEF EntryInv, ListInv
<1>3. \A m, n \in 1..Len(list) : list[m] = list[n] => m = n
  BY DEF ListInv
<1>4. \A r \in valid : rows[r].id = id =>
        (\E n \in 1..Len(list) : list[n] = r) \/ Len(list) >= Inlined
  BY DEF IInv, ValidIsIndexed, Indexed, Entry, Overgrown
<1>5. Get(id) = IF Len(list) > Inlined THEN {Fault}
                ELSE IF Len(list) = 1 /\ list[1] \in valid THEN {rows[list[1]]}
                ELSE {None}
  BY DEF Get, InArena, MayBeInArena
<1> HIDE DEF list
<1>6. Inlined \in Nat /\ Inlined >= 2
  BY StorageAssumption
<1>7. /\ \A r \in valid : rows[r] # Fault
      /\ Fault # None
  BY NoneAssumption DEF IInv, ValidRows
<1>8. IsFiniteSet(ValidWithId(id)) /\ ValidWithId(id) \subseteq valid
  <2>1. 0 \in Int /\ MaxRecords - 1 \in Int
    BY StorageAssumption
  <2>2. IsFiniteSet(Rows)
    BY <2>1, FS_Interval DEF Rows
  <2> QED
    BY <1>1, <2>2, FS_Subset DEF ValidWithId
<1>9. CASE Len(list) = 0
  <2>1. ValidWithId(id) = {}
    BY <1>4, <1>6, <1>9 DEF ValidWithId
  <2>2. Get(id) = {None}
    BY <1>5, <1>6, <1>9
  <2> QED
    BY <1>7, <2>1, <2>2
<1>10. CASE Len(list) = 1
  <2>1. 1 \in 1..Len(list)
    BY <1>10
  <2>2. ValidWithId(id) = {list[1]} /\ list[1] \in valid
    BY <1>2, <1>4, <1>6, <1>10, <2>1 DEF ValidWithId
  <2>3. Get(id) = {rows[list[1]]}
    BY <1>5, <1>6, <1>10, <2>2
  <2>4. Cardinality(ValidWithId(id)) = 1
    BY <2>2, FS_Singleton
  <2>5. Get(id) # {Fault}
    BY <1>7, <2>2, <2>3
  <2>6. \A r \in valid : ValidWithId(id) = {r} => r = list[1]
    BY <2>2
  <2> QED
    BY <2>3, <2>4, <2>5, <2>6
<1>11. CASE Len(list) \in Nat \ {0, 1}
  <2>1. 1 \in 1..Len(list) /\ 2 \in 1..Len(list)
    BY <1>11, Several
  <2>2. list[1] # list[2]
    BY <1>3, <2>1
  <2>3. \A m \in 1..Len(list) : list[m] \in ValidWithId(id)
    BY <1>2 DEF ValidWithId
  <2>4. \A r \in valid : ValidWithId(id) # {r}
    BY <2>1, <2>2, <2>3
  <2>5. Len(list) # 1
    BY <1>11
  <2>6. Get(id) = IF Len(list) > Inlined THEN {Fault} ELSE {None}
    BY <1>5, <2>5
  <2>7. Cardinality(ValidWithId(id)) \in Nat /\ Len(list) <= Cardinality(ValidWithId(id))
    BY <1>1, <1>3, <1>8, <2>3, AsManyRows
  <2>8. Get(id) = {Fault} => Cardinality(ValidWithId(id)) > Inlined
    <3>1. Get(id) = {Fault} => Len(list) > Inlined
      BY <2>6, <1>7
    <3> QED
      BY <3>1, <2>7, <1>1, <1>6
  <2> QED
    BY <2>4, <2>6, <2>8
<1>12. Len(list) = 0 \/ Len(list) = 1 \/ Len(list) \in Nat \ {0, 1}
  BY <1>1
<1> QED
  BY <1>9, <1>10, <1>11, <1>12

(* A get answers with the record that was put under the id and not removed. *)
(* Without one it finds nothing, and with several it finds nothing or, only *)
(* with more than fit the node of the id, faults (mos_core.c:860-884).      *)
THEOREM GetAnswersExactly == Spec => []GetIsExact
<1>1. Init => ListInv
  BY DEF Init, ListInv
<1> QED
  BY <1>1, InitIInv, NextIInv, InitEntryInv, NextEntryInv, NextListInv,
     InvariantsGiveGet, PTL DEF Spec

(* A row beyond next_free_row_id has neither a valid bit nor an entry in    *)
(* either index, whatever calls died (mos_core.c:788-791).                  *)
THEOREM NothingBeyondNextFree == Spec => []RowsBeyondUnused
BY CrashSafe, PTL
=============================================================================
