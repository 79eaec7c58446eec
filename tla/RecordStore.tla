----------------------------- MODULE RecordStore -----------------------------
(***************************************************************************)
(* What include/mos.h promises the user of a storage: a record that was    *)
(* put keeps its id and its attributes until it is removed by its id, an   *)
(* id that names several records removes none of them, and the storage     *)
(* holds a bounded number of records.                                      *)
(***************************************************************************)
CONSTANTS Rows,    \* the places records may occupy
          Ids,     \* the ids records are put under
          Texts,   \* the value of the record's string attribute
          None     \* no record

VARIABLE records   \* Rows -> the record held there

Records == [id : Ids, text : Texts]
Named(id) == {r \in Rows : records[r] # None /\ records[r].id = id}

Init == records = [r \in Rows |-> None]

Put(id, text) ==
  \E r \in Rows :
    /\ records[r] = None
    /\ records' = [records EXCEPT ![r] = [id |-> id, text |-> text]]

Remove(id) ==
  \E r \in Rows :
    /\ Named(id) = {r}
    /\ records' = [records EXCEPT ![r] = None]

(* What a death of the process may cost later on: a record of any id.      *)
Lose == \E r \in Rows : records' = [records EXCEPT ![r] = None]

Next == \E id \in Ids : Remove(id) \/ \E text \in Texts : Put(id, text)

Spec == Init /\ [][Next]_records
=============================================================================
