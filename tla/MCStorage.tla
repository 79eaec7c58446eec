------------------------------ MODULE MCStorage ------------------------------
(* A statement of the source about the storage that the code does not keep, *)
(* and what is interchangeable in the runs.                                *)
EXTENDS Storage, TLC

Interchangeable == Permutations(Ids) \cup Permutations(Texts \ {Blank})

(* A search of the string attribute finds records whose valid bit is set:  *)
(* "record is valid for search etc." (mos_core.c:275).  A remove clears    *)
(* the bit but leaves the row in the attribute's index.                    *)
SearchFindsValid ==
  pc = "idle" =>
    \A text \in Texts, r \in Rows : Entry(textIndex, text, r) => r \in valid
=============================================================================
