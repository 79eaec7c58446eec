------------------------------ MODULE MCHnsw -------------------------------
(* Distances and searches for the runs of Hnsw, and a statement of the     *)
(* fuzz test that the code does not keep.                                  *)
EXTENDS Hnsw

(* Points on a line, no three of them with two equal distances.            *)
Line == [p \in Points \X Points |-> IF p[1] < p[2] THEN p[2] - p[1] ELSE p[1] - p[2]]
WideAndNarrow == {[q |-> 2, ef |-> 4, k |-> 2, threshold |-> 3],
                  [q |-> 8, ef |-> 1, k |-> 2, threshold |-> 99]}

(* Vectors nearly at right angles, seen from vector 1 in their middle:     *)
(* squared distances of about 1000 to it and 2000 to each other.           *)
Star == [p \in Points \X Points |->
           IF p[1] = p[2] THEN 0
           ELSE IF 1 \in {p[1], p[2]} THEN 1000 + p[1] + p[2]
           ELSE 2000 + p[1] * p[2]]
All == {[q |-> 1, ef |-> 7, k |-> 7, threshold |-> 9999]}

(* "Bitmap popcount must equal min(top_k, total_vectors)"                  *)
(* (tests/mos_fuzzy_idx_hnsw.c:216): a search with room for all nodes,     *)
(* top_k no less and a threshold above every distance, finds them all.     *)
EveryVectorFound ==
  answer # NoAnswer /\ ~empty /\ answer.call.ef >= count /\ answer.call.k >= count =>
    Cardinality(answer.rows) = count
============================================================================
