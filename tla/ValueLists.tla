----------------------------- MODULE ValueLists -----------------------------
(***************************************************************************)
(* What the users of the dynamic arena (include/mos_arena.h) and of the    *)
(* hash map index (src/mos_idx_hmap.c) rely on: every owner, a block's      *)
(* holder or a key, has a list of values of its own, reads back exactly    *)
(* what was appended to it, and loses it only when it drops it itself.     *)
(***************************************************************************)
EXTENDS Sequences

CONSTANTS Owners,   \* those that hold an arena block, or the keys of an index
          Values    \* what is appended (row ids)

VARIABLE lists      \* Owners -> the values appended since the last Drop

Init == lists = [o \in Owners |-> << >>]

Append1(o, v) == lists' = [lists EXCEPT ![o] = Append(@, v)]

Drop(o) == lists' = [lists EXCEPT ![o] = << >>]

(* Lists of any owners at once cannot be read any more.                    *)
Spoil(unknown) ==
  \E S \in SUBSET Owners :
    lists' = [o \in Owners |-> IF o \in S THEN unknown ELSE lists[o]]

Next == \E o \in Owners : Drop(o) \/ \E v \in Values : Append1(o, v)

Spec == Init /\ [][Next]_lists
=============================================================================
