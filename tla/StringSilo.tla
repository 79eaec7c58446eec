----------------------------- MODULE StringSilo ------------------------------
(***************************************************************************)
(* The string silo of src/mos_string.c: strings grow from the end of the   *)
(* region towards its base, and removed strings form a linked free list    *)
(* whose links are stored in the freed memory itself.                      *)
(*                                                                         *)
(* Memory is counted in cells of MOS_MIN_STRING_ALLOC bytes, the room a    *)
(* link takes and what every length is rounded up to.  Cell k is the one   *)
(* that ends k - 1 cells before the end of the silo, so that an offset in  *)
(* cells is the number of the first cell of a string.  The user keeps the  *)
(* descriptors, as records do.                                             *)
(***************************************************************************)
EXTENDS Integers, Sequences

CONSTANTS
  Strings,   \* the strings a user puts and removes
  Lengths,   \* their lengths in bytes
  Unit,      \* MOS_MIN_STRING_ALLOC
  Cells,     \* size of the silo
  Null       \* MOS_NULL_OFFSET

ASSUME SiloAssumption ==
  /\ Unit \in Nat \ {0} /\ Cells \in Nat
  /\ Lengths \subseteq Nat
  /\ Null \notin Int

Offsets == 1..Cells
Descs == [off : Offsets, len : Nat \ {0}]
NoDesc == [off |-> Null, len |-> 0]

VARIABLES
  current,   \* current_offset
  last,      \* last_deleted
  mem,       \* cell -> a link, or the part of a string
  desc,      \* Strings -> the descriptor its user holds, NoDesc if none
  free       \* history: the free blocks, the one removed last first

vars == <<current, last, mem, desc, free>>

Part(s, i) == [string |-> s, part |-> i]
Cell == Descs \cup {NoDesc} \cup [string : Strings, part : Nat]

TypeOK ==
  /\ current \in 0..Cells
  /\ last \in Descs \cup {NoDesc}
  /\ mem \in [Offsets -> Cell]
  /\ desc \in [Strings -> Descs \cup {NoDesc}]
  /\ free \in Seq(Descs)

Init ==
  /\ current = 0
  /\ last = NoDesc
  /\ mem = [k \in Offsets |-> NoDesc]
  /\ desc = [s \in Strings |-> NoDesc]
  /\ free = << >>
-----------------------------------------------------------------------------
(* MOS_ALIGN_UP, in cells.                                                 *)
Aligned(len) == (len + Unit - 1) \div Unit

(* The cells of a block, its first one holds the link when it is free.     *)
Block(d) == (d.off - Aligned(d.len) + 1) .. d.off

Live(s) == desc[s] # NoDesc

(* memcpy to the block and the descriptor handed to the user.              *)
Write(s, off, len) ==
  LET d == [off |-> off, len |-> len]
  IN /\ mem' = [k \in Offsets |-> IF k \in Block(d) THEN Part(s, off - k) ELSE mem[k]]
     /\ desc' = [desc EXCEPT ![s] = d]

(* The last removed string has room for a string of this length.           *)
Reusable(len) == last # NoDesc /\ Aligned(last.len) >= Aligned(len)

PutExact(s, len) ==
  /\ ~Live(s) /\ len > 0
  /\ last # NoDesc /\ Aligned(last.len) = Aligned(len)
  /\ last' = mem[last.off]
  /\ Write(s, last.off, len)
  /\ free' = Tail(free)
  /\ UNCHANGED current

(* Deliberately wrong variants, each showing that a property can fail, stand *)
(* before the definition they replace.  Here: the new string gets the part  *)
(* of the block that holds the link; the rest of the block is forgotten.   *)
PutSplitWrongEnd(s, len) ==
  LET diff == Aligned(last.len) - Aligned(len) IN
  /\ ~Live(s) /\ len > 0
  /\ last # NoDesc /\ diff > 0
  /\ last' = [off |-> last.off, len |-> diff * Unit]
  /\ Write(s, last.off, len)
  /\ free' = <<last'>> \o Tail(free)
  /\ UNCHANGED current
PutSplitForgetsRest(s, len) ==
  LET diff == Aligned(last.len) - Aligned(len) IN
  /\ ~Live(s) /\ len > 0
  /\ last # NoDesc /\ diff > 0
  /\ last' = mem[last.off]
  /\ Write(s, last.off - diff, len)
  /\ free' = Tail(free)
  /\ UNCHANGED current

PutSplit(s, len) ==
  LET diff == Aligned(last.len) - Aligned(len) IN
  /\ ~Live(s) /\ len > 0
  /\ last # NoDesc /\ diff > 0
  /\ last' = [off |-> last.off, len |-> diff * Unit]
  /\ Write(s, last.off - diff, len)
  /\ free' = <<last'>> \o Tail(free)
  /\ UNCHANGED current

PutOnTop(s, len) ==
  /\ ~Live(s) /\ len > 0
  /\ ~Reusable(len)
  /\ current + Aligned(len) <= Cells
  /\ current' = current + Aligned(len)
  /\ Write(s, current', len)
  /\ UNCHANGED <<last, free>>

PutRefused(s, len) ==
  /\ ~Live(s)
  /\ len = 0 \/ (~Reusable(len) /\ current + Aligned(len) > Cells)
  /\ UNCHANGED vars

(* Wrong: the link to the rest of the free list is not written.            *)
RemoveWithoutLink(s) ==
  /\ Live(s)
  /\ last' = desc[s]
  /\ desc' = [desc EXCEPT ![s] = NoDesc]
  /\ free' = <<desc[s]>> \o free
  /\ UNCHANGED <<current, mem>>

Remove(s) ==
  /\ Live(s)
  /\ mem' = [mem EXCEPT ![desc[s].off] = last]
  /\ last' = desc[s]
  /\ desc' = [desc EXCEPT ![s] = NoDesc]
  /\ free' = <<desc[s]>> \o free
  /\ UNCHANGED current

Next ==
  \E s \in Strings :
    \/ \E len \in Lengths :
         PutExact(s, len) \/ PutSplit(s, len) \/ PutOnTop(s, len) \/ PutRefused(s, len)
    \/ Remove(s)

Spec == Init /\ [][Next]_vars
-----------------------------------------------------------------------------
(* "every live string still reads back correctly"                          *)
(* (tests/mos_fuzzy_string_silo.c:69): neither the strings put later nor   *)
(* the links of removed ones were written over it.                         *)
StringsIntact ==
  \A s \in Strings : Live(s) =>
    \A k \in Block(desc[s]) : k \in Offsets /\ mem[k] = Part(s, desc[s].off - k)

(* Following the links stored in freed memory from last_deleted visits the *)
(* removed strings, last one first, and ends (mos_string.c:37, 41-44, 78). *)
Chained(i) == IF i \in 1..Len(free) THEN free[i] ELSE NoDesc
LinksFollow ==
  /\ last = Chained(1)
  /\ \A i \in 1..Len(free) : mem[free[i].off] = Chained(i + 1)

(* No space is lost and none is given out twice: each cell below            *)
(* current_offset is part of one live string or of one free block          *)
(* (mos_string.c:25-51).                                                   *)
(* Its first conjunct is the type invariant.                               *)
SpaceAccounted ==
  TypeOK /\ \A k \in Offsets :
    /\ k <= current <=> \/ \E s \in Strings : Live(s) /\ k \in Block(desc[s])
                        \/ \E i \in 1..Len(free) : k \in Block(free[i])
    /\ \A i \in 1..Len(free) : k \in Block(free[i]) =>
         /\ \A s \in Strings : Live(s) => k \notin Block(desc[s])
         /\ \A j \in 1..Len(free) : k \in Block(free[j]) => i = j
=============================================================================
