----------------------------- MODULE SiloProofs ------------------------------
(* Proofs about the string silo, for any strings, lengths and sizes.       *)
EXTENDS StringSilo, TLAPS, SequenceTheorems

(* The second part of SpaceAccounted: cells are shared out exactly.        *)
Covered(k) ==
  \/ \E s \in Strings : Live(s) /\ k \in Block(desc[s])
  \/ \E i \in 1..Len(free) : k \in Block(free[i])
Shared ==
  \A k \in Offsets :
    /\ k <= current <=> Covered(k)
    /\ \A i \in 1..Len(free) : k \in Block(free[i]) =>
         /\ \A s \in Strings : Live(s) => k \notin Block(desc[s])
         /\ \A j \in 1..Len(free) : k \in Block(free[j]) => i = j

(* Free blocks lie in the silo, as live ones do by StringsIntact.          *)
FreeInside == \A i \in 1..Len(free) : Block(free[i]) \subseteq Offsets

IInv == TypeOK /\ StringsIntact /\ LinksFollow /\ Shared /\ FreeInside

(* Rounding up to the unit of allocation.                                  *)
LEMMA AlignedPositive ==
  ASSUME NEW len \in Nat \ {0}
  PROVE  Aligned(len) \in Nat \ {0}
<1>1. Unit \in Nat \ {0}
  BY SiloAssumption
<1> DEFINE q == (len + Unit - 1) \div Unit
<1>2. q \in Int /\ len + Unit - 1 < Unit * (q + 1)
  BY <1>1
<1>3. q >= 1
  BY <1>1, <1>2
<1> QED
  BY <1>2, <1>3 DEF Aligned

LEMMA AlignedMultiple ==
  ASSUME NEW n \in Nat \ {0}
  PROVE  Aligned(n * Unit) = n /\ n * Unit \in Nat \ {0}
<1>1. Unit \in Nat \ {0}
  BY SiloAssumption
<1>2. n * Unit \in Nat \ {0}
  BY <1>1
<1> QED
  BY <1>1, <1>2 DEF Aligned

(* A block ends at its offset and is as long as its length rounded up.      *)
LEMMA BlockEnds ==
  ASSUME NEW d \in Descs
  PROVE  d.off \in Offsets /\ d.len \in Nat \ {0} /\ d.off \in Block(d)
<1>1. d.off \in Offsets /\ d.len \in Nat \ {0}
  BY DEF Descs
<1>2. Aligned(d.len) \in Nat \ {0}
  BY <1>1, AlignedPositive
<1> QED
  BY <1>1, <1>2, SiloAssumption DEF Block, Offsets

LEMMA NoDescIsNone == NoDesc \notin Descs
BY SiloAssumption DEF NoDesc, Descs, Offsets

LEMMA PartsApart ==
  ASSUME NEW s, NEW t, NEW i, NEW j, Part(s, i) = Part(t, j)
  PROVE  s = t /\ i = j
BY DEF Part

LEMMA LiveOrNone ==
  ASSUME TypeOK, NEW s \in Strings
  PROVE  Live(s) => desc[s] \in Descs
BY DEF TypeOK, Live

LEMMA FreeTyped ==
  ASSUME TypeOK
  PROVE  Len(free) \in Nat /\ \A i \in 1..Len(free) : free[i] \in Descs
BY DEF TypeOK

(* last_deleted is the first free block, when there is one.                 *)
LEMMA LastIsFirst ==
  ASSUME TypeOK, LinksFollow, last # NoDesc
  PROVE  /\ Len(free) \in Nat \ {0}
         /\ last = free[1] /\ last \in Descs
         /\ mem[last.off] = Chained(2)
<1>1. Len(free) \in Nat /\ \A i \in 1..Len(free) : free[i] \in Descs
  BY FreeTyped
<1>2. 1 \in 1..Len(free) /\ last = free[1]
  BY DEF LinksFollow, Chained
<1>3. mem[free[1].off] = Chained(1 + 1)
  BY <1>2 DEF LinksFollow
<1> QED
  BY <1>1, <1>2, <1>3

(* A live string owns its block alone.                                      *)
LEMMA LiveApart ==
  ASSUME StringsIntact, NEW s \in Strings, NEW t \in Strings, Live(s), Live(t),
         NEW k \in Block(desc[s]), k \in Block(desc[t])
  PROVE  s = t
<1>1. mem[k] = Part(s, desc[s].off - k) /\ mem[k] = Part(t, desc[t].off - k)
  BY DEF StringsIntact
<1> QED
  BY <1>1, PartsApart

(* A string written to cells no live string uses: it reads back, and so do  *)
(* the others.                                                              *)
LEMMA Written ==
  ASSUME TypeOK, StringsIntact,
         NEW s \in Strings, ~Live(s), NEW d \in Descs, Write(s, d.off, d.len),
         Block(d) \subseteq Offsets,
         \A k \in Block(d), t \in Strings : Live(t) => k \notin Block(desc[t])
  PROVE  /\ desc' \in [Strings -> Descs \cup {NoDesc}] /\ mem' \in [Offsets -> Cell]
         /\ StringsIntact'
         /\ \A k \in Offsets : k \notin Block(d) => mem'[k] = mem[k]
         /\ desc'[s] = d /\ \A t \in Strings : t # s => desc'[t] = desc[t]
         /\ Live(s)' /\ \A t \in Strings : t # s => (Live(t)' <=> Live(t))
<1>1. [off |-> d.off, len |-> d.len] = d
  BY DEF Descs
<1>2. /\ mem' = [k \in Offsets |-> IF k \in Block(d) THEN Part(s, d.off - k) ELSE mem[k]]
      /\ desc' = [desc EXCEPT ![s] = d]
  BY <1>1 DEF Write
<1>3. /\ desc' \in [Strings -> Descs \cup {NoDesc}]
      /\ desc'[s] = d /\ \A t \in Strings : t # s => desc'[t] = desc[t]
  BY <1>2 DEF TypeOK
<1>4. Live(s)' /\ \A t \in Strings : t # s => (Live(t)' <=> Live(t))
  BY <1>3, NoDescIsNone DEF Live
<1>5. \A k \in Offsets : k \notin Block(d) => mem'[k] = mem[k]
  BY <1>2
<1>6. ASSUME NEW k \in Offsets PROVE mem'[k] \in Cell
  <2>1. CASE k \in Block(d)
    <3>1. d.off - k \in Nat /\ mem'[k] = Part(s, d.off - k)
      BY <1>2, <2>1, BlockEnds DEF Block, Offsets
    <3> QED
      BY <3>1 DEF Part, Cell
  <2>2. CASE k \notin Block(d)
    BY <1>5, <2>2 DEF TypeOK
  <2> QED
    BY <2>1, <2>2
<1>7. mem' \in [Offsets -> Cell]
  BY <1>2, <1>6
<1>8. ASSUME NEW t \in Strings, Live(t)', NEW k \in Block(desc'[t])
      PROVE  k \in Offsets /\ mem'[k] = Part(t, desc'[t].off - k)
  <2>1. CASE t = s
    BY <1>2, <1>3, <1>8, <2>1
  <2>2. CASE t # s
    <3>1. Live(t) /\ desc'[t] = desc[t]
      BY <1>3, <1>4, <1>8, <2>2
    <3>2. k \in Offsets /\ mem[k] = Part(t, desc[t].off - k)
      BY <1>8, <3>1 DEF StringsIntact
    <3>3. k \notin Block(d)
      BY <1>8, <3>1
    <3> QED
      BY <1>5, <3>1, <3>2, <3>3
  <2> QED
    BY <2>1, <2>2
<1>9. StringsIntact'
  BY <1>8 DEF StringsIntact, Live, Block
<1> QED
  BY <1>3, <1>4, <1>5, <1>7, <1>9
-----------------------------------------------------------------------------
LEMMA InitIInv == Init => IInv
<1> SUFFICES ASSUME Init PROVE IInv
  OBVIOUS
<1>1. free = << >> /\ Len(free) = 0 /\ current = 0
  BY DEF Init
<1>2. TypeOK
  BY SiloAssumption DEF Init, TypeOK, Cell
<1>3. \A s \in Strings : ~Live(s)
  BY DEF Init, Live
<1>4. LinksFollow
  BY <1>1 DEF Init, LinksFollow, Chained
<1>5. Shared
  BY <1>1, <1>3 DEF Shared, Covered, Offsets
<1> QED
  BY <1>1, <1>2, <1>3, <1>4, <1>5 DEF IInv, StringsIntact, FreeInside

(* No live string is stored in a free block.                                *)
LEMMA FreeUnused ==
  ASSUME IInv, NEW i \in 1..Len(free), NEW k \in Block(free[i])
  PROVE  /\ k \in Offsets /\ k <= current
         /\ \A t \in Strings : Live(t) => k \notin Block(desc[t])
         /\ \A j \in 1..Len(free) : k \in Block(free[j]) => i = j
BY DEF IInv, Shared, FreeInside, Covered

(* The cells live strings use after a write.                                *)
Used(k) == \E s \in Strings : Live(s) /\ k \in Block(desc[s])

LEMMA UsedAfterWrite ==
  ASSUME NEW s \in Strings, NEW d, ~Live(s),
         desc'[s] = d, \A t \in Strings : t # s => desc'[t] = desc[t],
         Live(s)', \A t \in Strings : t # s => (Live(t)' <=> Live(t))
  PROVE  \A k : Used(k)' <=> k \in Block(d) \/ Used(k)
<1> SUFFICES ASSUME NEW k PROVE Used(k)' <=> k \in Block(d) \/ Used(k)
  OBVIOUS
<1>1. ASSUME Used(k)' PROVE k \in Block(d) \/ Used(k)
  <2>1. PICK t \in Strings : Live(t)' /\ k \in Block(desc'[t])
    BY <1>1 DEF Used, Block
  <2> QED
    BY <2>1 DEF Used
<1>2. ASSUME k \in Block(d) \/ Used(k) PROVE Used(k)'
  <2>1. \E t \in Strings : Live(t)' /\ k \in Block(desc'[t])
    BY <1>2 DEF Used
  <2> QED
    BY <2>1 DEF Used, Block
<1> QED
  BY <1>1, <1>2

(* Shared, with the live strings behind Used.                               *)
SharedUsed ==
  \A k \in Offsets :
    /\ k <= current <=> Used(k) \/ \E i \in 1..Len(free) : k \in Block(free[i])
    /\ \A i \in 1..Len(free) : k \in Block(free[i]) =>
         ~Used(k) /\ \A j \in 1..Len(free) : k \in Block(free[j]) => i = j

LEMMA SharedIsUsed == Shared <=> SharedUsed
BY DEF Shared, SharedUsed, Covered, Used

(* The first free block goes to a string that fills it.                     *)
LEMMA PutExactIInv ==
  ASSUME IInv, NEW s \in Strings, NEW len \in Lengths, PutExact(s, len)
  PROVE  IInv'
<1>1. TypeOK /\ StringsIntact /\ LinksFollow /\ FreeInside /\ SharedUsed
  BY SharedIsUsed DEF IInv
<1>2. /\ ~Live(s) /\ len \in Nat \ {0} /\ last # NoDesc
      /\ Aligned(last.len) = Aligned(len)
      /\ last' = mem[last.off] /\ Write(s, last.off, len) /\ free' = Tail(free)
      /\ current' = current
  BY SiloAssumption DEF PutExact
<1>3. /\ Len(free) \in Nat \ {0} /\ last = free[1] /\ last \in Descs
      /\ mem[last.off] = Chained(2)
  BY <1>1, <1>2, LastIsFirst
<1> DEFINE d == [off |-> last.off, len |-> len]
<1>4. d \in Descs /\ d.off = last.off /\ d.len = len
  BY <1>2, <1>3 DEF Descs
<1> HIDE DEF d
<1>5. Block(d) = Block(free[1])
  BY <1>2, <1>3, <1>4 DEF Block
<1>6. 1 \in 1..Len(free)
  BY <1>3
<1>7. /\ Block(d) \subseteq Offsets
      /\ \A k \in Block(d), t \in Strings : Live(t) => k \notin Block(desc[t])
  BY <1>5, <1>6, FreeUnused
<1>8. Write(s, d.off, d.len)
  BY <1>2, <1>4
<1>9. /\ desc' \in [Strings -> Descs \cup {NoDesc}] /\ mem' \in [Offsets -> Cell]
      /\ StringsIntact'
      /\ \A k \in Offsets : k \notin Block(d) => mem'[k] = mem[k]
      /\ \A k : Used(k)' <=> k \in Block(d) \/ Used(k)
  <2> HIDE DEF Write
  <2> QED
    BY <1>1, <1>2, <1>4, <1>7, <1>8, Written, UsedAfterWrite
<1>10. free \in Seq(Descs) /\ free # << >>
  BY <1>1, <1>3 DEF TypeOK
<1>11. /\ free' \in Seq(Descs) /\ Len(free') = Len(free) - 1
       /\ \A i \in 1..Len(free') : free'[i] = free[i + 1]
  BY <1>2, <1>10, HeadTailProperties
<1>12. \A i \in 1..Len(free') : i + 1 \in 1..Len(free) /\ i + 1 # 1
  BY <1>3, <1>11
<1>13. \A i \in Nat \ {0} : Chained(i)' = Chained(i + 1)
  <2> SUFFICES ASSUME NEW i \in Nat \ {0} PROVE Chained(i)' = Chained(i + 1)
    OBVIOUS
  <2>1. i \in 1..Len(free') <=> i + 1 \in 1..Len(free)
    BY <1>3, <1>11
  <2> QED
    BY <1>11, <2>1 DEF Chained
<1>14. TypeOK'
  <2>1. last' \in Descs \cup {NoDesc}
    BY <1>2, <1>3, <1>10, FreeTyped, <1>1 DEF Chained
  <2> QED
    BY <1>1, <1>2, <1>9, <1>11, <2>1 DEF TypeOK
<1>15. LinksFollow'
  <2>1. last' = Chained(1)'
    BY <1>2, <1>3, <1>13
  <2>2. ASSUME NEW i \in 1..Len(free') PROVE mem'[free'[i].off] = Chained(i + 1)'
    <3>1. free'[i] = free[i + 1] /\ i + 1 \in 1..Len(free) /\ i + 1 # 1
      BY <1>11, <1>12
    <3>2. free[i + 1] \in Descs
      BY <1>1, <3>1, FreeTyped
    <3>3. free[i + 1].off \in Block(free[i + 1]) /\ free[i + 1].off \in Offsets
      BY <3>2, BlockEnds
    <3>4. free[i + 1].off \notin Block(d)
      BY <1>5, <1>6, <3>1, <3>3, FreeUnused
    <3>5. mem[free[i + 1].off] = Chained((i + 1) + 1)
      BY <1>1, <3>1 DEF LinksFollow
    <3>6. Chained(i + 1)' = Chained((i + 1) + 1)
      BY <1>13
    <3> QED
      BY <1>9, <3>1, <3>3, <3>4, <3>5, <3>6
  <2> QED
    BY <2>1, <2>2 DEF LinksFollow, Chained
<1>16. SharedUsed'
  <2> SUFFICES ASSUME NEW k \in Offsets
               PROVE  /\ k <= current' <=> Used(k)' \/ \E i \in 1..Len(free') : k \in Block(free'[i])
                      /\ \A i \in 1..Len(free') : k \in Block(free'[i]) =>
                           ~Used(k)' /\ \A j \in 1..Len(free') : k \in Block(free'[j]) => i = j
    BY DEF SharedUsed, Offsets, Used, Block
  <2>1. (\E i \in 1..Len(free) : k \in Block(free[i]))
         <=> k \in Block(d) \/ \E i \in 1..Len(free') : k \in Block(free'[i])
    <3>1. ASSUME NEW i \in 1..Len(free), k \in Block(free[i]), i # 1
          PROVE  i - 1 \in 1..Len(free') /\ free'[i - 1] = free[i]
      BY <1>3, <1>11, <3>1
    <3> QED
      BY <1>5, <1>6, <1>11, <1>12, <3>1
  <2>2. ASSUME NEW i \in 1..Len(free'), k \in Block(free'[i])
        PROVE  ~Used(k)' /\ \A j \in 1..Len(free') : k \in Block(free'[j]) => i = j
    <3>1. k \in Block(free[i + 1]) /\ i + 1 \in 1..Len(free) /\ i + 1 # 1
      BY <1>11, <1>12, <2>2
    <3>2. k \notin Block(d) /\ ~Used(k)
      BY <1>1, <1>5, <1>6, <3>1 DEF SharedUsed
    <3>3. ASSUME NEW j \in 1..Len(free'), k \in Block(free'[j]) PROVE i = j
      <4>1. k \in Block(free[j + 1]) /\ j + 1 \in 1..Len(free)
        BY <1>11, <1>12, <3>3
      <4>2. i + 1 = j + 1
        BY <1>1, <3>1, <4>1 DEF SharedUsed
      <4> QED
        BY <4>2
    <3> QED
      BY <1>9, <3>2, <3>3
  <2>3. k <= current <=> Used(k) \/ \E i \in 1..Len(free) : k \in Block(free[i])
    BY <1>1 DEF SharedUsed
  <2> QED
    BY <1>2, <1>9, <2>1, <2>2, <2>3
<1>17. FreeInside'
  BY <1>1, <1>11, <1>12 DEF FreeInside, Block, Offsets
<1> QED
  BY <1>9, <1>14, <1>15, <1>16, <1>17, SharedIsUsed, PTL DEF IInv

(* The cells of the first free block: its first part stays free, with the   *)
(* link in its last cell, and its end goes to the new string.               *)
LEMMA SplitParts ==
  ASSUME NEW e \in Descs, NEW len \in Nat \ {0},
         NEW diff, diff = Aligned(e.len) - Aligned(len), diff > 0,
         Block(e) \subseteq Offsets,
         NEW d, d = [off |-> e.off - diff, len |-> len],
         NEW r, r = [off |-> e.off, len |-> diff * Unit]
  PROVE  /\ d \in Descs /\ r \in Descs
         /\ Block(e) = Block(d) \cup Block(r)
         /\ Block(d) \cap Block(r) = {}
<1>1. e.off \in Offsets /\ e.len \in Nat \ {0}
  BY BlockEnds
<1>2. Aligned(e.len) \in Nat \ {0} /\ Aligned(len) \in Nat \ {0}
  BY <1>1, AlignedPositive
<1>3. diff \in Nat \ {0}
  BY <1>2
<1>4. Aligned(diff * Unit) = diff /\ diff * Unit \in Nat \ {0}
  BY <1>3, AlignedMultiple
<1>5. d.off = e.off - diff /\ d.len = len /\ r.off = e.off /\ r.len = diff * Unit
  OBVIOUS
<1>6. e.off - diff \in Block(e)
  BY <1>1, <1>2, <1>3, SiloAssumption DEF Block, Offsets
<1>7. d \in Descs /\ r \in Descs
  <2>1. e.off - diff \in Offsets
    BY <1>6
  <2> QED
    BY <1>1, <1>4, <2>1 DEF Descs
<1>8. /\ Block(d) = (e.off - diff - Aligned(len) + 1) .. (e.off - diff)
      /\ Block(r) = (e.off - diff + 1) .. e.off
      /\ Block(e) = (e.off - Aligned(e.len) + 1) .. e.off
  BY <1>4, <1>5 DEF Block
<1>9. e.off \in Int
  BY <1>1, SiloAssumption DEF Offsets
<1>10. Block(e) = Block(d) \cup Block(r)
  BY <1>2, <1>3, <1>8, <1>9
<1>11. Block(d) \cap Block(r) = {}
  BY <1>2, <1>3, <1>8, <1>9
<1> QED
  BY <1>7, <1>10, <1>11

(* Part of the first free block goes to a shorter string.                   *)
LEMMA PutSplitIInv ==
  ASSUME IInv, NEW s \in Strings, NEW len \in Lengths, PutSplit(s, len)
  PROVE  IInv'
<1> DEFINE diff == Aligned(last.len) - Aligned(len)
           d == [off |-> last.off - diff, len |-> len]
           r == [off |-> last.off, len |-> diff * Unit]
<1>1. TypeOK /\ StringsIntact /\ LinksFollow /\ FreeInside /\ SharedUsed
  BY SharedIsUsed DEF IInv
<1>2. /\ ~Live(s) /\ len \in Nat \ {0} /\ last # NoDesc /\ diff > 0
      /\ last' = r /\ Write(s, last.off - diff, len)
      /\ free' = <<r>> \o Tail(free)
      /\ current' = current
  BY SiloAssumption DEF PutSplit
<1>3. /\ Len(free) \in Nat \ {0} /\ last = free[1] /\ last \in Descs
      /\ mem[last.off] = Chained(2)
  BY <1>1, <1>2, LastIsFirst
<1>4. 1 \in 1..Len(free)
  BY <1>3
<1>5. Block(last) \subseteq Offsets
  BY <1>3, <1>4, FreeUnused
<1>6. /\ d \in Descs /\ r \in Descs
      /\ Block(free[1]) = Block(d) \cup Block(r)
      /\ Block(d) \cap Block(r) = {}
  <2> HIDE DEF diff
  <2>1. diff = Aligned(last.len) - Aligned(len)
    BY DEF diff
  <2> QED
    BY <1>2, <1>3, <1>5, <2>1, SplitParts
<1>7. d.off = last.off - diff /\ d.len = len /\ r.off = last.off
  OBVIOUS
<1> HIDE DEF diff, d, r
<1>8. /\ Block(d) \subseteq Offsets
      /\ \A k \in Block(d), t \in Strings : Live(t) => k \notin Block(desc[t])
  BY <1>4, <1>6, FreeUnused
<1>9. Write(s, d.off, d.len)
  BY <1>2, <1>7
<1>10. /\ desc' \in [Strings -> Descs \cup {NoDesc}] /\ mem' \in [Offsets -> Cell]
       /\ StringsIntact'
       /\ \A k \in Offsets : k \notin Block(d) => mem'[k] = mem[k]
       /\ \A k : Used(k)' <=> k \in Block(d) \/ Used(k)
  BY <1>1, <1>2, <1>6, <1>8, <1>9, Written, UsedAfterWrite
<1>11. /\ free' \in Seq(Descs) /\ Len(free') = Len(free)
       /\ free'[1] = r
       /\ \A i \in 1..Len(free) : i # 1 => free'[i] = free[i]
  <2>1. free \in Seq(Descs) /\ free # << >>
    BY <1>1, <1>3 DEF TypeOK
  <2>2. /\ Tail(free) \in Seq(Descs) /\ Len(Tail(free)) = Len(free) - 1
        /\ \A i \in 1..Len(Tail(free)) : Tail(free)[i] = free[i + 1]
    BY <2>1, HeadTailProperties
  <2>3. <<r>> \in Seq(Descs) /\ Len(<<r>>) = 1 /\ <<r>>[1] = r
    BY <1>6
  <2>4. /\ free' \in Seq(Descs) /\ Len(free') = 1 + (Len(free) - 1)
        /\ \A i \in 1..(1 + (Len(free) - 1)) :
             free'[i] = IF i <= 1 THEN <<r>>[i] ELSE Tail(free)[i - 1]
    BY <1>2, <2>2, <2>3, ConcatProperties
  <2>5. ASSUME NEW i \in 1..Len(free), i # 1 PROVE free'[i] = free[i]
    <3>1. i - 1 \in 1..Len(Tail(free)) /\ (i - 1) + 1 = i /\ ~(i <= 1)
      BY <1>3, <2>2, <2>5
    <3> QED
      BY <1>3, <2>2, <2>4, <3>1
  <2> QED
    BY <1>3, <2>3, <2>4, <2>5
<1>12. \A i \in Nat : i # 1 => Chained(i)' = Chained(i)
  BY <1>11 DEF Chained
<1>13. TypeOK'
  BY <1>1, <1>2, <1>6, <1>10, <1>11 DEF TypeOK
<1>14. LinksFollow'
  <2>1. last' = Chained(1)'
    BY <1>2, <1>4, <1>11 DEF Chained
  <2>2. ASSUME NEW i \in 1..Len(free') PROVE mem'[free'[i].off] = Chained(i + 1)'
    <3>1. free'[i].off = free[i].off /\ i \in 1..Len(free)
      BY <1>3, <1>7, <1>11
    <3>2. free[i].off \in Offsets /\ free[i].off \in Block(free[i])
      BY <1>1, <3>1, FreeTyped, BlockEnds
    <3>3. free[i].off \notin Block(d)
      <4>1. CASE i = 1
        BY <1>3, <1>6, <1>7, <4>1, BlockEnds
      <4>2. CASE i # 1
        BY <1>4, <1>6, <3>1, <3>2, <4>2, FreeUnused
      <4> QED
        BY <4>1, <4>2
    <3>4. mem[free[i].off] = Chained(i + 1)
      BY <1>1, <3>1 DEF LinksFollow
    <3>5. Chained(i + 1)' = Chained(i + 1)
      <4>1. i + 1 \in Nat /\ i + 1 # 1
        BY <1>3, <3>1
      <4> QED
        BY <1>12, <4>1
    <3> QED
      BY <1>10, <3>1, <3>2, <3>3, <3>4, <3>5
  <2> QED
    BY <2>1, <2>2 DEF LinksFollow, Chained
<1>15. \A i \in 1..Len(free) : Block(free'[i]) \subseteq Block(free[i])
  BY <1>6, <1>11
<1>16. SharedUsed'
  <2> SUFFICES ASSUME NEW k \in Offsets
               PROVE  /\ k <= current' <=> Used(k)' \/ \E i \in 1..Len(free') : k \in Block(free'[i])
                      /\ \A i \in 1..Len(free') : k \in Block(free'[i]) =>
                           ~Used(k)' /\ \A j \in 1..Len(free') : k \in Block(free'[j]) => i = j
    BY DEF SharedUsed, Offsets, Used, Block
  <2>1. (\E i \in 1..Len(free) : k \in Block(free[i]))
         <=> k \in Block(d) \/ \E i \in 1..Len(free') : k \in Block(free'[i])
    BY <1>4, <1>6, <1>11
  <2>2. ASSUME NEW i \in 1..Len(free'), k \in Block(free'[i])
        PROVE  ~Used(k)' /\ \A j \in 1..Len(free') : k \in Block(free'[j]) => i = j
    <3>1. i \in 1..Len(free) /\ k \in Block(free[i])
      BY <1>11, <1>15, <2>2
    <3>2. ~Used(k) /\ \A j \in 1..Len(free) : k \in Block(free[j]) => i = j
      BY <1>1, <3>1 DEF SharedUsed
    <3>3. k \notin Block(d)
      BY <1>4, <1>6, <1>11, <2>2, <3>2
    <3> QED
      BY <1>10, <1>11, <1>15, <3>2, <3>3
  <2>3. k <= current <=> Used(k) \/ \E i \in 1..Len(free) : k \in Block(free[i])
    BY <1>1 DEF SharedUsed
  <2> QED
    BY <1>2, <1>10, <2>1, <2>2, <2>3
<1>17. FreeInside'
  BY <1>1, <1>11, <1>15 DEF FreeInside, Block, Offsets
<1> QED
  BY <1>10, <1>13, <1>14, <1>16, <1>17, SharedIsUsed, PTL DEF IInv

(* No removed string has room: the string is put above the others.          *)
LEMMA PutOnTopIInv ==
  ASSUME IInv, NEW s \in Strings, NEW len \in Lengths, PutOnTop(s, len)
  PROVE  IInv'
<1> DEFINE d == [off |-> current + Aligned(len), len |-> len]
<1>1. TypeOK /\ StringsIntact /\ LinksFollow /\ FreeInside /\ SharedUsed
  BY SharedIsUsed DEF IInv
<1>2. /\ ~Live(s) /\ len \in Nat \ {0}
      /\ current + Aligned(len) <= Cells /\ current' = current + Aligned(len)
      /\ Write(s, current', len) /\ last' = last /\ free' = free
  BY SiloAssumption DEF PutOnTop
<1>3. Aligned(len) \in Nat \ {0} /\ current \in Nat /\ Cells \in Nat
  BY <1>1, <1>2, AlignedPositive, SiloAssumption DEF TypeOK
<1>4. d.off = current' /\ d.len = len
  BY <1>2
<1>5. d \in Descs
  BY <1>2, <1>3 DEF Descs, Offsets
<1>6. Block(d) = (current + 1) .. (current + Aligned(len))
  BY <1>2, <1>3, <1>4 DEF Block
<1> HIDE DEF d
<1>7. Block(d) \subseteq Offsets /\ \A k \in Block(d) : ~(k <= current)
  BY <1>2, <1>3, <1>6 DEF Offsets
<1>8. /\ \A k \in Block(d) : ~Used(k)
      /\ \A k \in Block(d), i \in 1..Len(free) : k \notin Block(free[i])
  BY <1>1, <1>7 DEF SharedUsed
<1>9. /\ desc' \in [Strings -> Descs \cup {NoDesc}] /\ mem' \in [Offsets -> Cell]
      /\ StringsIntact'
      /\ \A k \in Offsets : k \notin Block(d) => mem'[k] = mem[k]
      /\ \A k : Used(k)' <=> k \in Block(d) \/ Used(k)
  <2>1. Write(s, d.off, d.len)
    BY <1>2, <1>4
  <2>2. \A k \in Block(d), t \in Strings : Live(t) => k \notin Block(desc[t])
    BY <1>8 DEF Used
  <2> QED
    BY <1>1, <1>2, <1>5, <1>7, <2>1, <2>2, Written, UsedAfterWrite
<1>10. TypeOK'
  BY <1>1, <1>2, <1>3, <1>9 DEF TypeOK
<1>11. LinksFollow'
  <2>1. \A i \in 1..Len(free) : mem'[free[i].off] = mem[free[i].off]
    BY <1>1, <1>8, <1>9, FreeTyped, BlockEnds
  <2> QED
    BY <1>1, <1>2, <2>1 DEF LinksFollow, Chained
<1>12. SharedUsed'
  <2>1. \A k \in Offsets : k <= current' <=> k <= current \/ k \in Block(d)
    BY <1>2, <1>3, <1>6 DEF Offsets
  <2>2. \A k \in Offsets, i \in 1..Len(free) : k \in Block(free[i]) => k \notin Block(d)
    BY <1>8
  <2> QED
    BY <1>1, <1>2, <1>9, <2>1, <2>2 DEF SharedUsed, Offsets, Block
<1>13. FreeInside'
  BY <1>1, <1>2 DEF FreeInside, Block, Offsets
<1> QED
  BY <1>9, <1>10, <1>11, <1>12, <1>13, SharedIsUsed, PTL DEF IInv

(* A removed string becomes the first free block; the link to the one that  *)
(* was first goes to its last cell.                                         *)
LEMMA RemoveIInv ==
  ASSUME IInv, NEW s \in Strings, Remove(s)
  PROVE  IInv'
<1> DEFINE d == desc[s]
<1>1. TypeOK /\ StringsIntact /\ LinksFollow /\ FreeInside /\ SharedUsed
  BY SharedIsUsed DEF IInv
<1>2. /\ Live(s) /\ mem' = [mem EXCEPT ![d.off] = last] /\ last' = d
      /\ desc' = [desc EXCEPT ![s] = NoDesc] /\ free' = <<d>> \o free
      /\ current' = current
  BY DEF Remove
<1>3. d \in Descs /\ d.off \in Offsets /\ d.off \in Block(d)
  BY <1>1, <1>2, LiveOrNone, BlockEnds
<1>4. Block(d) \subseteq Offsets /\ \A k \in Block(d) : Used(k)
  BY <1>1, <1>2 DEF StringsIntact, Used
<1>5. \A t \in Strings : t # s => desc'[t] = desc[t] /\ (Live(t)' <=> Live(t))
  BY <1>1, <1>2 DEF TypeOK, Live
<1>6. desc' \in [Strings -> Descs \cup {NoDesc}] /\ ~Live(s)'
  BY <1>1, <1>2 DEF TypeOK, Live
<1> HIDE DEF d
<1>7. \A t \in Strings, k \in Block(d) : t # s /\ Live(t) => k \notin Block(desc[t])
  BY <1>1, <1>2, LiveApart DEF d
<1>8. /\ mem' \in [Offsets -> Cell] /\ mem'[d.off] = last
      /\ \A k \in Offsets : k # d.off => mem'[k] = mem[k]
  BY <1>1, <1>2, <1>3 DEF TypeOK, Cell
<1>9. StringsIntact'
  <2>1. ASSUME NEW t \in Strings, Live(t)', NEW k \in Block(desc'[t])
        PROVE  k \in Offsets /\ mem'[k] = Part(t, desc'[t].off - k)
    <3>1. t # s /\ desc'[t] = desc[t] /\ Live(t)
      BY <1>5, <1>6, <2>1
    <3>2. k \in Offsets /\ mem[k] = Part(t, desc[t].off - k)
      BY <1>1, <2>1, <3>1 DEF StringsIntact
    <3>3. k # d.off
      BY <1>3, <1>7, <2>1, <3>1
    <3> QED
      BY <1>8, <3>1, <3>2, <3>3
  <2> QED
    BY <2>1 DEF StringsIntact, Live, Block
<1>10. \A k : Used(k) <=> Used(k)' \/ k \in Block(d)
  <2> SUFFICES ASSUME NEW k PROVE Used(k) <=> Used(k)' \/ k \in Block(d)
    OBVIOUS
  <2>1. ASSUME Used(k) PROVE Used(k)' \/ k \in Block(d)
    <3>1. PICK t \in Strings : Live(t) /\ k \in Block(desc[t])
      BY <2>1 DEF Used
    <3>2. t = s \/ (Live(t)' /\ k \in Block(desc'[t]))
      BY <1>5, <3>1
    <3> QED
      BY <3>1, <3>2 DEF Used, Block, d
  <2>2. ASSUME Used(k)' PROVE Used(k)
    <3>1. PICK t \in Strings : Live(t)' /\ k \in Block(desc'[t])
      BY <2>2 DEF Used, Block
    <3>2. Live(t) /\ k \in Block(desc[t])
      BY <1>5, <1>6, <3>1
    <3> QED
      BY <3>2 DEF Used
  <2> QED
    BY <1>2, <2>1, <2>2 DEF Used, d
<1>11. \A k \in Block(d) : ~Used(k)'
  <2> SUFFICES ASSUME NEW k \in Block(d), Used(k)' PROVE FALSE
    OBVIOUS
  <2>1. PICK t \in Strings : Live(t)' /\ k \in Block(desc'[t])
    BY DEF Used, Block
  <2>2. t # s /\ Live(t) /\ k \in Block(desc[t])
    BY <1>5, <1>6, <2>1
  <2> QED
    BY <1>7, <2>2
<1>12. /\ free' \in Seq(Descs) /\ Len(free) \in Nat /\ Len(free') = 1 + Len(free)
       /\ free'[1] = d /\ \A i \in 1..Len(free) : free'[i + 1] = free[i]
  <2>1. free \in Seq(Descs) /\ Len(free) \in Nat
    BY <1>1 DEF TypeOK
  <2>2. <<d>> \in Seq(Descs) /\ Len(<<d>>) = 1 /\ <<d>>[1] = d
    BY <1>3
  <2>3. /\ free' \in Seq(Descs) /\ Len(free') = 1 + Len(free)
        /\ \A i \in 1..(1 + Len(free)) : free'[i] = IF i <= 1 THEN <<d>>[i] ELSE free[i - 1]
    BY <1>2, <2>1, <2>2, ConcatProperties
  <2>4. ASSUME NEW i \in 1..Len(free) PROVE free'[i + 1] = free[i]
    <3>1. i + 1 \in 1..(1 + Len(free)) /\ ~(i + 1 <= 1) /\ (i + 1) - 1 = i
      BY <2>1
    <3> QED
      BY <2>3, <3>1
  <2> QED
    BY <2>1, <2>2, <2>3, <2>4
<1>13. \A i \in Nat \ {0} : Chained(i + 1)' = Chained(i)
  <2> SUFFICES ASSUME NEW i \in Nat \ {0} PROVE Chained(i + 1)' = Chained(i)
    OBVIOUS
  <2>1. i + 1 \in 1..Len(free') <=> i \in 1..Len(free)
    BY <1>12
  <2> QED
    BY <1>12, <2>1 DEF Chained
<1>14. \A i \in 1..Len(free') : i = 1 \/ (i - 1 \in 1..Len(free) /\ free'[i] = free[i - 1])
  <2> SUFFICES ASSUME NEW i \in 1..Len(free'), i # 1
               PROVE  i - 1 \in 1..Len(free) /\ free'[i] = free[i - 1]
    OBVIOUS
  <2>1. i - 1 \in 1..Len(free) /\ (i - 1) + 1 = i
    BY <1>12
  <2> QED
    BY <1>12, <2>1
<1>15. TypeOK'
  BY <1>1, <1>2, <1>3, <1>6, <1>8, <1>12 DEF TypeOK
<1>16. LinksFollow'
  <2>1. last' = Chained(1)'
    BY <1>2, <1>12 DEF Chained, d
  <2>2. ASSUME NEW i \in 1..Len(free') PROVE mem'[free'[i].off] = Chained(i + 1)'
    <3>1. CASE i = 1
      <4>1. mem'[free'[i].off] = Chained(1)
        BY <1>1, <1>8, <1>12, <3>1 DEF LinksFollow
      <4> QED
        BY <1>13, <3>1, <4>1
    <3>2. CASE i # 1
      <4>1. i - 1 \in 1..Len(free) /\ free'[i] = free[i - 1] /\ (i - 1) + 1 = i
        BY <1>12, <1>14, <3>2
      <4>2. free[i - 1].off \in Offsets /\ free[i - 1].off \in Block(free[i - 1])
        BY <1>1, <4>1, FreeTyped, BlockEnds
      <4>3. free[i - 1].off # d.off
        BY <1>1, <1>3, <1>4, <4>1, <4>2 DEF SharedUsed
      <4>4. mem[free[i - 1].off] = Chained((i - 1) + 1)
        BY <1>1, <4>1 DEF LinksFollow
      <4>5. Chained(i + 1)' = Chained(i)
        BY <1>12, <1>13
      <4> QED
        BY <1>8, <4>1, <4>2, <4>3, <4>4, <4>5
    <3> QED
      BY <3>1, <3>2
  <2> QED
    BY <2>1, <2>2 DEF LinksFollow, Chained
<1>17. SharedUsed'
  <2> SUFFICES ASSUME NEW k \in Offsets
               PROVE  /\ k <= current' <=> Used(k)' \/ \E i \in 1..Len(free') : k \in Block(free'[i])
                      /\ \A i \in 1..Len(free') : k \in Block(free'[i]) =>
                           ~Used(k)' /\ \A j \in 1..Len(free') : k \in Block(free'[j]) => i = j
    BY DEF SharedUsed, Offsets, Used, Block
  <2>1. (\E i \in 1..Len(free') : k \in Block(free'[i]))
         <=> k \in Block(d) \/ \E i \in 1..Len(free) : k \in Block(free[i])
    <3>1. 1 \in 1..Len(free') /\ \A i \in 1..Len(free) : i + 1 \in 1..Len(free')
      BY <1>12
    <3> QED
      BY <1>12, <1>14, <3>1
  <2>2. k <= current <=> Used(k) \/ \E i \in 1..Len(free) : k \in Block(free[i])
    BY <1>1 DEF SharedUsed
  <2>3. ASSUME NEW i \in 1..Len(free'), k \in Block(free'[i]), i # 1
        PROVE  ~Used(k) /\ \A j \in 1..Len(free') : k \in Block(free'[j]) => i = j
    <3>1. i - 1 \in 1..Len(free) /\ k \in Block(free[i - 1])
      BY <1>14, <2>3
    <3>2. ~Used(k) /\ \A j \in 1..Len(free) : k \in Block(free[j]) => i - 1 = j
      BY <1>1, <3>1 DEF SharedUsed
    <3>3. ASSUME NEW j \in 1..Len(free'), k \in Block(free'[j]) PROVE i = j
      <4>1. j # 1
        BY <1>4, <1>12, <3>2, <3>3
      <4>2. j - 1 \in 1..Len(free) /\ k \in Block(free[j - 1])
        BY <1>14, <3>3, <4>1
      <4>3. i - 1 = j - 1
        BY <3>2, <4>2
      <4> QED
        BY <4>3
    <3> QED
      BY <3>2, <3>3
  <2>4. ASSUME NEW i \in 1..Len(free'), k \in Block(free'[i])
        PROVE  ~Used(k)' /\ \A j \in 1..Len(free') : k \in Block(free'[j]) => i = j
    <3>1. CASE i # 1
      BY <1>10, <2>3, <2>4, <3>1
    <3>2. CASE i = 1
      <4>1. k \in Block(d)
        BY <1>12, <2>4, <3>2
      <4>2. \A j \in 1..Len(free') : k \in Block(free'[j]) => j = 1
        BY <1>4, <2>3, <4>1
      <4> QED
        BY <1>11, <3>2, <4>1, <4>2
    <3> QED
      BY <3>1, <3>2
  <2> QED
    BY <1>2, <1>10, <2>1, <2>2, <2>4
<1>18. FreeInside'
  <2>1. \A i \in 1..Len(free') : Block(free'[i]) \subseteq Offsets
    BY <1>1, <1>4, <1>12, <1>14 DEF FreeInside
  <2> QED
    BY <2>1 DEF FreeInside, Block, Offsets
<1> QED
  BY <1>9, <1>15, <1>16, <1>17, <1>18, SharedIsUsed, PTL DEF IInv

LEMMA NextIInv == IInv /\ [Next]_vars => IInv'
<1> SUFFICES ASSUME IInv, [Next]_vars PROVE IInv'
  OBVIOUS
<1>1. ASSUME UNCHANGED vars PROVE IInv'
  BY <1>1 DEF vars, IInv, TypeOK, StringsIntact, LinksFollow, Shared, FreeInside,
              Covered, Chained, Live, Block
<1>2. ASSUME NEW s \in Strings, NEW len \in Lengths, PutExact(s, len) PROVE IInv'
  BY <1>2, PutExactIInv
<1>3. ASSUME NEW s \in Strings, NEW len \in Lengths, PutSplit(s, len) PROVE IInv'
  BY <1>3, PutSplitIInv
<1>4. ASSUME NEW s \in Strings, NEW len \in Lengths, PutOnTop(s, len) PROVE IInv'
  BY <1>4, PutOnTopIInv
<1>5. ASSUME NEW s \in Strings, NEW len \in Lengths, PutRefused(s, len) PROVE IInv'
  BY <1>1, <1>5 DEF PutRefused
<1>6. ASSUME NEW s \in Strings, Remove(s) PROVE IInv'
  BY <1>6, RemoveIInv
<1> QED
  BY <1>1, <1>2, <1>3, <1>4, <1>5, <1>6 DEF Next

(* The inductive invariant holds in every state the silo reaches.           *)
LEMMA SiloInvariant == Spec => []IInv
BY InitIInv, NextIInv, PTL DEF Spec

(* Every string put and not removed reads back as it was put, whatever was  *)
(* put and removed since (mos_put_string, mos_remove_string).               *)
THEOREM LiveStringsReadBack == Spec => []StringsIntact
<1>1. IInv => StringsIntact
  BY DEF IInv
<1> QED
  BY <1>1, SiloInvariant, PTL

(* The links mos_remove_string stores in freed memory always lead through   *)
(* all the removed strings not yet reused, the last one removed first.      *)
THEOREM FreeListUnbroken == Spec => []LinksFollow
<1>1. IInv => LinksFollow
  BY DEF IInv
<1> QED
  BY <1>1, SiloInvariant, PTL

(* Every cell below current_offset belongs to exactly one live string or    *)
(* free block: splitting a block loses nothing and shares nothing.          *)
THEOREM NothingLostOrShared == Spec => []SpaceAccounted
<1>1. IInv => SpaceAccounted
  BY DEF IInv, Shared, Covered, SpaceAccounted
<1> QED
  BY <1>1, SiloInvariant, PTL
=============================================================================
