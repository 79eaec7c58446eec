----------------------------- MODULE HmapProofs -----------------------------
(* Proofs about the hash map index, for every table size, every assignment *)
(* of home slots and any hashes.                                           *)
EXTENDS Hmap, TLAPS

IInv == TypeOK /\ ProbePathsUnbroken /\ KeyStoredOnce

(* What wrapping once around a table of n slots does to an offset.         *)
Wrap(n, i) == IF i < n THEN i ELSE i - n

(* A probe path that starts at h stays in the table.                       *)
LEMMA WrapInside ==
  ASSUME NEW n \in Nat, NEW h \in 0..(n - 1), NEW d \in 0..(n - 1)
  PROVE  Wrap(n, h + d) \in 0..(n - 1)
BY DEF Wrap

(* It never visits a slot twice.                                           *)
LEMMA WrapOnce ==
  ASSUME NEW n \in Nat, NEW h \in 0..(n - 1),
         NEW d \in 0..(n - 1), NEW e \in 0..(n - 1),
         Wrap(n, h + d) = Wrap(n, h + e)
  PROVE  d = e
BY DEF Wrap

(* It visits every slot.                                                   *)
LEMMA WrapOnto ==
  ASSUME NEW n \in Nat, NEW h \in 0..(n - 1), NEW s \in 0..(n - 1)
  PROVE  \E d \in 0..(n - 1) : Wrap(n, h + d) = s
<1>1. CASE s >= h
  <2>1. s - h \in 0..(n - 1) /\ Wrap(n, h + (s - h)) = s
    BY <1>1 DEF Wrap
  <2> QED
    BY <2>1
<1>2. CASE s < h
  <2>1. s - h + n \in 0..(n - 1) /\ Wrap(n, h + (s - h + n)) = s
    BY <1>2 DEF Wrap
  <2> QED
    BY <2>1
<1> QED
  BY <1>1, <1>2

(* So the probe path of a key is a permutation of the table.               *)
LEMMA PathCoversTable ==
  ASSUME TypeOK, NEW k \in Hashes
  PROVE  /\ \A d \in Slots : At(k, d) \in Slots
         /\ \A d, e \in Slots : At(k, d) = At(k, e) => d = e
         /\ \A s \in Slots : \E d \in Slots : At(k, d) = s
<1>1. home[k] \in 0..(TableSize - 1) /\ TableSize \in Nat
  BY SizeAssumption DEF TypeOK, Slots
<1>2. \A d \in Slots : At(k, d) = Wrap(TableSize, home[k] + d)
  BY DEF At, Wrap
<1>3. \A d \in Slots : At(k, d) \in Slots
  BY <1>1, <1>2, WrapInside DEF Slots
<1>4. \A d, e \in Slots : At(k, d) = At(k, e) => d = e
  BY <1>1, <1>2, WrapOnce DEF Slots
<1>5. \A s \in Slots : \E d \in Slots : At(k, d) = s
  <2> TAKE s \in Slots
  <2>1. \E d \in 0..(TableSize - 1) : Wrap(TableSize, home[k] + d) = s
    BY <1>1, WrapOnto DEF Slots
  <2> QED
    BY <2>1, <1>2 DEF Slots
<1> QED
  BY <1>3, <1>4, <1>5

(* What a get makes of a node.                                             *)
Contents(n) == IF damaged /\ InArena(n) THEN <<Unknown>> ELSE n.vals

(* Wherever a stored key is, the probe finds it there, and nowhere else.   *)
LEMMA StoredIsFound ==
  ASSUME IInv, NEW k \in Hashes, NEW d \in Slots, verifiers[At(k, d)] = k
  PROVE  FoundAt(k, d) /\ Lookup(k) = Contents(nodes[At(k, d)])
<1>1. \A e \in Slots : e # d => verifiers[At(k, e)] # k
  BY PathCoversTable DEF IInv, KeyStoredOnce
<1>2. \A e \in 0..(d - 1) : e \in Slots /\ e # d
  BY SizeAssumption DEF Slots
<1>3. FoundAt(k, d)
  BY <1>1, <1>2 DEF IInv, ProbePathsUnbroken, FoundAt, Reaches
<1>4. \A e \in Slots : FoundAt(k, e) => e = d
  BY <1>1 DEF FoundAt
<1> QED
  BY <1>3, <1>4 DEF Lookup, Contents

(* A key in no slot has no values.                                        *)
LEMMA AbsentIsEmpty ==
  ASSUME NEW k \in Hashes, \A d \in Slots : verifiers[At(k, d)] # k
  PROVE  Lookup(k) = << >>
BY DEF Lookup, FoundAt

(* When the probe ends without finding k, k is in no slot: this is where   *)
(* unbroken paths are needed, and what makes storing k once more safe.     *)
LEMMA EndMeansAbsent ==
  ASSUME IInv, NEW k \in Hashes, NEW d \in 0..TableSize, EndsAt(k, d)
  PROVE  \A s \in Slots : verifiers[s] # k
<1> SUFFICES ASSUME NEW s \in Slots, verifiers[s] = k
             PROVE  FALSE
  OBVIOUS
<1>1. PICK e \in Slots : At(k, e) = s
  BY PathCoversTable DEF IInv
<1>2. FoundAt(k, e)
  BY <1>1, StoredIsFound
<1>3. CASE e < d
  <2>1. e \in 0..(d - 1)
    BY <1>3, SizeAssumption DEF Slots
  <2> QED
    BY <2>1, <1>1 DEF EndsAt, Reaches
<1>4. CASE e = d
  BY <1>1, <1>4, ReservedAssumption, SizeAssumption DEF EndsAt, Slots
<1>5. CASE e > d
  <2>1. d \in 0..(e - 1) /\ d # TableSize
    BY <1>5, SizeAssumption DEF Slots
  <2> QED
    BY <2>1, <1>2 DEF FoundAt, Reaches, EndsAt
<1> QED
  BY <1>3, <1>4, <1>5, SizeAssumption DEF Slots

(* The slot a new key goes to is one the probe reaches, not of a live key.  *)
LEMMA FreshFacts ==
  ASSUME IInv, NEW k \in Hashes, NEW t \in Slots, FreshAt(k, t)
  PROVE  /\ At(k, t) \in Slots
         /\ verifiers[At(k, t)] \in {Empty, Thombstone}
         /\ \A s \in Slots : verifiers[s] # k
         /\ \A e \in 0..(t - 1) : verifiers[At(k, e)] # Empty
<1>1. PICK d \in 0..TableSize :
        /\ EndsAt(k, d)
        /\ \A e \in 0..(t - 1) : ~Buried(k, e)
        /\ \/ t < d /\ Buried(k, t)
           \/ t = d /\ d < TableSize
  BY DEF FreshAt
<1>2. At(k, t) \in Slots
  BY PathCoversTable DEF IInv
<1>3. verifiers[At(k, t)] \in {Empty, Thombstone}
  BY <1>1, SizeAssumption DEF EndsAt, Buried
<1>4. \A s \in Slots : verifiers[s] # k
  BY <1>1, EndMeansAbsent
<1>5. \A e \in 0..(t - 1) : e \in 0..(d - 1)
  BY <1>1, SizeAssumption DEF Slots
<1>6. \A e \in 0..(t - 1) : verifiers[At(k, e)] # Empty
  BY <1>1, <1>5 DEF EndsAt, Reaches
<1> QED
  BY <1>2, <1>3, <1>4, <1>6

(* The table is new: nothing is stored.                                    *)
LEMMA InitIInv == Init => IInv
<1> SUFFICES ASSUME Init
             PROVE  IInv
  OBVIOUS
<1>1. \A s \in Slots : verifiers[s] = Empty
  BY DEF Init
<1>2. TypeOK
  <2>1. Cleared \in Nodes
    BY DEF Nodes, Cleared
  <2>2. nodes \in [Slots -> Nodes]
    BY <2>1 DEF Init
  <2>3. verifiers \in [Slots -> Hashes \cup {Empty, Thombstone}]
    BY <1>1 DEF Init
  <2> QED
    BY <2>2, <2>3 DEF Init, TypeOK
<1>3. ProbePathsUnbroken
  BY <1>1, <1>2, PathCoversTable, ReservedAssumption DEF ProbePathsUnbroken
<1>4. KeyStoredOnce
  BY <1>1, ReservedAssumption DEF KeyStoredOnce
<1> QED
  BY <1>2, <1>3, <1>4 DEF IInv

(* What a step must do to the table: leave the verifiers alone, claim an    *)
(* unused slot for an absent key all of whose path is in use before it, or *)
(* bury a slot.  Buried slots keep paths whole, empty ones would not.      *)
LEMMA VerifiersKept ==
  ASSUME IInv, TypeOK', UNCHANGED <<home, verifiers>>
  PROVE  IInv'
<1>1. \A k \in Hashes, d \in Slots : At(k, d)' = At(k, d)
  BY DEF At
<1>2. \A k \in Hashes, d \in Slots : \A e \in 0..(d - 1) : At(k, e)' = At(k, e)
  BY DEF At
<1>3. ProbePathsUnbroken'
  BY <1>1, <1>2 DEF IInv, ProbePathsUnbroken
<1>4. KeyStoredOnce'
  BY DEF IInv, KeyStoredOnce
<1> QED
  BY <1>3, <1>4 DEF IInv

(* A thombstone in a slot leaves every probe path through it unbroken.     *)
LEMMA SlotBuried ==
  ASSUME IInv, TypeOK', NEW s \in Slots, UNCHANGED home,
         verifiers' = [verifiers EXCEPT ![s] = Thombstone]
  PROVE  IInv'
<1>0. verifiers \in [Slots -> Hashes \cup {Empty, Thombstone}]
  BY DEF IInv, TypeOK
<1>1. \A r \in Slots : verifiers'[r] = IF r = s THEN Thombstone ELSE verifiers[r]
  BY <1>0
<1>2. ProbePathsUnbroken'
  <2> SUFFICES ASSUME NEW k \in Hashes, NEW d \in Slots, verifiers'[At(k, d)] = k,
                      NEW e \in 0..(d - 1)
               PROVE  verifiers'[At(k, e)] # Empty
    BY DEF ProbePathsUnbroken, At
  <2>1. e \in Slots
    BY SizeAssumption DEF Slots
  <2>2. At(k, d) \in Slots /\ At(k, e) \in Slots
    BY <2>1, PathCoversTable DEF IInv
  <2>3. verifiers[At(k, d)] = k
    BY <2>2, <1>1, ReservedAssumption
  <2>4. verifiers[At(k, e)] # Empty
    BY <2>3 DEF IInv, ProbePathsUnbroken
  <2> QED
    BY <2>2, <2>4, <1>1, ReservedAssumption
<1>3. KeyStoredOnce'
  BY <1>1, ReservedAssumption DEF IInv, KeyStoredOnce
<1> QED
  BY <1>2, <1>3 DEF IInv

(* An absent key may claim the first thombstone of its path, or the empty  *)
(* slot that ends it.                                                      *)
LEMMA SlotClaimed ==
  ASSUME IInv, TypeOK', NEW k \in Hashes, NEW t \in Slots, FreshAt(k, t),
         UNCHANGED home, verifiers' = [verifiers EXCEPT ![At(k, t)] = k]
  PROVE  IInv'
<1> DEFINE s == At(k, t)
<1>0. verifiers \in [Slots -> Hashes \cup {Empty, Thombstone}]
  BY DEF IInv, TypeOK
<1>1. s \in Slots /\ verifiers[s] \in {Empty, Thombstone}
  BY FreshFacts
<1>2. \A r \in Slots : verifiers'[r] = IF r = s THEN k ELSE verifiers[r]
  BY <1>0, <1>1
<1>3. \A r \in Slots : verifiers[r] # k
  BY FreshFacts
<1>4. \A e \in 0..(t - 1) : verifiers[At(k, e)] # Empty
  BY FreshFacts
<1>5. ProbePathsUnbroken'
  <2> SUFFICES ASSUME NEW j \in Hashes, NEW d \in Slots, verifiers'[At(j, d)] = j,
                      NEW e \in 0..(d - 1)
               PROVE  verifiers'[At(j, e)] # Empty
    BY DEF ProbePathsUnbroken, At
  <2>1. e \in Slots
    BY SizeAssumption DEF Slots
  <2>2. At(j, d) \in Slots /\ At(j, e) \in Slots
    BY <2>1, PathCoversTable DEF IInv
  <2>3. verifiers[At(j, e)] # Empty
    <3>1. CASE j = k
      <4>1. At(k, d) = At(k, t)
        BY <3>1, <2>2, <1>2, <1>3
      <4>2. d = t
        BY <4>1, PathCoversTable DEF IInv
      <4> QED
        BY <4>2, <3>1, <1>4
    <3>2. CASE j # k
      <4>1. verifiers[At(j, d)] = j
        BY <3>2, <2>2, <1>2
      <4> QED
        BY <4>1 DEF IInv, ProbePathsUnbroken
    <3> QED
      BY <3>1, <3>2
  <2> QED
    BY <2>2, <2>3, <1>2, ReservedAssumption
<1>6. KeyStoredOnce'
  BY <1>2, <1>3 DEF IInv, KeyStoredOnce
<1> QED
  BY <1>5, <1>6 DEF IInv

(* A node that takes one more value is a node.                             *)
LEMMA NodeTypes ==
  ASSUME NEW n \in Nodes
  PROVE  /\ \A c \in Capacities(n) : c \in Nat
         /\ \A v \in Values : Append(n.vals, v) \in Seq(Values)
         /\ \A v \in Values : [capacity |-> Inlined, vals |-> <<v>>] \in Nodes
         /\ Emptied(n) \in Nodes /\ Cleared \in Nodes
<1>1. n.capacity \in Nat /\ n.vals \in Seq(Values)
  BY DEF Nodes
<1>2. 4 * Inlined \in Nat /\ 2 * n.capacity \in Nat
  BY <1>1, SizeAssumption
<1>3. \A c \in Capacities(n) : c \in Nat
  <2> TAKE c \in Capacities(n)
  <2> DEFINE asked == IF InArena(n) THEN 2 * n.capacity ELSE 4 * Inlined
  <2>1. asked \in Nat
    BY <1>2
  <2>2. \/ c = n.capacity \/ c \in (Inlined + 1)..(Inlined + 1 + Slack)
        \/ \E x \in 0..Slack : c = asked + x
    BY DEF Capacities
  <2> HIDE DEF asked
  <2> QED
    BY <2>1, <2>2, <1>1, SizeAssumption
<1>4. Cleared \in Nodes
  BY DEF Nodes, Cleared
<1>5. \A v \in Values : [capacity |-> Inlined, vals |-> <<v>>] \in Nodes
  BY SizeAssumption DEF Nodes
<1> QED
  BY <1>1, <1>3, <1>4, <1>5 DEF Emptied

(* Every operation, whole or interrupted, does one of these three things   *)
(* to the verifiers.                                                       *)
LEMMA NextIInv == IInv /\ [Next]_vars => IInv'
<1> SUFFICES ASSUME IInv, [Next]_vars
             PROVE  IInv'
  OBVIOUS
<1> USE DEF IInv
<1>0. /\ nodes \in [Slots -> Nodes]
      /\ verifiers \in [Slots -> Hashes \cup {Empty, Thombstone}]
      /\ home \in [Hashes -> Slots]
      /\ refused \in BOOLEAN /\ damaged \in BOOLEAN
      /\ \A k \in Hashes, d \in Slots : At(k, d) \in Slots
  BY PathCoversTable DEF TypeOK
<1>1. ASSUME NEW k \in Hashes, NEW v \in Values, PutExisting(k, v)
      PROVE  IInv'
  <2>1. PICK d \in Slots :
          /\ \E c \in Capacities(nodes[At(k, d)]) :
               nodes' = [nodes EXCEPT ![At(k, d)] =
                           [capacity |-> c, vals |-> Append(@.vals, v)]]
          /\ refused' = FALSE
          /\ UNCHANGED <<home, verifiers, damaged>>
    BY <1>1 DEF PutExisting
  <2>2. PICK c \in Capacities(nodes[At(k, d)]) :
          nodes' = [nodes EXCEPT ![At(k, d)] =
                      [capacity |-> c, vals |-> Append(@.vals, v)]]
    BY <2>1
  <2>3. [capacity |-> c, vals |-> Append(nodes[At(k, d)].vals, v)] \in Nodes
    BY <1>0, <2>2, NodeTypes DEF Nodes
  <2>4. nodes' \in [Slots -> Nodes]
    BY <1>0, <2>2, <2>3
  <2> QED
    BY <1>0, <2>1, <2>4, VerifiersKept DEF TypeOK
<1>2. ASSUME NEW k \in Hashes, NEW v \in Values, PutFresh(k, v)
      PROVE  IInv'
  <2>1. PICK t \in Slots :
          /\ FreshAt(k, t)
          /\ nodes' = [nodes EXCEPT ![At(k, t)] =
                          [capacity |-> Inlined, vals |-> <<v>>]]
          /\ verifiers' = [verifiers EXCEPT ![At(k, t)] = k]
          /\ refused' = FALSE
          /\ UNCHANGED <<home, damaged>>
    BY <1>2 DEF PutFresh
  <2>2. Cleared \in Nodes /\ [capacity |-> Inlined, vals |-> <<v>>] \in Nodes
    BY SizeAssumption DEF Nodes, Cleared
  <2>3. TypeOK'
    BY <1>0, <2>1, <2>2 DEF TypeOK
  <2> QED
    BY <2>1, <2>3, SlotClaimed
<1>3. ASSUME NEW k \in Hashes, NEW v \in Values, PutDies(k, v)
      PROVE  IInv'
  <2>1. refused' = FALSE /\ UNCHANGED <<home, verifiers, damaged>>
    BY <1>3 DEF PutDies
  <2>2. nodes' \in [Slots -> Nodes]
    <3>1. CASE \E t \in Slots :
                 nodes' = [nodes EXCEPT ![At(k, t)] =
                             [capacity |-> Inlined, vals |-> <<v>>]]
      <4>1. [capacity |-> Inlined, vals |-> <<v>>] \in Nodes
        BY SizeAssumption DEF Nodes
      <4> QED
        BY <3>1, <4>1, <1>0
    <3>2. CASE \E d \in Slots : \E c \in Capacities(nodes[At(k, d)]) :
                 nodes' = [nodes EXCEPT ![At(k, d)].capacity = c]
      <4>1. PICK d \in Slots : \E c \in Capacities(nodes[At(k, d)]) :
                 nodes' = [nodes EXCEPT ![At(k, d)].capacity = c]
        BY <3>2
      <4>2. PICK c \in Capacities(nodes[At(k, d)]) :
                 nodes' = [nodes EXCEPT ![At(k, d)].capacity = c]
        BY <4>1
      <4>3. c \in Nat /\ nodes[At(k, d)] \in Nodes
        BY <4>2, <1>0, NodeTypes
      <4> QED
        BY <4>2, <4>3, <1>0 DEF Nodes
    <3> QED
      BY <1>3, <3>1, <3>2 DEF PutDies
  <2> QED
    BY <1>0, <2>1, <2>2, VerifiersKept DEF TypeOK
<1>4. ASSUME NEW k \in Hashes, RemoveKey(k)
      PROVE  IInv'
  <2>1. PICK d \in Slots :
          /\ nodes' = [nodes EXCEPT ![At(k, d)] = Emptied(@)]
          /\ verifiers' = [verifiers EXCEPT ![At(k, d)] = Thombstone]
          /\ refused' = FALSE
          /\ UNCHANGED <<home, damaged>>
    BY <1>4 DEF RemoveKey
  <2>2. Emptied(nodes[At(k, d)]) \in Nodes
    BY <1>0, NodeTypes
  <2>3. TypeOK'
    BY <1>0, <2>1, <2>2 DEF TypeOK
  <2> QED
    BY <1>0, <2>1, <2>3, SlotBuried
<1>5. ASSUME NEW k \in Hashes, RemoveDies(k)
      PROVE  IInv'
  <2>1. PICK d \in Slots :
          /\ nodes' = [nodes EXCEPT ![At(k, d)] = Emptied(@)]
          /\ damaged' \in BOOLEAN
          /\ refused' = FALSE
          /\ UNCHANGED <<home, verifiers>>
    BY <1>0, <1>5 DEF RemoveDies
  <2>2. Emptied(nodes[At(k, d)]) \in Nodes
    BY <1>0, NodeTypes
  <2>3. TypeOK'
    BY <1>0, <2>1, <2>2 DEF TypeOK
  <2> QED
    BY <2>1, <2>3, VerifiersKept
<1>6. ASSUME NEW k \in Hashes, PutFull(k) \/ PutWithoutArena(k) \/ RemoveNothing(k)
      PROVE  IInv'
  <2>1. refused' \in BOOLEAN /\ UNCHANGED <<home, verifiers, nodes, damaged>>
    BY <1>6 DEF PutFull, PutWithoutArena, RemoveNothing
  <2> QED
    BY <1>0, <2>1, VerifiersKept DEF TypeOK
<1>7. ASSUME NEW k \in Hashes, PutDiesOverArena(k)
      PROVE  IInv'
  <2>1. PICK d \in Slots :
          /\ nodes' = [nodes EXCEPT ![At(k, d)].capacity =
                          IF InArena(nodes[At(k, d)]) THEN @ ELSE 4 * Inlined]
          /\ damaged' = TRUE
          /\ refused' = FALSE
          /\ UNCHANGED <<home, verifiers>>
    BY <1>7 DEF PutDiesOverArena
  <2>2. 4 * Inlined \in Nat
    BY SizeAssumption
  <2>3. nodes' \in [Slots -> Nodes]
    BY <1>0, <2>1, <2>2 DEF Nodes
  <2> QED
    BY <1>0, <2>1, <2>3, VerifiersKept DEF TypeOK
<1>8. CASE OtherIndexDies
  BY <1>0, <1>8, VerifiersKept DEF OtherIndexDies, TypeOK
<1>9. CASE UNCHANGED vars
  BY <1>0, <1>9, VerifiersKept DEF vars, TypeOK
<1> QED
  BY <1>1, <1>2, <1>3, <1>4, <1>5, <1>6, <1>7, <1>8, <1>9 DEF Next

(* However keys collide, are removed and stored again, and whenever the    *)
(* process dies, every stored key is reachable by the probe and stored in  *)
(* one slot (mos_idx_hmap.c:153-242, 295-319).                             *)
THEOREM HmapSound == Spec => [](TypeOK /\ ProbePathsUnbroken /\ KeyStoredOnce)
<1>1. IInv => TypeOK /\ ProbePathsUnbroken /\ KeyStoredOnce
  BY DEF IInv
<1> QED
  BY InitIInv, NextIInv, <1>1, PTL DEF Spec
-----------------------------------------------------------------------------
(* What a hash reads as: the contents of the slot that holds it, or none.  *)
Reads ==
  \A k \in Hashes :
    /\ \A s \in Slots : verifiers[s] = k => Lookup(k) = Contents(nodes[s])
    /\ (\A s \in Slots : verifiers[s] # k) => Lookup(k) = << >>

LEMMA IInvReads == IInv => Reads
<1> SUFFICES ASSUME IInv, NEW k \in Hashes
             PROVE  /\ \A s \in Slots : verifiers[s] = k => Lookup(k) = Contents(nodes[s])
                    /\ (\A s \in Slots : verifiers[s] # k) => Lookup(k) = << >>
  BY DEF Reads
<1>1. /\ \A d \in Slots : At(k, d) \in Slots
      /\ \A s \in Slots : \E d \in Slots : At(k, d) = s
  BY PathCoversTable DEF IInv
<1>2. ASSUME NEW s \in Slots, verifiers[s] = k
      PROVE  Lookup(k) = Contents(nodes[s])
  <2>1. PICK d \in Slots : At(k, d) = s
    BY <1>1
  <2> QED
    BY <1>2, <2>1, StoredIsFound
<1>3. ASSUME \A s \in Slots : verifiers[s] # k
      PROVE  Lookup(k) = << >>
  BY <1>1, <1>3, AbsentIsEmpty
<1> QED
  BY <1>2, <1>3

(* A step that leaves a hash at its slot, and what is read there, or       *)
(* absent, leaves what it reads as.                                        *)
LEMMA SameLookup ==
  ASSUME Reads, Reads', NEW k \in Hashes,
         \A s \in Slots :
           /\ verifiers'[s] = k <=> verifiers[s] = k
           /\ verifiers[s] = k => Contents(nodes[s])' = Contents(nodes[s])
  PROVE  Lookup(k)' = Lookup(k)
<1>1. CASE \E s \in Slots : verifiers[s] = k
  <2>1. PICK s \in Slots : verifiers[s] = k
    BY <1>1
  <2>2. Lookup(k) = Contents(nodes[s])
    BY <2>1 DEF Reads
  <2>3. Lookup(k)' = Contents(nodes[s])'
    BY <2>1 DEF Reads
  <2> QED
    BY <2>1, <2>2, <2>3
<1>2. CASE \A s \in Slots : verifiers[s] # k
  <2>1. Lookup(k) = << >>
    BY <1>2 DEF Reads
  <2>2. Lookup(k)' = << >>
    BY <1>2 DEF Reads
  <2> QED
    BY <2>1, <2>2
<1> QED
  BY <1>1, <1>2

(* So does one that leaves the nodes of all other slots alone, for all     *)
(* hashes but the one at this slot.                                        *)
LEMMA OthersSame ==
  ASSUME Reads, Reads', UNCHANGED damaged, NEW s \in Slots,
         \A r \in Slots : r # s => nodes'[r] = nodes[r] /\ verifiers'[r] = verifiers[r],
         NEW k \in Hashes, verifiers[s] # k, verifiers'[s] # k
  PROVE  Lookup(k)' = Lookup(k)
<1>1. \A r \in Slots : /\ verifiers'[r] = k <=> verifiers[r] = k
                       /\ verifiers[r] = k => r # s
  OBVIOUS
<1>2. \A r \in Slots : r # s => Contents(nodes[r])' = Contents(nodes[r])
  BY DEF Contents, InArena
<1> QED
  BY <1>1, <1>2, SameLookup

AllLists == [k \in Hashes |-> Lookup(k)]

(* The steps of the index, as its users see them.                          *)
IndexStep == ListStep \/ UNCHANGED AllLists

(* Only hash k reads differently after the step, as the abstract step says. *)
LEMMA OneAppended ==
  ASSUME NEW k \in Hashes, NEW v \in Values,
         Lookup(k)' = Append(Lookup(k), v),
         \A j \in Hashes : j # k => Lookup(j)' = Lookup(j)
  PROVE  IndexStep
<1>1. AllLists' = [AllLists EXCEPT ![k] = Append(@, v)]
  BY DEF AllLists
<1> QED
  BY <1>1 DEF AllLists, ListStep, Lists!Next, Lists!Append1, IndexStep

LEMMA OneDropped ==
  ASSUME NEW k \in Hashes,
         Lookup(k)' = << >>,
         \A j \in Hashes : j # k => Lookup(j)' = Lookup(j)
  PROVE  IndexStep
<1>1. AllLists' = [AllLists EXCEPT ![k] = << >>]
  BY DEF AllLists
<1> QED
  BY <1>1 DEF AllLists, ListStep, Lists!Next, Lists!Drop, IndexStep

LEMMA NothingChanged ==
  ASSUME \A j \in Hashes : Lookup(j)' = Lookup(j)
  PROVE  IndexStep
BY DEF AllLists, IndexStep

(* In a damaged arena every list is as it was or unknown.                  *)
LEMMA SomeSpoilt ==
  ASSUME damaged', \A j \in Hashes : Lookup(j)' \in {Lookup(j), <<Unknown>>}
  PROVE  IndexStep
<1> DEFINE S == {j \in Hashes : Lookup(j)' = <<Unknown>>}
<1>1. \A j \in Hashes : Lookup(j)' = IF j \in S THEN <<Unknown>> ELSE Lookup(j)
  OBVIOUS
<1>2. AllLists' = [j \in Hashes |-> IF j \in S THEN <<Unknown>> ELSE AllLists[j]]
  BY <1>1 DEF AllLists
<1>3. S \in SUBSET Hashes
  OBVIOUS
<1> HIDE DEF S
<1>4. \E T \in SUBSET Hashes :
        AllLists' = [j \in Hashes |-> IF j \in T THEN <<Unknown>> ELSE AllLists[j]]
  BY <1>2, <1>3
<1> QED
  BY <1>4 DEF AllLists, ListStep, Lists!Spoil, IndexStep

(* A death that leaves every slot its verifier, and what the node of a      *)
(* stored hash has recorded, spoils the arena's lists at most.             *)
LEMMA NodesKept ==
  ASSUME Reads, Reads', UNCHANGED verifiers, damaged => damaged',
         \A j \in Hashes, s \in Slots :
           verifiers[s] = j => /\ nodes'[s].vals = nodes[s].vals
                               /\ InArena(nodes[s]) => InArena(nodes'[s])
  PROVE  IndexStep
<1>1. ASSUME NEW j \in Hashes
      PROVE  /\ Lookup(j)' \in {Lookup(j), <<Unknown>>}
             /\ ~damaged' => Lookup(j)' = Lookup(j)
  <2>1. CASE \E s \in Slots : verifiers[s] = j
    <3>1. PICK s \in Slots : verifiers[s] = j
      BY <2>1
    <3>2. Lookup(j) = Contents(nodes[s])
      BY <3>1, <1>1 DEF Reads
    <3>3. Lookup(j)' = Contents(nodes[s])'
      BY <3>1, <1>1 DEF Reads
    <3>4. Contents(nodes[s])' = IF damaged' /\ InArena(nodes'[s]) THEN <<Unknown>>
                                ELSE nodes'[s].vals
      BY DEF Contents, InArena
    <3>5. /\ nodes'[s].vals = nodes[s].vals
          /\ InArena(nodes[s]) => InArena(nodes'[s])
      BY <3>1, <1>1
    <3> QED
      BY <3>2, <3>3, <3>4, <3>5 DEF Contents
  <2>2. CASE \A s \in Slots : verifiers[s] # j
    <3>1. Lookup(j) = << >> /\ Lookup(j)' = << >>
      BY <2>2, <1>1 DEF Reads
    <3> QED
      BY <3>1
  <2> QED
    BY <2>1, <2>2
<1>2. CASE damaged'
  BY <1>1, <1>2, SomeSpoilt
<1>3. CASE ~damaged'
  BY <1>1, <1>3, NothingChanged
<1> QED
  BY <1>2, <1>3

(* A list that is in the arena stays there as it grows.                    *)
LEMMA StaysInArena ==
  ASSUME NEW n \in Nodes, InArena(n), NEW c \in Capacities(n)
  PROVE  c > Inlined
<1>1. n.capacity \in Nat /\ n.capacity > Inlined
  BY DEF Nodes, InArena
<1>2. \/ c = n.capacity \/ c \in (Inlined + 1)..(Inlined + 1 + Slack)
      \/ \E x \in 0..Slack : c = 2 * n.capacity + x
  BY DEF Capacities
<1> QED
  BY <1>1, <1>2, SizeAssumption

(* Every operation, whole or interrupted, is a step of the multimap, spoils *)
(* lists in a damaged arena, or leaves all lists as they are.              *)
LEMMA NextRefines == IInv /\ IInv' /\ [Next]_vars => IndexStep
<1> SUFFICES ASSUME IInv, IInv', [Next]_vars
             PROVE  IndexStep
  OBVIOUS
<1>0. Reads /\ Reads'
  BY IInvReads, PTL
<1>1. /\ nodes \in [Slots -> Nodes]
      /\ verifiers \in [Slots -> Hashes \cup {Empty, Thombstone}]
      /\ damaged \in BOOLEAN /\ damaged' \in BOOLEAN
      /\ \A k \in Hashes, d \in Slots : At(k, d) \in Slots
      /\ \A s, t \in Slots : verifiers[s] \in Hashes /\ verifiers[s] = verifiers[t] => s = t
  BY PathCoversTable DEF IInv, TypeOK, KeyStoredOnce
<1>2. ASSUME NEW k \in Hashes, NEW v \in Values, PutExisting(k, v)
      PROVE  IndexStep
  <2>1. PICK d \in Slots :
          /\ verifiers[At(k, d)] = k
          /\ \E c \in Capacities(nodes[At(k, d)]) :
               nodes' = [nodes EXCEPT ![At(k, d)] =
                           [capacity |-> c, vals |-> Append(@.vals, v)]]
          /\ verifiers' = verifiers /\ damaged' = damaged
    BY <1>2 DEF PutExisting, FoundAt
  <2>2. PICK s \in Slots : s = At(k, d)
    BY <1>1
  <2>3. PICK c \in Capacities(nodes[s]) :
          nodes' = [nodes EXCEPT ![s] = [capacity |-> c, vals |-> Append(@.vals, v)]]
    BY <2>1, <2>2
  <2>4. /\ nodes'[s].vals = Append(nodes[s].vals, v)
        /\ nodes'[s].capacity = c
        /\ \A r \in Slots : r # s => nodes'[r] = nodes[r]
    BY <2>3, <1>1
  <2>5. Lookup(k) = Contents(nodes[s])
    BY <2>1, <2>2, <1>0 DEF Reads
  <2>6. Lookup(k)' = Contents(nodes[s])'
    BY <2>1, <2>2, <1>0 DEF Reads
  <2>7. \A j \in Hashes : j # k => Lookup(j)' = Lookup(j)
    <3> SUFFICES ASSUME NEW j \in Hashes, j # k PROVE Lookup(j)' = Lookup(j)
      OBVIOUS
    <3>1. verifiers[s] # j /\ verifiers'[s] # j
      BY <2>1, <2>2
    <3> QED
      BY <3>1, <2>1, <2>4, <1>0, OthersSame
  <2>8. Contents(nodes[s])' = IF damaged /\ c > Inlined THEN <<Unknown>>
                              ELSE Append(nodes[s].vals, v)
    BY <2>1, <2>4 DEF Contents, InArena
  <2>9. CASE damaged /\ c > Inlined
    <3>1. \A j \in Hashes : Lookup(j)' \in {Lookup(j), <<Unknown>>}
      BY <2>6, <2>7, <2>8, <2>9
    <3> QED
      BY <2>1, <2>9, <3>1, SomeSpoilt
  <2>10. CASE ~(damaged /\ c > Inlined)
    <3>1. ~(damaged /\ InArena(nodes[s]))
      <4> SUFFICES ASSUME damaged, InArena(nodes[s])
                   PROVE  c > Inlined
        BY <2>10
      <4>1. c \in (Inlined + 1)..(Inlined + 1 + Slack)
        BY <2>3 DEF Capacities
      <4> QED
        BY <4>1, SizeAssumption
    <3>2. Lookup(k)' = Append(Lookup(k), v)
      BY <2>5, <2>6, <2>8, <2>10, <3>1 DEF Contents
    <3> QED
      BY <3>2, <2>7, OneAppended
  <2> QED
    BY <2>9, <2>10
<1>3. ASSUME NEW k \in Hashes, NEW v \in Values, PutFresh(k, v)
      PROVE  IndexStep
  <2>1. PICK t \in Slots :
          /\ FreshAt(k, t)
          /\ nodes' = [nodes EXCEPT ![At(k, t)] = [capacity |-> Inlined, vals |-> <<v>>]]
          /\ verifiers' = [verifiers EXCEPT ![At(k, t)] = k]
          /\ damaged' = damaged
    BY <1>3 DEF PutFresh
  <2>2. PICK s \in Slots :
          /\ s = At(k, t) /\ verifiers[s] \in {Empty, Thombstone}
          /\ \A r \in Slots : verifiers[r] # k
    BY <2>1, FreshFacts
  <2>3. /\ nodes'[s].vals = <<v>> /\ nodes'[s].capacity = Inlined /\ verifiers'[s] = k
        /\ \A r \in Slots : r # s => nodes'[r] = nodes[r] /\ verifiers'[r] = verifiers[r]
    BY <2>1, <2>2, <1>1
  <2>4. Lookup(k) = << >>
    BY <2>2, <1>0 DEF Reads
  <2>5. Lookup(k)' = <<v>>
    <3>1. Lookup(k)' = Contents(nodes[s])'
      BY <2>3, <1>0 DEF Reads
    <3>2. ~(Inlined > Inlined)
      BY SizeAssumption
    <3> QED
      BY <3>1, <3>2, <2>3 DEF Contents, InArena
  <2>6. \A j \in Hashes : j # k => Lookup(j)' = Lookup(j)
    <3> SUFFICES ASSUME NEW j \in Hashes, j # k PROVE Lookup(j)' = Lookup(j)
      OBVIOUS
    <3>1. verifiers[s] # j /\ verifiers'[s] # j
      BY <2>2, <2>3, ReservedAssumption
    <3> QED
      BY <3>1, <2>1, <2>3, <1>0, OthersSame
  <2>7. <<v>> = Append(<< >>, v)
    OBVIOUS
  <2> QED
    BY <2>4, <2>5, <2>6, <2>7, OneAppended
<1>4. ASSUME NEW k \in Hashes, NEW v \in Values, PutDies(k, v)
      PROVE  IndexStep
  <2>1. verifiers' = verifiers /\ damaged' = damaged
    BY <1>4 DEF PutDies
  <2>2. \A j \in Hashes, r \in Slots :
          verifiers[r] = j => /\ nodes'[r].vals = nodes[r].vals
                              /\ InArena(nodes[r]) => InArena(nodes'[r])
    <3>1. CASE \E t \in Slots :
                 /\ FreshAt(k, t)
                 /\ nodes' = [nodes EXCEPT ![At(k, t)] =
                                [capacity |-> Inlined, vals |-> <<v>>]]
      <4>1. PICK t \in Slots :
                 /\ FreshAt(k, t)
                 /\ nodes' = [nodes EXCEPT ![At(k, t)] =
                                [capacity |-> Inlined, vals |-> <<v>>]]
        BY <3>1
      <4>2. At(k, t) \in Slots /\ verifiers[At(k, t)] \notin Hashes
        BY <4>1, FreshFacts, ReservedAssumption
      <4> QED
        BY <4>1, <4>2, <1>1
    <3>2. CASE \E d \in Slots : \E c \in Capacities(nodes[At(k, d)]) :
                 nodes' = [nodes EXCEPT ![At(k, d)].capacity = c]
      <4>1. PICK d \in Slots : \E c \in Capacities(nodes[At(k, d)]) :
                 nodes' = [nodes EXCEPT ![At(k, d)].capacity = c]
        BY <3>2
      <4>2. PICK s \in Slots : s = At(k, d)
        BY <1>1
      <4>3. PICK c \in Capacities(nodes[s]) : nodes' = [nodes EXCEPT ![s].capacity = c]
        BY <4>1, <4>2
      <4>4. nodes[s] \in Nodes
        BY <1>1
      <4>5. nodes'[s].vals = nodes[s].vals /\ nodes'[s].capacity = c
        BY <4>3, <4>4, <1>1 DEF Nodes
      <4>6. InArena(nodes[s]) => InArena(nodes'[s])
        <5> SUFFICES ASSUME InArena(nodes[s]) PROVE nodes'[s].capacity > Inlined
          BY DEF InArena
        <5> QED
          BY <4>3, <4>4, <4>5, StaysInArena
      <4>7. \A r \in Slots : r # s => nodes'[r] = nodes[r]
        BY <4>3, <1>1
      <4> QED
        BY <4>5, <4>6, <4>7
    <3> QED
      BY <1>4, <3>1, <3>2 DEF PutDies
  <2> QED
    BY <2>1, <2>2, <1>0, NodesKept
<1>5. ASSUME NEW k \in Hashes, PutDiesOverArena(k)
      PROVE  IndexStep
  <2>1. PICK d \in Slots :
          /\ nodes' = [nodes EXCEPT ![At(k, d)].capacity =
                          IF InArena(nodes[At(k, d)]) THEN @ ELSE 4 * Inlined]
          /\ verifiers' = verifiers /\ damaged' = TRUE
    BY <1>5 DEF PutDiesOverArena
  <2>2. PICK s \in Slots : s = At(k, d)
    BY <1>1
  <2>3. nodes[s] \in Nodes
    BY <1>1
  <2>4. /\ nodes'[s].vals = nodes[s].vals
        /\ InArena(nodes[s]) => nodes'[s].capacity = nodes[s].capacity
        /\ \A r \in Slots : r # s => nodes'[r] = nodes[r]
    BY <2>1, <2>2, <2>3, <1>1 DEF Nodes
  <2>5. \A r \in Slots : /\ nodes'[r].vals = nodes[r].vals
                         /\ InArena(nodes[r]) => InArena(nodes'[r])
    BY <2>4 DEF InArena
  <2> QED
    BY <2>1, <2>5, <1>0, NodesKept
<1>6. ASSUME NEW k \in Hashes, NEW d \in Slots, verifiers[At(k, d)] = k,
             NEW n, nodes' = [nodes EXCEPT ![At(k, d)] = n], damaged' = damaged,
             \/ verifiers' = [verifiers EXCEPT ![At(k, d)] = Thombstone]
             \/ verifiers' = verifiers /\ n = Cleared
      PROVE  IndexStep
  <2>1. PICK s \in Slots : s = At(k, d)
    BY <1>1
  <2>2. /\ nodes'[s] = n
        /\ \A r \in Slots : r # s => nodes'[r] = nodes[r] /\ verifiers'[r] = verifiers[r]
    BY <1>6, <2>1, <1>1
  <2>3. \A r \in Slots : verifiers[r] = k => r = s
    BY <1>6, <2>1, <1>1
  <2>4. Lookup(k)' = << >>
    <3>1. CASE verifiers' = [verifiers EXCEPT ![At(k, d)] = Thombstone]
      <4>1. verifiers'[s] = Thombstone
        BY <3>1, <2>1, <1>1
      <4>2. \A r \in Slots : verifiers'[r] # k
        BY <4>1, <2>2, <2>3, ReservedAssumption
      <4> QED
        BY <4>2, <1>0 DEF Reads
    <3>2. CASE verifiers' = verifiers /\ n = Cleared
      <4>1. verifiers'[s] = k /\ nodes'[s].vals = << >> /\ nodes'[s].capacity = 0
        BY <3>2, <1>6, <2>1, <2>2 DEF Cleared
      <4>2. Lookup(k)' = Contents(nodes[s])'
        BY <4>1, <1>0 DEF Reads
      <4>3. ~(0 > Inlined)
        BY SizeAssumption
      <4> QED
        BY <4>1, <4>2, <4>3 DEF Contents, InArena
    <3> QED
      BY <1>6, <3>1, <3>2
  <2>5. \A j \in Hashes : j # k => Lookup(j)' = Lookup(j)
    <3> SUFFICES ASSUME NEW j \in Hashes, j # k PROVE Lookup(j)' = Lookup(j)
      OBVIOUS
    <3>1. verifiers[s] # j
      BY <1>6, <2>1
    <3>2. verifiers'[s] # j
      BY <1>6, <2>1, <1>1, ReservedAssumption
    <3> QED
      BY <3>1, <3>2, <2>2, <1>0, <1>6, OthersSame
  <2> QED
    BY <2>4, <2>5, OneDropped
<1>7. ASSUME NEW k \in Hashes, RemoveKey(k)
      PROVE  IndexStep
  <2>1. PICK d \in Slots :
          /\ verifiers[At(k, d)] = k
          /\ nodes' = [nodes EXCEPT ![At(k, d)] = Emptied(@)]
          /\ verifiers' = [verifiers EXCEPT ![At(k, d)] = Thombstone]
          /\ damaged' = damaged
    BY <1>7 DEF RemoveKey, FoundAt
  <2>2. nodes' = [nodes EXCEPT ![At(k, d)] = Emptied(nodes[At(k, d)])]
    BY <2>1, <1>1
  <2> QED
    BY <2>1, <2>2, <1>6
<1>8. ASSUME NEW k \in Hashes, RemoveDies(k)
      PROVE  IndexStep
  <2>1. PICK d \in Slots :
          /\ verifiers[At(k, d)] = k
          /\ nodes' = [nodes EXCEPT ![At(k, d)] = Emptied(@)]
          /\ damaged' = (damaged \/ Len(nodes[At(k, d)].vals) > Inlined)
          /\ verifiers' = verifiers
    BY <1>8 DEF RemoveDies, FoundAt
  <2>2. nodes[At(k, d)] \in Nodes /\ At(k, d) \in Slots
    BY <1>1
  <2>3. Len(nodes[At(k, d)].vals) \in Nat
    BY <2>2 DEF Nodes
  <2>4. CASE Len(nodes[At(k, d)].vals) <= Inlined
    <3>1. nodes' = [nodes EXCEPT ![At(k, d)] = Cleared]
      BY <2>1, <2>2, <2>4, <1>1 DEF Emptied
    <3>2. damaged' = damaged
      BY <2>1, <2>3, <2>4, <1>1, SizeAssumption
    <3> QED
      BY <2>1, <3>1, <3>2, <1>6
  <2>5. CASE Len(nodes[At(k, d)].vals) > Inlined
    <3>1. Emptied(nodes[At(k, d)]) = nodes[At(k, d)]
      BY <2>3, <2>5, SizeAssumption DEF Emptied
    <3>2. \A r \in Slots : nodes'[r] = nodes[r]
      BY <2>1, <2>2, <3>1, <1>1
    <3>3. damaged'
      BY <2>1, <2>5
    <3> QED
      BY <2>1, <3>2, <3>3, <1>0, NodesKept DEF InArena
  <2> QED
    BY <2>3, <2>4, <2>5, SizeAssumption
<1>9. ASSUME UNCHANGED <<verifiers, nodes>>, damaged => damaged'
      PROVE  IndexStep
  BY <1>9, <1>0, NodesKept DEF InArena
<1>10. ASSUME NEW k \in Hashes, PutFull(k) \/ PutWithoutArena(k) \/ RemoveNothing(k)
       PROVE  IndexStep
  BY <1>9, <1>10 DEF PutFull, PutWithoutArena, RemoveNothing
<1>11. CASE OtherIndexDies
  BY <1>9, <1>11 DEF OtherIndexDies
<1>12. CASE UNCHANGED vars
  BY <1>9, <1>12 DEF vars
<1> QED
  BY <1>2, <1>3, <1>4, <1>5, <1>7, <1>8, <1>10, <1>11, <1>12 DEF Next

(* The index implements the multimap its users rely on, for every table    *)
(* size, every assignment of home slots and any interrupted calls: a hash  *)
(* reads back exactly the values put since it was last removed, unless a   *)
(* call died over the arena and the list is kept there                     *)
(* (mos_idx_hmap.c:153-319).                                               *)
THEOREM HmapIsMultimap == Spec => IndexIsMultimap
<1>1. Init => Lists!Init
  <2> SUFFICES ASSUME Init PROVE Lists!Init
    OBVIOUS
  <2>1. IInv
    BY InitIInv
  <2>2. Reads
    BY <2>1, IInvReads
  <2>3. \A s \in Slots : verifiers[s] \notin Hashes
    BY ReservedAssumption DEF Init
  <2>4. \A k \in Hashes : Lookup(k) = << >>
    BY <2>2, <2>3 DEF Reads
  <2> QED
    BY <2>4 DEF Lists!Init
<1>2. IInv /\ IInv' /\ [Next]_vars =>
        [ListStep]_[h \in Hashes |-> Lookup(h)]
  BY NextRefines DEF AllLists, IndexStep
<1> QED
  BY <1>1, <1>2, InitIInv, NextIInv, PTL DEF Spec, IndexIsMultimap

(* However puts and removes of any keys follow each other, wherever the     *)
(* calls die, no hash ever has two slots: a thombstone is only taken when  *)
(* the hash was not found behind it (mos_idx_hmap.c:171-198).              *)
COROLLARY KeysInOneSlot == Spec => []KeyStoredOnce
BY HmapSound, PTL
=============================================================================
