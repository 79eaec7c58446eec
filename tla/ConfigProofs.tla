---------------------------- MODULE ConfigProofs ----------------------------
(* Proofs about Config, for every set of configurations.                   *)
EXTENDS Config, WellFoundedInduction, FiniteSetTheorems, TLAPS

LEMMA PagedFits ==
  ASSUME NEW n \in Nat
  PROVE  /\ Paged(n) \in Nat /\ n <= Paged(n)
         /\ AlignUp(n, 8) \in Nat /\ n <= AlignUp(n, 8) /\ AlignUp(n, 8) % 8 = 0
BY DEF Paged, AlignUp, PageSize

LEMMA BitmapFits ==
  ASSUME NEW n \in Nat
  PROVE  SizeOfBitmap + 8 * ((n + 63) \div 64) <= Paged(BitmapSize(n))
BY SMTT(120) DEF Paged, AlignUp, PageSize, BitmapSize, SizeOfBitmap

LEMMA HeaderFits ==
  ASSUME NEW n \in Nat, NEW m \in Nat
  PROVE  /\ Paged(SizeOfHeader) + SizeOfAttr * n <= Paged(Paged(SizeOfHeader) + SizeOfAttr * n)
         /\ Paged(Paged(SizeOfHeader) + SizeOfAttr * n) + SizeOfDescriptor * m
              <= HeaderSize(n, m)
BY DEF HeaderSize, Paged, AlignUp, PageSize, SizeOfHeader, SizeOfAttr, SizeOfDescriptor
-----------------------------------------------------------------------------
IsSeq(s) == \E S : s \in Seq(S)

(* What the four invariants need of the state.  A layout is only there once *)
(* nothing it was computed from changes any more.                          *)
IInv ==
  /\ cfg \in Configs /\ offset \in Nat
  /\ IsSeq(attributes) /\ IsSeq(descriptors)
  /\ \A a \in DOMAIN attributes : attributes[a].at \in Nat /\ attributes[a].size \in Nat
  /\ pc \in {"validate", "id index"} => descriptors = << >>
  /\ layout # NoLayout => pc \in {"index data", "created"}
  /\ FieldsApart /\ DescriptorsFit /\ HeaderHolds /\ BitmapHolds

LEMMA InitIInv == Init => IInv
<1> SUFFICES ASSUME Init PROVE IInv
  OBVIOUS
<1>1. attributes \in Seq({}) /\ descriptors \in Seq({})
  BY DEF Init
<1>2. cfg.indexes \in Seq(IdxConfigs)
  BY ConfigsAssumption DEF Init
<1> QED
  BY <1>1, <1>2 DEF Init, IInv, IsSeq, FieldsApart, DescriptorsFit, HeaderHolds, BitmapHolds

LEMMA Sizes ==
  ASSUME IInv
  PROVE  /\ cfg.maxRecords \in Nat /\ Len(cfg.indexes) \in Nat
         /\ Len(attributes) \in Nat /\ DOMAIN attributes = 1..Len(attributes)
         /\ Len(descriptors) \in Nat
<1>1. cfg.maxRecords \in Nat /\ cfg.indexes \in Seq(IdxConfigs)
  <2>1. cfg \in Configs
    BY DEF IInv
  <2> QED
    BY <2>1, ConfigsAssumption
<1>2. PICK S : attributes \in Seq(S)
  BY DEF IInv, IsSeq
<1>3. PICK T : descriptors \in Seq(T)
  BY DEF IInv, IsSeq
<1> QED
  BY <1>1, <1>2, <1>3

LEMMA Appended ==
  ASSUME NEW s, IsSeq(s), NEW e
  PROVE  /\ IsSeq(Append(s, e))
         /\ DOMAIN Append(s, e) = 1..(Len(s) + 1)
         /\ Len(Append(s, e)) = Len(s) + 1
         /\ \A x \in 1..Len(s) : Append(s, e)[x] = s[x]
         /\ Append(s, e)[Len(s) + 1] = e
<1>1. PICK S : s \in Seq(S)
  BY DEF IsSeq
<1>2. s \in Seq(S \cup {e}) /\ Append(s, e) \in Seq(S \cup {e})
  BY <1>1
<1> QED
  BY <1>2 DEF IsSeq

(* The steps before the layout that only touch descriptors and pc.         *)
LEMMA DescribeStep ==
  ASSUME IInv,
         Validate \/ DescribeIdIndex \/ DescribeIndex \/ DescribeUnknown \/ SkipIndex
  PROVE  IInv'
<1>1. layout = NoLayout /\ layout' = NoLayout /\ UNCHANGED <<cfg, attributes, offset>>
  BY DEF IInv, Validate, DescribeIdIndex, DescribeIndex, DescribeUnknown, SkipIndex
<1>2. Len(cfg.indexes) \in Nat /\ Len(descriptors) \in Nat
  BY Sizes
<1>3. /\ IsSeq(descriptors')
      /\ DescriptorsFit'
      /\ pc' \in {"validate", "id index"} => descriptors' = << >>
  <2>1. CASE Validate \/ DescribeUnknown \/ SkipIndex
    BY <2>1 DEF IInv, Validate, DescribeUnknown, SkipIndex, DescriptorsFit
  <2>2. CASE DescribeIdIndex
    <3>1. PICK e : descriptors' = <<e>>
      BY <2>2 DEF DescribeIdIndex
    <3>2. IsSeq(descriptors') /\ Len(descriptors') = 1
      <4>1. descriptors' \in Seq({e})
        BY <3>1
      <4> QED
        BY <4>1, <3>1 DEF IsSeq
    <3>3. pc' = "match" /\ cfg' = cfg
      BY <2>2 DEF DescribeIdIndex
    <3>4. Len(descriptors') <= Len(cfg.indexes) + 1
      BY <3>2, <1>2
    <3> QED
      BY <3>2, <3>3, <3>4 DEF DescriptorsFit
  <2>3. CASE DescribeIndex
    <3>1. CASE UNCHANGED descriptors
      BY <2>3, <3>1, <1>1 DEF IInv, DescribeIndex, DescriptorsFit
    <3>2. CASE descriptors' # descriptors
      <4>1. IsSeq(descriptors)
        BY DEF IInv
      <4>2. PICK e : descriptors' = Append(descriptors, e)
        BY <2>3, <3>2 DEF DescribeIndex
      <4>3. Len(descriptors) <= Len(cfg.indexes) /\ Len(descriptors) \in Nat
        <5>1. Len(descriptors) # Len(cfg.indexes) + 1
          BY <2>3, <3>2 DEF DescribeIndex
        <5>2. Len(descriptors) <= Len(cfg.indexes) + 1
          BY DEF IInv, DescriptorsFit
        <5> QED
          BY <5>1, <5>2, <1>2
      <4>4. pc' = "match"
        BY <2>3, <3>2 DEF DescribeIndex
      <4> QED
        BY <4>1, <4>2, <4>3, <4>4, <1>1, <1>2, Appended DEF DescriptorsFit
    <3> QED
      BY <3>1, <3>2
  <2> QED
    BY <2>1, <2>2, <2>3
<1> QED
  BY <1>1, <1>3 DEF IInv, FieldsApart, HeaderHolds, BitmapHolds

LEMMA ConvertStep ==
  ASSUME IInv, Convert
  PROVE  IInv'
<1>1. /\ layout = NoLayout /\ layout' = NoLayout /\ UNCHANGED <<cfg, descriptors>>
      /\ pc' \notin {"validate", "id index"}
  BY DEF IInv, Convert
<1>2. CASE UNCHANGED <<attributes, offset>>
  BY <1>1, <1>2 DEF IInv, FieldsApart, DescriptorsFit, HeaderHolds, BitmapHolds
<1>3. CASE ~UNCHANGED <<attributes, offset>>
  <2>1. /\ attributes' = Append(attributes, Converted)
        /\ offset' = offset + Converted.size
    BY <1>3 DEF Convert
  <2>2. Converted.at = offset /\ Converted.size \in Nat
    BY DEF Converted, InternalSize
  <2>3. IsSeq(attributes)
    BY DEF IInv
  <2>4. /\ DOMAIN attributes = 1..Len(attributes) /\ Len(attributes) \in Nat
        /\ DOMAIN attributes' = 1..(Len(attributes) + 1)
        /\ \A x \in 1..Len(attributes) : attributes'[x] = attributes[x]
        /\ attributes'[Len(attributes) + 1] = Converted
        /\ IsSeq(attributes')
    BY <2>1, <2>3, Appended, Sizes
  <2>5. /\ offset \in Nat
        /\ \A a \in 1..Len(attributes) :
             /\ attributes[a].at \in Nat /\ attributes[a].size \in Nat
             /\ attributes[a].at + attributes[a].size <= offset
        /\ \A a, b \in 1..Len(attributes) :
             a < b => attributes[a].at + attributes[a].size <= attributes[b].at
    BY <2>4 DEF IInv, FieldsApart
  <2>6. PICK c : c = Converted /\ c.at = offset /\ c.size \in Nat
    BY <2>2
  <2>7. offset' = offset + c.size /\ offset' \in Nat /\ offset <= offset'
    BY <2>1, <2>5, <2>6
  <2>8. \A a \in 1..(Len(attributes) + 1) :
          /\ attributes'[a].at \in Nat /\ attributes'[a].size \in Nat
          /\ attributes'[a].at + attributes'[a].size <= offset'
    <3> TAKE a \in 1..(Len(attributes) + 1)
    <3>1. CASE a \in 1..Len(attributes)
      <4>1. attributes'[a] = attributes[a]
        BY <2>4, <3>1
      <4>2. attributes[a].at \in Nat /\ attributes[a].size \in Nat
            /\ attributes[a].at + attributes[a].size <= offset
        BY <2>5, <3>1
      <4> QED
        BY <4>1, <4>2, <2>5, <2>7
    <3>2. CASE a = Len(attributes) + 1
      BY <2>4, <2>5, <2>6, <2>7, <3>2
    <3> QED
      BY <3>1, <3>2, <2>4
  <2>9. \A a, b \in 1..(Len(attributes) + 1) :
          a < b => attributes'[a].at + attributes'[a].size <= attributes'[b].at
    <3> SUFFICES ASSUME NEW a \in 1..(Len(attributes) + 1),
                        NEW b \in 1..(Len(attributes) + 1), a < b
                 PROVE  attributes'[a].at + attributes'[a].size <= attributes'[b].at
      OBVIOUS
    <3>1. a \in 1..Len(attributes) /\ attributes'[a] = attributes[a]
      BY <2>4
    <3>2. CASE b \in 1..Len(attributes)
      BY <2>4, <2>5, <3>1, <3>2
    <3>3. CASE b = Len(attributes) + 1
      BY <2>4, <2>5, <2>6, <3>1, <3>3
    <3> QED
      BY <3>2, <3>3, <2>4
  <2> QED
    BY <1>1, <2>4, <2>7, <2>8, <2>9
    DEF IInv, FieldsApart, DescriptorsFit, HeaderHolds, BitmapHolds
<1> QED
  BY <1>2, <1>3

LEMMA LayOutStep ==
  ASSUME IInv, LayOut
  PROVE  IInv'
<1>1. UNCHANGED <<cfg, attributes, descriptors, offset>> /\ pc' = "index data"
  BY DEF LayOut
<1>2. cfg.maxRecords \in Nat /\ offset \in Nat
  BY Sizes DEF IInv
<1>3. Len(attributes) \in Nat /\ Len(descriptors) \in Nat
  BY Sizes
<1> DEFINE size == AlignUp(RecordData + offset, 8)
<1>4. /\ layout'.recordSize = size /\ layout'.recordsSize = Paged(size * cfg.maxRecords)
      /\ layout'.header = HeaderSize(Len(attributes), Len(descriptors))
      /\ layout'.bitmap = Paged(BitmapSize(cfg.maxRecords))
  BY DEF LayOut
<1>5. size \in Nat /\ RecordData + offset <= size /\ size % 8 = 0
  <2>1. RecordData + offset \in Nat
    BY <1>2 DEF RecordData
  <2> HIDE DEF size
  <2> QED
    BY <2>1, PagedFits DEF size
<1>6. size * cfg.maxRecords <= Paged(size * cfg.maxRecords)
  <2>1. size * cfg.maxRecords \in Nat
    BY <1>5, <1>2
  <2> QED
    BY <2>1, PagedFits
<1>7. FieldsApart'
  BY <1>1, <1>4, <1>5, <1>6 DEF IInv, FieldsApart
<1>8. HeaderHolds'
  BY <1>1, <1>3, <1>4, HeaderFits DEF HeaderHolds, AttributesAt, DescriptorsAt
<1>9. BitmapHolds'
  BY <1>1, <1>2, <1>4, BitmapFits DEF BitmapHolds
<1> QED
  BY <1>1, <1>7, <1>8, <1>9 DEF IInv, DescriptorsFit

(* For every set of configurations whose names are compared in any way:     *)
(* fields, descriptors, header and bitmaps have their room                 *)
(* (mos_core.c:51-133, 283-394).                                           *)
THEOREM LayoutHolds ==
  Spec => [](FieldsApart /\ DescriptorsFit /\ HeaderHolds /\ BitmapHolds)
<1>1. IInv /\ [Next]_vars => IInv'
  <2> SUFFICES ASSUME IInv, [Next]_vars PROVE IInv'
    OBVIOUS
  <2>1. CASE Validate \/ DescribeIdIndex \/ DescribeIndex \/ DescribeUnknown \/ SkipIndex
    BY <2>1, DescribeStep
  <2>2. CASE Convert
    BY <2>2, ConvertStep
  <2>3. CASE LayOut
    BY <2>3, LayOutStep
  <2>4. CASE InitIndex \/ Created \/ Terminating \/ UNCHANGED vars
    <3>1. UNCHANGED <<cfg, attributes, descriptors, offset, layout>>
      BY <2>4 DEF InitIndex, Created, Terminating, vars
    <3>2. pc' = pc \/ (pc = "index data" /\ pc' = "created")
      BY <2>4 DEF InitIndex, Created, Terminating, vars
    <3> QED
      BY <3>1, <3>2 DEF IInv, FieldsApart, DescriptorsFit, HeaderHolds, BitmapHolds,
                        AttributesAt, DescriptorsAt
  <2> QED
    BY <2>1, <2>2, <2>3, <2>4 DEF Next
<1>2. IInv => FieldsApart /\ DescriptorsFit /\ HeaderHolds /\ BitmapHolds
  BY DEF IInv
<1> QED
  BY InitIInv, <1>1, <1>2, PTL DEF Spec

(* The fields of a record have their room in it and records theirs in the   *)
(* region, whatever was configured (mos_core.c:68-75, 359-382).            *)
COROLLARY FieldsHaveRoom == Spec => []FieldsApart
BY LayoutHolds, PTL

(* The header region holds what create copies into it (mos_core.c:109-111,  *)
(* 697-699).                                                               *)
COROLLARY HeaderHasRoom == Spec => []HeaderHolds
BY LayoutHolds, PTL
-----------------------------------------------------------------------------
(* The sections of the index files.                                        *)

LEMMA PowersOf2 ==
  /\ \A k \in 0..30 : 2^k \in Nat
  /\ 2^30 = 2 * 2^29
<1>1. \A k \in 0..30 :
        \/ k = 0 \/ k = 1 \/ k = 2 \/ k = 3 \/ k = 4 \/ k = 5 \/ k = 6 \/ k = 7
        \/ k = 8 \/ k = 9 \/ k = 10 \/ k = 11 \/ k = 12 \/ k = 13 \/ k = 14 \/ k = 15
        \/ k = 16 \/ k = 17 \/ k = 18 \/ k = 19 \/ k = 20 \/ k = 21 \/ k = 22 \/ k = 23
        \/ k = 24 \/ k = 25 \/ k = 26 \/ k = 27 \/ k = 28 \/ k = 29 \/ k = 30
  OBVIOUS
<1>2. /\ 2^0 \in Nat /\ 2^1 \in Nat /\ 2^2 \in Nat /\ 2^3 \in Nat
      /\ 2^4 \in Nat /\ 2^5 \in Nat /\ 2^6 \in Nat /\ 2^7 \in Nat
      /\ 2^8 \in Nat /\ 2^9 \in Nat /\ 2^10 \in Nat /\ 2^11 \in Nat
      /\ 2^12 \in Nat /\ 2^13 \in Nat /\ 2^14 \in Nat /\ 2^15 \in Nat
      /\ 2^16 \in Nat /\ 2^17 \in Nat /\ 2^18 \in Nat /\ 2^19 \in Nat
      /\ 2^20 \in Nat /\ 2^21 \in Nat /\ 2^22 \in Nat /\ 2^23 \in Nat
      /\ 2^24 \in Nat /\ 2^25 \in Nat /\ 2^26 \in Nat /\ 2^27 \in Nat
      /\ 2^28 \in Nat /\ 2^29 \in Nat /\ 2^30 \in Nat
  OBVIOUS
<1>3. \A k \in 0..30 : 2^k \in Nat
  BY <1>1, <1>2, Zenon
<1>4. 2^30 = 2 * 2^29
  OBVIOUS
<1> QED
  BY <1>3, <1>4

LEMMA LeastNatural ==
  ASSUME NEW S \in SUBSET Nat, S # {}
  PROVE  \E x \in S : \A y \in S : ~(y < x)
<1>1. PICK R : R = OpToRel(<, Nat)
  OBVIOUS
<1>2. IsWellFoundedOn(R, Nat)
  BY <1>1, NatLessThanWellFounded
<1>3. PICK x \in S : \A y \in S : ~(<<y, x>> \in R)
  BY <1>2, WFMin
<1>4. \A y \in S : y < x => <<y, x>> \in R
  BY <1>1 DEF OpToRel
<1> QED
  BY <1>3, <1>4

LEMMA TableSizes ==
  ASSUME NEW n \in Nat, n <= 2^29
  PROVE  TableSize(n) \in Nat /\ 2 * n <= TableSize(n)
<1> DEFINE Enough == {p \in {2^k : k \in 0..30} : p >= 2 * n}
           Least(p) == p >= 2 * n /\ \A k \in 0..30 : 2^k >= 2 * n => p <= 2^k
<1>1. {2^k : k \in 0..30} \subseteq Nat
  BY PowersOf2
<1>2. 2^30 \in Enough
  <2>1. 2^30 >= 2 * n
    BY PowersOf2
  <2> QED
    BY <2>1
<1>3. PICK p \in Enough : \A q \in Enough : p <= q
  <2>1. Enough \subseteq Nat
    BY <1>1
  <2> HIDE DEF Enough
  <2>2. PICK p \in Enough : \A q \in Enough : ~(q < p)
    BY <1>2, <2>1, LeastNatural
  <2> QED
    BY <2>1, <2>2
<1>5. p \in {2^k : k \in 0..30} /\ Least(p)
  BY <1>3
<1>6. NextPowerOf2(2 * n) = CHOOSE q \in {2^k : k \in 0..30} : Least(q)
  BY DEF NextPowerOf2
<1>7. NextPowerOf2(2 * n) \in {2^k : k \in 0..30} /\ Least(NextPowerOf2(2 * n))
  BY <1>5, <1>6, Zenon
<1> QED
  BY <1>1, <1>7 DEF TableSize

(* A section lies behind the header, in a file of so many bytes, and before *)
(* the sections that follow it.                                            *)
Fits(s, size) ==
  \A x \in DOMAIN s : /\ s[x].at >= SizeOfIdxHeader
                      /\ s[x].at + s[x].size <= size
                      /\ \A y \in DOMAIN s : x < y => s[x].at + s[x].size <= s[y].at

LEMMA HmapArraysFit ==
  ASSUME NEW p \in Params, NEW n \in Nat, n <= 2^29
  PROVE  IndexSize(HashMap, p, n) \in Nat /\ Fits(Arrays(HashMap, p, n), IndexSize(HashMap, p, n))
<1>1. PICK t \in Nat : t = TableSize(n)
  BY TableSizes
<1>2. PICK h \in Nat : h = Paged(SizeOfIdxHeader) /\ SizeOfIdxHeader <= h
  BY PagedFits DEF SizeOfIdxHeader
<1>3. PICK m \in Nat : m = Paged(SizeOfHmapHeader)
  BY PagedFits DEF SizeOfHmapHeader
<1>4. (SizeOfValueNode + 8) * t \in Nat
  BY DEF SizeOfValueNode
<1>5. PICK d \in Nat : d = Paged((SizeOfValueNode + 8) * t) /\ (SizeOfValueNode + 8) * t <= d
  BY <1>4, PagedFits
<1>6. IndexSize(HashMap, p, n) = h + (m + d)
  BY <1>1, <1>2, <1>3, <1>5 DEF IndexSize, DataSize
<1>7. Arrays(HashMap, p, n) = <<[at |-> h + m, size |-> SizeOfValueNode * t],
                               [at |-> h + m + SizeOfValueNode * t, size |-> 8 * t]>>
  BY <1>1, <1>2, <1>3 DEF Arrays
<1>8. \A x, y \in {1, 2} : x < y => x = 1 /\ y = 2
  OBVIOUS
<1> QED
  BY <1>2, <1>5, <1>6, <1>7, <1>8 DEF Fits, SizeOfIdxHeader, SizeOfValueNode

LEMMA Products ==
  ASSUME NEW a \in Nat, NEW b \in Nat
  PROVE  a * b \in Nat
OBVIOUS

LEMMA Grows ==
  ASSUME NEW a \in Nat, NEW b \in Nat, a <= b, NEW n \in Nat
  PROVE  4 * a * n <= 4 * b * n
<1>1. PICK c \in Nat : b = a + c
  <2>1. b - a \in Nat /\ b = a + (b - a)
    OBVIOUS
  <2> QED
    BY <2>1
<1>2. 4 * (a + c) * n = 4 * a * n + 4 * (c * n)
  OBVIOUS
<1>3. c * n \in Nat /\ a * n \in Nat
  BY Products
<1> QED
  BY <1>1, <1>2, <1>3

(* What a dimension is rounded up to fits a uint16_t unless it wraps.       *)
LEMMA PaddedDim ==
  ASSUME NEW dim \in Nat
  PROVE  /\ VectorDim(dim) \in Nat /\ Padded(dim) \in Nat
         /\ ~Wraps(dim) => VectorDim(dim) <= Padded(dim)
<1>1. PICK u \in Nat : u = UInt16Values /\ u > 0
  BY DEF UInt16Values
<1>2. PICK v \in Nat : v = VectorDim(dim)
  BY <1>1 DEF VectorDim
<1>3. PICK k \in Nat : k = (v + 7) \div 8 /\ v <= 8 * k /\ 8 * k <= v + 7
  <2>1. (v + 7) \div 8 \in Nat /\ v <= 8 * ((v + 7) \div 8) /\ 8 * ((v + 7) \div 8) <= v + 7
    OBVIOUS
  <2> QED
    BY <2>1
<1>4. AlignUp(v, SimdFloats) = k * 8
  BY <1>3 DEF AlignUp, SimdFloats
<1>5. PICK w \in Nat : w = k * 8 /\ v <= w /\ w <= v + 7
  BY <1>3
<1>6. Padded(dim) = w % u
  BY <1>1, <1>2, <1>4, <1>5 DEF Padded
<1>7. w % u \in Nat /\ (w < u => w % u = w)
  BY <1>1, <1>5
<1>8. ~Wraps(dim) => w < u
  <2>1. ~Wraps(dim) => v + 8 <= u
    BY <1>1, <1>2 DEF Wraps, SimdFloats
  <2> QED
    BY <1>1, <1>5, <2>1
<1> QED
  BY <1>2, <1>5, <1>6, <1>7, <1>8

LEMMA HnswArraysFit ==
  ASSUME NEW p \in Params, NEW n \in Nat
  PROVE  /\ IndexSize(Hnsw, p, n) \in Nat
         /\ ~Wraps(p.dim) => Fits(Arrays(Hnsw, p, n), IndexSize(Hnsw, p, n))
<1>1. p.dim \in Nat /\ p.m \in Nat /\ p.mMax0 \in Nat /\ p.upper \in Nat
  BY DEF Params
<1>2. /\ VectorDim(p.dim) \in Nat /\ Padded(p.dim) \in Nat
      /\ ~Wraps(p.dim) => VectorDim(p.dim) <= Padded(p.dim)
  BY <1>1, PaddedDim
<1>3. PICK v \in Nat : v = 4 * VectorDim(p.dim) * n
  <2>1. 4 * VectorDim(p.dim) \in Nat
    BY <1>2
  <2> QED
    BY <2>1, Products
<1>4. PICK w \in Nat : w = 4 * Padded(p.dim) * n /\ (~Wraps(p.dim) => v <= w)
  <2>1. 4 * Padded(p.dim) \in Nat
    BY <1>2
  <2>2. 4 * Padded(p.dim) * n \in Nat
    BY <2>1, Products
  <2> QED
    BY <2>2, <1>2, <1>3, Grows
<1>5. PICK z \in Nat : z = (SizeOfL0Node + SizeOfNeighbor * p.mMax0) * n
  <2>1. SizeOfL0Node + SizeOfNeighbor * p.mMax0 \in Nat
    BY <1>1 DEF SizeOfL0Node, SizeOfNeighbor
  <2> QED
    BY <2>1, Products
<1>6. UpperSize(p) \in Nat
  <2>1. ChunkSize(p) \in Nat
    BY <1>1 DEF ChunkSize, SizeOfNeighbor
  <2>2. 5 * ChunkSize(p) \in Nat /\ p.upper + 3 \in Nat
    BY <1>1, <2>1
  <2> QED
    BY <2>2, Products DEF UpperSize
<1>7. PICK h \in Nat : h = Paged(SizeOfIdxHeader) /\ SizeOfIdxHeader <= h
  BY PagedFits DEF SizeOfIdxHeader
<1>8. PICK m \in Nat : m = Paged(SizeOfHnswHeader)
  BY PagedFits DEF SizeOfHnswHeader
<1>9. PICK W \in Nat : W = Paged(w) /\ w <= W
  BY PagedFits
<1>10. PICK Z \in Nat : Z = Paged(z) /\ z <= Z
  BY PagedFits
<1>11. PICK U \in Nat : U = Paged(UpperSize(p))
  BY <1>6, PagedFits
<1>12. PICK I \in Nat : I = Paged(8 * n) /\ 8 * n <= I
  <2>1. 8 * n \in Nat
    OBVIOUS
  <2> QED
    BY <2>1, PagedFits
<1>13. HashMap # Hnsw
  BY DEF HashMap, Hnsw
<1>14. IndexSize(Hnsw, p, n) = h + (m + W + Z + U + I)
  BY <1>4, <1>5, <1>7, <1>8, <1>9, <1>10, <1>11, <1>12, <1>13 DEF IndexSize, DataSize
<1>15. Arrays(Hnsw, p, n) = <<[at |-> h + m, size |-> v], [at |-> h + m + W, size |-> z],
                             [at |-> h + m + W + Z, size |-> U],
                             [at |-> h + m + W + Z + U, size |-> 8 * n]>>
  BY <1>3, <1>4, <1>5, <1>7, <1>8, <1>9, <1>10, <1>11, <1>13 DEF Arrays
<1>16. PICK s : s = Arrays(Hnsw, p, n)
  OBVIOUS
<1>17. /\ DOMAIN s = 1..4
       /\ s[1].at = h + m /\ s[1].size = v
       /\ s[2].at = h + m + W /\ s[2].size = z
       /\ s[3].at = h + m + W + Z /\ s[3].size = U
       /\ s[4].at = h + m + W + Z + U /\ s[4].size = 8 * n
  BY <1>15, <1>16
<1>18. \A x \in 1..4 : x = 1 \/ x = 2 \/ x = 3 \/ x = 4
  OBVIOUS
<1>19. ~Wraps(p.dim) => Fits(s, h + (m + W + Z + U + I))
  BY <1>4, <1>7, <1>9, <1>10, <1>12, <1>17, <1>18 DEF Fits, SizeOfIdxHeader
<1> QED
  BY <1>14, <1>16, <1>19
-----------------------------------------------------------------------------
Described(d) ==
  /\ descriptors[d].type \in {HashMap, Hnsw} /\ descriptors[d].params \in Params
  /\ descriptors[d].size =
       IndexSize(descriptors[d].type, descriptors[d].params, cfg.maxRecords)

(* What SectionsApart needs: a file was sized with the very type and        *)
(* parameters its sections are laid out with, and no descriptor changes    *)
(* after that.                                                             *)
SectionsInv ==
  /\ cfg \in Configs /\ TypeOK
  /\ IsSeq(attributes) /\ IsSeq(descriptors) /\ IsSeq(sections)
  /\ j >= 1
  /\ pc = "validate" => i = 1
  /\ pc \in {"id index", "match"} => i <= Len(cfg.attributes)
  /\ \A d \in DOMAIN descriptors : Described(d)
  /\ pc \notin {"index data", "created"} => sections = << >>
  /\ pc = "index data" => Len(sections) + 1 = j
  /\ Len(sections) <= Len(descriptors)
  /\ \A d \in DOMAIN sections :
       sections[d] = Arrays(descriptors[d].type, descriptors[d].params, cfg.maxRecords)

LEMMA Configured ==
  ASSUME NEW c \in Configs
  PROVE  /\ c.maxRecords \in Nat /\ c.maxRecords <= 2^29
         /\ c.attributes \in Seq(AttrConfigs) /\ c.indexes \in Seq(IdxConfigs)
         /\ Len(c.attributes) \in Nat /\ Len(c.indexes) \in Nat
         /\ DOMAIN c.attributes = 1..Len(c.attributes)
         /\ DOMAIN c.indexes = 1..Len(c.indexes)
         /\ \A x \in 1..Len(c.attributes) : c.attributes[x] \in AttrConfigs
         /\ \A x \in 1..Len(c.indexes) : c.indexes[x] \in IdxConfigs
<1>1. c.attributes \in Seq(AttrConfigs) /\ c.indexes \in Seq(IdxConfigs)
  BY ConfigsAssumption
<1> QED
  BY <1>1, ConfigsAssumption

LEMMA Counted ==
  ASSUME NEW s, IsSeq(s)
  PROVE  Len(s) \in Nat /\ DOMAIN s = 1..Len(s)
BY DEF IsSeq

LEMMA IndexArraysFit ==
  ASSUME NEW type \in {HashMap, Hnsw}, NEW p \in Params, NEW n \in Nat, n <= 2^29
  PROVE  /\ IndexSize(type, p, n) \in Nat
         /\ (type = Hnsw => ~Wraps(p.dim)) => Fits(Arrays(type, p, n), IndexSize(type, p, n))
BY HmapArraysFit, HnswArraysFit

LEMMA InitSections == Init => SectionsInv
<1> SUFFICES ASSUME Init PROVE SectionsInv
  OBVIOUS
<1>1. cfg \in Configs /\ Len(cfg.attributes) \in Nat
  BY Configured DEF Init
<1>2. attributes = << >> /\ descriptors = << >> /\ sections = << >>
  BY DEF Init
<1>3. IsSeq(<< >>)
  <2>1. << >> \in Seq({})
    OBVIOUS
  <2> QED
    BY <2>1 DEF IsSeq
<1>4. pc = "validate" /\ i = 1 /\ j = 1 /\ offset = 0
  BY DEF Init
<1>5. TypeOK
  BY <1>1, <1>2, <1>4 DEF TypeOK
<1> QED
  BY <1>1, <1>2, <1>3, <1>4, <1>5 DEF SectionsInv

(* A descriptor that is appended was sized with its own parameters.        *)
LEMMA DescriptorAdded ==
  ASSUME SectionsInv, NEW name, NEW type \in {HashMap, Hnsw}, NEW p \in Params,
         NEW s, IsSeq(s),
         \A d \in DOMAIN s :
           /\ s[d].type \in {HashMap, Hnsw} /\ s[d].params \in Params /\ s[d].size \in Nat
           /\ s[d].size = IndexSize(s[d].type, s[d].params, cfg.maxRecords),
         descriptors' = Append(s, Descriptor(name, type, p)), cfg' = cfg
  PROVE  /\ IsSeq(descriptors')
         /\ \A d \in DOMAIN descriptors' : Described(d)' /\ descriptors'[d].size \in Nat
<1>1. cfg.maxRecords \in Nat /\ cfg.maxRecords <= 2^29
  BY Configured DEF SectionsInv
<1>2. PICK e : e = Descriptor(name, type, p)
  OBVIOUS
<1>3. /\ e.type = type /\ e.params = p
      /\ e.size = IndexSize(type, p, cfg.maxRecords) /\ e.size \in Nat
  BY <1>1, <1>2, IndexArraysFit DEF Descriptor
<1>4. /\ IsSeq(descriptors') /\ DOMAIN descriptors' = 1..(Len(s) + 1)
      /\ \A x \in 1..Len(s) : descriptors'[x] = s[x]
      /\ descriptors'[Len(s) + 1] = e
      /\ Len(s) \in Nat /\ DOMAIN s = 1..Len(s)
  BY <1>2, Appended, Counted
<1>5. ASSUME NEW d \in DOMAIN descriptors'
      PROVE  Described(d)' /\ descriptors'[d].size \in Nat
  <2>1. CASE d \in 1..Len(s)
    BY <1>4, <2>1 DEF Described
  <2>2. CASE d = Len(s) + 1
    BY <1>3, <1>4, <2>2 DEF Described
  <2> QED
    BY <1>4, <2>1, <2>2
<1> QED
  BY <1>4, <1>5

(* The steps before the layout that leave the attributes alone.            *)
LEMMA DescribeSections ==
  ASSUME SectionsInv,
         Validate \/ DescribeIdIndex \/ DescribeIndex \/ DescribeUnknown \/ SkipIndex
  PROVE  SectionsInv'
<1>1. /\ sections = << >> /\ UNCHANGED <<cfg, i, attributes, offset, sections>>
      /\ pc \in {"validate", "id index", "match"} /\ pc' \notin {"index data", "created"}
  BY DEF SectionsInv, Validate, DescribeIdIndex, DescribeIndex, DescribeUnknown, SkipIndex
<1>2. /\ cfg.maxRecords \in Nat /\ Len(cfg.attributes) \in Nat /\ Len(cfg.indexes) \in Nat
      /\ \A x \in 1..Len(cfg.indexes) : cfg.indexes[x] \in IdxConfigs
      /\ DOMAIN cfg.attributes = 1..Len(cfg.attributes)
  BY Configured DEF SectionsInv
<1>3. /\ pc' \in {"id index", "match", "rejected", "failed", "fault"}
      /\ pc' \in {"id index", "match"} => i' <= Len(cfg'.attributes)
  <2>1. CASE Validate
    <3>1. i = 1 /\ i' = 1 /\ pc' \in {"id index", "rejected", "fault"}
      BY <2>1 DEF SectionsInv, Validate
    <3>2. pc' = "id index" => cfg.attributes # << >>
      BY <2>1, <3>1 DEF Validate, Valid
    <3>3. cfg.attributes \in Seq(AttrConfigs)
      BY Configured DEF SectionsInv
    <3>4. cfg.attributes # << >> => 1 <= Len(cfg.attributes)
      BY <3>3
    <3> QED
      BY <3>1, <3>2, <3>4, <1>1
  <2>2. CASE DescribeIdIndex \/ DescribeIndex \/ DescribeUnknown \/ SkipIndex
    BY <2>2, <1>1 DEF SectionsInv, DescribeIdIndex, DescribeIndex, DescribeUnknown, SkipIndex
  <2> QED
    BY <2>1, <2>2
<1>num. j \in Nat /\ j >= 1
  BY DEF SectionsInv, TypeOK
<1>4. j' \in Nat /\ j' >= 1
  <2>1. j' = j \/ j' = j + 1
    BY DEF Validate, DescribeIdIndex, DescribeIndex, DescribeUnknown, SkipIndex
  <2> QED
    BY <2>1, <1>num
<1>5. IsSeq(descriptors') /\ \A d \in DOMAIN descriptors' :
                                Described(d)' /\ descriptors'[d].size \in Nat
  <2>1. /\ IsSeq(descriptors)
        /\ \A d \in DOMAIN descriptors : Described(d) /\ descriptors[d].size \in Nat
    BY DEF SectionsInv, TypeOK
  <2>2. CASE UNCHANGED descriptors
    BY <2>1, <2>2, <1>1 DEF Described
  <2>3. CASE DescribeIdIndex
    <3>1. descriptors' = Append(<< >>, Descriptor(IdName, HashMap, NoParams))
      <4>1. descriptors' = <<Descriptor(IdName, HashMap, NoParams)>>
        BY <2>3 DEF DescribeIdIndex
      <4>2. PICK e : e = Descriptor(IdName, HashMap, NoParams)
        OBVIOUS
      <4>3. <<e>> = Append(<< >>, e)
        OBVIOUS
      <4> QED
        BY <4>1, <4>2, <4>3
    <3>2. IsSeq(<< >>) /\ DOMAIN << >> = {}
      <4>1. << >> \in Seq({})
        OBVIOUS
      <4> QED
        BY <4>1 DEF IsSeq
    <3>3. NoParams \in Params
      BY DEF NoParams, Params
    <3> HIDE DEF NoParams
    <3> QED
      BY <3>1, <3>2, <3>3, <1>1, DescriptorAdded
  <2>4. CASE DescribeIndex /\ descriptors' # descriptors
    <3>1. /\ descriptors' = Append(descriptors,
               Descriptor(Cut[Attr.name], cfg.indexes[j].type, cfg.indexes[j].params))
          /\ j <= Len(cfg.indexes) /\ Known(cfg.indexes[j].type)
      BY <2>4 DEF DescribeIndex
    <3>2. cfg.indexes[j].type \in {HashMap, Hnsw} /\ cfg.indexes[j].params \in Params
      <4>1. j \in 1..Len(cfg.indexes)
        BY <3>1, <1>2, <1>num
      <4> QED
        BY <3>1, <4>1, <1>2 DEF IdxConfigs, Known
    <3> QED
      BY <3>1, <3>2, <1>1, <2>1, DescriptorAdded DEF Described
  <2> QED
    BY <2>2, <2>3, <2>4 DEF Validate, DescribeUnknown, SkipIndex
<1>6. TypeOK'
  <2>1. pc' \in {"id index", "match", "rejected", "failed", "fault"} /\ j' \in Nat
    BY <1>3, <1>4
  <2>2. TypeOK
    BY DEF SectionsInv
  <2>3. \A d \in DOMAIN descriptors' :
          descriptors'[d].type \in {HashMap, Hnsw} /\ descriptors'[d].size \in Nat
    BY <1>5 DEF Described
  <2> QED
    BY <2>1, <2>2, <2>3, <1>1 DEF TypeOK
<1>7. Len(sections) <= Len(descriptors')
  <2>1. Len(descriptors') \in Nat
    BY <1>5, Counted
  <2>2. Len(<< >>) = 0
    OBVIOUS
  <2>3. Len(sections) = 0
    BY <2>2, <1>1
  <2> QED
    BY <2>1, <2>3
<1>8. IsSeq(attributes') /\ IsSeq(sections') /\ DOMAIN sections' = {}
  <2>1. DOMAIN << >> = {}
    OBVIOUS
  <2> QED
    BY <2>1, <1>1 DEF SectionsInv
<1>9. cfg' \in Configs /\ pc' # "validate" /\ pc' \notin {"index data", "created"} /\ sections' = << >>
  BY <1>1, <1>3 DEF SectionsInv
<1> QED
  BY <1>1, <1>3, <1>4, <1>5, <1>6, <1>7, <1>8, <1>9 DEF SectionsInv

LEMMA ConvertSections ==
  ASSUME SectionsInv, Convert
  PROVE  SectionsInv'
<1>1. /\ sections = << >> /\ UNCHANGED <<cfg, descriptors, sections>>
      /\ pc = "match" /\ pc' \in {"failed", "match", "layout"}
  BY DEF SectionsInv, Convert
<1>2. /\ Len(cfg.attributes) \in Nat /\ i \in 1..Len(cfg.attributes)
      /\ j \in Nat /\ j >= 1
  BY <1>1, Configured DEF SectionsInv, TypeOK
<1>3. /\ i' \in 1..(Len(cfg'.attributes) + 1) /\ j' \in Nat /\ j' >= 1
      /\ pc' = "match" => i' <= Len(cfg'.attributes)
  <2>1. \/ i' = i /\ j' = j /\ pc' = "failed"
        \/ /\ i' = i + 1 /\ j' = 1
           /\ pc' = IF i = Len(cfg.attributes) THEN "layout" ELSE "match"
    BY DEF Convert
  <2> QED
    BY <2>1, <1>1, <1>2
<1>4. /\ IsSeq(attributes') /\ offset' \in Nat
      /\ \A a \in DOMAIN attributes' :
           /\ attributes'[a].type \in {0, 1, 2, StringDesc, HnswNode}
           /\ attributes'[a].size \in {0, 8, 12}
  <2>1. /\ IsSeq(attributes) /\ offset \in Nat
        /\ \A a \in DOMAIN attributes :
             /\ attributes[a].type \in {0, 1, 2, StringDesc, HnswNode}
             /\ attributes[a].size \in {0, 8, 12}
    BY DEF SectionsInv, TypeOK
  <2>2. CASE UNCHANGED <<attributes, offset>>
    BY <2>1, <2>2
  <2>3. CASE ~UNCHANGED <<attributes, offset>>
    <3>1. attributes' = Append(attributes, Converted) /\ offset' = offset + Converted.size
      BY <2>3 DEF Convert
    <3>2. PICK e : e = Converted
      OBVIOUS
    <3>3. e.type \in {0, 1, 2, StringDesc, HnswNode} /\ e.size \in {0, 8, 12}
      BY <3>2 DEF Converted, InternalType, InternalSize
    <3>4. /\ IsSeq(attributes') /\ DOMAIN attributes' = 1..(Len(attributes) + 1)
          /\ \A x \in 1..Len(attributes) : attributes'[x] = attributes[x]
          /\ attributes'[Len(attributes) + 1] = e
          /\ Len(attributes) \in Nat /\ DOMAIN attributes = 1..Len(attributes)
      BY <2>1, <3>1, <3>2, Appended, Counted
    <3>5. \A a \in 1..(Len(attributes) + 1) : a \in 1..Len(attributes) \/ a = Len(attributes) + 1
      BY <3>4
    <3>6. offset' \in Nat
      BY <2>1, <3>1, <3>2, <3>3
    <3> QED
      BY <2>1, <3>3, <3>4, <3>5, <3>6
  <2> QED
    BY <2>2, <2>3
<1>5. \A d \in DOMAIN descriptors : Described(d)'
  BY <1>1 DEF SectionsInv, Described
<1> QED
  BY <1>1, <1>3, <1>4, <1>5 DEF SectionsInv, TypeOK

LEMMA LaterSections ==
  ASSUME SectionsInv, LayOut \/ InitIndex \/ Created
  PROVE  SectionsInv'
<1>1. UNCHANGED <<cfg, i, attributes, descriptors, offset>>
  BY DEF LayOut, InitIndex, Created
<1>2. \A d \in DOMAIN descriptors' : Described(d)'
  BY <1>1 DEF SectionsInv, Described
<1>num. /\ Len(sections) \in Nat /\ DOMAIN sections = 1..Len(sections)
        /\ Len(descriptors) \in Nat /\ DOMAIN descriptors = 1..Len(descriptors)
        /\ j \in Nat /\ j >= 1 /\ Len(sections) <= Len(descriptors)
  <2>1. IsSeq(sections) /\ IsSeq(descriptors)
    BY DEF SectionsInv
  <2>2. j \in Nat /\ j >= 1 /\ Len(sections) <= Len(descriptors)
    BY DEF SectionsInv, TypeOK
  <2> QED
    BY <2>1, <2>2, Counted
<1>3. CASE LayOut
  <2>1. /\ sections = << >> /\ sections' = << >> /\ j' = 1 /\ pc' = "index data"
    BY <1>3 DEF SectionsInv, LayOut
  <2>2. Len(<< >>) = 0 /\ DOMAIN << >> = {}
    OBVIOUS
  <2>3. TypeOK'
    BY <1>1, <2>1 DEF SectionsInv, TypeOK
  <2>4. j' >= 1 /\ Len(sections') + 1 = j' /\ Len(sections') <= Len(descriptors')
    <3>1. Len(sections') = 0 /\ Len(descriptors') = Len(descriptors) /\ j' = 1
      BY <1>1, <2>1, <2>2
    <3> QED
      BY <3>1, <1>num
  <2>5. IsSeq(attributes') /\ IsSeq(descriptors') /\ IsSeq(sections') /\ cfg' \in Configs
    BY <1>1, <2>1 DEF SectionsInv
  <2>6. DOMAIN sections' = {}
    BY <2>1, <2>2
  <2> QED
    BY <1>2, <2>1, <2>3, <2>4, <2>5, <2>6 DEF SectionsInv
<1>4. CASE InitIndex
  <2> DEFINE a == Arrays(descriptors[j].type, descriptors[j].params, cfg.maxRecords)
  <2>1. /\ sections' = Append(sections, a) /\ j' = j + 1
        /\ pc = "index data" /\ pc' = pc /\ j <= Len(descriptors)
    BY <1>4 DEF InitIndex
  <2>2. IsSeq(sections) /\ Len(sections) + 1 = j
    BY <2>1 DEF SectionsInv
  <2>a. PICK b : b = a
    OBVIOUS
  <2>b. sections' = Append(sections, b)
    BY <2>1, <2>a
  <2> HIDE DEF a
  <2>3. /\ IsSeq(sections') /\ DOMAIN sections' = 1..(Len(sections) + 1)
        /\ Len(sections') = Len(sections) + 1
        /\ \A x \in 1..Len(sections) : sections'[x] = sections[x]
        /\ sections'[Len(sections) + 1] = b
    BY <2>b, <2>2, Appended
  <2>4. \A d \in 1..(Len(sections) + 1) : d \in 1..Len(sections) \/ d = Len(sections) + 1
    BY <1>num
  <2>5. \A d \in DOMAIN sections' :
          sections'[d] = Arrays(descriptors[d].type, descriptors[d].params, cfg.maxRecords)
    BY <2>a, <2>2, <2>3, <2>4, <1>num DEF SectionsInv, a
  <2>6. Len(sections') + 1 = j' /\ Len(sections') <= Len(descriptors) /\ j' \in Nat /\ j' >= 1
    <3>1. Len(sections) + 1 <= Len(descriptors)
      BY <2>1, <2>2
    <3>2. Len(sections') = Len(sections) + 1 /\ j' = Len(sections) + 1 + 1
      BY <2>1, <2>2, <2>3
    <3> QED
      BY <3>1, <3>2, <1>num
  <2>7. TypeOK'
    BY <1>1, <2>1, <2>6 DEF SectionsInv, TypeOK
  <2> QED
    BY <1>1, <1>2, <2>1, <2>3, <2>5, <2>6, <2>7 DEF SectionsInv
<1>5. CASE Created
  BY <1>1, <1>2, <1>5 DEF SectionsInv, TypeOK, Created
<1> QED
  BY <1>3, <1>4, <1>5

LEMMA NextSections == SectionsInv /\ [Next]_vars => SectionsInv'
<1> SUFFICES ASSUME SectionsInv, [Next]_vars PROVE SectionsInv'
  OBVIOUS
<1>1. CASE Terminating \/ UNCHANGED vars
  <2>1. UNCHANGED vars
    BY <1>1 DEF Terminating
  <2> QED
    BY <2>1 DEF vars, SectionsInv, TypeOK, Described
<1> QED
  BY <1>1, DescribeSections, ConvertSections, LaterSections DEF Next

LEMMA SectionsFit == SectionsInv => SectionsApart
<1> SUFFICES ASSUME SectionsInv, NEW d \in DOMAIN sections,
                    descriptors[d].type = Hnsw => ~Wraps(descriptors[d].params.dim)
             PROVE  Fits(sections[d], descriptors[d].size)
  BY DEF SectionsInv, SectionsApart, Fits
<1>1. cfg.maxRecords \in Nat /\ cfg.maxRecords <= 2^29
  BY Configured DEF SectionsInv
<1>2. d \in DOMAIN descriptors
  <2>1. /\ Len(sections) \in Nat /\ DOMAIN sections = 1..Len(sections)
        /\ Len(descriptors) \in Nat /\ DOMAIN descriptors = 1..Len(descriptors)
        /\ Len(sections) <= Len(descriptors)
    BY Counted DEF SectionsInv
  <2> QED
    BY <2>1
<1>3. Described(d) /\ sections[d] = Arrays(descriptors[d].type, descriptors[d].params,
                                            cfg.maxRecords)
  BY <1>2 DEF SectionsInv
<1> QED
  BY <1>1, <1>3, IndexArraysFit DEF Described

(* For every number of records up to 2^29 and all parameters of vectors and *)
(* graphs but the seven dimensions whose padding wraps, the arrays of every *)
(* index lie apart, behind its header and inside the file that was sized    *)
(* for it before (mos_idx.c:30-38, mos_idx_hmap.c:139-151,                 *)
(* mos_idx_hnsw.c:309-348).                                                *)
THEOREM SectionsLieApart == Spec => []SectionsApart
BY InitSections, NextSections, SectionsFit, PTL DEF Spec
-----------------------------------------------------------------------------
(* The loops over attributes and index configurations have come past a pair. *)
Before(a, x, b, y) == a < b \/ (a = b /\ x < y)
Seen(a, x) ==
  a \in DOMAIN cfg.attributes /\ x \in DOMAIN cfg.indexes /\ Before(a, x, i, j)
Asked(a, x) == cfg.attributes[a].indexed /\ Matches(cfg.attributes[a], cfg.indexes[x])

MadeFor(d, a, x) ==
  /\ Seen(a, x) /\ Asked(a, x)
  /\ descriptors[d].name = Cut[cfg.attributes[a].name]
  /\ descriptors[d].type = cfg.indexes[x].type
  /\ descriptors[d].params = cfg.indexes[x].params

OnePerPair ==
  /\ Len(descriptors) >= 1
  /\ \A d \in 2..Len(descriptors) :
       \E a \in DOMAIN cfg.attributes, x \in DOMAIN cfg.indexes : MadeFor(d, a, x)
  /\ \A d, e \in 2..Len(descriptors) : descriptors[d].name = descriptors[e].name => d = e
  /\ \A a \in DOMAIN cfg.attributes, x \in DOMAIN cfg.indexes :
       Seen(a, x) /\ Asked(a, x) =>
         \E d \in 2..Len(descriptors) : descriptors[d].name = Cut[cfg.attributes[a].name]

(* What UsableWhenNamesApart needs: behind the descriptor of the ids there   *)
(* is one, with a name of its own, for every pair of an indexed attribute   *)
(* and a configuration the loops have come past.  The pairs left then have  *)
(* a place left in the array.                                              *)
NamesInv ==
  /\ SectionsInv
  /\ i = Len(attributes) + 1
  /\ \A a \in DOMAIN attributes : /\ attributes[a].name = Cut[cfg.attributes[a].name]
                                  /\ attributes[a].indexed = cfg.attributes[a].indexed
  /\ pc \in {"layout", "index data", "created"} => i = Len(cfg.attributes) + 1
  /\ pc \in {"id index", "match", "layout", "index data", "created"} => Valid(cfg)
  /\ pc = "match" => j <= Len(cfg.indexes) + 1
  /\ pc \in {"validate", "id index"} => i = 1 /\ j = 1
  /\ NamesApart /\ TypesKnown => pc \notin {"failed", "fault"}
  /\ NamesApart /\ pc \in {"match", "layout", "index data", "created"} => OnePerPair

(* A pair of names that match is a pair of equal names, and no descriptor   *)
(* has what is left of that name yet.                                      *)
LEMMA NewName ==
  ASSUME NamesInv, NamesApart, pc = "match", Attr.indexed, j <= Len(cfg.indexes),
         Matches(Attr, cfg.indexes[j])
  PROVE  /\ i \in DOMAIN cfg.attributes /\ j \in DOMAIN cfg.indexes
         /\ Attr.name = cfg.indexes[j].name /\ Asked(i, j)
         /\ \A d \in 2..Len(descriptors) : descriptors[d].name # Cut[Attr.name]
<1>1. i \in DOMAIN cfg.attributes /\ j \in DOMAIN cfg.indexes
  <2>1. /\ i \in 1..(Len(cfg.attributes) + 1) /\ i <= Len(cfg.attributes)
        /\ j \in Nat /\ j >= 1
    BY DEF NamesInv, SectionsInv, TypeOK
  <2>2. /\ Len(cfg.attributes) \in Nat /\ Len(cfg.indexes) \in Nat
        /\ DOMAIN cfg.attributes = 1..Len(cfg.attributes)
        /\ DOMAIN cfg.indexes = 1..Len(cfg.indexes)
    BY Configured DEF NamesInv, SectionsInv
  <2> QED
    BY <2>1, <2>2
<1>2. Attr.name = cfg.indexes[j].name
  BY <1>1 DEF NamesApart, Attr
<1>3. ASSUME NEW d \in 2..Len(descriptors), descriptors[d].name = Cut[Attr.name]
      PROVE  FALSE
  <2>1. PICK a \in DOMAIN cfg.attributes, x \in DOMAIN cfg.indexes : MadeFor(d, a, x)
    BY DEF NamesInv, OnePerPair
  <2>2. cfg.attributes[a].name = cfg.indexes[x].name
    BY <2>1 DEF MadeFor, Asked, NamesApart
  <2>3. a = i
    BY <1>1, <1>3, <2>1 DEF MadeFor, Attr, NamesApart
  <2>5. x = j
    BY <1>1, <1>2, <2>2, <2>3 DEF Attr, NamesApart
  <2>4. i \in Int /\ j \in Int
    BY DEF NamesInv, SectionsInv, TypeOK
  <2> QED
    BY <2>1, <2>3, <2>4, <2>5 DEF MadeFor, Seen, Before
<1>4. Asked(i, j)
  BY DEF Asked, Attr
<1> QED
  BY <1>1, <1>2, <1>3, <1>4

LEMMA SizeOfInterval ==
  ASSUME NEW n \in Int, 1 <= n
  PROVE  /\ IsFiniteSet(1..n) /\ Cardinality(1..n) = n
         /\ IsFiniteSet(2..(n + 1)) /\ Cardinality(2..(n + 1)) = n
<1>1. IsFiniteSet(1..n) /\ Cardinality(1..n) = IF 1 > n THEN 0 ELSE n - 1 + 1
  BY FS_Interval
<1>2. n + 1 \in Int
  OBVIOUS
<1>3. /\ IsFiniteSet(2..(n + 1))
      /\ Cardinality(2..(n + 1)) = IF 2 > n + 1 THEN 0 ELSE (n + 1) - 2 + 1
  BY <1>2, FS_Interval
<1> QED
  BY <1>1, <1>3

(* So the array of descriptors is not full then: each was made for an index *)
(* configuration of its own, and one of these is still to come.            *)
LEMMA PlaceLeft ==
  ASSUME NamesInv, NamesApart, pc = "match", Attr.indexed, j <= Len(cfg.indexes),
         Matches(Attr, cfg.indexes[j])
  PROVE  Len(descriptors) # Len(cfg.indexes) + 1
<1> SUFFICES ASSUME Len(descriptors) = Len(cfg.indexes) + 1
             PROVE  FALSE
  OBVIOUS
<1>1. PICK n \in Nat : n = Len(cfg.indexes) /\ DOMAIN cfg.indexes = 1..n
  BY Configured DEF NamesInv, SectionsInv
<1>2. PICK k \in 1..n : k = j
  BY <1>1, NewName
<1> DEFINE S == 2..(n + 1)
           T == (1..n) \ {k}
           Made(d, x) == \E a \in DOMAIN cfg.attributes : MadeFor(d, a, x)
           Of(d) == CHOOSE x \in 1..n : Made(d, x)
           f == [d \in S |-> Of(d)]
<1>3. \A d \in S : Of(d) \in T /\ Made(d, Of(d))
  <2> SUFFICES ASSUME NEW d \in S
               PROVE  Of(d) \in T /\ Made(d, Of(d))
    OBVIOUS
  <2>1. d \in 2..Len(descriptors)
    BY <1>1
  <2>2. PICK a \in DOMAIN cfg.attributes, x \in DOMAIN cfg.indexes : MadeFor(d, a, x)
    BY <2>1 DEF NamesInv, OnePerPair
  <2>3. x \in 1..n /\ Made(d, x)
    BY <1>1, <2>2
  <2> HIDE DEF Made
  <2>4. Of(d) \in 1..n /\ Made(d, Of(d))
    BY <2>3
  <2>5. ~Made(d, k)
    <3> SUFFICES ASSUME NEW c \in DOMAIN cfg.attributes, MadeFor(d, c, k)
                 PROVE  FALSE
      BY DEF Made
    <3>1. cfg.attributes[c].name = cfg.indexes[k].name /\ Attr.name = cfg.indexes[k].name
      BY <1>1, <1>2, NewName DEF MadeFor, Asked, NamesApart
    <3>2. descriptors[d].name = Cut[Attr.name]
      BY <3>1 DEF MadeFor
    <3> QED
      BY <2>1, <3>2, NewName
  <2> QED
    BY <2>4, <2>5
<1>num. 1 \in Int /\ 2 \in Int /\ n \in Int /\ n + 1 \in Int /\ 1 <= n
  BY <1>2
<1>4. Cardinality(S) = n /\ Cardinality(T) = n - 1 /\ IsFiniteSet(S) /\ IsFiniteSet(T)
  <2>1. IsFiniteSet(1..n) /\ Cardinality(1..n) = n
    BY <1>num, SizeOfInterval
  <2>2. IsFiniteSet(T) /\ Cardinality(T) = n - 1
    BY <2>1, FS_RemoveElement
  <2>3. IsFiniteSet(S) /\ Cardinality(S) = n
    BY <1>num, SizeOfInterval
  <2> QED
    BY <2>2, <2>3
<1>5. f \in [S -> T]
  BY <1>3
<1>6. PICK d \in S, e \in S : d # e /\ f[d] = f[e]
  <2>1. Cardinality(T) < Cardinality(S)
    BY <1>4
  <2> HIDE DEF S, T, f
  <2> QED
    BY <1>4, <1>5, <2>1, FS_PigeonHole
<1>7. descriptors[d].name = descriptors[e].name
  <2>1. f[d] = Of(d) /\ f[e] = Of(e)
    OBVIOUS
  <2>2. Of(d) = Of(e)
    BY <1>6, <2>1
  <2>3. Of(d) \in 1..n /\ Made(d, Of(d)) /\ Made(e, Of(d))
    <3> HIDE DEF Of, Made
    <3> QED
      BY <1>3, <2>2
  <2>4. PICK x \in 1..n : Made(d, x) /\ Made(e, x)
    <3> HIDE DEF Of, Made
    <3> QED
      BY <2>3
  <2>5. PICK a \in DOMAIN cfg.attributes, b \in DOMAIN cfg.attributes :
          MadeFor(d, a, x) /\ MadeFor(e, b, x)
    BY <2>4
  <2>6. cfg.attributes[a].name = cfg.attributes[b].name
    BY <1>1, <2>5 DEF MadeFor, Asked, NamesApart
  <2> HIDE DEF Of, Made, f, S, T
  <2> QED
    BY <2>5, <2>6 DEF MadeFor
<1>8. d \in 2..Len(descriptors) /\ e \in 2..Len(descriptors)
  BY <1>1
<1> QED
  BY <1>6, <1>7, <1>8 DEF NamesInv, OnePerPair

LEMMA InitNames == Init => NamesInv
<1> SUFFICES ASSUME Init PROVE NamesInv
  OBVIOUS
<1>1. attributes = << >> /\ pc = "validate" /\ i = 1 /\ j = 1
  BY DEF Init
<1>2. Len(<< >>) = 0 /\ DOMAIN << >> = {}
  OBVIOUS
<1> QED
  BY <1>1, <1>2, InitSections DEF NamesInv

LEMMA Places ==
  ASSUME NamesInv
  PROVE  /\ Len(cfg.attributes) \in Nat /\ DOMAIN cfg.attributes = 1..Len(cfg.attributes)
         /\ Len(cfg.indexes) \in Nat /\ DOMAIN cfg.indexes = 1..Len(cfg.indexes)
         /\ Len(descriptors) \in Nat /\ Len(attributes) \in Nat
         /\ DOMAIN attributes = 1..Len(attributes)
         /\ i \in Nat /\ i >= 1 /\ j \in Nat /\ j >= 1
         /\ pc \in {"id index", "match"} => i <= Len(cfg.attributes)
<1>1. cfg \in Configs /\ IsSeq(descriptors) /\ IsSeq(attributes)
  BY DEF NamesInv, SectionsInv
<1>2. i \in 1..(Len(cfg.attributes) + 1) /\ j \in Nat /\ j >= 1
  BY DEF NamesInv, SectionsInv, TypeOK
<1>3. pc \in {"id index", "match"} => i <= Len(cfg.attributes)
  BY DEF NamesInv, SectionsInv
<1>4. /\ Len(cfg.attributes) \in Nat /\ DOMAIN cfg.attributes = 1..Len(cfg.attributes)
      /\ Len(cfg.indexes) \in Nat /\ DOMAIN cfg.indexes = 1..Len(cfg.indexes)
  BY <1>1, Configured
<1>5. /\ Len(descriptors) \in Nat /\ Len(attributes) \in Nat
      /\ DOMAIN attributes = 1..Len(attributes)
  BY <1>1, Counted
<1>6. i \in Nat /\ i >= 1
  BY <1>2, <1>4
<1> QED
  BY <1>2, <1>3, <1>4, <1>5, <1>6

(* A step that leaves the descriptors alone and comes past pairs that ask   *)
(* for no index only.                                                      *)
LEMMA PairsKept ==
  ASSUME OnePerPair, UNCHANGED <<cfg, descriptors>>,
         \A a \in DOMAIN cfg.attributes, x \in DOMAIN cfg.indexes :
           /\ Before(a, x, i, j) => Before(a, x, i', j')
           /\ Before(a, x, i', j') /\ Asked(a, x) => Before(a, x, i, j)
  PROVE  OnePerPair'
<1>1. ASSUME NEW d \in 2..Len(descriptors)
      PROVE  \E a \in DOMAIN cfg'.attributes, x \in DOMAIN cfg'.indexes : MadeFor(d, a, x)'
  <2>1. PICK a \in DOMAIN cfg.attributes, x \in DOMAIN cfg.indexes : MadeFor(d, a, x)
    BY DEF OnePerPair
  <2> QED
    BY <2>1 DEF MadeFor, Seen, Asked, Matches
<1>2. ASSUME NEW a \in DOMAIN cfg.attributes, NEW x \in DOMAIN cfg.indexes,
             Seen(a, x)', Asked(a, x)'
      PROVE  \E d \in 2..Len(descriptors) : descriptors[d].name = Cut[cfg.attributes[a].name]
  <2>1. Seen(a, x) /\ Asked(a, x)
    BY <1>2 DEF Seen, Asked, Matches
  <2> QED
    BY <2>1 DEF OnePerPair
<1> QED
  BY <1>1, <1>2 DEF OnePerPair

LEMMA PairAdded ==
  ASSUME NamesInv, NamesApart, DescribeIndex
  PROVE  OnePerPair' /\ pc' = "match"
<1> DEFINE e == Descriptor(Cut[Attr.name], cfg.indexes[j].type, cfg.indexes[j].params)
<1>n. PICK n : n = Len(descriptors)
  OBVIOUS
<1>1. /\ pc = "match" /\ Attr.indexed /\ j <= Len(cfg.indexes) /\ Matches(Attr, cfg.indexes[j])
      /\ UNCHANGED <<cfg, i>>
  BY DEF DescribeIndex
<1>2. descriptors' = Append(descriptors, e) /\ j' = j + 1 /\ pc' = "match"
  BY <1>1, PlaceLeft DEF DescribeIndex
<1>3. /\ i \in DOMAIN cfg.attributes /\ j \in DOMAIN cfg.indexes /\ Asked(i, j)
      /\ \A d \in 2..n : descriptors[d].name # Cut[Attr.name]
  BY <1>n, <1>1, NewName
<1>4. PICK f : f = e
  OBVIOUS
<1>5. /\ f.name = Cut[Attr.name] /\ f.type = cfg.indexes[j].type /\ f.params = cfg.indexes[j].params
  BY <1>4 DEF Descriptor
<1>6. IsSeq(descriptors)
  BY DEF NamesInv, SectionsInv
<1>7. /\ n \in Nat /\ Len(descriptors') = n + 1
      /\ \A d \in 1..n : descriptors'[d] = descriptors[d]
      /\ descriptors'[n + 1] = f
  <2>1. descriptors' = Append(descriptors, f)
    BY <1>2, <1>4
  <2> QED
    BY <1>n, <1>6, <2>1, Appended, Counted
<1>8. OnePerPair /\ n >= 1
  BY <1>n, <1>1 DEF NamesInv, OnePerPair
<1>9. \A a \in DOMAIN cfg.attributes, x \in DOMAIN cfg.indexes :
        Before(a, x, i', j') <=> Before(a, x, i, j) \/ (a = i /\ x = j)
  <2>1. /\ DOMAIN cfg.attributes = 1..Len(cfg.attributes) /\ Len(cfg.attributes) \in Nat
        /\ DOMAIN cfg.indexes = 1..Len(cfg.indexes) /\ Len(cfg.indexes) \in Nat
        /\ i \in Nat /\ j \in Nat
    BY Places
  <2> QED
    BY <1>1, <1>2, <2>1 DEF Before
<1>num. n \in Nat /\ n >= 1
  BY <1>7, <1>8
<1> HIDE DEF e
<1>10. \A d \in 2..(n + 1) : d \in 2..n \/ d = n + 1
  BY <1>num
<1>11. n + 1 \in 2..(n + 1) /\ 2..n \subseteq 1..n /\ 2..n \subseteq 2..(n + 1)
  BY <1>num
<1>12. \A d \in 2..n : descriptors'[d] = descriptors[d]
  BY <1>7, <1>11
<1>13. 2..Len(descriptors') = 2..(n + 1) /\ Len(descriptors') >= 1
  BY <1>7, <1>num
<1>14. \A d \in 2..n :
         \E a \in DOMAIN cfg.attributes, x \in DOMAIN cfg.indexes : MadeFor(d, a, x)'
  <2> SUFFICES ASSUME NEW d \in 2..n
               PROVE  \E a \in DOMAIN cfg.attributes, x \in DOMAIN cfg.indexes : MadeFor(d, a, x)'
    OBVIOUS
  <2>1. PICK a \in DOMAIN cfg.attributes, x \in DOMAIN cfg.indexes : MadeFor(d, a, x)
    BY <1>n, <1>8 DEF OnePerPair
  <2> QED
    BY <2>1, <1>1, <1>9, <1>12 DEF MadeFor, Seen, Asked, Matches
<1>16. \A d \in 2..Len(descriptors') :
         \E a \in DOMAIN cfg'.attributes, x \in DOMAIN cfg'.indexes : MadeFor(d, a, x)'
  <2>2. \E a \in DOMAIN cfg.attributes, x \in DOMAIN cfg.indexes : MadeFor(n + 1, a, x)'
    BY <1>1, <1>3, <1>5, <1>7, <1>9 DEF MadeFor, Seen, Asked, Matches, Attr
  <2> QED
    BY <1>1, <1>10, <1>13, <1>14, <2>2
<1>17. \A d, c \in 2..Len(descriptors') :
         descriptors'[d].name = descriptors'[c].name => d = c
  BY <1>n, <1>3, <1>5, <1>7, <1>8, <1>10, <1>12, <1>13 DEF OnePerPair
<1>18. \A a \in DOMAIN cfg'.attributes, x \in DOMAIN cfg'.indexes :
         Seen(a, x)' /\ Asked(a, x)' =>
           \E d \in 2..Len(descriptors') : descriptors'[d].name = Cut[cfg'.attributes[a].name]
  <2> SUFFICES ASSUME NEW a \in DOMAIN cfg.attributes, NEW x \in DOMAIN cfg.indexes,
                      Seen(a, x)', Asked(a, x)
               PROVE  \E d \in 2..(n + 1) : descriptors'[d].name = Cut[cfg.attributes[a].name]
    BY <1>1, <1>13 DEF Asked, Matches
  <2>1. CASE Seen(a, x)
    BY <1>n, <1>8, <1>11, <1>12, <2>1 DEF OnePerPair
  <2>2. CASE a = i /\ x = j
    BY <1>5, <1>7, <1>11, <2>2 DEF Attr
  <2> QED
    BY <1>1, <1>9, <2>1, <2>2 DEF Seen
<1> QED
  BY <1>2, <1>13, <1>16, <1>17, <1>18 DEF OnePerPair

LEMMA SameNames ==
  ASSUME UNCHANGED cfg
  PROVE  (NamesApart' <=> NamesApart) /\ (TypesKnown' <=> TypesKnown)
BY DEF NamesApart, TypesKnown, Matches

LEMMA ValidateNames ==
  ASSUME NamesInv, Validate
  PROVE  NamesInv'
<1>1. /\ UNCHANGED <<cfg, i, j, attributes, descriptors>> /\ i = 1 /\ j = 1
      /\ \/ pc' = "rejected" \/ (pc' = "id index" /\ Valid(cfg))
         \/ pc' = "fault" /\ Unnamed(cfg)
  BY DEF NamesInv, Validate
<1>2. SectionsInv'
  BY DescribeSections DEF NamesInv
<1>3. TypesKnown => pc' # "fault"
  <2> SUFFICES ASSUME TypesKnown, Unnamed(cfg)
               PROVE  FALSE
    BY <1>1
  <2>1. PICK x \in DOMAIN cfg.indexes : cfg.indexes[x].type > Hnsw
    BY DEF Unnamed, Matching
  <2> QED
    BY <2>1 DEF TypesKnown, Known, HashMap, Hnsw
<1> QED
  BY <1>1, <1>2, <1>3, SameNames DEF NamesInv

LEMMA IdIndexNames ==
  ASSUME NamesInv, DescribeIdIndex
  PROVE  NamesInv'
<1>1. UNCHANGED <<cfg, i, j, attributes>> /\ pc = "id index" /\ pc' = "match"
  BY DEF DescribeIdIndex
<1>2. SectionsInv'
  BY DescribeSections DEF NamesInv
<1>3. i = 1 /\ j = 1 /\ Valid(cfg)
  BY <1>1 DEF NamesInv
<1>4. Len(cfg.indexes) \in Nat /\ DOMAIN cfg.indexes = 1..Len(cfg.indexes)
      /\ Len(cfg.attributes) \in Nat /\ DOMAIN cfg.attributes = 1..Len(cfg.attributes)
  BY Places
<1>5. OnePerPair'
  <2>1. Len(descriptors') = 1
    BY DEF DescribeIdIndex
  <2>2. \A d \in 2..Len(descriptors') : FALSE
    BY <2>1
  <2>3. \A a \in DOMAIN cfg.attributes, x \in DOMAIN cfg.indexes : ~Before(a, x, 1, 1)
    BY <1>4 DEF Before
  <2>4. Len(descriptors') >= 1
    BY <2>1
  <2>5. \A a \in DOMAIN cfg.attributes, x \in DOMAIN cfg.indexes : ~Seen(a, x)'
    BY <1>1, <1>3, <2>3 DEF Seen
  <2> QED
    BY <1>1, <2>2, <2>4, <2>5 DEF OnePerPair
<1>6. j' <= Len(cfg'.indexes) + 1
  <2>1. Len(cfg'.indexes) = Len(cfg.indexes) /\ j' = 1
    BY <1>1, <1>3
  <2> QED
    BY <2>1, <1>4
<1> QED
  BY <1>1, <1>2, <1>3, <1>5, <1>6 DEF NamesInv

LEMMA DescribeNames ==
  ASSUME NamesInv, DescribeIndex
  PROVE  NamesInv'
<1>1. /\ UNCHANGED <<cfg, i, attributes>> /\ pc = "match" /\ j <= Len(cfg.indexes)
      /\ pc' \in {"match", "failed"}
      /\ pc' = "match" => j' = j + 1
  BY DEF DescribeIndex
<1>2. SectionsInv'
  BY DescribeSections DEF NamesInv
<1>3. NamesApart => OnePerPair' /\ pc' = "match"
  BY PairAdded
<1>4. pc' = "match" => j' <= Len(cfg'.indexes) + 1
  <2>1. j \in Nat /\ Len(cfg.indexes) \in Nat
    BY Places
  <2> QED
    BY <1>1, <2>1
<1>5. /\ i' = Len(attributes') + 1 /\ pc' \notin {"layout", "index data", "created"}
      /\ pc' \notin {"validate", "id index"} /\ Valid(cfg')
      /\ \A a \in DOMAIN attributes' : /\ attributes'[a].name = Cut[cfg'.attributes[a].name]
                                      /\ attributes'[a].indexed = cfg'.attributes[a].indexed
  <2>1. pc' \notin {"layout", "index data", "created"} /\ pc' \notin {"validate", "id index"}
    BY <1>1
  <2>2. /\ i = Len(attributes) + 1 /\ Valid(cfg)
        /\ \A a \in DOMAIN attributes : /\ attributes[a].name = Cut[cfg.attributes[a].name]
                                       /\ attributes[a].indexed = cfg.attributes[a].indexed
    BY <1>1 DEF NamesInv
  <2> QED
    BY <1>1, <2>1, <2>2
<1>6. (NamesApart => pc' \notin {"failed", "fault"}) /\ (NamesApart => OnePerPair')
  BY <1>3
<1> QED
  BY <1>2, <1>4, <1>5, <1>6, <1>1, SameNames DEF NamesInv

(* Without an index of a type there is none of.                            *)
LEMMA UnknownNames ==
  ASSUME NamesInv, DescribeUnknown
  PROVE  NamesInv'
<1>1. /\ UNCHANGED <<cfg, i, j, attributes, descriptors>> /\ pc = "match" /\ pc' = "fault"
      /\ j <= Len(cfg.indexes) /\ ~Known(cfg.indexes[j].type)
  BY DEF DescribeUnknown
<1>2. SectionsInv'
  BY DescribeSections DEF NamesInv
<1>3. ~TypesKnown
  <2>1. j \in DOMAIN cfg.indexes
    BY <1>1, Places
  <2> QED
    BY <1>1, <2>1 DEF TypesKnown
<1> QED
  BY <1>1, <1>2, <1>3, SameNames DEF NamesInv

LEMMA SkipNames ==
  ASSUME NamesInv, SkipIndex
  PROVE  NamesInv'
<1>1. /\ UNCHANGED <<cfg, pc, i, attributes, descriptors>> /\ pc = "match"
      /\ j <= Len(cfg.indexes) /\ j' = j + 1 /\ ~Asked(i, j)
  BY DEF SkipIndex, Asked, Attr
<1>2. SectionsInv'
  BY DescribeSections DEF NamesInv
<1>num. /\ i \in Nat /\ j \in Nat
        /\ Len(cfg.indexes) \in Nat /\ DOMAIN cfg.indexes = 1..Len(cfg.indexes)
        /\ Len(cfg.attributes) \in Nat /\ DOMAIN cfg.attributes = 1..Len(cfg.attributes)
  BY Places
<1>3. \A a \in DOMAIN cfg.attributes, x \in DOMAIN cfg.indexes :
        /\ Before(a, x, i, j) => Before(a, x, i', j')
        /\ Before(a, x, i', j') /\ Asked(a, x) => Before(a, x, i, j)
  <2>1. \A a \in DOMAIN cfg.attributes, x \in DOMAIN cfg.indexes :
          Before(a, x, i', j') <=> Before(a, x, i, j) \/ (a = i /\ x = j)
    BY <1>1, <1>num DEF Before
  <2> QED
    BY <1>1, <2>1
<1>4. NamesApart => OnePerPair'
  <2>1. NamesApart => OnePerPair
    BY <1>1 DEF NamesInv
  <2> QED
    BY <1>1, <1>3, <2>1, PairsKept
<1>5. j' <= Len(cfg'.indexes) + 1
  BY <1>1, <1>num
<1> QED
  BY <1>1, <1>2, <1>4, <1>5, SameNames DEF NamesInv

LEMMA ConvertNames ==
  ASSUME NamesInv, Convert
  PROVE  NamesInv'
<1>1. /\ UNCHANGED <<cfg, descriptors>> /\ pc = "match"
      /\ Attr.indexed => j > Len(cfg.indexes)
  BY DEF Convert
<1>2. SectionsInv'
  BY ConvertSections DEF NamesInv
<1>num. /\ i \in Nat /\ i >= 1 /\ j \in Nat /\ i <= Len(cfg.attributes)
        /\ Len(cfg.indexes) \in Nat /\ DOMAIN cfg.indexes = 1..Len(cfg.indexes)
        /\ Len(cfg.attributes) \in Nat /\ DOMAIN cfg.attributes = 1..Len(cfg.attributes)
        /\ Len(attributes) \in Nat /\ DOMAIN attributes = 1..Len(attributes)
        /\ i = Len(attributes) + 1
  BY <1>1, Places DEF NamesInv
<1>3. Attr.indexed => Found
  <2>1. Valid(cfg) /\ i \in DOMAIN cfg.attributes
    BY <1>1, <1>num DEF NamesInv
  <2> QED
    BY <2>1 DEF Valid, AttrValid, IndexSound, FirstMatch, Matching, Found, Attr
<1>4. /\ attributes' = Append(attributes, Converted) /\ i' = i + 1 /\ j' = 1
      /\ pc' = IF i = Len(cfg.attributes) THEN "layout" ELSE "match"
  BY <1>3 DEF Convert
<1>5. \A a \in DOMAIN cfg.attributes, x \in DOMAIN cfg.indexes :
        /\ Before(a, x, i, j) => Before(a, x, i', j')
        /\ Before(a, x, i', j') /\ Asked(a, x) => Before(a, x, i, j)
  <2> SUFFICES ASSUME NEW a \in DOMAIN cfg.attributes, NEW x \in DOMAIN cfg.indexes
               PROVE  /\ Before(a, x, i, j) => Before(a, x, i', j')
                      /\ Before(a, x, i', j') /\ Asked(a, x) => Before(a, x, i, j)
    OBVIOUS
  <2>1. Before(a, x, i, j) => Before(a, x, i + 1, 1)
    BY <1>num DEF Before
  <2>2. Before(a, x, i + 1, 1) => Before(a, x, i, j) \/ a = i
    BY <1>num DEF Before
  <2>3. a = i /\ Asked(a, x) => Before(a, x, i, j)
    BY <1>1, <1>num DEF Before, Asked, Attr
  <2> QED
    BY <1>4, <2>1, <2>2, <2>3
<1>6. NamesApart => OnePerPair'
  <2>1. NamesApart => OnePerPair
    BY <1>1 DEF NamesInv
  <2> QED
    BY <1>1, <1>5, <2>1, PairsKept
<1>7. /\ Len(attributes') = i
      /\ \A a \in DOMAIN attributes' : /\ attributes'[a].name = Cut[cfg'.attributes[a].name]
                                      /\ attributes'[a].indexed = cfg'.attributes[a].indexed
  <2>1. PICK c : c = Converted
    OBVIOUS
  <2>2. c.name = Cut[cfg.attributes[i].name] /\ c.indexed = cfg.attributes[i].indexed
    BY <2>1 DEF Converted, Attr
  <2>3. IsSeq(attributes)
    BY DEF NamesInv, SectionsInv
  <2>4. /\ DOMAIN attributes' = 1..(Len(attributes) + 1)
        /\ Len(attributes') = Len(attributes) + 1
        /\ \A x \in 1..Len(attributes) : attributes'[x] = attributes[x]
        /\ attributes'[Len(attributes) + 1] = c
    BY <1>4, <2>1, <2>3, Appended
  <2>5. \A a \in 1..(Len(attributes) + 1) : a \in 1..Len(attributes) \/ a = Len(attributes) + 1
    BY <1>num
  <2>6. \A a \in 1..Len(attributes) : /\ attributes[a].name = Cut[cfg.attributes[a].name]
                                      /\ attributes[a].indexed = cfg.attributes[a].indexed
    BY <1>num DEF NamesInv
  <2> QED
    BY <1>1, <1>num, <2>2, <2>4, <2>5, <2>6
<1>8. /\ i' = Len(attributes') + 1
      /\ pc' \in {"layout", "match"}
      /\ pc' = "layout" => i' = Len(cfg'.attributes) + 1
      /\ j' <= Len(cfg'.indexes) + 1
  BY <1>1, <1>4, <1>7, <1>num
<1>9. Valid(cfg')
  BY <1>1 DEF NamesInv
<1> QED
  BY <1>1, <1>2, <1>6, <1>7, <1>8, <1>9, SameNames DEF NamesInv

(* Behind the loops all pairs have been come past, whatever j counts now.   *)
LEMMA LaterNames ==
  ASSUME NamesInv, LayOut \/ InitIndex \/ Created
  PROVE  NamesInv'
<1>1. /\ UNCHANGED <<cfg, i, attributes, descriptors>>
      /\ pc \in {"layout", "index data"} /\ pc' \in {"index data", "created"}
  BY DEF LayOut, InitIndex, Created
<1>2. SectionsInv'
  BY LaterSections DEF NamesInv
<1>3. i = Len(cfg.attributes) + 1 /\ Valid(cfg)
  BY <1>1 DEF NamesInv
<1>num. /\ Len(cfg.attributes) \in Nat /\ DOMAIN cfg.attributes = 1..Len(cfg.attributes)
  BY Places
<1>4. \A a \in DOMAIN cfg.attributes, x \in DOMAIN cfg.indexes :
        Before(a, x, i, j) /\ Before(a, x, i', j')
  <2>1. \A a \in DOMAIN cfg.attributes : a < i
    BY <1>3, <1>num
  <2> QED
    BY <1>1, <2>1 DEF Before
<1>5. NamesApart => OnePerPair'
  <2>1. NamesApart => OnePerPair
    BY <1>1 DEF NamesInv
  <2> QED
    BY <1>1, <1>4, <2>1, PairsKept
<1> QED
  BY <1>1, <1>2, <1>3, <1>5, SameNames DEF NamesInv

LEMMA NextNames == NamesInv /\ [Next]_vars => NamesInv'
<1> SUFFICES ASSUME NamesInv, [Next]_vars PROVE NamesInv'
  OBVIOUS
<1>1. CASE Terminating \/ UNCHANGED vars
  <2>1. UNCHANGED vars
    BY <1>1 DEF Terminating
  <2>2. UNCHANGED <<cfg, pc, i, j, attributes, descriptors>>
    BY <2>1 DEF vars
  <2>3. SectionsInv'
    BY <2>1, NextSections DEF NamesInv
  <2>4. OnePerPair => OnePerPair'
    BY <2>2, PairsKept
  <2> QED
    BY <2>2, <2>3, <2>4, SameNames DEF NamesInv
<1> QED
  BY <1>1, ValidateNames, IdIndexNames, DescribeNames, UnknownNames, SkipNames,
     ConvertNames, LaterNames DEF Next

LEMMA NamesMakeUsable == NamesInv => UsableWhenNamesApart
<1> SUFFICES ASSUME NamesInv, NamesApart, TypesKnown, pc = "created"
             PROVE  /\ \A d \in 2..Len(descriptors) :
                         LET a == AttributeFor(descriptors[d].name)
                         IN /\ attributes[a].indexed
                            /\ Supports(cfg.attributes[a].type, descriptors[d].type)
                            /\ \E x \in DOMAIN cfg.indexes :
                                 /\ cfg.indexes[x].name = cfg.attributes[a].name
                                 /\ cfg.indexes[x].type = descriptors[d].type
                                 /\ cfg.indexes[x].params = descriptors[d].params
                    /\ \A a \in DOMAIN attributes :
                         attributes[a].indexed =>
                           \E d \in 2..Len(descriptors) :
                             /\ AttributeFor(descriptors[d].name) = a
                             /\ \A e \in 2..Len(descriptors) :
                                  descriptors[e].name = descriptors[d].name => e = d
  BY DEF NamesInv, UsableWhenNamesApart
<1>1. /\ DOMAIN attributes = DOMAIN cfg.attributes /\ DOMAIN attributes \subseteq Nat
      /\ DOMAIN attributes \subseteq 1..(i - 1) /\ i \in Nat
  BY Places DEF NamesInv
<1>2. Valid(cfg) /\ OnePerPair
  BY DEF NamesInv
<1>3. \A a \in DOMAIN attributes : /\ attributes[a].name = Cut[cfg.attributes[a].name]
                                  /\ attributes[a].indexed = cfg.attributes[a].indexed
  BY DEF NamesInv
<1>4. \A a \in DOMAIN attributes : AttributeFor(Cut[cfg.attributes[a].name]) = a
  <2> SUFFICES ASSUME NEW a \in DOMAIN attributes
               PROVE  AttributeFor(Cut[cfg.attributes[a].name]) = a
    OBVIOUS
  <2>1. \A b \in DOMAIN attributes :
          attributes[b].name = Cut[cfg.attributes[a].name] => b = a
    BY <1>1, <1>3 DEF NamesApart
  <2>2. a <= a
    BY <1>1
  <2> QED
    BY <1>3, <2>1, <2>2 DEF AttributeFor
<1>5. \A a \in DOMAIN cfg.attributes, x \in DOMAIN cfg.indexes :
        Asked(a, x) => Supports(cfg.attributes[a].type, cfg.indexes[x].type)
  <2> SUFFICES ASSUME NEW a \in DOMAIN cfg.attributes, NEW x \in DOMAIN cfg.indexes,
                      Asked(a, x)
               PROVE  Supports(cfg.attributes[a].type, cfg.indexes[x].type)
    OBVIOUS
  <2>1. PICK y \in DOMAIN cfg.indexes : /\ Matches(cfg.attributes[a], cfg.indexes[y])
                                        /\ Supports(cfg.attributes[a].type, cfg.indexes[y].type)
    BY <1>2 DEF Valid, AttrValid, IndexSound, FirstMatch, Matching, Asked
  <2>2. y = x
    BY <2>1 DEF NamesApart, Asked
  <2> QED
    BY <2>1, <2>2
<1>6. ASSUME NEW d \in 2..Len(descriptors)
      PROVE  LET a == AttributeFor(descriptors[d].name)
             IN /\ attributes[a].indexed
                /\ Supports(cfg.attributes[a].type, descriptors[d].type)
                /\ \E x \in DOMAIN cfg.indexes :
                     /\ cfg.indexes[x].name = cfg.attributes[a].name
                     /\ cfg.indexes[x].type = descriptors[d].type
                     /\ cfg.indexes[x].params = descriptors[d].params
  <2>1. PICK a \in DOMAIN cfg.attributes, x \in DOMAIN cfg.indexes : MadeFor(d, a, x)
    BY <1>2 DEF OnePerPair
  <2>2. AttributeFor(descriptors[d].name) = a
    BY <1>1, <1>4, <2>1 DEF MadeFor
  <2>3. attributes[a].indexed /\ Supports(cfg.attributes[a].type, descriptors[d].type)
    BY <1>1, <1>3, <1>5, <2>1 DEF MadeFor, Asked
  <2>4. /\ cfg.indexes[x].name = cfg.attributes[a].name
        /\ cfg.indexes[x].type = descriptors[d].type
        /\ cfg.indexes[x].params = descriptors[d].params
    BY <2>1 DEF MadeFor, Asked, NamesApart
  <2> QED
    BY <2>2, <2>3, <2>4
<1>7. ASSUME NEW a \in DOMAIN attributes, attributes[a].indexed
      PROVE  \E d \in 2..Len(descriptors) :
               /\ AttributeFor(descriptors[d].name) = a
               /\ \A e \in 2..Len(descriptors) :
                    descriptors[e].name = descriptors[d].name => e = d
  <2>1. PICK x \in DOMAIN cfg.indexes : Asked(a, x)
    BY <1>1, <1>2, <1>3, <1>7 DEF Valid, AttrValid, IndexSound, FirstMatch, Matching, Asked
  <2>2. Seen(a, x)
    BY <1>1 DEF Seen, Before
  <2>3. PICK d \in 2..Len(descriptors) : descriptors[d].name = Cut[cfg.attributes[a].name]
    BY <1>1, <1>2, <2>1, <2>2 DEF OnePerPair
  <2> QED
    BY <1>2, <1>4, <2>3 DEF OnePerPair
<1> QED
  BY <1>6, <1>7

(* Whatever is configured: when no name is a prefix of another or cut to    *)
(* the same 30 bytes and all index types exist, a configuration that was   *)
(* found valid is created, and attributes and indexes find each other, one  *)
(* to one and of types that go together (mos_core.c:181-229, 327-357,      *)
(* 443-460).                                                               *)
THEOREM ValidIsUsable == Spec => []UsableWhenNamesApart
BY InitNames, NextNames, NamesMakeUsable, PTL DEF Spec
=============================================================================
