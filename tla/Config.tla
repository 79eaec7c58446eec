-------------------------------- MODULE Config --------------------------------
(***************************************************************************)
(* From the user's configuration to the files of a new storage: its        *)
(* validation, the conversion to internal attributes and index             *)
(* descriptors, the sizes of all regions (src/mos_core.c) and the sections *)
(* of the index files (src/mos_idx.c, src/mos_idx_hmap.c,                  *)
(* src/mos_idx_hnsw.c).  All sizes and offsets are in bytes.               *)
(*                                                                         *)
(* Attributes are converted one after the other, each after its index      *)
(* configurations; a failure leaves a create without a storage.            *)
(***************************************************************************)
EXTENDS Integers, Sequences, FiniteSets

CONSTANTS
  Names,     \* names of attributes
  IdName,    \* "id", which the index of record ids is named after
  Prefixes,  \* strncmp up to the length of the first name: that is a prefix
  Cut,       \* what is left of a name in the 30 bytes that strncpy copies
  Configs    \* the configurations passed to mos_create_storage

(* MOS_ATTR_TYPE, MOS_ATTR_TYPE_INTERNAL and MOS_IDX_TYPE; the types of     *)
(* attributes and indexes in a configuration are any bytes.                *)
UInt64 == 2
Timestamp == 4
String == 8
Vector == 16
Min == 1
Max == 17
Scalar == {1, 2}
StringDesc == 4
HnswNode == 8
HashMap == 1
Hnsw == 2

AttrConfigs ==
  [name : Names, type : 0..255, byteSize : Nat, at : Nat,
   indexed : BOOLEAN, groupable : BOOLEAN]
(* dim, m and mMax0 of the HNSW parameters; upper is how many chunks of    *)
(* upper layers the formula with exp and round expects the index to need.  *)
Params == [dim : Nat, m : Nat, mMax0 : Nat, upper : Nat]
IdxConfigs == [name : Names, type : 0..255, params : Params]

ASSUME NamesAssumption ==
  /\ Prefixes \subseteq Names \X Names
  /\ \A n \in Names : <<n, n>> \in Prefixes
  /\ Cut \in [Names -> Names]
ASSUME ConfigsAssumption ==     \* 2^29 keeps sizes far below 64 bits
  \A c \in Configs : /\ c.maxRecords \in Nat /\ c.maxRecords <= 2^29
                     /\ c.attributes \in Seq(AttrConfigs)
                     /\ c.indexes \in Seq(IdxConfigs)
                     /\ c.paddedByteSize \in Nat

VARIABLES
  cfg,          \* external_cfg
  pc,           \* the loop or call create has come to
  i, j,         \* its indices
  attributes,   \* internal_attributes
  descriptors,  \* index_descriptors
  offset,       \* attribute_offset
  layout,       \* mos_t_layout
  sections      \* of every index file: where its arrays start, what they take

vars == <<cfg, pc, i, j, attributes, descriptors, offset, layout, sections>>

NoLayout == [recordSize |-> 0]

Init ==
  /\ cfg \in Configs
  /\ pc = "validate" /\ i = 1 /\ j = 1
  /\ attributes = << >> /\ descriptors = << >> /\ offset = 0
  /\ layout = NoLayout /\ sections = << >>
-----------------------------------------------------------------------------
(* Definitions that start with "Wrong" stand before the one they replace.  *)

PageSize == 4096
AlignUp(n, unit) == ((n + unit - 1) \div unit) * unit
Paged(n) == AlignUp(n, PageSize)

(* sizeof of the structs that are stored in the files.                     *)
SizeOfHeader == 160
SizeOfAttr == 72
SizeOfDescriptor == 88
SizeOfIdxHeader == 96
SizeOfHmapHeader == 24
SizeOfValueNode == 56
SizeOfHnswHeader == 120
SizeOfL0Node == 16
SizeOfNeighbor == 16
SizeOfBitmap == 24
RecordData == 24           \* offsetof(mos_t_record, data)
SimdFloats == 8            \* floats in a register, AVX2

NextPowerOf2(n) ==
  CHOOSE p \in {2^k : k \in 0..30} : p >= n /\ \A k \in 0..30 : 2^k >= n => p <= 2^k
TableSize(n) == NextPowerOf2(2 * n)

ChunkSize(p) == p.m * SizeOfNeighbor + 8
UpperSize(p) == 5 * ChunkSize(p) * (p.upper + 3)

(* vector_dim and mos_math_calc_padded_vector_dimension: uint16_t, as the   *)
(* latter's argument and result are.                                       *)
UInt16Values == 65536
VectorDim(dim) == dim % UInt16Values
Padded(dim) == AlignUp(VectorDim(dim), SimdFloats) % UInt16Values

(* mos_idx_hmap_size and mos_idx_hnsw_size.                                *)
DataSize(type, p, n) ==
  IF type = HashMap
  THEN Paged(SizeOfHmapHeader) + Paged((SizeOfValueNode + 8) * TableSize(n))
  ELSE Paged(SizeOfHnswHeader) + Paged(4 * Padded(p.dim) * n)
       + Paged((SizeOfL0Node + SizeOfNeighbor * p.mMax0) * n)
       + Paged(UpperSize(p)) + Paged(8 * n)

(* mos_idx_set_field_index_size                                            *)
IndexSize(type, p, n) == Paged(SizeOfIdxHeader) + DataSize(type, p, n)

(* Wrong: the verifiers start at the first page behind the header.         *)
ArraysOverlapping(type, p, n) ==
  LET payload == Paged(SizeOfIdxHeader)
      values == payload + Paged(SizeOfHmapHeader)
  IN <<[at |-> values, size |-> SizeOfValueNode * TableSize(n)],
       [at |-> values, size |-> 8 * TableSize(n)]>>

(* mos_idx_hmap_init and mos_idx_hnsw_init: the arrays start at the offsets *)
(* stored in the index's header, and the index uses size bytes of them.    *)
Arrays(type, p, n) ==
  LET payload == Paged(SizeOfIdxHeader)
      values == payload + Paged(SizeOfHmapHeader)
      vectors == payload + Paged(SizeOfHnswHeader)
      l0 == vectors + Paged(4 * Padded(p.dim) * n)
      upper == l0 + Paged((SizeOfL0Node + SizeOfNeighbor * p.mMax0) * n)
      ids == upper + Paged(UpperSize(p))
  IN IF type = HashMap
     THEN <<[at |-> values, size |-> SizeOfValueNode * TableSize(n)],
            [at |-> values + SizeOfValueNode * TableSize(n), size |-> 8 * TableSize(n)]>>
     ELSE <<[at |-> vectors, size |-> 4 * VectorDim(p.dim) * n],
            [at |-> l0, size |-> (SizeOfL0Node + SizeOfNeighbor * p.mMax0) * n],
            [at |-> upper, size |-> Paged(UpperSize(p))],
            [at |-> ids, size |-> 8 * n]>>
-----------------------------------------------------------------------------
Matches(attr, idx) == <<attr.name, idx.name>> \in Prefixes

(* mos_attr_supports_index: a bit of attr_index_support.                   *)
Supports(type, idxType) ==
  \/ type \in {String, UInt64} /\ idxType % 2 = 1
  \/ type = Vector /\ (idxType \div Hnsw) % 2 = 1

Overlap(a, b) == a.at < b.at + b.byteSize /\ b.at < a.at + a.byteSize

Matching(c, attr) == {x \in DOMAIN c.indexes : Matches(attr, c.indexes[x])}
FirstMatch(c, attr, x) == x \in Matching(c, attr) /\ \A y \in Matching(c, attr) : x <= y

(* What mos_validate_config asks of an attribute before its index, of the   *)
(* first index configuration with its name, and after that.                *)
AttrSound(attr) ==
  /\ attr.byteSize # 0
  /\ attr.type >= Min /\ attr.type < Max
  /\ attr.groupable => attr.indexed /\ (attr.type \div UInt64) % 2 = 1
IndexSound(c, attr) ==
  attr.indexed => \E x \in Matching(c, attr) :
                    FirstMatch(c, attr, x) /\ Supports(attr.type, c.indexes[x].type)
PlaceSound(c, a) == \A b \in 1..(a - 1) : ~Overlap(c.attributes[a], c.attributes[b])
AttrValid(c, a) ==
  /\ AttrSound(c.attributes[a]) /\ IndexSound(c, c.attributes[a]) /\ PlaceSound(c, a)

(* mos_validate_config                                                     *)
Valid(c) ==
  /\ c.maxRecords # 0 /\ c.attributes # << >>
  /\ \A a \in DOMAIN c.attributes : AttrValid(c, a)

(* The message about an index that does not go with its attribute reads the *)
(* name of a type there is no name for.                                    *)
Unnamed(c) ==
  /\ c.maxRecords # 0
  /\ \E a \in DOMAIN c.attributes :
       LET attr == c.attributes[a]
       IN /\ \A b \in 1..(a - 1) : AttrValid(c, b)
          /\ AttrSound(attr) /\ attr.indexed /\ ~IndexSound(c, attr)
          /\ \E x \in Matching(c, attr) : FirstMatch(c, attr, x) /\ c.indexes[x].type > Hnsw

Validate ==
  /\ pc = "validate"
  /\ \/ Valid(cfg) /\ pc' = "id index"
     \/ ~Valid(cfg) /\ pc' = "rejected"
     \/ Unnamed(cfg) /\ pc' = "fault"
  /\ UNCHANGED <<cfg, i, j, attributes, descriptors, offset, layout, sections>>

NoParams == [dim |-> 0, m |-> 0, mMax0 |-> 0, upper |-> 0]
Descriptor(name, type, params) ==
  [name |-> name, type |-> type, params |-> params,
   size |-> IndexSize(type, params, cfg.maxRecords)]

DescribeIdIndex ==
  /\ pc = "id index" /\ pc' = "match"
  /\ descriptors' = <<Descriptor(IdName, HashMap, NoParams)>>
  /\ UNCHANGED <<cfg, i, j, attributes, offset, layout, sections>>

Attr == cfg.attributes[i]

(* MOS_IDX_OPS_REGISTRY has the operations of two types.                   *)
Known(type) == type \in {HashMap, Hnsw}

(* Wrong: the descriptor has the parameters of the first configuration.    *)
DescribeIndexOfConfig ==
  /\ pc = "match" /\ Attr.indexed /\ j <= Len(cfg.indexes)
  /\ Matches(Attr, cfg.indexes[j])
  /\ IF Len(descriptors) = Len(cfg.indexes) + 1
     THEN pc' = "failed" /\ UNCHANGED <<j, descriptors>>
     ELSE /\ Known(cfg.indexes[j].type)
          /\ descriptors' = Append(descriptors,
               Descriptor(Cut[Attr.name], cfg.indexes[j].type, cfg.indexes[1].params))
          /\ j' = j + 1 /\ UNCHANGED pc
  /\ UNCHANGED <<cfg, i, attributes, offset, layout, sections>>

DescribeIndex ==
  /\ pc = "match" /\ Attr.indexed /\ j <= Len(cfg.indexes)
  /\ Matches(Attr, cfg.indexes[j])
  /\ IF Len(descriptors) = Len(cfg.indexes) + 1
     THEN pc' = "failed" /\ UNCHANGED <<j, descriptors>>
     ELSE /\ Known(cfg.indexes[j].type)
          /\ descriptors' = Append(descriptors,
               Descriptor(Cut[Attr.name], cfg.indexes[j].type, cfg.indexes[j].params))
          /\ j' = j + 1 /\ UNCHANGED pc
  /\ UNCHANGED <<cfg, i, attributes, offset, layout, sections>>

(* The operations of any other type are read outside of the registry, or    *)
(* where it has none, and called.                                          *)
DescribeUnknown ==
  /\ pc = "match" /\ Attr.indexed /\ j <= Len(cfg.indexes)
  /\ Matches(Attr, cfg.indexes[j])
  /\ Len(descriptors) # Len(cfg.indexes) + 1 /\ ~Known(cfg.indexes[j].type)
  /\ pc' = "fault"
  /\ UNCHANGED <<cfg, i, j, attributes, descriptors, offset, layout, sections>>

SkipIndex ==
  /\ pc = "match" /\ Attr.indexed /\ j <= Len(cfg.indexes)
  /\ ~Matches(Attr, cfg.indexes[j])
  /\ j' = j + 1
  /\ UNCHANGED <<cfg, pc, i, attributes, descriptors, offset, layout, sections>>

(* MOS_ATTR_EXTERNAL_INTERNAL_MAPPING and INTERNAL_TYPE_SIZES, zero at the  *)
(* positions no initializer names.                                         *)
InternalType(type) ==
  CASE type = UInt64 -> 1 [] type = Timestamp -> 2
    [] type = String -> StringDesc [] type = Vector -> HnswNode [] OTHER -> 0
InternalSize(type) ==
  CASE type \in Scalar -> 8 [] type = StringDesc -> 12
    [] type = HnswNode -> 8 [] OTHER -> 0

Found == \E x \in DOMAIN cfg.indexes : Matches(Attr, cfg.indexes[x])
Converted ==
  [name |-> Cut[Attr.name], type |-> InternalType(Attr.type),
   at |-> offset, size |-> InternalSize(InternalType(Attr.type)),
   externalAt |-> Attr.at, externalSize |-> Attr.byteSize,
   indexed |-> Attr.indexed, groupable |-> Attr.groupable]

(* Wrong: the next field starts where this one does.                       *)
ConvertInPlace ==
  /\ pc = "match" /\ (Attr.indexed => j > Len(cfg.indexes))
  /\ IF Attr.indexed /\ ~Found
     THEN pc' = "failed" /\ UNCHANGED <<i, j, attributes, offset>>
     ELSE /\ attributes' = Append(attributes, Converted)
          /\ offset' = Converted.size
          /\ i' = i + 1 /\ j' = 1
          /\ pc' = IF i = Len(cfg.attributes) THEN "layout" ELSE "match"
  /\ UNCHANGED <<cfg, descriptors, layout, sections>>

(* The rest of the loop over the attributes.                               *)
Convert ==
  /\ pc = "match" /\ (Attr.indexed => j > Len(cfg.indexes))
  /\ IF Attr.indexed /\ ~Found
     THEN pc' = "failed" /\ UNCHANGED <<i, j, attributes, offset>>
     ELSE /\ attributes' = Append(attributes, Converted)
          /\ offset' = offset + Converted.size
          /\ i' = i + 1 /\ j' = 1
          /\ pc' = IF i = Len(cfg.attributes) THEN "layout" ELSE "match"
  /\ UNCHANGED <<cfg, descriptors, layout, sections>>
-----------------------------------------------------------------------------
(* Wrong: one word is counted for each 64 records, none for what is left.  *)
BitmapSizeRoundedDown(n) ==
  AlignUp(SizeOfBitmap + 64 * (n \div 64), 8) \div 8

(* mos_calc_bitmap_size.  The header is added to a number of bits.         *)
BitmapSize(n) ==
  AlignUp(SizeOfBitmap + (IF n <= 64 THEN 64 ELSE 64 * (n \div 63)), 8) \div 8

(* 100 bytes for every string, and a fifth more.                           *)
SiloSize(n) ==
  LET strings == {a \in DOMAIN attributes : attributes[a].type = StringDesc}
  IN IF strings = {} THEN PageSize ELSE Paged(120 * Cardinality(strings) * n)

AttributesAt == Paged(SizeOfHeader)

(* Wrong: the attributes are assumed to leave room for the descriptors.    *)
HeaderSizeOnePage(n, m) ==
  Paged(SizeOfHeader) + Paged(SizeOfAttr * n + SizeOfDescriptor * m)

HeaderSize(n, m) ==
  Paged(SizeOfHeader) + Paged(SizeOfAttr * n) + Paged(SizeOfDescriptor * m)
DescriptorsAt == Paged(AttributesAt + SizeOfAttr * Len(attributes))

(* mos_init_layout.                                                        *)
LayOut ==
  /\ pc = "layout" /\ pc' = "index data"
  /\ LET n == cfg.maxRecords
         recordSize == AlignUp(RecordData + offset, 8)
     IN layout' =
          [recordSize |-> recordSize, recordsSize |-> Paged(recordSize * n),
           header |-> HeaderSize(Len(attributes), Len(descriptors)),
           bitmap |-> Paged(BitmapSize(n)), silo |-> SiloSize(n),
           external |-> cfg.paddedByteSize]
  /\ j' = 1
  /\ UNCHANGED <<cfg, i, attributes, descriptors, offset, sections>>

(* mos_idx_init of the next index, in its own region of index_size bytes.  *)
InitIndex ==
  /\ pc = "index data" /\ j <= Len(descriptors)
  /\ LET d == descriptors[j]
     IN sections' = Append(sections, Arrays(d.type, d.params, cfg.maxRecords))
  /\ j' = j + 1
  /\ UNCHANGED <<cfg, pc, i, attributes, descriptors, offset, layout>>

Created ==
  /\ pc = "index data" /\ j > Len(descriptors)
  /\ pc' = "created"
  /\ UNCHANGED <<cfg, i, j, attributes, descriptors, offset, layout, sections>>

Returned == pc \in {"rejected", "failed", "fault", "created"}
Terminating == Returned /\ UNCHANGED vars

Next ==
  \/ Validate \/ DescribeIdIndex \/ DescribeIndex \/ DescribeUnknown \/ SkipIndex
  \/ Convert \/ LayOut \/ InitIndex \/ Created \/ Terminating

Spec == Init /\ [][Next]_vars
-----------------------------------------------------------------------------
TypeOK ==
  /\ pc \in {"validate", "id index", "match", "layout", "index data",
             "rejected", "failed", "fault", "created"}
  /\ i \in 1..(Len(cfg.attributes) + 1) /\ j \in Nat
  /\ \A a \in DOMAIN attributes :
       /\ attributes[a].type \in {0, 1, 2, StringDesc, HnswNode}
       /\ attributes[a].size \in {0, 8, 12}
  /\ \A d \in DOMAIN descriptors :
       descriptors[d].type \in {HashMap, Hnsw} /\ descriptors[d].size \in Nat
  /\ offset \in Nat

(* The fields of a record lie one behind the other, inside the record, and  *)
(* the last record inside its region, whatever types were accepted and     *)
(* wherever the user's struct has them (mos_core.c:68-75, 359-382).        *)
FieldsApart ==
  /\ \A a, b \in DOMAIN attributes :
       a < b => attributes[a].at + attributes[a].size <= attributes[b].at
  /\ \A a \in DOMAIN attributes : attributes[a].at + attributes[a].size <= offset
  /\ layout # NoLayout =>
       /\ RecordData + offset <= layout.recordSize
       /\ layout.recordSize % 8 = 0
       /\ layout.recordSize * cfg.maxRecords <= layout.recordsSize

(* No descriptor is written past the index_count + 1 that were allocated,  *)
(* however many configurations an attribute's name matches                 *)
(* (mos_core.c:300, 333-345).                                              *)
DescriptorsFit == Len(descriptors) <= Len(cfg.indexes) + 1

(* What create copies into the header region, attributes and descriptors,  *)
(* lies apart and inside of it: one side rounds each part up, the other    *)
(* their sum (mos_core.c:109-111, 697-699).                                *)
HeaderHolds ==
  layout # NoLayout =>
    /\ AttributesAt + SizeOfAttr * Len(attributes) <= DescriptorsAt
    /\ DescriptorsAt + SizeOfDescriptor * Len(descriptors) <= layout.header

(* The bitmap files have a bit for every row, although the size is counted *)
(* in words of 63 bits to a header in the wrong unit (mos_core.c:95-106).  *)
BitmapHolds ==
  layout # NoLayout =>
    SizeOfBitmap + 8 * ((cfg.maxRecords + 63) \div 64) <= layout.bitmap

(* The padded dimension of these does not fit a uint16_t.                   *)
Wraps(dim) == VectorDim(dim) > UInt16Values - SimdFloats

(* The arrays of an index lie apart, behind its header and inside the file *)
(* that was sized when the descriptor was made (mos_idx.c:30-38,           *)
(* mos_idx_hmap.c:139-151, mos_idx_hnsw.c:309-348), unless its vectors     *)
(* have one of the seven dimensions whose padding wraps around to 0.       *)
(* Its first conjunct is the type invariant.                               *)
SectionsApart ==
  TypeOK /\ \A d \in DOMAIN sections :
    (descriptors[d].type = Hnsw => ~Wraps(descriptors[d].params.dim)) =>
      \A x \in DOMAIN sections[d] :
        LET s == sections[d]
        IN /\ s[x].at >= SizeOfIdxHeader
           /\ s[x].at + s[x].size <= descriptors[d].size
           /\ \A y \in DOMAIN s : x < y => s[x].at + s[x].size <= s[y].at

(* mos_get_attribute_for_attribute_name, as a put uses it for descriptors. *)
AttributeFor(name) ==
  CHOOSE a \in DOMAIN attributes :
    /\ attributes[a].name = name
    /\ \A b \in DOMAIN attributes : attributes[b].name = name => a <= b

(* No name is a prefix of another, none is used twice, also not in what    *)
(* strncpy leaves of it, and every index is of a type there is.            *)
NamesApart ==
  /\ \A a \in DOMAIN cfg.attributes, x \in DOMAIN cfg.indexes :
       Matches(cfg.attributes[a], cfg.indexes[x]) =>
         cfg.attributes[a].name = cfg.indexes[x].name
  /\ \A a, b \in DOMAIN cfg.attributes :
       Cut[cfg.attributes[a].name] = Cut[cfg.attributes[b].name] => a = b
  /\ \A x, y \in DOMAIN cfg.indexes : cfg.indexes[x].name = cfg.indexes[y].name => x = y
TypesKnown == \A x \in DOMAIN cfg.indexes : Known(cfg.indexes[x].type)

(* A configuration with such names and types that was found valid can be    *)
(* created, and a put feeds every index the attribute it was configured    *)
(* for, of a type it supports, and every indexed attribute to one index    *)
(* (mos_core.c:181-229, 327-357, 443-460).  With other names and types     *)
(* validation and conversion disagree.                                     *)
UsableWhenNamesApart ==
  NamesApart /\ TypesKnown =>
    /\ pc \notin {"failed", "fault"}
    /\ pc = "created" =>
         /\ \A d \in 2..Len(descriptors) :
              LET a == AttributeFor(descriptors[d].name)
              IN /\ attributes[a].indexed
                 /\ Supports(cfg.attributes[a].type, descriptors[d].type)
                 /\ \E x \in DOMAIN cfg.indexes :
                      /\ cfg.indexes[x].name = cfg.attributes[a].name
                      /\ cfg.indexes[x].type = descriptors[d].type
                      /\ cfg.indexes[x].params = descriptors[d].params
         /\ \A a \in DOMAIN attributes :
              attributes[a].indexed =>
                \E d \in 2..Len(descriptors) :
                  /\ AttributeFor(descriptors[d].name) = a
                  /\ \A e \in 2..Len(descriptors) :
                       descriptors[e].name = descriptors[d].name => e = d
=============================================================================
