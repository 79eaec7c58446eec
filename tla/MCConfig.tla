------------------------------ MODULE MCConfig ------------------------------
(***************************************************************************)
(* Configurations for the run of Config.                                   *)
(***************************************************************************)
EXTENDS Config

Attribute(name, type, byteSize, at, indexed, groupable) ==
  [name |-> name, type |-> type, byteSize |-> byteSize, at |-> at,
   indexed |-> indexed, groupable |-> groupable]

(* All types and flags, overlapping and adjacent places, a type that is    *)
(* none, a name that is a prefix of another and two that are cut to one.   *)
Attributes ==
  {Attribute(n, 8, 12, at, TRUE, FALSE) : n \in {"a", "ab"}, at \in {0, 8}}
  \cup {Attribute(n, 2, 8, 12, TRUE, TRUE) : n \in {"ab", "c"}}
  \cup {Attribute("c", t, 8, 20, FALSE, FALSE) : t \in {0, 3, 4, 17}}
  \cup {Attribute(n, 16, 12, 24, TRUE, FALSE) : n \in {"a", "c"}}
  \cup {Attribute("c", 8, 12, 24, TRUE, TRUE)}
  \cup {Attribute("long1", 2, 8, 40, TRUE, FALSE), Attribute("long2", 16, 12, 48, TRUE, FALSE)}

Wide == [dim |-> 100, m |-> 16, mMax0 |-> 32, upper |-> 3]
Narrow == [dim |-> 3, m |-> 2, mMax0 |-> 2, upper |-> 0]
Index(name, type, params) == [name |-> name, type |-> type, params |-> params]

(* Also types there are none of, with either bit set or both, and the       *)
(* dimensions around the limit of a uint16_t.                              *)
Indexes ==
  {Index(n, t, IF n = "a" THEN Wide ELSE Narrow) :
     n \in {"a", "ab", "c"}, t \in {HashMap, Hnsw}}
  \cup {Index("c", Hnsw, [Narrow EXCEPT !.dim = dim]) : dim \in {65528, 65529, 65539}}
  \cup {Index("a", 3, Wide), Index("ab", 0, Narrow), Index("c", 4, Narrow)}
  \cup {Index("long1", HashMap, Narrow), Index("long2", Hnsw, Narrow)}

UpTo(S, n) == UNION {[1..k -> S] : k \in 0..n}
Configuration(n, as, is) ==
  [maxRecords |-> n, attributes |-> as, indexes |-> is, paddedByteSize |-> 36]

(* Numbers of records at the boundaries of words and of pages of words.    *)
Some ==
  {Configuration(40, as, is) : as \in UpTo(Attributes, 2), is \in UpTo(Indexes, 2)}
  \cup {Configuration(n, as, << >>) :
           n \in {0, 1, 63, 64, 65, 32513, 32576, 32577, 32640, 32641, 65344, 65345, 100000},
           as \in [1..1 -> Attributes]}

PrefixesOfNames == {<<n, n>> : n \in Names} \cup {<<"a", "ab">>}
CutNames == [n \in Names |-> IF n \in {"long1", "long2"} THEN "long" ELSE n]
=============================================================================
