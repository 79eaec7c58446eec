CONSTANTS
  Hashes = {h1, h2, h3}
  Values = {r1}
  TableSize = 2
  Inlined = 1
  Slack = 1
  MaxValues = 6
  Empty = Empty
  Thombstone = Thombstone
  Unknown = Unknown
SYMMETRY Interchangeable
SPECIFICATION Spec
INVARIANTS ProbePathsUnbroken KeyStoredOnce
PROPERTY IndexIsMultimap
