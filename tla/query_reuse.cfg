CONSTANTS
  MaxRecords = 5
  WordBits = 3
  FlagBits = 1
  Group <- Groups
  Queries <- SmallQueries
  PutCounts = {0, 3, 5}
  None = None
  Garbage = Garbage
SPECIFICATION Spec
INVARIANT OnlyMatchesReturned
