CONSTANTS
  Ids = {a, b}
  Texts = {t, u, blank}
  Blank = blank
  MaxRecords = 3
  SiloSize = 3
  Inlined = 2
  None = none
  Fault = fault
  MaxCrashes = 1
SYMMETRY Interchangeable
SPECIFICATION Spec
INVARIANTS GetIsExact ValidIsIndexed StringsKept RowsBeyondUnused
PROPERTIES RecordsStable ImplementsRecordStore
