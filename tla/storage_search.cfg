CONSTANTS
  Ids = {a, b}
  Texts = {t, blank}
  Blank = blank
  MaxRecords = 3
  SiloSize = 2
  Inlined = 2
  None = none
  Fault = fault
  MaxCrashes = 0
SPECIFICATION Spec
INVARIANT SearchFindsValid
