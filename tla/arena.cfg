CONSTANTS
  Owners = {o1, o2, o3}
  Values = {1, 2}
  Page = 3
  MinAlloc = 2
  FirstSize = 2
  RegionSizes = {3, 6, 12}
  Limit = 12
SPECIFICATION Spec
INVARIANTS BlocksInside BlocksDisjoint HeadIsFree
PROPERTY ListsPreserved
