CONSTANTS
  Strings = {s1, s2, s3, s4}
  Lengths = {0, 1, 3, 5}
  Unit = 2
  Cells = 6
  Null = Null
SPECIFICATION Spec
INVARIANTS StringsIntact LinksFollow SpaceAccounted
