CONSTANTS
  Names = {"a", "ab", "c", "long1", "long2", "long"}
  IdName = "id"
  Prefixes <- PrefixesOfNames
  Cut <- CutNames
  Configs <- Some
SPECIFICATION Spec
INVARIANTS FieldsApart HeaderHolds BitmapHolds SectionsApart 
