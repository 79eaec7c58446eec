CONSTANTS
  IndexCount = 2
  MaxRecords = 1
  MaxDescriptors = 10
  MaxCreates = 2
  MaxFailures = 2
  MaxCrashes = 2
  None = None
  Stdin = Stdin
SPECIFICATION Spec
INVARIANTS IdentifierLast DescriptorsOwned FreeCloses FaultsOnlyAfterFailure
