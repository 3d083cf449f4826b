CONSTANTS
  FileCount = 2
  Kinds <- EmptyManifest
  Rules <- AllMapped
  MissingLockfile = 3
  MaxPerCheck = 1
  MaxFindings = 10
  AlwaysFits = 10
SPECIFICATION Spec
INVARIANT LimitsSuppressNothing
