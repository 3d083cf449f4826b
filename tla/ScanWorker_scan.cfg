CONSTANTS
  FileCount = 2
  Kinds <- AnyKind
  Rules <- SomeMapped
  MissingLockfile = 3
  MaxPerCheck = 2
  MaxFindings = 2
  AlwaysFits = 1
SPECIFICATION Spec
INVARIANTS
  TypeOK
  AcceptedByServer
  NothingDroppedSilently
  UncheckedDeclared
  LockfileSeen
