CONSTANTS
  c1 = c1
  c2 = c2
  c3 = c3
  NoCall = NoCall
  Calls <- ThreeCalls
  Faults <- HandledFaults
  MaxCancels = 2
  MaxCrashes = 1
SPECIFICATION Spec
SYMMETRY ThreeSymmetric
INVARIANTS
  TypeOK
  OneScanAtATime
  SourcesUnderLock
  VerdictMatchesWorker
  AbortHasCause
PROPERTIES
  DeletedAfterWorker
  KeepsPromise
