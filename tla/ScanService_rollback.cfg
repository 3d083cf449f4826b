CONSTANTS
  c1 = c1
  c2 = c2
  c3 = c3
  NoCall = NoCall
  Calls <- TwoCalls
  Faults <- RollbackFaults
  MaxCancels = 0
  MaxCrashes = 0
SPECIFICATION Spec
INVARIANT DeletedMeansGone
