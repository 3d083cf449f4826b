CONSTANTS
  c1 = c1
  c2 = c2
  c3 = c3
  NoCall = NoCall
  Calls <- TwoCalls
  Faults <- TemplateFaults
  MaxCancels = 2
  MaxCrashes = 0
SPECIFICATION FairSpec
INVARIANT DeletedMeansGone
PROPERTIES
  CallSettles
  Available
