CONSTANTS
  Requests <- AnyRequest
  MAX_FILES = 3
  MAX_FILE_BYTES = 4
  MAX_REQUEST_BYTES = 6
  MaxPathBytes = 6
  MaxSegmentBytes = 5
  MAX_ANALYZED_LINE_BYTES = 2
SPECIFICATION Spec
INVARIANTS
  TypeOK
  Confined
  AcceptedWithinLimits
  WriteFailsOnNesting
  LongLinesMarked
