CONSTANTS
  Documents <- AnyDocument
  Requests <- AnyRequest
  Replies <- AnyReply
  Digest <- Digests
  NoToken = "none"
  Nobody = "nobody"
  ZeroDigest = "zero"
  MAX_LOGGED_RESPONSE_BYTES = 3
  MAX_CAPTURED_REQUEST_BYTES = 2
SPECIFICATION Spec
INVARIANTS
  TypeOK
  AuditedOnce
  AttributedToCaller
  RecordAgrees
