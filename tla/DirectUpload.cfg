SPECIFICATION FairSpec
CONSTANTS
  Requests = {r1, r2}
  Payloads = {a, b}
  None = None
  MaxVersion = 5
INVARIANTS
  TypeOK
  AcceptedIsDurable
  ConfirmedBytesKept
PROPERTIES
  DecisionIsFinal
  UploadSettles
