SPECIFICATION FairSpec
CONSTANTS
  MaxBytes = 13
  Requests <- MCRequests
INVARIANTS
  TypeOK
  TextIsEncoding
  DecodesPrefix
  SurplusIsBounded
PROPERTIES
  AllIsDecoded
CHECK_DEADLOCK FALSE
