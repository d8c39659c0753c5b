SPECIFICATION FairSpec
CONSTANTS
  BlockSize = 4
  HLEN = 5
  HeaderSize = 2
  MaxData = 9
  MaxFlushes = 1
  Requests <- MCRequests
  MayLose = TRUE
INVARIANTS
  TypeOK
  ReturnsPrefix
  ReadsLikeDecrypt
PROPERTIES
  StreamsLikeEncrypt
  WholeMessageArrives
CHECK_DEADLOCK FALSE
