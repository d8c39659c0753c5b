SPECIFICATION Spec
CONSTANTS
  k1 = k1
  k2 = k2
  k3 = k3
  h1 = h1
  h2 = h2
  NoKey = NoKey
  Key <- MCKey
  HashId <- MCHashId
  Hash <- MCHash
  Sizes <- MCSizes
  MaxVersion = 3
INVARIANTS
  TypeOK
  PrimaryTracksStatus
  HashIdsDistinct
  RevokedStaysInactive
PROPERTIES
  DownOneRungAtATime
  FailedCallKeepsKeys
