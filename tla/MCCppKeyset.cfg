SPECIFICATION Spec
CONSTANTS
  k1 = k1
  k2 = k2
  h1 = h1
  h2 = h2
  NoKey = NoKey
  Key <- MCKey
  HashId <- MCHashId
  Hash <- MCHash
  MaxVersion = 2
  Proc = {tool, app}
  Admin = tool
  MaxFaults = 1
  NoFile = NoFile
  Torn = Torn
INVARIANTS
  TypeOK
  OnePrimaryOnDisk
  OnlyNewestIsMissing
  RevokedStaysGone
  LoadedIsRight
PROPERTIES
  UnrevokedKeyFilesStay
