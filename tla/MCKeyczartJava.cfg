SPECIFICATION Spec
CONSTANTS
  k1 = k1
  k2 = k2
  k3 = k3
  admin = admin
  other = other
  NoKey = NoKey
  NoFile = NoFile
  Torn = Torn
  Key <- MCKey
  HashId <- MCKey
  Hash <- MCHash
  MaxVersion = 2
  Proc = {admin, other}
  Admin = {admin}
  MetaFirst = FALSE
  CrypterFlags = {FALSE}
  MaxCrashes = 2
CHECK_DEADLOCK FALSE
INVARIANTS
  LoadMatchesMetadata
  DeadStaysDead
  CrashCostsOneFile
