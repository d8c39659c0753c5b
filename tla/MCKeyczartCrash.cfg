SPECIFICATION Spec
CONSTANTS
  k1 = k1
  k2 = k2
  k3 = k3
  admin = admin
  other = other
  NoKey = NoKey
  NoFile = NoFile
  Torn = Torn
  Key <- MCKey
  HashId <- MCKey
  Hash <- MCHash
  MaxVersion = 2
  Proc = {admin}
  Admin = {admin}
  MetaFirst = TRUE
  CrypterFlags = {FALSE}
  MaxCrashes = 1
CHECK_DEADLOCK FALSE
INVARIANT
  DeadStaysDead
