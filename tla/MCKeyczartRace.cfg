SPECIFICATION Spec
CONSTANTS
  k1 = k1
  k2 = k2
  k3 = k3
  admin = admin
  other = other
  NoKey = NoKey
  NoFile = NoFile
  Torn = Torn
  Key = {k1, k2}
  HashId = {k1, k2}
  Hash <- MCHash
  MaxVersion = 2
  Proc = {admin, other}
  Admin = {admin, other}
  MetaFirst = TRUE
  CrypterFlags = {FALSE}
  MaxCrashes = 1
CHECK_DEADLOCK FALSE
INVARIANTS
  TypeOK
  SinglePrimary
