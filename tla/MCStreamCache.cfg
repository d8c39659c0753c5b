SPECIFICATION Spec
CONSTANTS
  k1 = k1
  k2 = k2
  Thread = {t1, t2}
  Bucket <- MCBucket
  Primary = k2
  Forged = Forged
  Stream <- MCStream
  NoStream = NoStream
  MaxLen = 1
  MaxSpare = 0
SYMMETRY Symmetry
INVARIANTS
  TypeOK
  OneHolder
  CachedAreReset
  PoolIsBounded
PROPERTIES
  ServedRight
