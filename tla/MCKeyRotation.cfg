SPECIFICATION Spec
CONSTANTS
  k1 = k1
  k2 = k2
  k3 = k3
  h1 = h1
  h2 = h2
  NoKey = NoKey
  Key <- MCKey
  HashId <- MCHashId
  Hash <- MCHash
  MaxVersion = 3
  Party = {p1, p2, p3}
  Paces <- MCPaces
  MaxWire = 2
SYMMETRY Symmetry
INVARIANTS
  TypeOK
  PeersCanRead
  ReadableUntilRevoked
