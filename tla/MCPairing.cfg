SPECIFICATION Spec
CONSTANTS
  Client = {c1}
  Key = {k1, k2}
  Info = {i1}
  Token = {0, 1}
  Handler = {h1, h2, h3}
  NoClient = NoClient
  NoKey = NoKey
  NoInfo = NoInfo
  TTL = 0
  MaxTime = 1
  StatementsFail = TRUE
SYMMETRY Symmetry
INVARIANT TypeOK
INVARIANT SettledPairing
INVARIANT SettledRemoval
INVARIANT MapsAgree
INVARIANT KeyProvenance
