SPECIFICATION Spec
CONSTANTS
  Client = {c1}
  Key = {k1}
  Info = {i1}
  Token = {0, 1}
  Handler = {h1, h2}
  NoClient = NoClient
  NoKey = NoKey
  NoInfo = NoInfo
  TTL = 0
  MaxTime = 0
  StatementsFail = FALSE
SYMMETRY Symmetry
INVARIANT SurvivesRestart
