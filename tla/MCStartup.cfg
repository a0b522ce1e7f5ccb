SPECIFICATION Spec
CONSTANTS
  Update <- MCUpdate
  Size = {0, 2, 3, 5}
  Mb = 2
  DefaultMb = 2
  MaxMb = 2
  DefaultRetention = 2
  MinRetention = 1
  MaxRetention = 2
  NoRow = NoRow
  MaxLog = 3
  Client = {c1, c2}
  LegacyClient = {c1, c2}
  LegacyKey = LegacyKey
  Key = {k1, k2}
  NoKey = NoKey
INVARIANT TypeOK
INVARIANT SettingsAsAsked
INVARIANT LogIsNewest
INVARIANT LetInAsAsked
INVARIANT ServerIsRecognised
INVARIANT DecisionsStay
INVARIANT ImportIsWhole
