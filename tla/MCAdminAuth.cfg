SPECIFICATION Spec
CONSTANTS
  Password = {Default, p1, p2}
  Default = Default
  Secret = {s1, s2}
  NoSecret = NoSecret
  Session = {a, b, c}
  Handler = {h1, h2}
  SessionTTL = 0
  MaxTime = 1
  MaxChange = 2
SYMMETRY Symmetry
INVARIANT TypeOK
INVARIANT DefaultIsPowerless
INVARIANT OldSessionsEnd
INVARIANT EnabledSecretWasProved
