SPECIFICATION FairSpec
CONSTANTS
  Code = {a, b}
  Member = {m1, m2, m3}
  Handler = {h1, h2}
  NoCode = NoCode
  NoMember = NoMember
  Ttl = 1
  MaxMembers = 2
  MaxTime = 2
INVARIANT TypeOK
INVARIANT AnsweredRoomStays
PROPERTY ExpiredIsCollected
