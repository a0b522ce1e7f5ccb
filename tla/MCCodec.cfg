SPECIFICATION Spec
CONSTANTS
  Byte = {0, 2, 255}
  MaxLength = 5
  Token = {0, 1, 4, 999999}
  Block = 2
  StreamChunk = 2
  FileChunk = 2
  Sizes = {0, 1, 2, 3, 5, 7}
INVARIANT StreamIsReadBack
INVARIANT FileIsSentWhole
INVARIANT SyncInfoIsRead
