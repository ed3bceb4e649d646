CONSTANTS
  npos = 99
  Bits = 8
  DigestLength = 2
  BlockLength = 3
  Digest <- ToyDigest
  Chars = {0, 9, 61, 65, 128, 255}
  MaxText = 4
  MaxArg = 2
  Sizes = {0, 2, 4, 6}
  DefaultBlockSize = 4
  Allocator = {a, b}
  Slots = 2
  MaxPieces = 3
  MaxBlocks = 3
  BaseSize = 2
  MaxCall = 5
  MaxWritten = 7
  Capacity = 3
  MaxCapacity = 5
  SizeMod = 16
  MaxPushes = 9
  Guard = {g, h}
  MaxFd = 2
SPECIFICATION UtilSpec
INVARIANTS ViewsAreExact StringsAreKept BytesAreKept WordsAreExact BuffersKeepOrder MemoryHasOneOwner
CHECK_DEADLOCK FALSE
