SPECIFICATION Spec
CONSTANTS
  a = a
  b = b
  Helper = {a, b}
  Nobody = Nobody
  Nothing = Nothing
  Ops <- PushAndFetch
  Pack = {1, 2}
  Length = {1, 5}
  OthersLength = {1}
  PartSize = 2
  UploadBatch = 3
  BigFile = 1
  PushAttempts = 2
  MaxVersion = 3
  MaxFaults = 2
INVARIANTS
  TypeOK
  NoBrokenLink
  IndexerHasBlobs
  RetryHasBlobs
  CachedBlobsOwned
  UploadsOwned
  ListedPacksWhole
  BatchesFit
