SPECIFICATION FairSpec
CONSTANTS
  a = a
  b = b
  Clone = {a, b}
  InitialObjs <- OneCommitted
  Laggards = {a}
  Fetchers = {b}
  Repackers = {}
  main = main
  dev = dev
  Ref = {main}
  c1 = c1
  c2 = c2
  c3 = c3
  Commit = {c1, c2, c3}
  NoCommit = NoCommit
  Nothing = Nothing
  Anc <- ForkAnc
  Batch <- LateBatches
  BuildId = {1, 2, 3, 4, 5, 6, 7, 8}
  PushAttempts = 2
  MaxVersion = 2
INVARIANTS
  OneGenerationPerCommit
  LostRaceMeansProgress
PROPERTIES
  CommandsEnd
