SPECIFICATION Spec
CONSTANTS
  a = a
  b = b
  Clone = {a, b}
  InitialObjs <- ForkedClones
  Laggards = {}
  Fetchers = {b}
  Repackers = {a}
  main = main
  dev = dev
  Ref = {main, dev}
  c1 = c1
  c2 = c2
  c3 = c3
  Commit = {c1, c2, c3}
  NoCommit = NoCommit
  Nothing = Nothing
  Anc <- ForkAnc
  Batch <- RaceBatches
  BuildId = {1, 2, 3, 4, 5, 6, 7, 8}
  PushAttempts = 2
  MaxVersion = 3
INVARIANTS
  TypeOK
  HaveMeansIndexed
  NeverBroken
  NoPackLineLost
  PacksListedOnce
  EveryTipRebuilds
  RepackIsExact
PROPERTIES
  ImplementsRefStore
  DoneRepackHolds
