SPECIFICATION Spec
CONSTANTS
  x1 = x1
  x2 = x2
  x3 = x3
  y = y
  own = own
  main = main
  tmp = tmp
  Ref = {main, tmp}
  Commit = {x1, x2, x3}
  Parents <- Line
  NoCommit = NoCommit
  NoSnapshot = NoSnapshot
  Ours = {}
  InitialRefs <- ToEnd
  OtherRefs <- Branched
  Elsewhere = {}
  MaxGeneration = 4
INVARIANTS
  HistoryWhole
