SPECIFICATION Spec
CONSTANTS
  x1 = x1
  x2 = x2
  x3 = x3
  y = y
  own = own
  main = main
  tmp = tmp
  Ref = {main}
  Commit = {x1, x2, y, own}
  Parents <- Fork
  NoCommit = NoCommit
  NoSnapshot = NoSnapshot
  Ours = {own}
  InitialRefs <- ToX2
  OtherRefs <- Moves
  Elsewhere = {y}
  MaxGeneration = 4
INVARIANTS
  TypeOK
  HistoryWhole
  FetchConnects
  BoundaryRecorded
  Completed
PROPERTIES
  PushesWhole
  DropsConnect
  OthersStay
