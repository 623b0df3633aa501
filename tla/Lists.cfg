SPECIFICATION Spec
CONSTANTS
  a = a
  b = b
  c = c
  Key = {a, b, c}
  Person = {a, b}
  Signer = {a, b}
  Edits <- AddOrRemove
  ByHand <- AdminsByHand
  PushAttempts = 2
  MaxVersion = 3
  MaxUpsets = 1
INVARIANTS
  TypeOK
  ListsAsShown
  NextIsAccepted
