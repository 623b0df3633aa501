SPECIFICATION Spec
CONSTANTS
  p = p
  q = q
  me = me
  ann = ann
  bob = bob
  cy = cy
  Proc = {p, q}
  NoProc = NoProc
  Member = {me, ann, bob, cy}
  Me = me
  FirstContact = "pinned"
  Pinned = {me, ann, bob}
  PinnedRepo = 0
  MinGeneration = 0
  RefuseForks = TRUE
  Others = {ann, bob}
  Rewriters = {}
  Jumps = {1}
  Pushers = {}
  Forgetters = {}
  Crashers = {}
  LockFailures = {}
  HostFaults = {}
  MaxCommits = 4
  Lists <- AddCy
INVARIANTS
  NeverRefused
