SPECIFICATION Spec
CONSTANTS
  p = p
  q = q
  me = me
  ann = ann
  bob = bob
  cy = cy
  Proc = {p, q}
  NoProc = NoProc
  Member = {me, ann, bob, cy}
  Me = me
  FirstContact = "pinned"
  Pinned = {me, ann, bob}
  PinnedRepo = 0
  MinGeneration = 0
  RefuseForks = TRUE
  Others = {ann}
  Rewriters = {}
  Jumps = {1}
  Pushers = {p}
  Forgetters = {}
  Crashers = {}
  LockFailures = {}
  HostFaults = {"restore"}
  MaxCommits = 4
  Lists <- JustTrio
PROPERTIES
  TrustAdvances
