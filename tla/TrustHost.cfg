SPECIFICATION Spec
CONSTANTS
  p = p
  q = q
  me = me
  ann = ann
  bob = bob
  cy = cy
  Proc = {p, q}
  NoProc = NoProc
  Member = {me, ann, bob, cy}
  Me = me
  FirstContact = "pinned"
  Pinned = {me, ann, bob}
  PinnedRepo = 0
  MinGeneration = 0
  RefuseForks = TRUE
  Others = {ann}
  Rewriters = {ann}
  Jumps = {1, 2}
  Pushers = {}
  Forgetters = {}
  Crashers = {}
  LockFailures = {}
  HostFaults = {"restore"}
  MaxCommits = 4
  Lists <- JustTrio
INVARIANTS
  TypeOK
PROPERTIES
  TrustAdvances
  RewriteReported
SYMMETRY Helpers
