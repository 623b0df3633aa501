SPECIFICATION Spec
CONSTANTS
  p = p
  q = q
  me = me
  ann = ann
  bob = bob
  cy = cy
  Proc = {p, q}
  NoProc = NoProc
  Member = {me, ann, bob, cy}
  Me = me
  FirstContact = "pinned"
  Pinned = {me, ann, bob}
  PinnedRepo = 0
  MinGeneration = 0
  RefuseForks = TRUE
  Others = {ann}
  Rewriters = {}
  Jumps = {1, 2}
  Pushers = {p}
  Forgetters = {q}
  Crashers = {p, q}
  LockFailures = {p}
  HostFaults = {"delete"}
  MaxCommits = 3
  Lists <- JustTrio
INVARIANTS
  UsedIsRecorded
  NoGenerationRunsAhead
