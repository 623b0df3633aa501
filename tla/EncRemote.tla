------------------------------ MODULE EncRemote ------------------------------
(***************************************************************************)
(* The push, fetch and repack protocol of an encrypted remote              *)
(* (crates/enccore/src/remote.rs).                                         *)
(*                                                                         *)
(* The host keeps one git branch; every push replaces its tip by a         *)
(* compare-and-swap (`git push --force-with-lease`) with a backend commit  *)
(* that carries one manifest (refs, packs) and the pack blobs.  The host   *)
(* interprets nothing.  Several clones, each with its own object store and *)
(* its own list of indexed packs, run one helper process at a time; the    *)
(* processes interleave freely, are killed anywhere, lose the answer of a  *)
(* push that landed, or leave a push on the wire that lands later.         *)
(*                                                                         *)
(* A commit stands for the commit and the trees and blobs it introduces.   *)
(* Encryption, signatures and acceptance rules are not here: they are the  *)
(* subject of Trust.tla, whose verdict this module takes as "accepted".    *)
(***************************************************************************)
EXTENDS Integers, Sequences, FiniteSets, Functions

CONSTANTS
  Clone,         \* the repositories that use the remote
  Ref,           \* ref names on the remote
  Commit,        \* commits of the users' history
  Anc,           \* Anc[x]: x and all its ancestors
  NoCommit,      \* a ref that does not exist, a refspec that deletes
  InitialObjs,   \* InitialObjs[c]: the commits c starts with
  Batch,         \* Batch[c]: the batches of refspecs the users of c may push
  Fetchers,      \* the clones whose users fetch
  Repackers,     \* the clones whose users repack
  BuildId,       \* names for the packs of one build (random keys)
  Nothing,       \* no staged packs; no push on the wire
  PushAttempts,  \* attempts of one push
  Laggards,      \* bound: the clones whose pushes may outlive their helper
  MaxVersion     \* bound: pushes that may land

\* What a refspec `[+]<src>:<dst>` asks of <dst>.
RefSpec == [src : Commit \cup {NoCommit}, force : BOOLEAN]

\* History is closed: an ancestor's ancestors are ancestors.
ASSUME AncAssumption ==
  /\ Anc \in [Commit -> SUBSET Commit]
  /\ \A x \in Commit : x \in Anc[x] /\ \A y \in Anc[x] : Anc[y] \subseteq Anc[x]

ASSUME NoCommitAssumption == NoCommit \notin Commit

\* A batch maps the destinations it names to what it asks of each.
Batches == UNION {[D -> RefSpec] : D \in SUBSET Ref}

ASSUME BatchAssumption == Batch \in [Clone -> SUBSET Batches]

\* A clone starts with complete history.
ASSUME InitialAssumption ==
  /\ InitialObjs \in [Clone -> SUBSET Commit]
  /\ \A c \in Clone : \A x \in InitialObjs[c] : Anc[x] \subseteq InitialObjs[c]

ASSUME BoundAssumption == PushAttempts \in Nat \ {0} /\ MaxVersion \in Nat

-----------------------------------------------------------------------------
\* The host and the clones.
VARIABLES
  log,      \* log[v]: the backend commit that became the v-th tip of the branch
  objs,     \* objs[c]: the commits in the object store of c
  have      \* have[c]: the packs c recorded as indexed (<common>/enc/<key>/have)

\* The helper process of each clone, and its push on the wire.
VARIABLES
  pc,       \* where the helper is
  tip,      \* the tip it connected to (0: the branch did not exist)
  op,       \* the command it runs
  attempt,  \* the attempt of the push it is in
  staged,   \* the packs it keeps from an earlier attempt
  draft,    \* the backend commit it is pushing
  wire      \* a push whose helper no longer waits for it

hostVars   == <<log, wire>>
storeVars  == <<objs, have>>
helperVars == <<pc, tip, op, attempt, staged, draft>>
vars       == <<log, objs, have, pc, tip, op, attempt, staged, draft, wire>>

-----------------------------------------------------------------------------
\* Packs, manifests, backend commits.

\* What the commits of S reach.
Reach(S) == UNION {Anc[x] : x \in S}

(* A pack: the build it comes from (its name is the hash of a ciphertext   *)
(* under a fresh key, so no two builds share one), the commits it holds,   *)
(* and the commits whose objects its deltas may be against (`--thin`).     *)
Pack == [build : BuildId, holds : SUBSET Commit, thin : SUBSET Commit]

\* The commits a list of packs holds.
Holds(packs) == UNION {p.holds : p \in Range(packs)}

\* The commits the refs of a manifest name.
Known(m) == {m.refs[r] : r \in Ref} \ {NoCommit}

EmptyManifest == [generation |-> 0, refs |-> [r \in Ref |-> NoCommit], packs |-> <<>>]

\* The manifest at the v-th tip; before the first push, the empty one.
ManifestAt(v) == IF v = 0 THEN EmptyManifest ELSE log[v].manifest

\* The pack blobs in the tree of the v-th tip.
TreeAt(v) == IF v = 0 THEN {} ELSE log[v].tree

\* The manifest the helper of c read when it connected.
Manifest(c) == ManifestAt(tip[c])

\* Builds whose packs are listed, staged or on the wire: a new one differs.
UsedBuilds ==
  {p.build : p \in UNION ({Range(log[v].manifest.packs) : v \in DOMAIN log}
                     \cup {IF staged[c] = Nothing THEN {} ELSE Range(staged[c].packs) : c \in Clone}
                     \cup {IF wire[c] = Nothing THEN {} ELSE Range(wire[c].manifest.packs) : c \in Clone})}

FreshBuild == CHOOSE b \in BuildId : b \notin UsedBuilds
CanBuild   == \E b \in BuildId : b \notin UsedBuilds

NoOp == [kind |-> "none", specs |-> <<>>]

Init ==
  /\ log = <<>>
  /\ objs = InitialObjs
  /\ have = [c \in Clone |-> {}]
  /\ pc = [c \in Clone |-> "idle"]
  /\ tip = [c \in Clone |-> 0]
  /\ op = [c \in Clone |-> NoOp]
  /\ attempt = [c \in Clone |-> 0]
  /\ staged = [c \in Clone |-> Nothing]
  /\ draft = [c \in Clone |-> Nothing]
  /\ wire = [c \in Clone |-> Nothing]

-----------------------------------------------------------------------------
\* The user's repository (external: git's own operations).

(* A user commits: x is new everywhere and its parents are here.           *)
NewCommit(c, x) ==
  /\ \A d \in Clone : x \notin objs[d]
  /\ Anc[x] \ {x} \subseteq objs[c]
  /\ objs' = [objs EXCEPT ![c] = @ \cup {x}]
  /\ UNCHANGED <<have, hostVars, helperVars>>

\* What a local ref can name: git keeps refs only to complete history.
Local(c) == {x \in Commit : Anc[x] \subseteq objs[c]}

-----------------------------------------------------------------------------
\* Starting a helper and a command.

(* git starts the helper, whose first contact with the host (`list`)       *)
(* fetches the branch and keeps tip and manifest in memory.                *)
Connect(c) ==
  /\ pc[c] = "idle"
  /\ pc' = [pc EXCEPT ![c] = "ready"]
  /\ tip' = [tip EXCEPT ![c] = Len(log)]
  /\ UNCHANGED <<op, attempt, staged, draft, storeVars, hostVars>>

(* A fetch: the packs of the manifest read on connecting are indexed.      *)
BeginFetch(c) ==
  /\ c \in Fetchers
  /\ pc[c] = "ready"
  /\ tip[c] # 0
  /\ pc' = [pc EXCEPT ![c] = "fetch"]
  /\ op' = [op EXCEPT ![c] = [kind |-> "fetch", specs |-> <<>>]]
  /\ UNCHANGED <<tip, attempt, staged, draft, storeVars, hostVars>>

BeginPush(c, batch) ==
  /\ pc[c] = "ready"
  /\ batch \in Batch[c]
  /\ Len(log) < MaxVersion
  /\ pc' = [pc EXCEPT ![c] = "attempt"]
  /\ op' = [op EXCEPT ![c] = [kind |-> "push", specs |-> batch]]
  /\ attempt' = [attempt EXCEPT ![c] = 1]
  /\ UNCHANGED <<tip, staged, draft, storeVars, hostVars>>

(* `git-remote-enc repack`: refused where there is no remote yet.          *)
BeginRepack(c) ==
  /\ c \in Repackers
  /\ Len(log) < MaxVersion
  /\ pc[c] = "ready"
  /\ tip[c] # 0
  /\ pc' = [pc EXCEPT ![c] = "attempt"]
  /\ op' = [op EXCEPT ![c] = [kind |-> "repack", specs |-> <<>>]]
  /\ attempt' = [attempt EXCEPT ![c] = 1]
  /\ UNCHANGED <<tip, staged, draft, storeVars, hostVars>>

\* The command of c ends in pc `to`; staged packs are discarded.
Finish(c, to) ==
  /\ pc' = [pc EXCEPT ![c] = to]
  /\ op' = [op EXCEPT ![c] = NoOp]
  /\ attempt' = [attempt EXCEPT ![c] = 0]
  /\ staged' = [staged EXCEPT ![c] = Nothing]
  /\ draft' = [draft EXCEPT ![c] = Nothing]

-----------------------------------------------------------------------------
\* Fetching packs: of a fetch, and of a repack before it builds.

\* The first pack of the manifest c has not indexed.
IsNext(c, i) ==
  LET packs == Manifest(c).packs IN
  /\ i \in DOMAIN packs
  /\ packs[i] \notin have[c]
  /\ \A j \in 1..(i - 1) : packs[j] \in have[c]

(* index_pack: the blobs are in the tip's tree, and `index-pack --fix-thin` *)
(* finds the bases of the deltas here; else the fetch can never succeed.   *)
IndexPack(c) ==
  /\ pc[c] = "fetch"
  /\ \E i \in DOMAIN Manifest(c).packs :
       LET p == Manifest(c).packs[i] IN
       /\ IsNext(c, i)
       /\ IF p \in TreeAt(tip[c]) /\ p.thin \subseteq objs[c]
          THEN /\ objs' = [objs EXCEPT ![c] = @ \cup p.holds]
               /\ pc' = [pc EXCEPT ![c] = "indexed"]
          ELSE /\ pc' = [pc EXCEPT ![c] = "broken"]
               /\ UNCHANGED objs
  /\ UNCHANGED <<have, tip, op, attempt, staged, draft, hostVars>>

\* Mutant of AddHave: the pack is never recorded.
AddHaveForgets(c) ==
  /\ pc[c] = "indexed"
  /\ pc' = [pc EXCEPT ![c] = "fetch"]
  /\ UNCHANGED <<objs, have, tip, op, attempt, staged, draft, hostVars>>

(* add_have, a step of its own: the helper may die after index_pack.       *)
AddHave(c) ==
  /\ pc[c] = "indexed"
  /\ \E i \in DOMAIN Manifest(c).packs :
       /\ IsNext(c, i)
       /\ have' = [have EXCEPT ![c] = @ \cup {Manifest(c).packs[i]}]
  /\ pc' = [pc EXCEPT ![c] = "fetch"]
  /\ UNCHANGED <<objs, tip, op, attempt, staged, draft, hostVars>>

\* Every ref of the manifest is complete in c.
RefsComplete(c) == Reach(Known(Manifest(c))) \subseteq objs[c]

(* Nothing left to index: a fetch ends (git checks that what the refs reach *)
(* is here), a repack goes on to build.                                    *)
FetchDone(c) ==
  /\ pc[c] = "fetch"
  /\ Range(Manifest(c).packs) \subseteq have[c]
  /\ IF ~RefsComplete(c) THEN
       /\ pc' = [pc EXCEPT ![c] = "broken"]
       /\ UNCHANGED <<op, attempt, staged, draft>>
     ELSE IF op[c].kind = "repack" THEN
       /\ pc' = [pc EXCEPT ![c] = "build"]
       /\ UNCHANGED <<op, attempt, staged, draft>>
     ELSE Finish(c, "ready")
  /\ UNCHANGED <<tip, storeVars, hostVars>>

-----------------------------------------------------------------------------
\* try_push up to the compare-and-swap.

\* Mutant of Passes: knowing the old commit is enough.
PassesKnown(c, r) ==
  LET spec == op[c].specs[r]
      old  == Manifest(c).refs[r]
  IN \/ spec.src = NoCommit
     \/ spec.src \in Local(c) /\ (old = NoCommit \/ spec.force \/ old \in objs[c])

(* The refspec for r passes: its source exists here; and an existing ref   *)
(* that is not forced is known here and only moves forward.                *)
Passes(c, r) ==
  LET spec == op[c].specs[r]
      old  == Manifest(c).refs[r]
  IN \/ spec.src = NoCommit
     \/ /\ spec.src \in Local(c)
        /\ \/ old = NoCommit \/ spec.force \/ old = spec.src
           \/ old \in objs[c] /\ old \in Anc[spec.src]

Accepted(c) == {r \in DOMAIN op[c].specs : Passes(c, r)}

Repacking(c) == op[c].kind = "repack"

\* The tips the new packs are built for.
Wants(c) ==
  IF Repacking(c) THEN Known(Manifest(c))
  ELSE {op[c].specs[r].src : r \in Accepted(c)} \ {NoCommit}

\* Mutant of Excludes: so is what the pack of the attempt before was built for.
ExcludesStaged(c) ==
  (Known(Manifest(c)) \cup (IF staged[c] = Nothing THEN {} ELSE staged[c].wants)) \cap objs[c]

\* What a push's pack may leave out: what refs that are known here reach.
Excludes(c) == Known(Manifest(c)) \cap objs[c]

(* build_pack: what the wants reach and the excluded tips do not; nothing  *)
(* when that is empty.  Its deltas are taken to be against everything the  *)
(* excluded tips reach: the widest choice pack-objects has.                *)
ThinPack(c, build) ==
  LET new == Reach(Wants(c)) \ Reach(Excludes(c))
  IN IF new = {} THEN <<>>
     ELSE <<[build |-> build, holds |-> new, thin |-> Reach(Excludes(c))]>>

(* build_snapshot_and_history: the tips, then what is behind them; no      *)
(* deltas against anything outside.                                        *)
RepackedPacks(c, build) ==
  LET tips   == Wants(c)
      behind == Reach(tips) \ tips
      pack(s) == [build |-> build, holds |-> s, thin |-> {}]
  IN IF tips = {} THEN <<>>
     ELSE IF behind = {} THEN <<pack(tips)>> ELSE <<pack(tips), pack(behind)>>

Built(c, build) == IF Repacking(c) THEN RepackedPacks(c, build) ELSE ThinPack(c, build)

\* Mutant of AlreadyListed: the manifest read again is not looked at.
NeverListed(c) == FALSE

\* A staged pack is listed: an attempt landed, whatever git reported of it.
AlreadyListed(c) ==
  /\ staged[c] # Nothing
  /\ Range(staged[c].packs) \cap Range(Manifest(c).packs) # {}

\* Mutant of RepackLanded: other packs may be listed with its own.
RepackListed(c) == Repacking(c) /\ AlreadyListed(c)

\* The repack's packs are listed, and no others: an attempt of it landed.
RepackLanded(c) ==
  /\ Repacking(c) /\ AlreadyListed(c)
  /\ Len(Manifest(c).packs) = Len(staged[c].packs)
  /\ Range(staged[c].packs) \subseteq Range(Manifest(c).packs)

\* Mutant of Reusable: a repack may keep packs built for other tips.
ReusableAnyTips(c, s) ==
  \/ Repacking(c)
  \/ /\ s.wants = Wants(c) /\ Wants(c) \ Known(Manifest(c)) # {}
     /\ s.bases \subseteq Range(Manifest(c).packs)

\* The staged packs serve this attempt too: same tips, and, for a push, some
\* tip not yet a ref, and every pack listed when they were built still is.
Reusable(c, s) ==
  /\ s.wants = Wants(c)
  /\ \/ Repacking(c)
     \/ /\ Wants(c) \ Known(Manifest(c)) # {}
        /\ s.bases \subseteq Range(Manifest(c).packs)

\* What is left staged once listed packs are accounted for.
Unlisted(c) == IF AlreadyListed(c) THEN Nothing ELSE staged[c]

\* Mutant of HaveListed: everything the manifest lists is recorded.
HaveAllListed(c) ==
  IF AlreadyListed(c) THEN have[c] \cup Range(Manifest(c).packs) ELSE have[c]

\* The have list, with the packs of an attempt found landed.
HaveListed(c) == IF AlreadyListed(c) THEN have[c] \cup Range(staged[c].packs) ELSE have[c]

\* The packs this attempt adds: kept ones, new ones, or none.
Stage(c, kept) ==
  IF kept # Nothing /\ Reusable(c, kept) THEN kept
  ELSE LET packs == Built(c, FreshBuild)
       IN IF packs = <<>> THEN Nothing
          ELSE [wants |-> Wants(c), bases |-> Range(Manifest(c).packs), packs |-> packs]

StagedPacks(s) == IF s = Nothing THEN <<>> ELSE s.packs

NewRefs(c) ==
  [r \in Ref |-> IF r \in Accepted(c) THEN op[c].specs[r].src ELSE Manifest(c).refs[r]]

NewManifest(c, s) ==
  [generation |-> Manifest(c).generation + 1,
   refs       |-> NewRefs(c),
   packs      |-> (IF Repacking(c) THEN <<>> ELSE Manifest(c).packs) \o StagedPacks(s)]

\* Mutant of NewTree: a push drops the blobs of earlier packs, like a repack.
ReplacedTree(c, s) == Range(StagedPacks(s))

\* The pack blobs of the new commit: a repack's replace the others.
NewTree(c, s) ==
  (IF Repacking(c) THEN {} ELSE TreeAt(tip[c])) \cup Range(StagedPacks(s))

(* The commit to push: its parent (and lease), manifest and tree.  `asked` *)
(* and `repack` are history variables, kept to state properties: what the  *)
(* commit was asked to change and to force.                                *)
NewCommitOnTip(c, s) ==
  [on       |-> tip[c],
   manifest |-> NewManifest(c, s),
   tree     |-> NewTree(c, s),
   repack   |-> Repacking(c),
   asked    |-> [touched |-> Accepted(c),
                 forced  |-> {r \in Accepted(c) :
                                op[c].specs[r].force \/ op[c].specs[r].src = NoCommit}]]

\* Stage, sign and commit; the packs stay staged until the attempt is over.
Build(c, kept) ==
  LET s == Stage(c, kept) IN
  /\ CanBuild
  /\ staged' = [staged EXCEPT ![c] = s]
  /\ draft' = [draft EXCEPT ![c] = NewCommitOnTip(c, s)]
  /\ pc' = [pc EXCEPT ![c] = "cas"]

(* No refspec passed: the push ends with the errors, nothing is written.   *)
NothingAccepted(c) ==
  /\ pc[c] = "attempt"
  /\ ~Repacking(c) /\ Accepted(c) = {}
  /\ Finish(c, "ready")
  /\ UNCHANGED <<tip, storeVars, hostVars>>

(* A push attempt: packs an earlier attempt landed are recorded as indexed *)
(* and not listed again; the others are reused or replaced.                *)
BuildPush(c) ==
  /\ pc[c] = "attempt"
  /\ ~Repacking(c) /\ Accepted(c) # {}
  /\ have' = [have EXCEPT ![c] = HaveListed(c)]
  /\ Build(c, Unlisted(c))
  /\ UNCHANGED <<objs, tip, op, attempt, hostVars>>

(* A repack whose packs are exactly those listed has landed: it is done.   *)
RepackFoundLanded(c) ==
  /\ pc[c] = "attempt"
  /\ RepackLanded(c)
  /\ have' = [have EXCEPT ![c] = HaveListed(c)]
  /\ Finish(c, "ready")
  /\ UNCHANGED <<objs, tip, hostVars>>

(* Otherwise it fetches first: it builds from local objects.               *)
RepackFetches(c) ==
  /\ pc[c] = "attempt"
  /\ Repacking(c) /\ ~RepackLanded(c)
  /\ have' = [have EXCEPT ![c] = HaveListed(c)]
  /\ staged' = [staged EXCEPT ![c] = Unlisted(c)]
  /\ pc' = [pc EXCEPT ![c] = "fetch"]
  /\ UNCHANGED <<objs, tip, op, attempt, draft, hostVars>>

BuildRepack(c) ==
  /\ pc[c] = "build"
  /\ Build(c, staged[c])
  /\ UNCHANGED <<tip, op, attempt, storeVars, hostVars>>

-----------------------------------------------------------------------------
\* The compare-and-swap and its outcomes.

\* Mutant of HostTakes: a plain forced push, without a lease.
HostTakesAny(d) ==
  /\ Len(log) < MaxVersion
  /\ log' = Append(log, d)

\* The host takes commit d when the branch is where d's lease says.
HostTakes(d) ==
  /\ Len(log) = d.on
  /\ Len(log) < MaxVersion
  /\ log' = Append(log, d)

(* The push lands; git says so, or its answer is lost.                     *)
Land(c) ==
  /\ pc[c] = "cas"
  /\ HostTakes(draft[c])
  /\ \E outcome \in {"landed", "failed"} : pc' = [pc EXCEPT ![c] = outcome]
  /\ UNCHANGED <<wire, tip, op, attempt, staged, draft, storeVars>>

(* The branch is elsewhere: the lease is stale.                            *)
Stale(c) ==
  /\ pc[c] = "cas"
  /\ Len(log) # draft[c].on
  /\ pc' = [pc EXCEPT ![c] = "lost"]
  /\ UNCHANGED <<tip, op, attempt, staged, draft, storeVars, hostVars>>

\* The push of c may stay on the wire (bound: one such push per clone).
LeftOnWire(c) == {wire} \cup (IF c \in Laggards THEN {[wire EXCEPT ![c] = draft[c]]} ELSE {})

(* git reports a failure: the push never reached the host, was refused, or *)
(* is still on the wire.                                                   *)
Fail(c) ==
  /\ pc[c] = "cas"
  /\ pc' = [pc EXCEPT ![c] = "failed"]
  /\ wire' \in LeftOnWire(c)
  /\ UNCHANGED <<log, tip, op, attempt, staged, draft, storeVars>>

(* A push nobody waits for reaches the host, which takes or refuses it.    *)
LateLand(c) ==
  /\ wire[c] # Nothing
  /\ HostTakes(wire[c])
  /\ wire' = [wire EXCEPT ![c] = Nothing]
  /\ UNCHANGED <<helperVars, storeVars>>

LateStale(c) ==
  /\ wire[c] # Nothing
  /\ Len(log) # wire[c].on
  /\ wire' = [wire EXCEPT ![c] = Nothing]
  /\ UNCHANGED <<log, helperVars, storeVars>>

\* Mutant of Moved: every failure counts as a lost race.
MovedAlways(c) == TRUE

\* The branch is no longer where the helper read it.
Moved(c) == Len(log) # tip[c]

(* After a failure the branch is read: moved, it was a lost race; else the *)
(* push is an error and the helper exits.                                  *)
CheckTip(c) ==
  /\ pc[c] = "failed"
  /\ IF Moved(c)
     THEN /\ pc' = [pc EXCEPT ![c] = "lost"]
          /\ UNCHANGED <<tip, op, attempt, staged, draft>>
     ELSE /\ Finish(c, "idle")
          /\ tip' = [tip EXCEPT ![c] = 0]
  /\ UNCHANGED <<storeVars, hostVars>>

\* Mutant of Retry: one attempt too many.
RetryOnceMore(c) ==
  /\ pc[c] = "lost"
  /\ IF attempt[c] <= PushAttempts
     THEN /\ tip' = [tip EXCEPT ![c] = Len(log)]
          /\ attempt' = [attempt EXCEPT ![c] = @ + 1]
          /\ pc' = [pc EXCEPT ![c] = "attempt"]
          /\ draft' = [draft EXCEPT ![c] = Nothing]
          /\ UNCHANGED <<op, staged>>
     ELSE /\ Finish(c, "idle")
          /\ tip' = [tip EXCEPT ![c] = 0]
  /\ UNCHANGED <<storeVars, hostVars>>

(* push_attempts: reconnect and try again; after the last attempt, give up. *)
Retry(c) ==
  /\ pc[c] = "lost"
  /\ IF attempt[c] < PushAttempts
     THEN /\ tip' = [tip EXCEPT ![c] = Len(log)]
          /\ attempt' = [attempt EXCEPT ![c] = @ + 1]
          /\ pc' = [pc EXCEPT ![c] = "attempt"]
          /\ draft' = [draft EXCEPT ![c] = Nothing]
          /\ UNCHANGED <<op, staged>>
     ELSE /\ Finish(c, "idle")
          /\ tip' = [tip EXCEPT ![c] = 0]
  /\ UNCHANGED <<storeVars, hostVars>>

(* A landed push is recorded: its packs' objects are ours.                 *)
Record(c) ==
  /\ pc[c] = "landed"
  /\ have' = [have EXCEPT ![c] = @ \cup Range(StagedPacks(staged[c]))]
  /\ tip' = [tip EXCEPT ![c] = @ + 1]
  /\ Finish(c, "ready")
  /\ UNCHANGED <<objs, hostVars>>

(* The helper ends: its input ended, an error (a host out of reach, a full *)
(* disk), or a kill.  A push it was making may still be on the wire.       *)
Stop(c) ==
  /\ pc[c] # "idle"
  /\ Finish(c, "idle")
  /\ tip' = [tip EXCEPT ![c] = 0]
  /\ wire' \in (IF pc[c] = "cas" THEN LeftOnWire(c) ELSE {wire})
  /\ UNCHANGED <<log, storeVars>>

-----------------------------------------------------------------------------
\* A helper at work on a command goes on by itself.
HelperStep(c) ==
  \/ IndexPack(c) \/ AddHave(c) \/ FetchDone(c)
  \/ NothingAccepted(c) \/ BuildPush(c)
  \/ RepackFoundLanded(c) \/ RepackFetches(c) \/ BuildRepack(c)
  \/ Land(c) \/ Stale(c) \/ Fail(c) \/ CheckTip(c) \/ Retry(c) \/ Record(c)

Next ==
  \E c \in Clone :
    \/ \E x \in Commit : NewCommit(c, x)
    \/ Connect(c) \/ BeginFetch(c) \/ BeginRepack(c)
    \/ \E batch \in Batch[c] : BeginPush(c, batch)
    \/ HelperStep(c)
    \/ LateLand(c) \/ LateStale(c)
    \/ Stop(c)

Spec == Init /\ [][Next]_vars

(* The processes a running helper starts (git, on the user's repository    *)
(* and against the host) return, so a helper in a command takes its next   *)
(* step.  Nothing makes users act, the wire deliver or a helper die.       *)
FairSpec == Spec /\ \A c \in Clone : WF_vars(HelperStep(c))

-----------------------------------------------------------------------------
\* Types.

Manifests ==
  [generation : Nat, refs : [Ref -> Commit \cup {NoCommit}], packs : Seq(Pack)]

Asked == [touched : SUBSET Ref, forced : SUBSET Ref]

BackendCommit ==
  [on : Nat, manifest : Manifests, tree : SUBSET Pack, repack : BOOLEAN, asked : Asked]

StagedSet == [wants : SUBSET Commit, bases : SUBSET Pack, packs : Seq(Pack)]

\* Nothing is neither of these.
ASSUME NothingAssumption == Nothing \notin StagedSet /\ Nothing \notin BackendCommit

Op ==
  [kind : {"none", "fetch", "repack"}, specs : {<<>>}] \cup [kind : {"push"}, specs : Batches]

Places == {"idle", "ready", "fetch", "indexed", "attempt", "build", "cas",
           "landed", "failed", "lost", "broken"}

TypeOK ==
  /\ log \in Seq(BackendCommit)
  /\ objs \in [Clone -> SUBSET Commit]
  /\ have \in [Clone -> SUBSET Pack]
  /\ pc \in [Clone -> Places]
  /\ tip \in [Clone -> 0..Len(log)]
  /\ op \in [Clone -> Op]
  /\ attempt \in [Clone -> 0..PushAttempts]
  /\ staged \in [Clone -> StagedSet \cup {Nothing}]
  /\ draft \in [Clone -> BackendCommit \cup {Nothing}]
  /\ wire \in [Clone -> BackendCommit \cup {Nothing}]

-----------------------------------------------------------------------------
\* Safety.

(* A list of packs that indexes, in its order, into an empty repository:   *)
(* every delta base is in an earlier pack (remote.rs:1064, `--fix-thin`).  *)
IndexesInOrder(packs) ==
  \A i \in DOMAIN packs :
    \A x \in packs[i].thin : \E j \in 1..(i - 1) : x \in packs[j].holds

(* Whatever landed, in whatever order, after whatever crash or retry: a    *)
(* new clone of any tip can index its packs one by one and then holds all  *)
(* the history its refs reach (try_push's reuse of staged packs, 1666).    *)
EveryTipRebuilds ==
  \A v \in DOMAIN log :
    LET m == log[v].manifest IN
    /\ IndexesInOrder(m.packs)
    /\ Reach(Known(m)) \subseteq Holds(m.packs)

(* No manifest lists a pack twice: readers refuse one that does (the       *)
(* parser in manifest.rs), so a push that landed but was reported failed   *)
(* must not list its packs again (remote.rs:1589).                         *)
PacksListedOnce == \A v \in DOMAIN log : IsInjective(log[v].manifest.packs)

(* What the have list names is here, whenever the helper died: else a      *)
(* later fetch would skip a pack it never indexed (remote.rs:1064-1081,    *)
(* 1592, 1833).                                                            *)
HaveMeansIndexed == \A c \in Clone : \A p \in have[c] : p.holds \subseteq objs[c]

(* No fetch meets a state it can never get out of: a listed pack missing   *)
(* from the tree, a delta without its base, a ref still incomplete with    *)
(* every pack indexed (remote.rs:1143, 1248, 1623).                        *)
NeverBroken == \A c \in Clone : pc[c] # "broken"

(* Each tip is one generation and one commit above the one it replaced,    *)
(* also when pushes raced, failed after landing or landed late: the bound  *)
(* readers put on generations counts on it (check_generation_jump).        *)
OneGenerationPerCommit ==
  \A v \in DOMAIN log : log[v].on = v - 1 /\ log[v].manifest.generation = v

(* No pack line is lost: a push other than a repack keeps the packs of the *)
(* tip it replaces, in their order, before its own.                        *)
NoPackLineLost ==
  \A v \in DOMAIN log :
    ~log[v].repack =>
      LET old == ManifestAt(v - 1).packs
          new == log[v].manifest.packs
      IN Len(old) <= Len(new) /\ SubSeq(new, 1, Len(old)) = old

(* A lost race means another push landed: retries never spin among         *)
(* themselves (remote.rs:1780-1787).                                       *)
LostRaceMeansProgress == \A c \in Clone : pc[c] = "lost" => Len(log) > tip[c]

(* A repack that lands lists exactly what the refs reach: all of it, and   *)
(* nothing a ref no longer reaches, its packs kept from an earlier attempt *)
(* or not (remote.rs:1303, 1668).                                          *)
RepackIsExact ==
  \A v \in DOMAIN log :
    log[v].repack => Holds(log[v].manifest.packs) = Reach(Known(log[v].manifest))

-----------------------------------------------------------------------------
\* What steps may do.

(* A repack reported done left only packs of a repack on the tip it ends   *)
(* on, also when it found its own earlier attempt landed and other pushes  *)
(* on top of it (remote.rs:1589).                                          *)
DoneRepackHolds ==
  [][\A c \in Clone :
       Repacking(c) /\ pc'[c] = "ready" =>
         \E v \in 1..tip'[c] :
           log[v].repack /\ log[v].manifest.packs = log[tip'[c]].manifest.packs]_vars

(* The remote implements the abstract store of refs: pushes take effect    *)
(* one at a time, on the refs as they then are; refs nobody forced only    *)
(* move forward; nothing stored and reachable is lost.                     *)
Tip == ManifestAt(Len(log))

Store == INSTANCE RefStore WITH
  refs   <- Tip.refs,
  stored <- Holds(Tip.packs),
  asked  <- IF log = <<>> THEN [touched |-> {}, forced |-> {}] ELSE log[Len(log)].asked

ImplementsRefStore == Store!Spec

-----------------------------------------------------------------------------
\* Liveness.

(* Every command ends: a fetch runs out of packs, a push or a repack out of *)
(* attempts, or the helper exits.                                          *)
CommandsEnd == \A c \in Clone : (op[c].kind # "none") ~> (op[c].kind = "none")
=============================================================================
