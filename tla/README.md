# Verification of git-remote-enc

`git-remote-enc` is a git remote helper: it lets several people share a git
repository through a host that must not read it. The host keeps an ordinary git
repository with one branch. Each commit of that branch carries a signed,
encrypted *manifest* (a generation number, the refs, the list of packs, the
participants) and the encrypted pack files as blobs. A push replaces the
branch's tip by a compare-and-swap (`git push --force-with-lease`). The host
interprets nothing, may be slow, lose answers, restore backups or delete the
branch.

This directory holds TLA+ models of that program, the TLC runs that check them
and proofs checked by TLAPS. Paths below are relative to the repository.

## 1. The system

| component | source | state | operations | what makes it correct |
|---|---|---|---|---|
| push, fetch, repack | `crates/enccore/src/remote.rs` | manifest and tip read on connecting, staged packs | `connect`, `fetch`, `push`, `repack`, retries | refs behave as one atomic store; every tip can be rebuilt by a new clone; no reader gets stuck |
| backend repository | `backend.rs` | the branch, a tracking ref, cached blobs, an upload branch | `fetch_tip`, `build_commit`, `push`, `remote_tip`, `rewrite_epoch`, `drop_*` | the lease is the tip the commit was built on; the tree has every listed pack |
| manifest acceptance | `remote.rs` (`load_manifest`, `check_generation_jump`) | none of its own | verdict on a fetched manifest | never accepts what goes back, forks, or is not signed by a participant; never refuses an honest remote |
| local state | `state.rs` | trust file, marker `<key>.known`, have list, shallow list, fetch lock | `save_trust`, `mark_known`, `add_have`, `lock_fetch`, `forget` | the trust file only advances; the marker stands for trust state; the have list for indexed packs |
| shallow clones | `remote.rs` (`fetch_packs`, `plan_boundary`, `set_boundary`, `completable_boundary`), `git.rs` | `.git/shallow`, the list of boundaries this remote set, the have list | snapshot fetch, deepening, push and repack from a shallow clone | history is never taken for complete when it is not; the remote never loses what its refs reach |
| audit log | `remote.rs` (`history`) | none | walk of the branch's commits | flags every manifest that breaks the writers' rules |
| participants, init, join, invite, doctor | `git-remote-enc/src/main.rs`, `setup.rs`, `config.rs` | the configured lists | edit the lists, show and push them | what is pushed is what was shown; who accepted the remote accepts what follows |
| manifest text | `manifest.rs` | none | parse, render | parse inverts render; duplicates refused |
| pack parts | `parts.rs` | none | `find`, `PartWriter` | parts come back complete and in order |
| pre-push guard | `guard.rs` | none | `check` | private commits do not leave by a plain remote |
| helper command loop | `main.rs` (`helper`) | the current batch | `list`, `fetch`, `push` | commands of a batch are answered in order |
| cryptography | `crypto.rs` | keys | sign, encrypt | taken as ideal |
| git plumbing, configuration, progress, version | `git.rs`, `config.rs`, ... | none | I/O | not modelled |

### How they interact

git starts a helper process per command. The helper connects: under the *fetch
lock* it fetches the branch (which moves the backend's tracking ref), reads the
manifest at its tip, decides whether to accept it (`load_manifest`), writes the
trust file, then the marker, and keeps tip and manifest in memory. A fetch then
indexes, one after another, the packs that are not on the have list. A push
checks the refspecs against the manifest, builds a thin pack, writes a commit on
the tip it read and pushes it with that tip as lease. On a stale lease, or on a
failure after which the branch turns out to have moved, it reconnects and tries
again, keeping the packs it built when they still serve. When its push landed it
records it: tracking ref and trust file under the lock, have list and marker
after it. A repack does the same with packs built anew that replace all others.
Helpers of one repository run at the same time and share the state directory and
the backend repository; clones share nothing but the host. Pack blobs pass
through the backend repository: a fetch downloads and indexes them under the
lock, a push stores them, sends large packs ahead on an upload branch, and both
drop them again once they have served. `init`, `join` and `participants` edit
git's configuration, which a helper reads once, when it starts.

### What is hard

- **Races**: two clones against one tip; two helpers of one repository against
  one trust file; a `forget` against either.
- **Lost answers**: a push that landed but is reported failed; a push that lands
  after its helper gave up, or died.
- **State read before a retry and used after it**: packs built thin against
  packs a repack has dropped since; repacked history for refs that moved.
- **Crashes** between indexing and recording, between landing and recording,
  between the trust file and the marker.
- **Blobs deleted behind git's back**, while other helpers download, index, keep
  or push them, and while git must go on taking the repository for sound.
- **Configuration read once**, shown, and pushed after lost races over manifests
  nobody was shown.
- **Boundaries over several repacks**: each repack replaces the snapshot and the
  history behind it, while shallow clones keep boundaries of older ones.
- **A host that goes back**: a restored backup, a lagging mirror, a deleted
  branch, while pushes go on from there.

The full list, each at the line where it bites and with the properties that
watch it, is under "hazards" in `PROJECT.json`.

## 2. The modules

| module | models | |
|---|---|---|
| `RefStore` | the abstract remote: refs changed by atomic pushes, a store that can give back what they reach | specification only |
| `EncRemote` | the protocol of `remote.rs` and `backend.rs` between several clones and the host | state machine |
| `EncRemote_proofs` | types, generations, pack lines, have lists of `EncRemote` | TLAPS |
| `EncRemoteTips_proofs` | what every tip gives a reader, what a finished repack leaves, and the refinement of `RefStore` | TLAPS |
| `MCEncRemote` | histories, batches and clones for TLC | constants |
| `Trust` | acceptance and local trust state: several helpers of one repository, one remote, a host that may go back | state machine |
| `Trust_proofs` | types, what is used is recorded, the marker, accepted state only advances; bounded generations, reported rewrites, honest remotes never refused | TLAPS |
| `MCTrust` | people and participant lists for TLC | constants |
| `Shallow` | a shallow clone and its remote: packs fetched and skipped, boundaries, pushes and repacks from it | state machine |
| `Shallow_proofs` | types, the record of boundaries, fetches that connect and complete, pushes that leave the remote whole, when the history stays whole | TLAPS |
| `MCShallow` | histories and what others do to the refs, for TLC | constants |
| `Blobs` | the backend repository: pack blobs cut, stored, staged, pushed, fetched, sealed and dropped by helpers that share it | state machine |
| `Blobs_proofs` | types, staged packs, the fetch lock | TLAPS |
| `BlobsCache_proofs` | what blobs are kept for: retries, walks, owners, whole packs | TLAPS |
| `BlobsParts_proofs` | recursion over numbers and sequences, the parts of a pack, upload batches | TLAPS |
| `MCBlobs` | which helper does what, for TLC | constants |
| `Lists` | participant and admin lists: the configuration, the commands that edit it, and the pushes that change a manifest's | state machine |
| `Lists_proofs` | types, lists pushed as shown, the rules of the lists | TLAPS |
| `MCLists` | edits and hand-written configurations for TLC | constants |

The modules share one idea of the branch, a log moved by compare-and-swap, and
each takes the part of a helper it is about in full and the rest as short as its
questions allow: `EncRemote` has packs and refs, `Trust` signers and
generations, `Shallow` boundaries, `Blobs` blobs and locks, `Lists` lists.

### EncRemote

The branch is `log`, the sequence of backend commits that were its tip: a tip is
named by its position, and `--force-with-lease` becomes `Len(log) = d.on`. (The
branch of this module never goes back; a host that moves it is in `Trust`.)
A commit of the users' history stands for itself and the trees and blobs it
introduces; `Anc` gives its ancestors. A pack is the set of commits it holds,
the commits its deltas may be against (`thin`) and a build name: pack names are
hashes of a ciphertext under a fresh key, so two builds never share one.

One helper per clone at a time, at the place `pc[c]`:

| pc | code | actions from there |
|---|---|---|
| `idle` | no helper | `Connect` (`list`, `connect`) |
| `ready` | connected, no command | `BeginFetch`, `BeginPush`, `BeginRepack` |
| `fetch` | `fetch_packs`, next pack | `IndexPack`, `FetchDone` |
| `indexed` | between `index_pack` and `add_have` | `AddHave` |
| `attempt` | top of `try_push` | `NothingAccepted`, `BuildPush`, `RepackFoundLanded`, `RepackFetches` |
| `build` | a repack that fetched | `BuildRepack` |
| `cas` | commit written, before `Backend::push` | `Land`, `Stale`, `Fail` |
| `landed` | git reported success | `Record` |
| `failed` | git reported a failure | `CheckTip` (`remote_tip`) |
| `lost` | `PushOutcome::Lost` | `Retry` (`push_attempts`) |
| `broken` | a fetch that can never succeed | none of the program: a state the properties exclude |

`Stop` is any end of the helper: end of input, an error, a kill. `LateLand` and
`LateStale` deliver a push that was on the wire when its helper stopped waiting
(`Fail`, `Stop`). `NewCommit` is the user committing. The packs of an attempt
(`staged`) survive lost races, as in `push_attempts`, and are looked for in the
manifest read again (`AlreadyListed`, `RepackLanded`) and kept if they still
serve (`Reusable`).

The choices git makes are widened, not guessed: a thin pack's deltas are taken
to be against everything the excluded tips reach; a push that fails may or may
not be on the wire.

### Trust

`commits` is every backend commit made, by anyone; `branch` is where the host's
branch is now, which `HostRestores` and `HostDeletes` may move anywhere. A
manifest is its generation, repository id, predecessor, rewrite epoch, signer,
lists and first-parent chain. One repository runs the helpers `Proc`, which
share `trust` (the trust file), `known` (the marker), `tracking`, `dir` (the
state directory, which `forget` removes with the lock file in it) and `lock`.
`Fetch`, then `Accept` and `Mark` or `Refuse`, are `connect` under the lock;
`Push`, `Record`, `SaveRecord` and `Note` are the second half of `try_push`;
`Forget` and `ForgetMarker` are `State::forget`. Crashes may come between any two.
`Acceptable` is the whole of `load_manifest`'s verdict, with the bound on
generations of `check_generation_jump`. `Discontinuities` and `Verified` are what
`history`, the audit log, finds on the line of an accepted commit.

### Shallow

`manifest` is the one at the tip of the branch, with a pack's commits (`holds`),
the commits its deltas are against (`thin`) and the snapshot: the tips of the
last repack and its history pack. The clone has its object store `objs`, the
commits its refs name, `.git/shallow` (`listed`), the helper's list of the
boundaries this remote set (`mine`) and the have list. `Walk(S, cut)` is what
`git rev-list` reaches: it stops at the boundaries, and a missing commit it
meets stays in the result, so `Walk(...) \subseteq objs` is git's connectivity
check. `Reaches`, from which it is made, is a relation filtered from all triples
because TLC evaluates that once.

| pc | code | actions from there |
|---|---|---|
| `idle` | no helper | `Begin`, `Push`; what users and others do |
| `index` | the loop of `fetch_packs` | `IndexPack`, `HistoryForDeltas`, `IndexFails`, `Indexed` |
| `plan` | `plan_boundary` | `HistoryForBoundary`, `Plan` |
| `record`, `graft`, `settle` | the three writes of `set_boundary` | `Record`, `Graft`, `Settle` |
| `verify` | `refs_complete` | `HistoryForRefs`, `Verified` |
| `end` | the helper answers; git checks and moves its refs | `EndFetch`, `Repack` |
| `broken` | the fetch failed with an error | `Crash` (the user goes on) |

`Crash` may come at every one of them. Others have complete clones: they force,
delete and repack between helpers (`OtherPush`, `OtherRepack`), with packs whose
deltas are against nothing or against everything reached. The user commits,
drops refs, runs `git gc --prune=now`, and fetches with a depth from another
remote, whose boundaries share `.git/shallow`. A push or repack here is one step
and the branch stays while a helper works; the races are in `EncRemote`.

### Blobs

`log` holds the trees of the branch's tips; a pack is a name, and its blobs are
the names of its parts in a tree (`PartNames`), cut by `Cut` as `PartWriter`
does and found again by `Find`. The backend repository is `tracking`, `loose`
and `packed` blobs (a blob over `core.bigFileThreshold` gets a pack of its own,
which a multi-pack-index may keep from being deleted), `fetched` (the promisor
packs of downloads) and `promised`, the commits in promisor packs. What a
promised commit names may be missing (`Excused`); `Connects` says that a walk of
git meets nothing else missing, and is the guard of `Seal`.

| pc | code | actions from there |
|---|---|---|
| `idle` | no helper | `Begin` (`connect`, then a command) |
| `lock`, `ensure`, `index` | `fetch_packs` | `LockFetch`, `EnsureBlobs`, `IndexPack`, `FetchFails` |
| `index`, all indexed; `drop loose`, `drop fetched` | `drop_loose`, `drop_fetched_blobs` | `SealLoose`, `DropLoose`, `DropFetchedBlobs` |
| `attempt` | `try_push`: packs found listed | `Attempt`, `GiveUp` |
| `build` | reuse, or `build_pack` and `stage` | `Reuse`, `Rebuild`, `BuildNothing`, `Stage`, `StageFails`, `BuildFails` |
| `upload` | `stage`: batches to the upload branch | `Upload`, `UploadFails` |
| `push` | `Backend::push` | `Land` (heard, or not), `LoseRace`, `PushFails` |
| `retry` | `push_attempts`: reconnect | `Retry`, `GiveUp` |
| `landed` | `PushOutcome::Done` | `Record`, `RecordFails`, `RecordUnlocked` |
| `discard`, `drop stored`, `delete upload` | `discard` | `SealStored`, `KeepStored`, `DropStored`, `DeleteUpload` |

`Crash` may come at each of them. Which refs a push carries is not in this
module, so whether a kept pack still serves the refs goes both ways (`Reuse`,
`Rebuild`). `spoiled` names the packs a failed or killed step was handling:
deleting is best effort there, in the code's own words, and `CachedBlobsOwned`
and `UploadsOwned` are about all others.

### Lists

A manifest is its two lists and its signer, with what its pusher had been shown
kept as history. Each person has a clone, with `config` (the configured lists)
and `trust` (the manifest accepted last). `Edit` is `participants --add/--remove`
up to its configuration change, `Open` reads the configuration for good and
shows the outcome, `Confirm` or `Decline` answers, `Attempt`, `Land`, `LoseRace`
and `Retry` are the push; `Apply` and `Push` start at `Open`. `SetParticipants`
unsets a list and adds it key by key, and may be killed in between. `GitConfig`
is somebody with an editor, at any moment. `Stop` ends any command, and every
error of the code is a `Stop`: it leaves the configuration as it is.

## 3. The properties

Of `EncRemote`:

- `ImplementsRefStore`: the remote implements `RefStore`. The refinement maps
  the refs of the tip's manifest to `refs`, what its packs hold to `stored`.
  A push lands as one atomic step on the refs as they are *then*; a ref nobody
  forced only moves forward; nothing stored is lost but by a repack, and a
  repack keeps exactly what the refs reach.
- `EveryTipRebuilds`: the packs of every tip index in their order into an empty
  repository and give all the history its refs reach.
- `NeverBroken`: no fetch gets stuck on a missing pack, a missing delta base or
  a ref that stays incomplete.
- `HaveMeansIndexed`, `PacksListedOnce`, `NoPackLineLost`,
  `OneGenerationPerCommit`, `LostRaceMeansProgress`, `RepackIsExact`,
  `DoneRepackHolds`: the parts, each against a different way to go wrong.
- `CommandsEnd` (liveness): every command ends.

Of `Trust`: `TrustAdvances` (what was accepted is not taken back),
`UsedIsRecorded` (a helper works with what it recorded), `MarkerMeansTrust`,
`NeverRefused` (no false alarm against an honest host), `LogIsClean` (none in the
audit log either), `NoGenerationRunsAhead`, `RewriteReported`.

Of `Shallow`:

- `HistoryWhole`: what the local refs reach is here, down to the boundaries. It
  holds with one branch; with a second one that comes and goes it does not
  (`shallow_cut`, section 6).
- `DropsConnect`: a boundary goes only where the history behind it has come, down
  to the other boundaries. This is the one step by which a helper can break
  `HistoryWhole` (section 5), and the one `shallow_cut` takes.
- `FetchConnects`: no fetch fails for history the snapshot lacks.
- `PushesWhole`: no push or repack leaves a remote that cannot be cloned
  (`RemoteWhole`), or a snapshot whose history is missing (`SnapshotWhole`).
- `BoundaryRecorded`: a boundary of this remote is always on its list.
- `OthersStay`: deepening removes no other remote's boundary.
- `Completed`: after a full fetch, the boundaries left are those `doctor` calls
  stuck, and the remote no longer has their parents.

`FetchConnects`, `PushesWhole` and the second half of `Completed` assume
`NothingPruned`: no gc took what a pack on the have list brought (section 6).
`PushesWhole` speaks of `SnapshotWhole` because `RemoteWhole` alone does not
survive: with more branches and generations than TLC is given, a repack made
while a pack was pruned can leave a snapshot without its history; once the refs
have moved and need that history no more the remote is whole again, until a push
onto a boundary counts on it. The proof asked for it, and TLC then found this
with two branches and five generations.

Of `Blobs`:

- `NoBrokenLink`: a walk of the backend repository finds each blob here or
  promised, whatever was dropped and whoever died: `gc` and `fsck` succeed. A
  pack *pushed again* is exempt (section 6).
- `IndexerHasBlobs`: what a fetch downloaded stays until it is indexed.
- `RetryHasBlobs`: a push can send its pack after any number of lost races. A
  pack that landed unheard before is exempt: another helper's fetch treats its
  blobs as the remote's, and the retry finds the pack listed unless a repack
  took it off the list.
- `CachedBlobsOwned`, `UploadsOwned`: no blob and no upload branch outlives the
  helper that uses it, but where a step failed.
- `ListedPacksWhole`: every listed pack is found in the tree, complete, by the
  names its pusher gave.
- `BatchesFit`: the batches of an upload hold each part once, in order, within
  the limit.

Of `Lists`: `ListsAsShown` (a plain push changes no list, a change pushes what
it showed, whatever races it lost and whatever the configuration is by then) and
`NextIsAccepted` (whoever accepted a manifest accepts the next one; no remote is
left without an admin who takes part).

Each property of a passing run has a mutant: a plausible bug in one mapped
definition, kept beside it in the module, under which TLC finds the property
violated in the same run.

## 4. The runs

| run | instance | shows |
|---|---|---|
| `race` | two clones with forked history, two refs; one pushes both refs at once and repacks, the other forces one, deletes it and fetches; 3 landings, 2 attempts, answers lost, helpers killed | readers never stuck; kept packs serve only where they may; one atomic store of refs |
| `late` | two clones force one ref, one of them with history made as it goes; the other's pushes may land after their helper is gone; fair helpers; 2 landings | landing late, or unheard, does no harm; every command ends |
| `trust_host` | two helpers that only connect; a host that restores; a participant who pushes, rewrites and may skip a generation | nothing accepted goes back; a rewrite is reported before anything on it is accepted, also when it was first refused |
| `trust_push` | two helpers that push and may be killed; an honest host; a participant who may start the history over | no false alarm, also in the log, no lost state |
| `trust_forget` | one helper pushes, one forgets; crashes, a lock that fails, a host that deletes the branch, writers that skip a generation | helpers work with what they recorded; the bound on generations |
| `shallow_clone` | four commits with a fork, one branch; others force it and delete it, repack; another remote serves one commit; 4 generations | a shallow clone's history stays whole, its fetches connect, its pushes leave a whole remote |
| `blobs` | one helper pushes and repacks, one fetches; packs of one or three parts, one blob each loose or packed; uploads in two batches; others push and repack; 3 landings, 2 attempts, 2 failures or kills | blobs are there while needed, promised before they go, and gone afterwards |
| `lists` | two people and a third key; add and remove, apply, push, a hand-written configuration with other admins; 3 landings, 2 attempts, one kill or hand edit | pushed as shown, accepted by all |
| `trust_unrecorded`, `trust_missed`, `trust_forked`, `shallow_cut` | violations, see section 6 | |

**Bounds.** Two clones are enough for each hazard listed: every one is between
one helper and one other actor that moves the branch (or the shared files), and
which one does not matter. `PushAttempts = 2` (3 in the program) has a first
attempt, a retry and the giving up; nothing depends on which retry it is but
what was staged, which a second attempt already carries. `MaxVersion` landings
give a base, a change under a helper's feet and its retry on top (`late`, which
also checks liveness, has two: the landing and the push it races). What would
take a fourth, a push, a repack, a deletion and a retry that keeps its pack, is
beyond TLC with everything else `race` has on; there the theorems of section 5
stand for every bound. Three commits make a fork, two a line. `BuildId` is
larger than the number of packs alive at once, so a build is never refused for
lack of a name: that bounds nothing the program does. `Laggards` bounds the
pushes on the wire to one per clone. `MaxCommits = 4` in `Trust` (3 in
`trust_forget`) allows two accepted generations, a fork off the first and one
commit on top. `MaxGeneration = 4` in `Shallow` is the clone's snapshot, a
change, the repack that drops the clone's history and what the clone does then.
Each run switches on the faults its question is about and leaves the others to
the next run, because together they exceed what TLC can enumerate: `race` has no
pushes on the wire, `late` no repacks, `trust_host` no pushes of our own. In
`blobs` packs of one and of five bytes, with parts of two and batches of three,
make a pack stored whole, one of three parts whose last is short and two
batches, the first of one part that could not hold two, the second of exactly
its limit; a blob of two bytes is over the big file threshold and gets its own
pack, one of one byte is loose. Two packs and three landings make a push,
another's and a retry on top or a repack; two faults make a lost answer or a
kill and a failure to clean up after it. Two helpers there share the lock, and a
third would find nothing else. In `lists` a hand edit or a kill happens once;
two of three keys are people, the third is on a list without being an admin.
Three landings are a remote, a change and a change raced by it. The two helpers
of `trust_host` have the same role and are a symmetry set (the properties there
are invariants and action properties, for which that is sound); elsewhere the
roles differ and no symmetry is used.

**Fairness.** Only `late` assumes any: weak fairness of `HelperStep(c)` for each
clone. Every step in it is the helper's own code or waits for a git process it
started, which either returns or is killed by the user, and then `Stop` is what
happens. Nothing is assumed of users, of the wire or of other clones, so the
result says that a push ends *because* its attempts are bounded and a fetch
because the manifest it read is. `Fail` and `Stop` stay possible throughout.

Deadlock is checked in all runs: a user may always start or stop a helper.

The largest runs, `race` and `blobs` (600,000 and 1.7 million states), take a few
minutes with two workers, the others less.

## 5. What is proved

TLAPS proves the following of the specifications as TLC runs them, for every value
of the constants: any number of clones or helpers, any histories, packs, lists and
sizes, and any bounds, so that what section 4 says of bounds limits only what TLC
has seen.

| module | theorem | property | where |
|---|---|---|---|
| `EncRemote_proofs` | `TypeCorrect` | `TypeOK` | |
| | `LostRaceProgress` | `LostRaceMeansProgress` | |
| | `GenerationsFollow` | `OneGenerationPerCommit` | |
| | `PackLinesKept` | `NoPackLineLost` | |
| | `HaveIsIndexed` | `HaveMeansIndexed` | |
| `EncRemoteTips_proofs` | `TipsRebuild` | `EveryTipRebuilds` | |
| | `ListedOnce` | `PacksListedOnce` | |
| | `RepacksExact` | `RepackIsExact` | |
| | `RepacksHold` | `DoneRepackHolds` | |
| | `NoFetchBreaks` | `NeverBroken` | |
| | `IsRefStore` | `ImplementsRefStore` | |
| `Trust_proofs` | `TypeCorrect` | `TypeOK` | |
| | `UsesWhatItRecorded` | `UsedIsRecorded` | |
| | `MarkerStands` | `MarkerMeansTrust` | no `forget`, the lock can be taken |
| | `TrustOnlyAdvances` | `TrustAdvances` | any host, helpers that only read, forks refused; or an honest host |
| | `GenerationsBounded` | `NoGenerationRunsAhead` | no rewrites, no host that goes back |
| | `RewritesAreReported` | `RewriteReported` | any host, helpers that only read, none killed, no `forget` |
| | `HonestIsNeverRefused` | `NeverRefused` | `Steady` |
| | `HonestLogIsClean` | `LogIsClean` | `Steady` |
| `Shallow_proofs` | `BoundariesAreRecorded` | `BoundaryRecorded` | |
| | `OthersBoundariesStay` | `OthersStay` | |
| | `TypeCorrect` | `TypeOK` | |
| | `FetchesConnect` | `FetchConnects` | |
| | `FullFetchesComplete` | `Completed` | |
| | `PushesLeaveWhole` | `PushesWhole` | |
| | `DeepeningConnects` | `DropsConnect` | `ComesWhole`, nothing is ever pruned |
| | `HistoryStaysWhole` | `HistoryWhole` | `ComesWhole`, nothing is ever pruned |
| | `WithoutDepthHistoryWhole` | `HistoryWhole` | no fetch with a depth from this remote |
| | `StaysWhole` | | nothing is ever pruned |
| `Blobs_proofs` | `TypeCorrect` | `TypeOK` | |
| | `IndexersKeepTheirBlobs` | `IndexerHasBlobs` | |
| `BlobsCache_proofs` | `NothingIsMissing` | `NoBrokenLink` | |
| | `RetriesHaveTheirBlobs` | `RetryHasBlobs` | |
| | `BlobsHaveOwners` | `CachedBlobsOwned` | |
| | `UploadsHaveOwners` | `UploadsOwned` | |
| | `ListedPacksAreWhole` | `ListedPacksWhole` | |
| `BlobsParts_proofs` | `BatchesFitUploads` | `BatchesFit` | |
| `Lists_proofs` | `TypeCorrect` | `TypeOK` | |
| | `ChangesAreShown` | `ListsAsShown` | |
| | `WritersKeepTheRules` | `NextIsAccepted` | |

Apart from the hypotheses in the last column they rest on the named assumptions
of the modules, which say what kind of thing each constant is. Those that say
more: in `EncRemote` ancestry is reflexive and transitive (`AncAssumption`), clones
start with complete history (`InitialAssumption`), and the value for "none" is
neither a set of staged packs nor a commit (`NothingAssumption`); in `Blobs` and
`Trust` the value for "no helper" is no helper, and in `Blobs` that for "none" is
not a staged pack (`HelperAssumption`, `NoProcAssumption`); in `Lists` people and signers are keys,
edits and hand-written configurations are sets of keys; in `Shallow` there is
room for the generation the remote is cloned at (`GenerationAssumption`).

The argument for `EncRemote` has five layers, each an inductive invariant with an
`Init` lemma and a step lemma that goes through all actions.

1. `TypeInv` is `TypeOK` and `HelperOK`: a helper at the compare-and-swap has a
   commit built on the tip it read, and one that landed or lost a race is behind
   the branch. Without it `Record` could move a tip past the end of the branch,
   so `TypeOK` alone is not inductive. `LostRaceMeansProgress` is its second part.
2. `LineInv`: every commit that landed, is being pushed or is on the wire
   `Extends` the branch: its generation is the next of the tip it was built on,
   and it lists that tip's packs first unless it repacks. This must be said of
   commits *in flight*, because that is where the lease and the contents could
   part. The lease then makes the commit's base the tip it replaces.
3. `StoreInv`: what each clone counts on is in its store: the have list, the
   pack between `index_pack` and `add_have`, what the refs reach while a repack
   builds, and the staged packs, since an attempt that landed unheard puts those
   on the have list. `HaveMeansIndexed` is its first part, and not inductive
   without the others.
4. `TipsInv`: every commit, landed or in flight, is `Sound` (its packs index in
   order, hold what its refs reach, are in its tree, and none is listed twice; a
   repack holds no more) and `Replaces` the manifest it was built on as it was
   asked to. What makes it inductive is what it says of *staged packs*: with the
   packs listed when they were built (`bases`) they hold all that the tips they
   were built for reach, and their deltas are against those packs. That is why
   `try_push` may keep them only while all of those packs are listed and the
   tips are the same; drop either condition of `Reusable` and the step for
   `BuildPush` has no proof.
5. `OriginInv` follows packs to the commit that brought them. Those a repack has
   staged are listed nowhere but in a commit of that very repack and in commits
   pushed on top of it, which list them first (`Comes`). That a commit in flight
   adds no other origin (`Brings`) needs it to list only what its base lists and
   what its own helper staged, and no two clones to have staged the same pack;
   both hold because what is built anew has a build no pack has
   (`FreshIsNew`). It is preserved by two lemmas: `BuildsOrFrames` says that a
   step builds (`OriginBuild`), or leaves staged packs and drafts as they are or
   drops them, while at most one commit in flight lands (`OriginFrame`).

`RepacksHold` rests on the fifth. A helper that heard of its landing is at its own
commit. One that looked again found one of its packs listed, so a commit of its
repack is at or below the tip and the tip lists its packs first; the tip lists
as many as were staged, so these are all there are. The third test at
remote.rs:1592, that every staged pack is listed, is therefore implied by the
other two.

`NoFetchBreaks` combines the third and the fourth. For `IsRefStore`, a landing
finds the branch at the commit's base (the lease), so what `Replaces` says of the
base is a step of `RefStore` on the present refs; every other step leaves `log`
alone.

Of `Trust`:

1. `LockInv`: the fetch lock is held by exactly the helper that is between
   fetching and recording, or recording a push (`Locked`), and such a helper works on a
   commit (`AtCommit`). `UsedIsRecorded` is not inductive without: it is the lock
   that keeps another helper from recording between `Accept` and `Mark`, and
   `forget`, which deletes the lock file with the directory, takes it first.
2. `MarkerInv`: the directory stands, the marker means trust state, and so does
   being about to write the marker after a push. Both hypotheses are needed: a
   lock that cannot be taken is finding `trust_unrecorded`, `forget` the hazard
   at remote.rs:1835.
3. `TrustAdvances` has two proofs. A helper that fetched compares with the trust
   file under the lock, so the host may do what it likes as long as the helpers of this
   repository do not push. A push that is recorded late compares generations only; there
   `InOrder`, that commits land in the order of their generations in one
   repository, is what makes "later" mean "on top". A host that goes back under a
   pusher is finding `trust_forked`. That an honest host's writers skip no
   generation is not assumed, only that none repeats one.
4. `Straight` and `BoundedInv` for `NoGenerationRunsAhead`: without rewrites a
   first-parent line is all of its repository up to the commit, so the pushes
   that `check_generation_jump` counts are those that were made.
   `BoundedInv` must also hold of commits a helper pushed and has not recorded.
   A host that deletes the branch and `forget` are allowed.
5. `Nested` and `ReportInv` for `RewriteReported`: a line holds the lines of its
   commits; and while nobody holds the lock, either a rewrite has been reported
   or what was accepted is on the line of the tracking ref. That is how a refused
   first sight of a rewrite, which moves the tracking ref, is not forgotten. A
   helper killed between the two is a hazard of section 6, hence the hypothesis;
   helpers that push are left out because recording a push compares generations
   and not lines.
6. `Steady` says when nobody should be refused: all writers keep the same lists,
   with me on them, first contact is not configured to refuse them, and the host
   is honest, the writers count generations by one, nothing is forgotten or left
   unrecorded. Pushers, killed helpers and participants who start the history
   over are all allowed (`trust_push` is an instance). `Regular` describes such a
   remote: the n-th commit is the n-th generation, replaces the one before, and
   starts a line or goes on with its predecessor's. `HonestInv` adds that a helper
   that checks a tip is not behind the trust file. `trust_missed` shows what
   happens when the lists change.

Of `Shallow`, for every history, set of remotes' commits and bound:

1. `RecordedInv`: between the three writes of `set_boundary`, `BoundaryRecorded`
   alone is not inductive. The boundary planned is on the list before
   `.git/shallow` is written, and afterwards `.git/shallow` holds no boundary of
   this remote's but the planned ones, so that the last write may shorten the
   list.
2. Walks. `Reaches` is defined without recursion, by the sets closed under
   "parents of what is not cut", so four lemmas say all the proofs need: a walk
   holds its start (`WalkStarts`), is such a set (`WalkGoesOn`), the least one
   (`WalkIsLeast`), and boundaries only shorten it (`WalkInReach`).
3. `TypeInv` is `TypeOK` with the manifest as a record. That `NextPack` is a
   listed pack, and that all packs before it are indexed, takes a least number;
   `Least` gets it from the well-foundedness of inclusion among finite sets, as
   the library's induction cannot be used here.
4. `FetchInv` for `FetchConnects` and `Completed`: past the loop of
   `fetch_packs` every pack is indexed but a history pack still skipped; from
   `plan_boundary` on, the boundary planned and then recorded consists of commits
   that are here and whose parents are not; and a fetch that ends having skipped the
   history ends with `refs_complete`. A fetch that skips nothing has all packs,
   hence all a whole remote's refs reach, and the deltas of the next pack are
   against packs before it.
5. `Whole`, which is `RemoteWhole` and `SnapshotWhole`, for `PushesWhole`. A push
   packs a walk that stops at boundaries, so its pack ends at what the refs reach
   already or at a boundary `Completable` lets pass; what is behind that one
   (`Behind`) the remote has by `SnapshotWhole`. A repack drops the very packs
   that hold it, so there the argument is another one: the fetch before it
   indexed all packs, so with nothing pruned the parents of a completable
   boundary are here, while `FetchInv` says that a boundary's are not. Hence
   its walk meets no boundary at all and packs everything the refs reach. This is where
   `NothingPruned` is needed. `StaysWhole` adds that the remote starts whole.
6. `HistoryWhole` and `DropsConnect` are false without a hypothesis
   (`shallow_cut`). `HistoryStep` comes first: only `update_shallow` can break the
   history, by a boundary dropped over a gap. Where objects only come
   (`GrowsWhole`), what the refs walk to after a step is in the walk of before, in
   what came with the new refs, and in the walks from the boundaries that went; of
   the other steps, `Gc` keeps exactly the walk, and `EndFetch` moves refs only
   once `refs_complete` has found the rest.
   When, then, does what `plan_boundary` drops connect? It looks at parents only,
   so the answer is about what others pushed and repacked. `ComesWhole` is that
   condition, a state predicate on packs, objects and boundaries: deepening is
   never piecemeal, i.e. where a boundary's parents are here, the packs the fetch
   is to index hold all of the history behind it. `DeepeningConnects` needs three
   facts more: a boundary left out of the plan has its parents here (`PlanInv`);
   past the loop of `fetch_packs` those packs are indexed (`FetchInv`), hence with
   nothing pruned here; and no other step drops a boundary whose commit is here
   (`WholeDrops`). `HistoryStaysWhole` follows. In `shallow_cut` the parent comes
   with a snapshot while the history behind it is skipped: exactly what
   `ComesWhole` excludes. It does not exclude deepening: with TLC restricted to
   states where both hypotheses hold, boundaries are dropped in the instances of
   `shallow_clone` and of `shallow_cut`, and `HistoryWhole` holds in both.
   `WithoutDepthHistoryWhole` needs neither: where nobody fetches from this remote
   with a depth it never has a boundary (`NeverCut`), and by
   `OthersBoundariesStay` no step drops another's.

Of `Blobs` the invariant is built in `Blobs_proofs` and `BlobsCache_proofs`, as a
tower:

1. `StagedInv` (who is where has a pack, and no two helpers the same one) and
   `Landed` (what a helper that heard of its landing will record is its base's
   tree and its own pack).
2. `LockInv`: who fetches or drops blobs holds the lock; nobody has connected to
   more than the tracking ref; and the blobs an indexing helper wants are here,
   because every step that takes blobs away is one of the lock's holder.
3. `WholeInv`: trees hold whole packs, and what is stored is a part of one. With
   the names of the parts being distinct it gives `ListedPacksWhole` for any cut
   into any number of parts.
4. `OwnedInv`, about blobs, is `CachedBlobsOwned` with what a helper has dropped
   already; `RetryInv` is `RetryHasBlobs` with the difference between a pack kept in the
   repository and one sent ahead on an upload branch.
5. `SealInv`. Blobs are dropped without git's knowledge, so `NoBrokenLink` needs
   to know at the drop what cannot be known from the blobs: that every commit up
   to the tracking ref is sealed by then (nothing is `Walked`). Between `Seal` and
   the drop this stays, because the ref moves only while nobody holds the lock. What a walk
   passes, and what a helper holds and may still record, is `Secure`: stored as
   the repository's own, or promised, or of a pack pushed again. The downloads
   need not count as stored, as whoever made them drops them again: a blob is
   downloaded only when it is not here, and of what is not here every blob was
   promised, or its pack pushed again, before. The exception is the one in the
   property; section 6 says why it is there.

`BatchesFit` is about loops over parts of any number, in the model recursive
functions (`Total`, `Batches`, FlattenSeq). The library's induction cannot be
used here, so `BlobsParts_proofs` begins with what replaces it. Numbers have a
least one for which something fails (`LeastOf`, as above), which gives
`Induction` over an interval for sets instead of formulas; from that, functions
that follow the same recursion agree (`Agree`) and one that follows it exists
(`Recursion`), so that a definition by CHOOSE can be unfolded. Then:

1. `CutTotal`: the parts `Cut` makes add up to the pack, also when the last one
   is full (`Remainder`).
2. `FlattenAppend` and `FlattenGrows`: what a new batch, or a part more in the
   last one, does to all batches in a row; `BytesAppend`, to a batch's size.
3. `Fit` is the invariant of the loop in `stage`: after i parts the batches hold
   the parts 1 to i in order, the running length is that of the last batch, and a
   batch of several parts is within the limit. `StartFits` and `JoinFits` are its
   two branches. Without the running length the limit is not inductive.
4. `CutInv` (every stored pack is what some length is cut into) and `UploadInv`
   (who uploads has batches) carry this to the states of the model.

Of `Lists`, for any keys, people, edits and bounds: neither property is inductive
alone, as a push that is about to land need not keep them. `ListsInv` adds what
holds of a command under way: it knows which command it is; the lists it showed
hold every configured list that it pushes (`ShowsConfigured`), because the
configuration is read once, in `Open`, and kept across retries; and at the
compare-and-swap its checks hold of the manifest it connected to (`Checked`).
`Land` is the step that counts. The lease makes that manifest the one replaced,
so `MayPush` gives `NextIsAccepted`. A pushed list is a configured one, which was
shown, or that of the manifest replaced, which gives `ListsAsShown`.

**Only model-checked**: `CommandsEnd`, liveness under fairness, which is out of the
prover's reach. So is `ENABLED`: that a helper always can go on is
what TLC's deadlock check says of the instances. Every other property the passing
runs check is stated by a theorem, those of the table's last column under its
hypotheses. `RECURSIVE` operators are not used.

## 6. Findings

Four runs show the program departing from what its text says; the lines are
quoted in `PROJECT.json`.

- `trust_unrecorded` (`remote.rs:1835`): when the fetch lock cannot be taken
  after a push landed, the trust file is not written but the marker is. If that
  push created the remote, every later contact is refused, while the warning
  promises that "the next fetch catches up". Running `forget` gets out of it.
- `trust_missed` (`remote.rs:710`): the lists of a fetched manifest are compared
  with those this clone last accepted, also when generations lie between. An
  admin adds a participant, another participant pushes on top, and a clone that
  did not fetch in between refuses the tip until an admin pushes, though both
  writers kept the rules.
- `trust_forked` (`remote.rs:313`): `save_trust` guards against a *later*
  generation only. When the host moves the branch back under a pusher and
  another helper has accepted the manifest rewound away, recording the push
  replaces it by a fork of the same generation, which `load_manifest` would have
  refused.
- `shallow_cut` (`remote.rs:1176`): a shallow clone of `main` has one boundary.
  Others make a branch one commit behind it, repack, and delete that branch. A
  plain fetch indexes the snapshot; `plan_boundary` drops the old boundary, as
  its parent is here now, and sets none at that parent, because the refs are
  walked with the `.git/shallow` of before and do not reach it. `.git/shallow`
  ends up empty over a gap: `git log` fails, and `refs_complete` does not see it
  because the refs it walks are excluded by `--not --all`. The comment there
  counts on no ref reaching such a commit.

Further departures are known and kept out of the passing runs, and are
listed as hazards: the marker is written after the lock is released, so a
`forget` in between leaves it alone, as does a `forget` killed before it removed
the marker, until it is repeated (`MarkerMeansTrust` is therefore checked
without `forget`); and a helper killed after its fetch moved the tracking ref
never reports a rewrite (`RewriteReported` is checked without crashes). Two need
a gc of the user's between two commands, and are why properties of `Shallow`
assume `NothingPruned`. A helper killed after indexing the history pack and
before updating the boundary leaves commits that no walk reaches; after `git gc
--prune=now` the pack is on the have list but not in the store, the repack's
fetch brings nothing, `completable_boundary` exempts the boundary although the
repack replaces the very history pack it counts on, and the remote loses that
history. And a snapshot commit no ref reached may be pruned while its pack stays
on the have list: a later deepening fetches history that builds on it.

Of `Blobs`: a push that landed unheard and is retried over others' repack pushes
the same pack again. Another helper's fetch that had connected to the first
landing takes its blobs for the remote's and drops them: at that moment every
commit that names them is sealed. The second landing, recorded afterwards, is a
commit of ours outside any promisor pack that names blobs which are not here.
`repack`, `gc`, `fsck` and every later seal then fail (DESIGN.md:496-501 says
they do not) until something else makes the remote promise them. TLC finds it
with one fault when `NoBrokenLink` lacks its exception: with three landings for a
push, with four for two repacks that race, of which one lands unheard. And
an upload branch is left on the host where no step but the push itself failed,
when its first batch lands unheard (`stage` remembers the branch only after a
batch that succeeded, remote.rs:2117-2121) or when an attempt fails after it has
taken the pack of an earlier one and before it has put it back
(remote.rs:1588-1698; for a repack a whole fetch lies between): `push_with` then
finds nothing to discard. `UploadsOwned` counts both among the steps that fail.

Of `Lists`: a change is retried after a lost race with the configured lists, not
with the change. Two admins who add a participant each at the same time show a
difference against the same manifest; the loser's push then replaces the
winner's list by its own and removes the participant the winner added, which
nobody was shown (README.md:76 speaks of "after showing the difference").

## 7. What is not modelled

- Encryption, signatures, key handling: ideal. A manifest has one signer and is
  read by its participants only.
- The text of manifests, of the helper protocol, of configuration: no property
  is about it.
- In `EncRemote` every clone has complete history and fetches all packs; in
  `Shallow` a push is one step. The two are not composed: a shallow push that
  loses a race is not modelled.
- In `Blobs`: rewritten histories, temporary files, automatic gc other than by
  what it leaves alone, reading blobs back to back. Manifests, and pack blobs
  small enough to come with the branch, are not followed.
- In `Lists`: key files (`@<file>`), the `enc.*` keys that stand for every
  remote, trust on first use, and a host that is not honest (`Trust` has one).
  `doctor` changes nothing; of `init` and `join`, key files and the hook.
- In `Trust`: the same repository under another URL, file systems without
  `flock`, the legacy ref, and that `forget` keeps the shallow list.
- git's garbage collection is modelled in `Shallow` only.
- Of the audit log, what it prints of refs, lists and times.
- `guard.rs`: a hook process reads the refs once and asks `git rev-list` and
  `git patch-id` which commits may go; it keeps no state but the hook file.

## 8. Plan

In this order:

1. The log for people added later: it cannot read the manifest of a rewrite
   before their time and takes the rewrite for the host's (a hazard now).
2. `Trust` with a second key for the same repository, and without the lock.
3. `Blobs` with rewritten histories, and with small pack blobs that come with
   the branch.
