-------------------------------- MODULE Blobs --------------------------------
(***************************************************************************)
(* The pack blobs: where they are kept, and for how long                   *)
(* (crates/enccore/src/backend.rs, parts.rs, and the parts of remote.rs    *)
(* that stage, push, fetch and discard them).                              *)
(*                                                                         *)
(* The backend repository of a clone is a partial clone of the backend     *)
(* branch: commits, trees and manifests come with a fetch, pack blobs on   *)
(* demand.  Blobs are kept while a push or a fetch needs them, and then    *)
(* dropped behind git's back: git must go on believing that what is        *)
(* missing was promised by the remote.  Several helpers of one clone share *)
(* the repository; the fetch lock orders what they fetch, index and drop.  *)
(* A push over one upload batch also stages its parts on a branch of the   *)
(* host, which nobody but its helper knows of.                             *)
(*                                                                         *)
(* The branch moves by compare-and-swap, as in EncRemote.tla; there the    *)
(* blobs come with their commits, here the commits are no more than their  *)
(* trees.  Pack blobs are over the size filter, so none comes with the     *)
(* branch.  Rewritten histories are left out.                              *)
(***************************************************************************)
EXTENDS Integers, Sequences, FiniteSets, FiniteSetsExt, SequencesExt

CONSTANTS
  Helper,        \* helper processes of one clone
  Nobody,        \* holder of a free lock
  Nothing,       \* no staged pack
  Ops,           \* Ops[h]: the commands h may run
  Pack,          \* pack names
  Length,        \* bytes a new pack may have
  OthersLength,  \* bound: ... one of another clone
  PartSize,      \* enc.partSize (0: a pack is one blob)
  UploadBatch,   \* enc.uploadBatch (0: no staging branch)
  BigFile,       \* core.bigFileThreshold: blobs over it get a pack of their own
  PushAttempts,  \* attempts of one push
  MaxVersion,    \* bound: pushes that may land
  MaxFaults      \* bound: steps that fail, helpers killed

\* A pack built for a push: its name, the packs listed then, the batches sent.
StagedPack == [pack : Pack, bases : SUBSET Pack, sent : Nat]

ASSUME HelperAssumption == Nobody \notin Helper /\ Nothing \notin StagedPack
ASSUME OpsAssumption == Ops \in [Helper -> SUBSET {"fetch", "push", "repack"}]
ASSUME SizeAssumption ==
  /\ Length \subseteq Nat \ {0} /\ OthersLength \subseteq Length
  /\ {PartSize, UploadBatch, BigFile} \subseteq Nat
ASSUME BoundAssumption ==
  PushAttempts \in Nat \ {0} /\ MaxVersion \in Nat /\ MaxFaults \in Nat

VARIABLES
  log,       \* log[v]: the v-th tip of the branch: its tree, and who built it
  uploads,   \* the packs whose staging branch is on the host
  stored     \* stored[p]: the sizes of the parts of pack p (<<>>: no such pack)

\* The backend repository and the list of indexed packs, shared by the helpers.
VARIABLES
  tracking,  \* the tip refs/enc/backend points to (0: none)
  promised,  \* the commits a promisor pack holds
  loose,     \* blobs stored loose
  packed,    \* blobs in a pack of their own, without .promisor
  fetched,   \* the promisor packs of fetches by id, each a set of blobs
  have,      \* packs recorded as indexed
  lock       \* holder of fetch.lock

VARIABLES
  proc,      \* the helper processes
  faults,    \* steps that failed, helpers killed
  spoiled    \* the packs those were handling (history)

hostVars   == <<log, uploads, stored>>
cacheVars  == <<loose, packed, fetched>>
sharedVars == <<tracking, promised, cacheVars, have, lock>>
faultVars  == <<faults, spoiled>>
vars       == <<hostVars, sharedVars, proc, faultVars>>

(* A helper: where it is, its command, the tip it connected to, the packs  *)
(* its fetch has still to index, the attempt of its push, the pack it      *)
(* built for it (its name, the packs listed then, the batches uploaded),   *)
(* and where a discard of that pack returns to.                            *)
Idle == [pc |-> "idle", op |-> "none", view |-> 0, todo |-> {}, attempt |-> 0,
         staged |-> Nothing, after |-> "idle"]

-----------------------------------------------------------------------------
\* Parts and batches.

(* The parts a pack of n bytes is cut into: full ones, then the rest.      *)
Cut(n) ==
  IF PartSize = 0 THEN <<n>>
  ELSE [i \in 1..((n + PartSize - 1) \div PartSize) |->
          IF i * PartSize <= n THEN PartSize ELSE n % PartSize]

\* The tree name of part n of p; `Whole` names a pack stored as one blob.
Whole == -1
PartName(p, n) == [pack |-> p, part |-> n]

\* Mutant of PartNames: parts count from one.
PartNamesFromOne(p, sizes) ==
  IF Len(sizes) = 1 THEN <<PartName(p, Whole)>> ELSE [i \in DOMAIN sizes |-> PartName(p, i)]

\* The names of the blobs of p, cut into parts of these sizes.
PartNames(p, sizes) ==
  IF Len(sizes) = 1 THEN <<PartName(p, Whole)>>
  ELSE [i \in DOMAIN sizes |-> PartName(p, i - 1)]

Blobs(p, sizes) == {PartNames(p, sizes)[i] : i \in DOMAIN sizes}

\* Those over core.bigFileThreshold.
BigBlobs(p, sizes) == {PartNames(p, sizes)[i] : i \in {j \in DOMAIN sizes : sizes[j] > BigFile}}

BlobsOf(p) == Blobs(p, stored[p])

(* The blobs of p in a tree: `<id>.age` alone, else its parts up to the    *)
(* first gap.                                                              *)
Find(tree, p) ==
  IF PartName(p, Whole) \in tree THEN {PartName(p, Whole)}
  ELSE {b \in tree : b.pack = p /\ \A n \in 0..b.part : PartName(p, n) \in tree}

Total(sizes) ==
  LET sum[i \in 0..Len(sizes)] == IF i = 0 THEN 0 ELSE sum[i - 1] + sizes[i]
  IN sum[Len(sizes)]

\* No batch yet.  A batch is a sequence of part numbers.
NoBatch == [batches |-> <<>>, bytes |-> 0]

\* Mutant of AddToBatch: a batch is full once it exceeds UploadBatch.
AddUntilOver(sizes, b, i) ==
  IF b.batches # <<>> /\ b.bytes <= UploadBatch
  THEN [batches |-> [b.batches EXCEPT ![Len(b.batches)] = Append(@, i)],
        bytes   |-> b.bytes + sizes[i]]
  ELSE [batches |-> Append(b.batches, <<i>>), bytes |-> sizes[i]]

(* Part i joins the last batch, of b.bytes so far, if that stays within    *)
(* UploadBatch, else it starts one.                                        *)
AddToBatch(sizes, b, i) ==
  IF b.batches # <<>> /\ b.bytes + sizes[i] <= UploadBatch
  THEN [batches |-> [b.batches EXCEPT ![Len(b.batches)] = Append(@, i)],
        bytes   |-> b.bytes + sizes[i]]
  ELSE [batches |-> Append(b.batches, <<i>>), bytes |-> sizes[i]]

\* The batches a pack is uploaded in; none if the final push carries it.
Batches(sizes) ==
  IF UploadBatch = 0 \/ Total(sizes) <= UploadBatch \/ Len(sizes) < 2 THEN <<>>
  ELSE LET added[i \in 0..Len(sizes)] ==
             IF i = 0 THEN NoBatch ELSE AddToBatch(sizes, added[i - 1], i)
       IN added[Len(sizes)].batches

-----------------------------------------------------------------------------
\* Trees and packs.

TreeAt(v) == IF v = 0 THEN {} ELSE log[v].tree

\* The packs with a blob in S; of a tree, the packs its manifest lists.
PacksIn(S) == {b.pack : b \in S}

\* The tree at the tip the helper connected to, and the pack it built.
Tree(h) == TreeAt(proc[h].view)
Staged(h) == IF proc[h].staged = Nothing THEN {} ELSE {proc[h].staged.pack}
StagedBlobs(h) == UNION {BlobsOf(p) : p \in Staged(h)}

\* The blobs of the packs the helper has still to index.
Wanted(h) == UNION {Find(Tree(h), p) : p \in proc[h].todo}

Unused == {p \in Pack : stored[p] = <<>>}
Fresh == CHOOSE p \in Pack : stored[p] = <<>>

-----------------------------------------------------------------------------
\* git's view of the backend repository.

Here == loose \cup packed \cup UNION fetched

\* What the trees of promised commits name may be missing.
Excused == UNION {log[v].tree : v \in promised}

(* The commits a walk from `tip` that stops at promised ones visits: those *)
(* with no promised commit from them up to it.                             *)
Walked(tip) == {v \in 1..tip : promised \cap (v..tip) = {}}

\* The walk names nothing that is missing and not promised.
Connects(tip) == \A v \in Walked(tip) : log[v].tree \subseteq Here \cup Excused

(* The commits a walk finds outside promisor packs move into one.  The     *)
(* walk itself fails on a blob that is missing and not promised.           *)
Seal(tip) ==
  /\ Connects(tip)
  /\ promised' = promised \cup Walked(tip)

(* A fetch of the branch: what lies between the tracking ref and the tip   *)
(* arrives in a promisor pack, unless all of it is here already and        *)
(* connected (commits of helpers of this clone).                           *)
Arrives ==
  LET new == (tracking + 1)..Len(log) IN
  IF \A v \in new : /\ log[v].ours
                    /\ log[v].tree \subseteq Here \cup Excused \cup TreeAt(tracking)
  THEN {} ELSE new

(* Connecting: tracking ref, manifest and trust state change together,     *)
(* under the fetch lock.                                                   *)
Connect ==
  /\ lock = Nobody
  /\ tracking' = Len(log)
  /\ promised' = promised \cup Arrives

-----------------------------------------------------------------------------
Init ==
  /\ log = <<>> /\ uploads = {} /\ stored = [p \in Pack |-> <<>>]
  /\ tracking = 0 /\ promised = {}
  /\ loose = {} /\ packed = {} /\ fetched = {} /\ have = {}
  /\ lock = Nobody
  /\ proc = [h \in Helper |-> Idle]
  /\ faults = 0 /\ spoiled = {}

\* A step goes well, or fails while it handles the packs of S.
Fine == UNCHANGED faultVars
Fault(S) ==
  /\ faults < MaxFaults
  /\ faults' = faults + 1
  /\ spoiled' = spoiled \cup S

\* A seal fails by itself where the walk does.
SealFails(tip, S) ==
  IF Connects(tip) THEN Fault(S) ELSE spoiled' = spoiled \cup S /\ UNCHANGED faults

At(h, pc) == proc[h].pc = pc

\* The helper with `state`, at `pc`.
Moved(state, pc) == IF pc = "idle" THEN Idle ELSE [state EXCEPT !.pc = pc]

Goto(h, pc) == proc' = [proc EXCEPT ![h] = Moved(@, pc)]

\* Whatever ends a command drops the pack it still holds (`push_with`).
Discarding(state, pc) ==
  IF state.staged = Nothing THEN Moved(state, pc)
  ELSE [state EXCEPT !.pc = "discard", !.after = pc]

DiscardThen(h, pc) == proc' = [proc EXCEPT ![h] = Discarding(@, pc)]

(* A command starts: its helper connects.  A fetch or repack of a remote   *)
(* that does not exist yet ends there.                                     *)
Begin(h, what) ==
  /\ At(h, "idle")
  /\ what \in Ops[h]
  /\ what = "push" \/ log # <<>>
  /\ Connect
  /\ proc' = [proc EXCEPT ![h] =
       [Idle EXCEPT !.pc = IF what = "fetch" THEN "lock" ELSE "attempt",
                    !.op = what, !.view = Len(log), !.attempt = 1]]
  /\ UNCHANGED <<hostVars, cacheVars, have, lock, faultVars>>

-----------------------------------------------------------------------------
\* Fetching packs, of a fetch and of a repack: `fetch_packs`.

LockFetch(h) ==
  /\ At(h, "lock")
  /\ lock = Nobody
  /\ lock' = h
  /\ proc' = [proc EXCEPT ![h].pc = "ensure", ![h].todo = PacksIn(Tree(h)) \ have]
  /\ UNCHANGED <<hostVars, tracking, promised, cacheVars, have, faultVars>>

(* One download, into one promisor pack, of the blobs still missing.       *)
EnsureBlobs(h) ==
  /\ At(h, "ensure")
  /\ LET missing == Wanted(h) \ Here IN
     fetched' = IF missing = {} THEN fetched ELSE fetched \cup {missing}
  /\ Goto(h, "index")
  /\ UNCHANGED <<hostVars, tracking, promised, loose, packed, have, lock, faultVars>>

IndexPack(h, p) ==
  /\ At(h, "index")
  /\ p \in proc[h].todo
  /\ Find(Tree(h), p) \subseteq Here
  /\ have' = have \cup {p}
  /\ proc' = [proc EXCEPT ![h].todo = @ \ {p}]
  /\ UNCHANGED <<hostVars, tracking, promised, cacheVars, lock, faultVars>>

(* The lock, the download or the indexing of a pack fails.  A repack that  *)
(* still holds the pack of an earlier attempt forgets it here: `try_push`  *)
(* has taken it, and `push_with` finds none to discard.                    *)
FetchFails(h) ==
  /\ \/ At(h, "lock") \/ At(h, "ensure")
     \/ At(h, "index") /\ proc[h].todo # {}
  /\ lock' = IF lock = h THEN Nobody ELSE lock
  /\ Fault(Staged(h) \cup (IF At(h, "index") THEN PacksIn(Tree(h)) ELSE {}))
  /\ Goto(h, "idle")
  /\ UNCHANGED <<hostVars, tracking, promised, cacheVars, have>>

\* Mutant of SealLoose: loose blobs go unsealed.
DropUnsealed(h) ==
  /\ At(h, "index")
  /\ proc[h].todo = {}
  /\ Goto(h, "drop loose")
  /\ UNCHANGED <<hostVars, sharedVars, faultVars>>

\* Mutant of SealLoose: with nothing loose, the fetch ends.
SealOrEnd(h) ==
  /\ At(h, "index")
  /\ proc[h].todo = {}
  /\ IF loose \cap Tree(h) = {}
     THEN Goto(h, "idle") /\ lock' = Nobody /\ UNCHANGED promised
     ELSE Goto(h, "drop loose") /\ Seal(tracking) /\ UNCHANGED lock
  /\ UNCHANGED <<hostVars, tracking, cacheVars, have, faultVars>>

(* All packs are indexed.  Loose blobs of the tree go once the commits     *)
(* that name them are sealed; if that fails they stay.                     *)
SealLoose(h) ==
  LET mine == loose \cap Tree(h) IN
  /\ At(h, "index")
  /\ proc[h].todo = {}
  /\ \/ mine # {} /\ Seal(tracking) /\ Goto(h, "drop loose") /\ Fine
     \/ /\ IF mine = {} THEN Fine ELSE SealFails(tracking, PacksIn(mine))
        /\ Goto(h, "drop fetched")
        /\ UNCHANGED promised
  /\ UNCHANGED <<hostVars, tracking, cacheVars, have, lock>>

\* Mutant of DropLoose: every loose blob goes.
DropAllLoose(h) ==
  /\ At(h, "drop loose")
  /\ loose' = {}
  /\ Goto(h, "drop fetched")
  /\ UNCHANGED <<hostVars, tracking, promised, packed, fetched, have, lock, faultVars>>

DropLoose(h) ==
  /\ At(h, "drop loose")
  /\ loose' = loose \ Tree(h)
  /\ Goto(h, "drop fetched")
  /\ UNCHANGED <<hostVars, tracking, promised, packed, fetched, have, lock, faultVars>>

(* Promisor packs that hold blobs of the tree only go, unless a            *)
(* multi-pack-index names them.                                            *)
DropFetchedBlobs(h) ==
  /\ At(h, "drop fetched")
  /\ \/ fetched' = {s \in fetched : ~ s \subseteq Tree(h)} /\ Fine
     \/ fetched # {} /\ Fault(PacksIn(UNION fetched)) /\ UNCHANGED fetched
  /\ lock' = Nobody
  /\ Goto(h, IF proc[h].op = "repack" THEN "build" ELSE "idle")
  /\ UNCHANGED <<hostVars, tracking, promised, loose, packed, have>>

-----------------------------------------------------------------------------
\* Building and staging a pack: the first half of `try_push`, and `stage`.

(* An attempt whose pack the manifest already lists has landed: it counts  *)
(* as indexed and is discarded.  A repack is done if nothing else is       *)
(* listed.                                                                 *)
Attempt(h) ==
  /\ At(h, "attempt")
  /\ LET listed == PacksIn(Tree(h))
         repack == proc[h].op = "repack"
     IN IF Staged(h) \cap listed # {}
        THEN /\ have' = have \cup Staged(h)
             /\ DiscardThen(h, IF repack /\ listed = Staged(h) THEN "idle" ELSE "attempt")
        ELSE /\ Goto(h, IF repack THEN "lock" ELSE "build")
             /\ UNCHANGED have
  /\ UNCHANGED <<hostVars, tracking, promised, cacheVars, lock, faultVars>>

(* The checks refuse the attempt, or the helper cannot connect again.      *)
GiveUp(h) ==
  /\ At(h, "attempt") \/ At(h, "retry")
  /\ DiscardThen(h, "idle")
  /\ UNCHANGED <<hostVars, sharedVars, faultVars>>

(* The attempt fails between taking the pack of an earlier one and keeping *)
(* or discarding it: the pack is forgotten.                                *)
BuildFails(h) ==
  /\ At(h, "build")
  /\ Fault(Staged(h))
  /\ Goto(h, "idle")
  /\ UNCHANGED <<hostVars, sharedVars>>

(* A lost race keeps the pack for its retry: a push's while the packs it   *)
(* was built against are listed, and either one only if the refs still     *)
(* want it (see EncRemote.tla), which may go both ways here.               *)
Reuse(h) ==
  /\ At(h, "build")
  /\ Staged(h) # {}
  /\ proc[h].op = "repack" \/ proc[h].staged.bases \subseteq PacksIn(Tree(h))
  /\ Goto(h, "push")
  /\ UNCHANGED <<hostVars, sharedVars, faultVars>>

\* Mutant of Rebuild: the old pack is forgotten.
RebuildForgetting(h) ==
  /\ At(h, "build")
  /\ Staged(h) # {}
  /\ proc' = [proc EXCEPT ![h].staged = Nothing]
  /\ UNCHANGED <<hostVars, sharedVars, faultVars>>

Rebuild(h) ==
  /\ At(h, "build")
  /\ Staged(h) # {}
  /\ DiscardThen(h, "build")
  /\ UNCHANGED <<hostVars, sharedVars, faultVars>>

(* A push with nothing to pack: a deletion, new participants.              *)
BuildNothing(h) ==
  /\ At(h, "build")
  /\ Staged(h) = {}
  /\ proc[h].op = "push"
  /\ Goto(h, "push")
  /\ UNCHANGED <<hostVars, sharedVars, faultVars>>

(* A pack of n bytes is built and its parts are stored as blobs, outside   *)
(* the lock.                                                               *)
Stage(h, n) ==
  /\ At(h, "build")
  /\ Staged(h) = {}
  /\ Unused # {}
  /\ LET p == Fresh
         big == BigBlobs(p, Cut(n))
     IN /\ stored' = [stored EXCEPT ![p] = Cut(n)]
        /\ loose' = loose \cup (Blobs(p, Cut(n)) \ big)
        /\ packed' = packed \cup big
        /\ proc' = [proc EXCEPT
             ![h].pc = IF Batches(Cut(n)) = <<>> THEN "push" ELSE "upload",
             ![h].staged = [pack |-> p, bases |-> PacksIn(Tree(h)), sent |-> 0]]
  /\ UNCHANGED <<log, uploads, tracking, promised, fetched, have, lock, faultVars>>

(* Storing a part fails: the ones before it stay.                          *)
StageFails(h, n) ==
  /\ At(h, "build")
  /\ Staged(h) = {}
  /\ Unused # {}
  /\ LET p == Fresh IN
     /\ stored' = [stored EXCEPT ![p] = Cut(n)]
     /\ \E k \in DOMAIN Cut(n) :
          LET kept == {PartNames(p, Cut(n))[i] : i \in 1..(k - 1)} IN
          /\ loose' = loose \cup (kept \ BigBlobs(p, Cut(n)))
          /\ packed' = packed \cup (kept \cap BigBlobs(p, Cut(n)))
     /\ Fault({p})
  /\ Goto(h, "idle")
  /\ UNCHANGED <<log, uploads, tracking, promised, fetched, have, lock>>

(* The next batch reaches the staging branch.                              *)
Upload(h) ==
  /\ At(h, "upload")
  /\ uploads' = uploads \cup Staged(h)
  /\ LET s == proc[h].staged IN
     proc' = [proc EXCEPT
       ![h].staged.sent = @ + 1,
       ![h].pc = IF s.sent + 1 = Len(Batches(stored[s.pack])) THEN "push" ELSE "upload"]
  /\ UNCHANGED <<log, stored, sharedVars, faultVars>>

(* git reports that a batch failed, though the host may have taken it.     *)
(* The helper knows of the branch only after a batch that succeeded.       *)
UploadFails(h, landed) ==
  /\ At(h, "upload")
  /\ uploads' = IF landed THEN uploads \cup Staged(h) ELSE uploads
  /\ Fault(IF landed /\ proc[h].staged.sent = 0 THEN Staged(h) ELSE {})
  /\ DiscardThen(h, "idle")
  /\ UNCHANGED <<log, stored, sharedVars>>

-----------------------------------------------------------------------------
\* Pushing the commit: the second half of `try_push`.

\* git can send what the staging branch did not bring.
CanSend(h) ==
  Staged(h) # {} =>
    IF proc[h].staged.sent > 0 THEN Staged(h) \subseteq uploads
    ELSE StagedBlobs(h) \subseteq Here

(* The lease holds and the host takes the commit.  If git reports a        *)
(* failure nonetheless, the branch turns out to have moved and the attempt *)
(* counts as a lost race; or asking for it fails too.                      *)
Land(h, answer) ==
  /\ At(h, "push")
  /\ proc[h].view = Len(log)
  /\ Len(log) < MaxVersion
  /\ CanSend(h)
  /\ LET base == IF proc[h].op = "repack" THEN {} ELSE Tree(h) IN
     log' = Append(log, [tree |-> base \cup StagedBlobs(h), ours |-> TRUE])
  /\ \/ answer = "done" /\ Goto(h, "landed") /\ Fine
     \/ answer = "moved" /\ Goto(h, "retry") /\ Fault({})
     \/ answer = "failed" /\ DiscardThen(h, "idle") /\ Fault({})
  /\ UNCHANGED <<uploads, stored, sharedVars>>

LoseRace(h) ==
  /\ At(h, "push")
  /\ proc[h].view # Len(log)
  /\ Goto(h, "retry")
  /\ UNCHANGED <<hostVars, sharedVars, faultVars>>

PushFails(h) ==
  /\ At(h, "push")
  /\ DiscardThen(h, "idle")
  /\ IF CanSend(h) THEN Fault({}) ELSE Fine
  /\ UNCHANGED <<hostVars, sharedVars>>

\* Mutant of Retry: one attempt too many.
RetryOnceMore(h) ==
  /\ At(h, "retry")
  /\ Connect
  /\ LET seen == [proc[h] EXCEPT !.view = Len(log)] IN
     proc' = [proc EXCEPT ![h] =
       IF seen.attempt <= PushAttempts
       THEN [seen EXCEPT !.attempt = @ + 1, !.pc = "attempt"]
       ELSE Discarding(seen, "idle")]
  /\ UNCHANGED <<hostVars, cacheVars, have, lock, faultVars>>

(* A lost race: the helper connects again, and gives up after the last     *)
(* attempt.                                                                *)
Retry(h) ==
  /\ At(h, "retry")
  /\ Connect
  /\ LET seen == [proc[h] EXCEPT !.view = Len(log)] IN
     proc' = [proc EXCEPT ![h] =
       IF seen.attempt < PushAttempts
       THEN [seen EXCEPT !.attempt = @ + 1, !.pc = "attempt"]
       ELSE Discarding(seen, "idle")]
  /\ UNCHANGED <<hostVars, cacheVars, have, lock, faultVars>>

(* The landed push is recorded under the lock: the tracking ref moves,     *)
(* unless a fetch moved it first, and a push without blobs is sealed at    *)
(* once.                                                                   *)
Record(h) ==
  /\ At(h, "landed")
  /\ lock = Nobody
  /\ tracking' = IF tracking = proc[h].view THEN proc[h].view + 1 ELSE tracking
  /\ \/ Staged(h) # {} /\ Fine /\ UNCHANGED promised
     \/ Staged(h) = {} /\ Fine /\ Seal(tracking')
     \/ Staged(h) = {} /\ SealFails(tracking', {}) /\ UNCHANGED promised
  /\ have' = have \cup Staged(h)
  /\ DiscardThen(h, "idle")
  /\ UNCHANGED <<hostVars, cacheVars, lock>>

(* Under the lock, moving the ref or saving the trust state fails: the     *)
(* landed push is reported as failed.                                      *)
RecordFails(h) ==
  /\ At(h, "landed")
  /\ lock = Nobody
  /\ tracking' \in {tracking, IF tracking = proc[h].view THEN proc[h].view + 1 ELSE tracking}
  /\ Fault({})
  /\ DiscardThen(h, "idle")
  /\ UNCHANGED <<hostVars, promised, cacheVars, have, lock>>

(* The lock fails: nothing is recorded, and the blobs are kept.            *)
RecordUnlocked(h) ==
  /\ At(h, "landed")
  /\ have' = have \cup Staged(h)
  /\ Fault(Staged(h))
  /\ Goto(h, IF Staged(h) = {} THEN "idle" ELSE "delete upload")
  /\ UNCHANGED <<hostVars, tracking, promised, cacheVars, lock>>

-----------------------------------------------------------------------------
\* Discarding a staged pack: `discard`.

\* Mutant of SealStored: without waiting for the lock.
SealStoredUnlocked(h) ==
  /\ At(h, "discard")
  /\ Seal(tracking)
  /\ Goto(h, "drop stored")
  /\ UNCHANGED <<hostVars, tracking, cacheVars, have, lock, faultVars>>

(* Under the lock, the commits that may name its blobs are sealed first.   *)
SealStored(h) ==
  /\ At(h, "discard")
  /\ lock = Nobody
  /\ lock' = h
  /\ Seal(tracking)
  /\ Goto(h, "drop stored")
  /\ UNCHANGED <<hostVars, tracking, cacheVars, have, faultVars>>

\* Without the lock or the seal the blobs are kept.
KeepStored(h) ==
  /\ At(h, "discard")
  /\ SealFails(tracking, Staged(h))
  /\ Goto(h, "delete upload")
  /\ UNCHANGED <<hostVars, sharedVars>>

(* Loose blobs go; those with a pack of their own too, unless a            *)
(* multi-pack-index names it.                                              *)
DropStored(h) ==
  LET mine == packed \cap StagedBlobs(h) IN
  /\ At(h, "drop stored")
  /\ loose' = loose \ StagedBlobs(h)
  /\ \/ packed' = packed \ mine /\ Fine
     \/ mine # {} /\ Fault(Staged(h)) /\ UNCHANGED packed
  /\ lock' = Nobody
  /\ Goto(h, "delete upload")
  /\ UNCHANGED <<hostVars, tracking, promised, fetched, have>>

(* Then the staging branch goes, if the helper knows of one.               *)
DeleteUpload(h, ok) ==
  /\ At(h, "delete upload")
  /\ LET known == proc[h].staged.sent > 0 IN
     /\ uploads' = IF known /\ ok THEN uploads \ Staged(h) ELSE uploads
     /\ IF ok THEN Fine ELSE known /\ Fault(Staged(h))
  /\ proc' = [proc EXCEPT ![h] =
       Moved([@ EXCEPT !.staged = Nothing, !.after = "idle"], @.after)]
  /\ UNCHANGED <<log, stored, sharedVars>>

-----------------------------------------------------------------------------
(* A helper is killed: the kernel releases its lock.                       *)
Crash(h) ==
  /\ ~ At(h, "idle")
  /\ lock' = IF lock = h THEN Nobody ELSE lock
  /\ Fault(Staged(h) \cup (IF lock = h THEN PacksIn(Tree(h)) ELSE {}))
  /\ Goto(h, "idle")
  /\ UNCHANGED <<hostVars, tracking, promised, cacheVars, have>>

(* Another clone pushes a pack of n bytes onto `base`, or repacks into it. *)
Others(n, base) ==
  /\ Len(log) < MaxVersion
  /\ Unused # {}
  /\ stored' = [stored EXCEPT ![Fresh] = Cut(n)]
  /\ log' = Append(log, [tree |-> base \cup Blobs(Fresh, Cut(n)), ours |-> FALSE])
  /\ UNCHANGED <<uploads, sharedVars, proc, faultVars>>

Helps(h) ==
  \/ \E what \in {"fetch", "push", "repack"} : Begin(h, what)
  \/ LockFetch(h) \/ EnsureBlobs(h) \/ FetchFails(h)
  \/ \E p \in Pack : IndexPack(h, p)
  \/ SealLoose(h) \/ DropLoose(h) \/ DropFetchedBlobs(h)
  \/ Attempt(h) \/ GiveUp(h) \/ BuildFails(h) \/ Reuse(h) \/ Rebuild(h) \/ BuildNothing(h)
  \/ \E n \in Length : Stage(h, n) \/ StageFails(h, n)
  \/ Upload(h)
  \/ \E landed \in BOOLEAN : UploadFails(h, landed)
  \/ \E answer \in {"done", "moved", "failed"} : Land(h, answer)
  \/ LoseRace(h) \/ PushFails(h) \/ Retry(h)
  \/ Record(h) \/ RecordFails(h) \/ RecordUnlocked(h)
  \/ SealStored(h) \/ KeepStored(h) \/ DropStored(h)
  \/ \E ok \in BOOLEAN : DeleteUpload(h, ok)
  \/ Crash(h)

Next ==
  \/ \E h \in Helper : Helps(h)
  \/ \E n \in OthersLength, base \in {{}, TreeAt(Len(log))} : Others(n, base)

Spec == Init /\ [][Next]_vars

-----------------------------------------------------------------------------
\* What must hold.

Blob == [pack : Pack, part : {Whole} \cup Nat]
Commit == [tree : SUBSET Blob, ours : BOOLEAN]

Pcs == {"idle", "lock", "ensure", "index", "drop loose", "drop fetched", "attempt", "build",
        "upload", "push", "retry", "landed", "discard", "drop stored", "delete upload"}

\* A helper, when n pushes have landed.
State(n) ==
  [pc : Pcs, op : {"none", "fetch", "push", "repack"}, view : 0..n, todo : SUBSET Pack,
   attempt : 0..PushAttempts, staged : StagedPack \cup {Nothing},
   after : {"idle", "attempt", "build"}]

HostOK ==
  log \in Seq(Commit) /\ uploads \subseteq Pack /\ stored \in [Pack -> Seq(Nat)]

GitOK ==
  /\ tracking \in 0..Len(log) /\ promised \subseteq DOMAIN log
  /\ loose \subseteq Blob /\ packed \subseteq Blob /\ fetched \subseteq SUBSET Blob

\* Every variable has its type.
TypeOK ==
  /\ HostOK /\ GitOK
  /\ have \subseteq Pack /\ lock \in Helper \cup {Nobody}
  /\ proc \in [Helper -> State(Len(log))]
  /\ faults \in 0..MaxFaults /\ spoiled \subseteq Pack

\* p is in the tree of v, left it, and is back in a later one.
PushedAgain(p, v) ==
  \E u \in 1..v, w \in 1..v : u < w /\ p \in PacksIn(log[u].tree) \ PacksIn(log[w].tree)

(* Whatever blobs were dropped, and whatever helpers died doing it, a walk *)
(* of the backend repository finds each blob here or promised by the       *)
(* remote: `repack`, `gc` and `fsck` do not fail on one (DESIGN.md 5.4).   *)
(* The exception is a pack pushed again by a retry after it had landed     *)
(* unheard and others' repack had replaced it: a fetch that had connected  *)
(* to its first landing may drop the blobs before the second is recorded.  *)
NoBrokenLink ==
  \A v \in Walked(tracking) : \A b \in log[v].tree :
    b \in Here \cup Excused \/ PushedAgain(b.pack, v)

(* The blobs a fetch downloaded stay until it has indexed them, whatever   *)
(* the other helpers drop meanwhile.                                       *)
IndexerHasBlobs ==
  \A h \in Helper : At(h, "index") => Wanted(h) \subseteq Here

(* A push can send its pack after any number of lost races: its blobs are  *)
(* here or on a staging branch.  The only exception is a pack that landed  *)
(* in an earlier attempt, unheard, and that a repack has replaced since:   *)
(* a fetch of another helper may have dropped its blobs.                   *)
RetryHasBlobs ==
  \A h \in Helper :
    proc[h].pc \in {"retry", "attempt", "build", "push"} =>
      CanSend(h) \/ \E v \in DOMAIN log : Staged(h) \subseteq PacksIn(log[v].tree)

(* Blobs stay in the backend repository only while a helper that uses them *)
(* lives, or where a step failed: nothing piles up.                        *)
CachedBlobsOwned ==
  PacksIn(Here) \subseteq
    spoiled \cup (UNION {Staged(h) : h \in Helper})
      \cup UNION {PacksIn(Tree(h)) : h \in {g \in Helper : lock = g}}

(* A staging branch stays on the host only while its helper lives, unless  *)
(* its deletion failed, its helper died, its first batch reached the host  *)
(* unheard, or an attempt failed while it held the pack of an earlier one. *)
UploadsOwned ==
  \A p \in uploads \ spoiled :
    \E h \in Helper : p \in Staged(h) /\ proc[h].staged.sent > 0

(* Every pack the manifest at the tip lists is found in its tree, all      *)
(* parts of it, by the names its pusher gave them, whether they came with  *)
(* the commit, with a staging branch, or with an earlier commit.           *)
ListedPacksWhole ==
  \A p \in PacksIn(TreeAt(Len(log))) : Find(TreeAt(Len(log)), p) = BlobsOf(p)

(* While a pack is uploaded: its parts add up to a pack that was built,    *)
(* its batches hold every part once and in order, and one of several parts *)
(* is no larger than UploadBatch.                                          *)
BatchesFit ==
  \A h \in Helper : At(h, "upload") =>
    LET sizes == stored[proc[h].staged.pack]
        batches == Batches(sizes)
        bytes(batch) == Total([j \in DOMAIN batch |-> sizes[batch[j]]])
    IN /\ Total(sizes) \in Length
       /\ FlattenSeq(batches) = [i \in DOMAIN sizes |-> i]
       /\ \A k \in DOMAIN batches : Len(batches[k]) > 1 => bytes(batches[k]) <= UploadBatch

=============================================================================
