------------------------------- MODULE Shallow -------------------------------
(***************************************************************************)
(* Shallow clones of an encrypted remote (fetch_packs, plan_boundary,      *)
(* set_boundary, completable_boundary and the shallow checks of try_push   *)
(* in crates/enccore/src/remote.rs; update_shallow in git.rs).             *)
(*                                                                         *)
(* A repack leaves a snapshot pack (the ref tips, without their parents)   *)
(* and a history pack (the rest).  A shallow clone does without the        *)
(* history pack: the snapshot's commits become boundaries in .git/shallow, *)
(* where git takes a commit to have no parents, and the helper keeps a     *)
(* list of those it set.  Others push and repack; this repository fetches  *)
(* with and without a depth, deepens, commits, pushes, repacks, prunes,    *)
(* fetches from another remote, and its helper dies anywhere.              *)
(*                                                                         *)
(* A commit stands for itself and the trees and blobs it introduces.  The  *)
(* races for the branch are the subject of EncRemote.tla: here a push is   *)
(* one step, and the branch stays while a helper works (a fetch reads only *)
(* the manifest it connected to, a push lands only on the one it read).    *)
(***************************************************************************)
EXTENDS Integers, Sequences, FiniteSets, Functions

CONSTANTS
  Ref,            \* ref names on the remote
  Commit,         \* commits of the users' history
  Parents,        \* Parents[x]: what x builds on
  NoCommit,       \* a ref that does not exist
  NoSnapshot,     \* the manifest of a remote never repacked
  Ours,           \* the commits made in this repository
  InitialRefs,    \* what the refs name when this repository is cloned
  OtherRefs,      \* what the refs may name after a push from elsewhere
  Elsewhere,      \* commits another remote of this repository serves
  MaxGeneration   \* bound: generations of the manifest

ASSUME CommitAssumption ==
  /\ NoCommit \notin Commit
  /\ Parents \in [Commit -> SUBSET Commit]
  /\ Ours \subseteq Commit /\ Elsewhere \subseteq Commit
  /\ {InitialRefs} \cup OtherRefs \subseteq [Ref -> (Commit \ Ours) \cup {NoCommit}]

ASSUME GenerationAssumption == MaxGeneration \in Nat \ {0}

VARIABLES
  manifest,  \* at the tip of the host's branch
  objs,      \* the commits in the object store
  refs,      \* the commits local refs name (branches, tracking refs)
  listed,    \* .git/shallow
  mine,      \* <common>/enc/<key>/shallow: the boundaries this remote set
  have       \* <common>/enc/<key>/have: the packs indexed

\* The helper.
VARIABLES
  pc,
  cmd,       \* "plain", "depth" or "full" fetch, or "repack"
  shallow,   \* the history pack is being skipped
  planned    \* the boundary being set

repoVars   == <<objs, refs, listed, mine, have>>
helperVars == <<pc, cmd, shallow, planned>>
vars       == <<manifest, objs, refs, listed, mine, have, pc, cmd, shallow, planned>>

-----------------------------------------------------------------------------
\* History.

(* <<x, y, cut>>: git reaches y from x when it takes the commits of `cut`  *)
(* to have no parents: y is in every set that holds x and the parents of   *)
(* its uncut members.                                                      *)
Walks == {<<x, y, cut>> : x \in Commit, y \in Commit, cut \in SUBSET Commit}

Reaches == {w \in Walks :
  \A S \in SUBSET Commit :
    w[1] \in S /\ (\A z \in S \ w[3] : Parents[z] \subseteq S) => w[2] \in S}

From(S, cut) == {y \in Commit : \E x \in S : <<x, y, cut>> \in Reaches}

Reach(S) == From(S, {})

(* rev-list here: it stops at the boundaries, and at a missing commit,     *)
(* which stays in the result.                                              *)
Walk(S, cut) == From(S, cut \cup (Commit \ objs))

(* The parents the commits of C name themselves: git hides a boundary's.   *)
CommitParents(C) == [c \in C \cap objs |-> Parents[c]]

\* The commits of C whose parents are not all here (lacking_parents).
Lacking(C) ==
  LET parents == CommitParents(C) IN {c \in DOMAIN parents : ~(parents[c] \subseteq objs)}

-----------------------------------------------------------------------------
\* Packs and manifests.

(* Named after the generation that brought it; thin: the commits its       *)
(* deltas are against.                                                     *)
Pack == [generation : 1..MaxGeneration, holds : SUBSET Commit, thin : SUBSET Commit]

Holds(packs) == UNION {p.holds : p \in packs}

Named(rs) == {rs[r] : r \in Ref} \ {NoCommit}
Known     == Named(manifest.refs)
Listed    == Range(manifest.packs)

RepackedUnlisted(rs, reached, g) ==
  LET tips == Named(rs)
      pack(S) == [generation |-> g, holds |-> S, thin |-> {}]
      history == IF reached \ tips = {} THEN <<>> ELSE <<pack(reached \ tips)>>
  IN [generation |-> g,
      refs       |-> rs,
      packs      |-> IF tips = {} THEN <<>> ELSE <<pack(tips)>>,
      snapshot   |-> IF tips = {} THEN NoSnapshot
                     ELSE [commits |-> tips, history |-> Range(history)]]

(* A repack at generation g of what `reached` holds for the tips: the      *)
(* snapshot and, unless it holds all, the history.                         *)
Repacked(rs, reached, g) ==
  LET tips     == Named(rs)
      pack(S)  == [generation |-> g, holds |-> S, thin |-> {}]
      behind   == reached \ tips
      history  == IF behind = {} THEN <<>> ELSE <<pack(behind)>>
  IN [generation |-> g,
      refs       |-> rs,
      packs      |-> IF tips = {} THEN <<>> ELSE <<pack(tips)>> \o history,
      snapshot   |-> IF tips = {} THEN NoSnapshot
                     ELSE [commits |-> tips, history |-> Range(history)]]

(* A push to refs `rs` of a pack of `new`, with deltas against `thin`.     *)
Pushed(rs, new, thin) ==
  LET g == manifest.generation + 1 IN
  [manifest EXCEPT
     !.generation = g,
     !.refs = rs,
     !.packs = IF new = {} THEN @
               ELSE Append(@, [generation |-> g, holds |-> new, thin |-> thin])]

Init ==
  /\ manifest = Repacked(InitialRefs, Reach(Named(InitialRefs)), 1)
  /\ objs = {} /\ refs = {} /\ listed = {} /\ mine = {} /\ have = {}
  /\ pc = "idle" /\ cmd = "plain" /\ shallow = FALSE /\ planned = {}

-----------------------------------------------------------------------------
\* The others (external): clones with the whole history.

CanLand == pc = "idle" /\ manifest.generation < MaxGeneration

(* They move, create and delete refs.  What the refs reach already is not  *)
(* packed again; deltas may be against nothing, or reach far back.         *)
OtherPush(rs) ==
  LET base == Reach(Known)
      new  == Reach(Named(rs)) \ base
  IN
  /\ CanLand
  /\ rs # manifest.refs
  /\ \E thin \in {{}, base} :
       /\ new = {} => thin = {}
       /\ manifest' = Pushed(rs, new, thin)
  /\ UNCHANGED <<repoVars, helperVars>>

OtherRepack ==
  /\ CanLand
  /\ manifest' = Repacked(manifest.refs, Reach(Known), manifest.generation + 1)
  /\ UNCHANGED <<repoVars, helperVars>>

-----------------------------------------------------------------------------
\* The user's repository (external: git's own operations).

(* A commit on what is checked out.                                        *)
NewCommit(x) ==
  /\ pc = "idle"
  /\ x \in Ours \ objs /\ Parents[x] \subseteq refs
  /\ objs' = objs \cup {x} /\ refs' = refs \cup {x}
  /\ UNCHANGED <<manifest, listed, mine, have, helperVars>>

(* A branch or a tracking ref is deleted or moved on.                      *)
DropRef(x) ==
  /\ pc = "idle"
  /\ x \in refs
  /\ refs' = refs \ {x}
  /\ UNCHANGED <<manifest, objs, listed, mine, have, helperVars>>

(* `git gc --prune=now`: what no ref reaches goes, from .git/shallow too.  *)
Gc ==
  LET kept == Walk(refs, listed) IN
  /\ pc = "idle"
  /\ kept \subseteq objs
  /\ objs' = kept /\ listed' = listed \cap kept
  /\ UNCHANGED <<manifest, refs, mine, have, helperVars>>

(* `git fetch --depth 1` from another remote.                              *)
FetchElsewhere(x) ==
  /\ pc = "idle"
  /\ x \in Elsewhere \ refs
  /\ objs' = objs \cup {x} /\ refs' = refs \cup {x}
  /\ listed' = listed \cup {x}
  /\ UNCHANGED <<manifest, mine, have, helperVars>>

-----------------------------------------------------------------------------
\* fetch_packs.

Go(to) == pc' = to

Exit ==
  /\ pc' = "idle" /\ cmd' = "plain" /\ shallow' = FALSE /\ planned' = {}

\* The history pack, unless it is indexed.
History == IF manifest.snapshot = NoSnapshot THEN {} ELSE manifest.snapshot.history \ have

(* fetch, or the fetch of a repack.  With a depth, or in a repository this *)
(* remote made shallow, the history pack is left out.                      *)
Begin(c) ==
  /\ pc = "idle"
  /\ Go("index") /\ cmd' = c
  /\ shallow' = (c \in {"plain", "depth"} /\ History # {} /\ (c = "depth" \/ mine # {}))
  /\ UNCHANGED <<manifest, repoVars, planned>>

Todo == Listed \ (have \cup (IF shallow THEN History ELSE {}))

\* The first of them in the manifest's order.
NextPack ==
  LET i == CHOOSE n \in DOMAIN manifest.packs :
             /\ manifest.packs[n] \in Todo
             /\ \A k \in 1..(n - 1) : manifest.packs[k] \notin Todo
  IN manifest.packs[i]

Index(packs) ==
  /\ objs' = objs \cup Holds(packs)
  /\ have' = have \cup packs

(* The bases of its deltas are here.  (A helper that dies between          *)
(* index_pack and add_have indexes it again: EncRemote.tla.)               *)
IndexPack ==
  /\ pc = "index"
  /\ Todo # {}
  /\ NextPack.thin \subseteq objs
  /\ Index({NextPack})
  /\ UNCHANGED <<manifest, refs, listed, mine, helperVars>>

\* index_history: from here on nothing is skipped.
IndexHistory(to) ==
  /\ Index(History)
  /\ shallow' = FALSE
  /\ Go(to)
  /\ UNCHANGED <<manifest, refs, listed, mine, cmd, planned>>

(* "builds on history older than the snapshot": an unresolved delta.       *)
HistoryForDeltas ==
  /\ pc = "index"
  /\ Todo # {} /\ ~(NextPack.thin \subseteq objs)
  /\ shallow
  /\ IndexHistory("index")

IndexFails ==
  /\ pc = "index"
  /\ Todo # {} /\ ~(NextPack.thin \subseteq objs)
  /\ ~shallow
  /\ Go("broken")
  /\ UNCHANGED <<manifest, repoVars, cmd, shallow, planned>>

Indexed ==
  /\ pc = "index"
  /\ Todo = {}
  /\ Go(IF shallow \/ mine # {} THEN "plan" ELSE "end")
  /\ UNCHANGED <<manifest, repoVars, cmd, shallow, planned>>

-----------------------------------------------------------------------------
\* The boundary.

CandidatesOfSnapshot ==
  IF shallow /\ manifest.snapshot # NoSnapshot THEN manifest.snapshot.commits ELSE mine

Candidates ==
  mine \cup (IF shallow /\ manifest.snapshot # NoSnapshot THEN manifest.snapshot.commits ELSE {})

\* reached_from_refs is of use: no ref reaches a missing parent.
CanTell(lacking) == Walk(Known \cap objs, listed \cup lacking) \subseteq objs

PlanBoundaryKeeps ==
  mine \cup (Lacking(Candidates) \cap Walk(Known \cap objs, listed \cup Lacking(Candidates)))

(* plan_boundary: of the boundaries this remote set and, when shallow, the *)
(* snapshot's commits, those whose parents are missing; a new one only     *)
(* when a manifest ref reaches it.                                         *)
PlanBoundary ==
  LET lacking == Lacking(Candidates)
      reached == Walk(Known \cap objs, listed \cup lacking)
  IN {c \in lacking : c \in mine \/ ~CanTell(lacking) \/ c \in reached}

\* "does not connect to the history here".
CutsOff == shallow /\ cmd # "depth" /\ ~(PlanBoundary \subseteq mine)

HistoryForBoundary ==
  /\ pc = "plan"
  /\ CutsOff
  /\ IndexHistory("plan")

Plan ==
  /\ pc = "plan"
  /\ ~CutsOff
  /\ planned' = PlanBoundary
  /\ Go("record")
  /\ UNCHANGED <<manifest, repoVars, cmd, shallow>>

SetBoundary(C) == mine' = C

RecordLate ==
  /\ pc = "record"
  /\ Go("graft")
  /\ UNCHANGED <<manifest, repoVars, cmd, shallow, planned>>

(* set_boundary: recorded before .git/shallow changes ...                  *)
Record ==
  /\ pc = "record"
  /\ SetBoundary(mine \cup planned)
  /\ Go("graft")
  /\ UNCHANGED <<manifest, objs, refs, listed, have, cmd, shallow, planned>>

UpdateShallow(remove, add) == listed' = (listed \ remove) \cup add

GraftOver ==
  /\ pc = "graft"
  /\ listed' = planned
  /\ Go("settle")
  /\ UNCHANGED <<manifest, objs, refs, mine, have, cmd, shallow, planned>>

(* ... update_shallow, under git's own lock ...                            *)
Graft ==
  /\ pc = "graft"
  /\ UpdateShallow(mine \ planned, planned)
  /\ Go("settle")
  /\ UNCHANGED <<manifest, objs, refs, mine, have, cmd, shallow, planned>>

(* ... and those no longer boundaries leave the record.                    *)
Settle ==
  /\ pc = "settle"
  /\ SetBoundary(planned)
  /\ Go("verify")
  /\ UNCHANGED <<manifest, objs, refs, listed, have, cmd, shallow, planned>>

\* refs_complete, and git's own check of what it fetched: rev-list --not --all.
RefsComplete == Walk(Known, listed) \ Walk(refs, listed) \subseteq objs

(* "a ref builds on history older than the snapshot".                      *)
HistoryForRefs ==
  /\ pc = "verify"
  /\ shallow /\ ~RefsComplete
  /\ IndexHistory("plan")

VerifiedUnseen ==
  /\ pc = "verify"
  /\ Go("end")
  /\ UNCHANGED <<manifest, repoVars, cmd, shallow, planned>>

Verified ==
  /\ pc = "verify"
  /\ shallow => RefsComplete
  /\ Go("end")
  /\ UNCHANGED <<manifest, repoVars, cmd, shallow, planned>>

(* The fetch is over: git checks it and moves the tracking refs.           *)
EndFetch ==
  /\ pc = "end" /\ cmd # "repack"
  /\ IF RefsComplete
     THEN /\ Exit
          /\ refs' = refs \cup Known
     ELSE /\ Go("broken")
          /\ UNCHANGED <<refs, cmd, shallow, planned>>
  /\ UNCHANGED <<manifest, objs, listed, mine, have>>

(* The helper fails or dies; the user takes note of what broke.            *)
Crash ==
  /\ pc # "idle"
  /\ Exit
  /\ UNCHANGED <<manifest, repoVars>>

-----------------------------------------------------------------------------
\* What a shallow clone may push.

CompletableRecorded == mine \cap listed

(* completable_boundary: what this remote set of its current snapshot, if  *)
(* the history behind it is on the remote.                                 *)
Completable ==
  IF manifest.snapshot = NoSnapshot \/ manifest.snapshot.history = {} THEN {}
  ELSE manifest.snapshot.commits \cap mine \cap listed

(* stuck_boundary: what no fetch completes, all packs being indexed.       *)
Stuck == IF Listed \subseteq have THEN Lacking(mine \cap listed) ELSE {}

\* shallow_boundaries.
Boundaries(range) == range \cap listed

\* The range reaches no other boundary, and is all here.
MayPack(range) == range \subseteq objs /\ Boundaries(range) \subseteq Completable

Lands(m) ==
  /\ manifest' = m
  /\ have' = have \cup (Range(m.packs) \ Listed)

(* `git push --force` of x to r.                                           *)
Push(r, x) ==
  LET base == Walk(Known \cap objs, listed)
      new  == Walk({x}, listed) \ base
  IN
  /\ CanLand
  /\ x \in refs /\ manifest.refs[r] # x
  /\ MayPack(new)
  /\ \E thin \in {{}, base \cap objs} :
       /\ new = {} => thin = {}
       /\ Lands(Pushed([manifest.refs EXCEPT ![r] = x], new, thin))
  /\ UNCHANGED <<objs, refs, listed, mine, helperVars>>

(* A repack that fetched: everything the refs reach here replaces the      *)
(* packs, or it is refused.                                                *)
Repack ==
  LET reached == Walk(Known, listed) IN
  /\ pc = "end" /\ cmd = "repack"
  /\ manifest.generation < MaxGeneration
  /\ MayPack(reached)
  /\ Lands(Repacked(manifest.refs, reached, manifest.generation + 1))
  /\ Exit
  /\ UNCHANGED <<objs, refs, listed, mine>>

-----------------------------------------------------------------------------
HelperStep ==
  \/ IndexPack \/ HistoryForDeltas \/ IndexFails \/ Indexed
  \/ HistoryForBoundary \/ Plan \/ Record \/ Graft \/ Settle
  \/ HistoryForRefs \/ Verified \/ EndFetch \/ Repack

Next ==
  \/ \E rs \in OtherRefs : OtherPush(rs)
  \/ OtherRepack
  \/ \E x \in Commit : NewCommit(x) \/ DropRef(x) \/ FetchElsewhere(x)
  \/ Gc
  \/ \E c \in {"plain", "depth", "full", "repack"} : Begin(c)
  \/ HelperStep
  \/ Crash
  \/ \E r \in Ref, x \in Commit : Push(r, x)

Spec == Init /\ [][Next]_vars

-----------------------------------------------------------------------------
Snapshot == [commits : SUBSET Commit, history : SUBSET Pack]

(* The variables keep their types; a snapshot's history is a pack the      *)
(* manifest lists (index_history finds it, remote.rs:1131).                *)
TypeOK ==
  /\ manifest.generation \in 1..MaxGeneration
  /\ manifest.refs \in [Ref -> Commit \cup {NoCommit}]
  /\ Listed \subseteq Pack
  /\ manifest.snapshot # NoSnapshot =>
       /\ manifest.snapshot \in Snapshot
       /\ manifest.snapshot.history \subseteq Listed
  /\ {objs, refs, listed, mine, planned} \subseteq SUBSET Commit
  /\ have \subseteq Pack
  /\ pc \in {"idle", "index", "plan", "record", "graft", "settle", "verify", "end", "broken"}
  /\ cmd \in {"plain", "depth", "full", "repack"}
  /\ shallow \in BOOLEAN

(* What the local refs reach is here, down to the boundaries: git works in *)
(* the repository whatever was fetched, with a depth or without, whatever  *)
(* the others repacked meanwhile, and wherever a helper died.              *)
HistoryWhole == Walk(refs, listed) \subseteq objs

(* An interruption leaves no boundary of this remote's unrecorded: a       *)
(* commit of .git/shallow is on the helper's list, whose fetches can drop  *)
(* it again, or came from another remote (set_boundary).                   *)
BoundaryRecorded == listed \subseteq mine \cup Elsewhere

(* No gc took what a pack of the manifest on the have list brought: such a *)
(* pack is not fetched again, and what then becomes of a shallow clone is  *)
(* outside the properties below.                                           *)
NothingPruned == Holds(have \cap Listed) \subseteq objs

(* The tip's packs hold what its refs reach and what the deltas of the     *)
(* packs after them are against: a clone of the remote can be made.        *)
RemoteWhole ==
  /\ Reach(Known) \subseteq Holds(Listed)
  /\ \A n \in DOMAIN manifest.packs :
       manifest.packs[n].thin \subseteq Holds({manifest.packs[k] : k \in 1..(n - 1)})

(* A shallow clone's fetch gets what it needs: where the snapshot does not *)
(* do, because a delta, a ref or a boundary needs the history behind it,   *)
(* the history pack is fetched too (fetch_packs).                          *)
FetchConnects == NothingPruned /\ RemoteWhole => pc # "broken"

(* What completable_boundary counts on: with a history pack listed, the    *)
(* packs hold what the snapshot's commits reach.                           *)
SnapshotWhole ==
  manifest.snapshot # NoSnapshot /\ manifest.snapshot.history # {} =>
    Reach(manifest.snapshot.commits) \subseteq Holds(Listed)

(* No push and no repack, from a shallow clone or another, leaves a remote *)
(* that cannot be cloned, or a snapshot whose history is not there: a      *)
(* boundary is packed over only when its parents are on the remote         *)
(* (completable_boundary, shallow_boundaries).                             *)
PushesWhole ==
  [][NothingPruned /\ RemoteWhole /\ SnapshotWhole => RemoteWhole' /\ SnapshotWhole']_vars

(* Deepening removes the boundaries this remote set and no others          *)
(* (State::boundary); git itself drops those of commits it pruned.         *)
OthersStay == [][\A c \in listed \ listed' : c \in mine \/ c \notin objs']_vars

(* Deepening removes a boundary where the history behind it has come, down *)
(* to the other boundaries (plan_boundary keeps those whose parents are    *)
(* missing, and bounds what a ref reaches).                                *)
DropsConnect ==
  [][\A c \in (listed \ listed') \cap objs' :
       From({c}, listed' \cup (Commit \ objs')) \subseteq objs']_vars

(* After a fetch of the whole history the boundaries left are those no     *)
(* fetch completes, as stuck_boundary reports them, and the remote no      *)
(* longer holds their parents (set_boundary).                              *)
Completed ==
  pc = "end" /\ cmd \in {"full", "repack"} =>
    /\ mine \cap listed \subseteq Stuck
    /\ NothingPruned => \A c \in Stuck : ~(Parents[c] \subseteq Holds(Listed))
=============================================================================
