-------------------------------- MODULE Trust --------------------------------
(***************************************************************************)
(* What one repository accepts from the host, and remembers of it          *)
(* (connect, load_manifest, save_trust, forget and the recording half of a *)
(* push in crates/enccore/src/remote.rs; the files of state.rs).           *)
(*                                                                         *)
(* The host keeps a branch of backend commits, each carrying one signed    *)
(* manifest.  It may move the branch back (a restored backup, a lagging    *)
(* mirror) or delete it.  Participants elsewhere push; in this repository  *)
(* several helpers connect, push and forget at once: they share the trust  *)
(* file, the contact marker and the tracking ref, take turns on the fetch  *)
(* lock for some of what they do with them, and die anywhere.              *)
(*                                                                         *)
(* A commit is its position in `commits`; as the digest of a manifest      *)
(* tells it from any other, the position stands for that digest too.       *)
(* Packs and refs are the subject of EncRemote.tla.                        *)
(***************************************************************************)
EXTENDS Integers, Sequences, FiniteSets

CONSTANTS
  Proc,           \* helpers of this repository
  NoProc,         \* nobody holds the lock
  Member,         \* people with a signing key
  Me,             \* whose repository this is
  Lists,          \* the [members, admins] lists people choose from
  FirstContact,   \* "pinned" (enc-participants), "tofu" or "refuse"
  Pinned,         \* the configured participants, when pinned
  PinnedRepo,     \* enc-repo (0: not set)
  MinGeneration,  \* enc-minGeneration (0: not set)
  RefuseForks,    \* enc-refuseForks
  Others,         \* members who push from elsewhere
  Rewriters,      \* those of them who repack with --rewrite-history
  Jumps,          \* by how much a writer may raise the generation (1 is right)
  Pushers,        \* helpers whose users push
  Forgetters,     \* helpers whose users run `forget`
  Crashers,       \* helpers that may be killed
  LockFailures,   \* helpers that may fail to take the lock after a push
  HostFaults,     \* what the host may do: "restore", "delete"
  MaxCommits      \* bound: commits made

ASSUME ListsAssumption ==
  Lists \subseteq [members : SUBSET Member, admins : SUBSET Member]

ASSUME NoProcAssumption == NoProc \notin Proc

ASSUME BoundsAssumption ==
  /\ MaxCommits \in Nat /\ MinGeneration \in Nat /\ PinnedRepo \in Nat
  /\ Jumps \subseteq Nat

VARIABLES
  commits,   \* every backend commit made
  branch     \* where the host's branch is (0: it does not exist)

\* <common>/enc/<key>, <key>.known and the backend repository.
VARIABLES
  trust,     \* the accepted manifest the trust file records (0: no file)
  known,     \* the contact marker
  tracking,  \* the tracking ref (0: none)
  dir,       \* the state directory exists
  lock       \* who holds the fetch lock

\* Each helper.
VARIABLES
  pc,
  knew,      \* the marker was there when it connected
  previous,  \* the tracking ref before it fetched
  tip,       \* the commit it works on (0: a new remote)
  pushed,    \* the commit it pushed
  orphan     \* the state was forgotten since it started

\* A rewrite of the history was reported since the last acceptance: kept to
\* state a property.
VARIABLE told

fileVars   == <<trust, known, tracking, dir, told>>
helperVars == <<pc, knew, previous, tip, pushed, orphan>>
vars       == <<commits, branch, trust, known, tracking, dir, told, lock,
                pc, knew, previous, tip, pushed, orphan>>

-----------------------------------------------------------------------------
\* Manifests and the commits that carry them.

(* generation, repository id (the number of its first commit), digest of   *)
(* the manifest it replaces, generation of the last rewrite, signer, lists, *)
(* and the first-parent chain of its commit (itself included).             *)
Commits == 1..Len(commits)

Gen(c)  == IF c = 0 THEN 0 ELSE commits[c].generation
Line(c) == IF c = 0 THEN {} ELSE commits[c].line

IsAncestor(x, y) == x \in Line(y)

\* The generation a rewrite said the chain of c starts at (0: none did).
RewriteEpoch(c) ==
  LET root == CHOOSE r \in Line(c) : \A x \in Line(c) : r <= x
  IN commits[root].epoch

\* Who may sign a change of `old` to `new`.
MayChange(signer, old, new) ==
  new = old \/ old.admins = {} \/ (signer \in old.admins /\ new.admins # {})

\* check_admins: every admin is a participant.
SoundLists(lists) == lists.admins \subseteq lists.members

\* try_push: what a writer checks of itself before it pushes on top of c.
MayPush(signer, c, lists) ==
  /\ SoundLists(lists)
  /\ IF c = 0 THEN signer \in lists.members
     ELSE /\ signer \in commits[c].lists.members
          /\ MayChange(signer, commits[c].lists, lists)

\* Mutant of Pushed: an ordinary push writes the configured participants.
PushedConfigured(signer, c, lists, jump) ==
  LET n == Len(commits) + 1 IN
  [generation |-> Gen(c) + jump,
   repo       |-> IF c = 0 THEN n ELSE commits[c].repo,
   replaces   |-> c,
   epoch      |-> IF c = 0 THEN 0 ELSE commits[c].epoch,
   signer     |-> signer,
   lists      |-> [members |-> Pinned, admins |-> {}],
   line       |-> Line(c) \cup {n}]

\* The commit `signer` makes on top of c.
Pushed(signer, c, lists, jump) ==
  LET n == Len(commits) + 1 IN
  [generation |-> Gen(c) + jump,
   repo       |-> IF c = 0 THEN n ELSE commits[c].repo,
   replaces   |-> c,
   epoch      |-> IF c = 0 THEN 0 ELSE commits[c].epoch,
   signer     |-> signer,
   lists      |-> lists,
   line       |-> Line(c) \cup {n}]

\* ... and with --rewrite-history: a commit without a parent.
Rewritten(signer, c) ==
  [Pushed(signer, c, commits[c].lists, 1) EXCEPT
     !.epoch = Gen(c) + 1, !.line = {Len(commits) + 1}]

Init ==
  /\ commits = <<>> /\ branch = 0
  /\ trust = 0 /\ known = FALSE /\ tracking = 0 /\ dir = TRUE /\ told = FALSE
  /\ lock = NoProc
  /\ pc = [p \in Proc |-> "idle"]
  /\ knew = [p \in Proc |-> FALSE]
  /\ previous = [p \in Proc |-> 0]
  /\ tip = [p \in Proc |-> 0]
  /\ pushed = [p \in Proc |-> 0]
  /\ orphan = [p \in Proc |-> FALSE]

-----------------------------------------------------------------------------
\* The host and the others (external).

Lands(commit) ==
  /\ Len(commits) < MaxCommits
  /\ commits' = Append(commits, commit)
  /\ branch' = Len(commits) + 1

(* A participant pushes from elsewhere, as try_push lets them.             *)
OtherPush(s, lists, jump) ==
  /\ s \in Others
  /\ MayPush(s, branch, lists)
  /\ Lands(Pushed(s, branch, lists, jump))
  /\ UNCHANGED <<fileVars, lock, helperVars>>

OtherRewrite(s) ==
  /\ s \in Rewriters
  /\ branch # 0 /\ s \in commits[branch].lists.members
  /\ Lands(Rewritten(s, branch))
  /\ UNCHANGED <<fileVars, lock, helperVars>>

HostRestores(c) ==
  /\ "restore" \in HostFaults
  /\ branch' = c
  /\ UNCHANGED <<commits, fileVars, lock, helperVars>>

HostDeletes ==
  /\ "delete" \in HostFaults
  /\ branch' = 0
  /\ UNCHANGED <<commits, fileVars, lock, helperVars>>

-----------------------------------------------------------------------------
\* Connecting.

\* The helper ends: the kernel releases its lock.
Exit(p) ==
  /\ pc' = [pc EXCEPT ![p] = "idle"]
  /\ knew' = [knew EXCEPT ![p] = FALSE]
  /\ previous' = [previous EXCEPT ![p] = 0]
  /\ tip' = [tip EXCEPT ![p] = 0]
  /\ pushed' = [pushed EXCEPT ![p] = 0]
  /\ orphan' = [orphan EXCEPT ![p] = FALSE]

Go(p, to) == pc' = [pc EXCEPT ![p] = to]

(* A helper starts: State::open creates the directory.                     *)
Start(p) ==
  /\ pc[p] = "idle"
  /\ Go(p, "connect")
  /\ dir' = TRUE
  /\ UNCHANGED <<commits, branch, trust, known, tracking, told, lock,
                 knew, previous, tip, pushed, orphan>>

(* Taken until its holder unlocks it or ends; the file is in the directory. *)
LockFetch(p) ==
  /\ lock = NoProc /\ dir
  /\ lock' = p

(* The host's branch, the tracking ref with it.                            *)
FetchTip(p) ==
  /\ branch # 0
  /\ tip' = [tip EXCEPT ![p] = branch]
  /\ tracking' = branch

MarkKnown == known' = TRUE

\* Mutant of Fetch: the marker is written on contact, not on acceptance.
FetchMarks(p) ==
  /\ pc[p] = "connect"
  /\ LockFetch(p) /\ FetchTip(p) /\ MarkKnown
  /\ knew' = [knew EXCEPT ![p] = known]
  /\ previous' = [previous EXCEPT ![p] = tracking]
  /\ orphan' = [orphan EXCEPT ![p] = FALSE]
  /\ Go(p, "check")
  /\ UNCHANGED <<commits, branch, trust, dir, told, pushed>>

\* Mutant of Fetch: the branch is fetched without the lock.
FetchUnlocked(p) ==
  /\ pc[p] = "connect" /\ dir
  /\ FetchTip(p)
  /\ knew' = [knew EXCEPT ![p] = known]
  /\ previous' = [previous EXCEPT ![p] = tracking]
  /\ orphan' = [orphan EXCEPT ![p] = FALSE]
  /\ Go(p, "check")
  /\ UNCHANGED <<commits, branch, trust, known, dir, told, lock, pushed>>

(* Under the lock, the marker and the tracking ref are read and the branch *)
(* is fetched, which moves the tracking ref at once.                       *)
Fetch(p) ==
  /\ pc[p] = "connect"
  /\ LockFetch(p) /\ FetchTip(p)
  /\ knew' = [knew EXCEPT ![p] = known]
  /\ previous' = [previous EXCEPT ![p] = tracking]
  /\ orphan' = [orphan EXCEPT ![p] = FALSE]
  /\ Go(p, "check")
  /\ UNCHANGED <<commits, branch, trust, known, dir, told, pushed>>

(* There is no branch: a new remote, unless manifests were accepted.       *)
FetchNothing(p) ==
  /\ pc[p] = "connect" /\ lock = NoProc /\ dir
  /\ branch = 0
  /\ IF known \/ trust # 0
     THEN /\ Go(p, "refused")
          /\ UNCHANGED tip
     ELSE /\ Go(p, "ready")
          /\ tip' = [tip EXCEPT ![p] = 0]
  /\ orphan' = [orphan EXCEPT ![p] = FALSE]
  /\ UNCHANGED <<commits, branch, fileVars, lock, knew, previous, pushed>>

(* The directory is gone: the lock file cannot be opened.                  *)
FetchFails(p) ==
  /\ pc[p] = "connect" /\ ~dir
  /\ Exit(p)
  /\ UNCHANGED <<commits, branch, fileVars, lock>>

-----------------------------------------------------------------------------
\* load_manifest: the verdict on commit c.

\* The signer is one the accepted manifest, or the configuration, names.
SignerTrusted(c) ==
  commits[c].signer \in
    CASE trust # 0               -> commits[trust].lists.members
      [] FirstContact = "pinned" -> Pinned
      [] OTHER                   -> commits[c].lists.members

\* check_generation_jump.
GenerationLimit(c) ==
  LET epoch == RewriteEpoch(c)
      since == IF epoch = 0 THEN Cardinality(Line(c)) ELSE epoch - 1 + Cardinality(Line(c))
  IN IF trust = 0 THEN {since}
     ELSE IF IsAncestor(trust, c)
     THEN {Gen(trust) + Cardinality(Line(c) \ Line(trust))}
     ELSE IF commits[c].epoch > Gen(trust) /\ epoch = commits[c].epoch THEN {since}
     ELSE {}

\* Mutant of JumpAllowed: one generation too many is let through.
JumpOneMore(c) == \A limit \in GenerationLimit(c) : Gen(c) <= limit + 1

JumpAllowed(c) == \A limit \in GenerationLimit(c) : Gen(c) <= limit

\* Mutant of Forked: only the next generation is looked at.
ForkedBefore(c) == trust # 0 /\ Gen(c) = Gen(trust) + 1 /\ commits[c].replaces # trust

\* c forks from the accepted manifest: another one of its generation, or
\* one of the next that does not name it as its predecessor.
Forked(c) ==
  /\ trust # 0
  /\ \/ Gen(c) = Gen(trust) /\ c # trust
     \/ Gen(c) = Gen(trust) + 1 /\ commits[c].replaces # trust

\* Mutant of Follows: a lower generation is accepted.
FollowsAny(c) ==
  /\ commits[c].repo = commits[trust].repo
  /\ RefuseForks => ~Forked(c)

Follows(c) ==
  /\ commits[c].repo = commits[trust].repo
  /\ Gen(c) >= Gen(trust)
  /\ RefuseForks => ~Forked(c)

Acceptable(p, c) ==
  /\ Me \in commits[c].lists.members
  /\ trust = 0 => ~knew[p] /\ FirstContact # "refuse"
  /\ SignerTrusted(c)
  /\ PinnedRepo # 0 => commits[c].repo = PinnedRepo
  /\ Gen(c) >= MinGeneration
  /\ JumpAllowed(c)
  /\ trust # 0 =>
       /\ Follows(c)
       /\ MayChange(commits[c].signer, commits[trust].lists, commits[c].lists)
  /\ SoundLists(commits[c].lists)

\* The tip fetched does not descend from the one seen before.
Rewrote(p) ==
  previous[p] # 0 /\ previous[p] # tip[p] /\ ~IsAncestor(previous[p], tip[p])

\* Mutant of SaveTrust: what a later helper accepted is overwritten.
SaveTrustAlways(c) == trust' = c

\* save_trust: not over a later generation.
SaveTrust(c) == trust' = IF trust # 0 /\ Gen(trust) > Gen(c) THEN trust ELSE c

(* Accepted: the trust file is written, a rewrite reported.                *)
Accept(p) ==
  /\ pc[p] = "check"
  /\ Acceptable(p, tip[p])
  /\ SaveTrust(tip[p])
  /\ told' = FALSE
  /\ Go(p, "mark")
  /\ UNCHANGED <<commits, branch, known, tracking, dir, lock,
                 knew, previous, tip, pushed, orphan>>

(* ... then the marker, and the lock is released.                          *)
Mark(p) ==
  /\ pc[p] = "mark"
  /\ MarkKnown
  /\ lock' = NoProc
  /\ Go(p, "ready")
  /\ UNCHANGED <<commits, branch, trust, tracking, dir, told,
                 knew, previous, tip, pushed, orphan>>

\* Mutant of Refuse: a refusal does not report the rewrite.
RefuseSilently(p) ==
  /\ pc[p] = "check"
  /\ ~Acceptable(p, tip[p])
  /\ tracking' = IF knew[p] THEN tracking ELSE 0
  /\ lock' = NoProc
  /\ Go(p, "refused")
  /\ UNCHANGED <<commits, branch, trust, known, dir, told,
                 knew, previous, tip, pushed, orphan>>

(* Refused: a rewrite is reported now; a refused first contact leaves no   *)
(* tracking ref.                                                           *)
Refuse(p) ==
  /\ pc[p] = "check"
  /\ ~Acceptable(p, tip[p])
  /\ told' = (told \/ Rewrote(p))
  /\ tracking' = IF knew[p] THEN tracking ELSE 0
  /\ lock' = NoProc
  /\ Go(p, "refused")
  /\ UNCHANGED <<commits, branch, trust, known, dir,
                 knew, previous, tip, pushed, orphan>>

-----------------------------------------------------------------------------
\* Pushing and recording the push.

(* The compare-and-swap takes a commit on the tip connected to; when its   *)
(* answer is lost the helper connects again (push_attempts).               *)
Push(p, lists) ==
  /\ p \in Pushers
  /\ pc[p] = "ready" /\ ~orphan[p]
  /\ branch = tip[p]
  /\ MayPush(Me, tip[p], lists)
  /\ Lands(Pushed(Me, tip[p], lists, 1))
  /\ pushed' = [pushed EXCEPT ![p] = Len(commits) + 1]
  /\ \E to \in {"landed", "connect"} : Go(p, to)
  /\ UNCHANGED <<fileVars, lock, knew, previous, tip, orphan>>

(* Somebody else pushed first.                                             *)
LostRace(p) ==
  /\ p \in Pushers
  /\ pc[p] = "ready" /\ branch # tip[p]
  /\ Go(p, "connect")
  /\ UNCHANGED <<commits, branch, fileVars, lock, knew, previous, tip, pushed, orphan>>

(* Under the lock, the tracking ref moves to the pushed commit unless a    *)
(* fetch moved it since.                                                   *)
Record(p) ==
  /\ pc[p] = "landed"
  /\ LockFetch(p)
  /\ ~(orphan[p] /\ tracking = tip[p])
  /\ tracking' = IF tracking = tip[p] THEN pushed[p] ELSE tracking
  /\ Go(p, "saving")
  /\ UNCHANGED <<commits, branch, trust, known, dir, told,
                 knew, previous, tip, pushed, orphan>>

(* The commit is not in a backend repository created since.                *)
RecordOrphaned(p) ==
  /\ pc[p] = "landed" /\ lock = NoProc /\ dir
  /\ orphan[p] /\ tracking = tip[p]
  /\ Exit(p)
  /\ UNCHANGED <<commits, branch, fileVars, lock>>

(* ... then the trust file, and the lock is released.                      *)
SaveRecord(p) ==
  /\ pc[p] = "saving"
  /\ SaveTrust(pushed[p])
  /\ told' = (told /\ trust' = trust)
  /\ lock' = NoProc
  /\ Go(p, "note")
  /\ UNCHANGED <<commits, branch, known, tracking, dir,
                 knew, previous, tip, pushed, orphan>>

(* The lock cannot be taken: "pushed, but not recorded locally; the next   *)
(* fetch catches up".                                                      *)
RecordFails(p) ==
  /\ pc[p] = "landed"
  /\ ~dir \/ p \in LockFailures
  /\ Go(p, "note")
  /\ UNCHANGED <<commits, branch, fileVars, lock, knew, previous, tip, pushed, orphan>>

(* After either, the marker: outside the lock.                             *)
Note(p) ==
  /\ pc[p] = "note"
  /\ MarkKnown
  /\ tip' = [tip EXCEPT ![p] = pushed[p]]
  /\ Go(p, "ready")
  /\ UNCHANGED <<commits, branch, trust, tracking, dir, told, lock,
                 knew, previous, pushed, orphan>>

(* Unless the push had packs to add to a have list that cannot be opened.  *)
NoteFails(p) ==
  /\ pc[p] = "note" /\ ~dir
  /\ Exit(p)
  /\ UNCHANGED <<commits, branch, fileVars, lock>>

-----------------------------------------------------------------------------
\* Forgetting, ending.

(* `forget` removes the directory under the lock (whose file goes with it), *)
(* then the marker.                                                        *)
Forget(p) ==
  /\ p \in Forgetters
  /\ pc[p] = "connect" /\ lock = NoProc /\ dir
  /\ trust' = 0 /\ tracking' = 0 /\ dir' = FALSE
  /\ orphan' = [q \in Proc |-> orphan[q] \/ (q # p /\ pc[q] # "idle")]
  /\ Go(p, "forgetting")
  /\ UNCHANGED <<commits, branch, known, told, lock, knew, previous, tip, pushed>>

ForgetMarker(p) ==
  /\ pc[p] = "forgetting"
  /\ known' = FALSE /\ told' = FALSE
  /\ Exit(p)
  /\ UNCHANGED <<commits, branch, trust, tracking, dir, lock>>

(* The command is over, or the refusal was reported.                       *)
End(p) ==
  /\ pc[p] \in {"ready", "refused"}
  /\ Exit(p)
  /\ UNCHANGED <<commits, branch, fileVars, lock>>

(* The helper is killed: its state on disk stays, also the marker that a   *)
(* `forget` has still to remove.                                           *)
Crash(p) ==
  /\ p \in Crashers
  /\ pc[p] # "idle"
  /\ Exit(p)
  /\ lock' = IF lock = p THEN NoProc ELSE lock
  /\ UNCHANGED <<commits, branch, fileVars>>

-----------------------------------------------------------------------------
\* The audit log of a helper connected to commit c (history).

(* An older manifest is encrypted to the participants it lists.            *)
Readable(c) == {x \in Line(c) : Me \in commits[x].lists.members}

Latest(S) == IF S = {} THEN 0 ELSE CHOOSE x \in S : \A y \in S : y <= x

\* Mutant of HistoryStart: a rewrite does not start the count again.
HistoryStartNever(x) == FALSE

HistoryStart(x) == commits[x].epoch = Gen(x)

(* One generation for each commit since the last readable one.             *)
Expected(c, x) ==
  LET last == Latest({y \in Readable(c) : y < x})
  IN IF HistoryStart(x) THEN Gen(x)
     ELSE Gen(last) + Cardinality({y \in Line(c) : last < y /\ y <= x})

Discontinuities(c) == {x \in Readable(c) : Gen(x) # Expected(c, x)}

(* Chained to c, which was accepted: each later one names the one before.  *)
Verified(c) ==
  {x \in Readable(c) :
     \A y \in {z \in Line(c) : z > x} :
       y \in Readable(c) /\ commits[y].replaces = Latest({z \in Line(c) : z < y})}

-----------------------------------------------------------------------------
HelperStep(p) ==
  \/ Fetch(p) \/ FetchNothing(p) \/ FetchFails(p)
  \/ Accept(p) \/ Mark(p) \/ Refuse(p)
  \/ Record(p) \/ RecordOrphaned(p) \/ SaveRecord(p) \/ RecordFails(p)
  \/ Note(p) \/ NoteFails(p) \/ ForgetMarker(p)

Next ==
  \/ \E s \in Member, lists \in Lists, jump \in Jumps : OtherPush(s, lists, jump)
  \/ \E s \in Member : OtherRewrite(s)
  \/ \E c \in Commits : HostRestores(c)
  \/ HostDeletes
  \/ \E p \in Proc :
       \/ Start(p) \/ HelperStep(p) \/ LostRace(p) \/ Forget(p) \/ End(p) \/ Crash(p)
       \/ \E lists \in Lists : Push(p, lists)

Spec == Init /\ [][Next]_vars

-----------------------------------------------------------------------------
\* Types.

Commit(n) ==
  [generation : Nat, repo : 1..n, replaces : 0..n, epoch : Nat, signer : Member,
   lists : Lists, line : SUBSET (1..n)]

Places == {"idle", "connect", "check", "mark", "ready", "landed", "saving", "note",
           "refused", "forgetting"}

Position == 0..Len(commits)

TypeOK ==
  /\ commits \in Seq(Commit(Len(commits)))
  /\ {branch, trust, tracking} \subseteq Position
  /\ {known, dir, told} \subseteq BOOLEAN
  /\ lock \in Proc \cup {NoProc}
  /\ pc \in [Proc -> Places]
  /\ knew \in [Proc -> BOOLEAN]
  /\ previous \in [Proc -> Position]
  /\ tip \in [Proc -> Position]
  /\ pushed \in [Proc -> Position]
  /\ orphan \in [Proc -> BOOLEAN]

-----------------------------------------------------------------------------
\* Safety.

(* What was accepted is never taken back: until it is forgotten, the trust *)
(* file only moves to a later generation of the same repository, whatever  *)
(* the host serves and however late a push is recorded (save_trust,        *)
(* remote.rs:307; DESIGN.md, 6.2: a reader refuses a lower generation, and *)
(* another manifest of the same one).                                      *)
TrustAdvances ==
  [][trust # 0 /\ trust' \notin {0, trust} =>
       /\ commits'[trust'].generation > Gen(trust)
       /\ commits'[trust'].repo = commits[trust].repo]_vars

(* A helper works with the very manifest it recorded, never with an older  *)
(* one it checked against what another helper recorded since               *)
(* (remote.rs:412-415).                                                    *)
UsedIsRecorded == \A p \in Proc : pc[p] = "mark" => trust = tip[p]

(* The marker stands for trust state: with the marker and without the      *)
(* file, every contact is refused, so no crash, race or error may leave    *)
(* that behind (remote.rs:417, 558), but that of `forget` itself: a repeat *)
(* removes what is left.                                                   *)
MarkerMeansTrust == known => trust # 0 \/ \E p \in Proc : pc[p] = "forgetting"

(* While the host shows what the participants pushed, and they push by the *)
(* writers' rules, no helper refuses it: no rollback is seen that is not   *)
(* one (DESIGN.md, 5.4), and what writers let through readers accept       *)
(* (DESIGN.md, 6.1).                                                       *)
NeverRefused == \A p \in Proc : pc[p] # "refused"

(* While the host shows what the participants pushed, the log calls none   *)
(* of it unverified and reports no gap, be it pushed over lost races,      *)
(* recorded or not, or on a history a participant started over (history;   *)
(* DESIGN.md, 6.6).                                                        *)
LogIsClean ==
  \A p \in Proc : pc[p] = "ready" /\ tip[p] # 0 =>
    Discontinuities(tip[p]) = {} /\ Verified(tip[p]) = Line(tip[p])

(* An accepted generation never runs ahead of the pushes behind it, so the *)
(* last generation cannot be reached by decree (check_generation_jump).    *)
NoGenerationRunsAhead == trust # 0 => Gen(trust) <= Cardinality(Line(trust))

(* A history rewritten by the host or a participant is reported before a   *)
(* manifest on it is accepted, even when a first sight of it was refused   *)
(* and moved the tracking ref (remote.rs:433-473).                         *)
RewriteReported ==
  [][trust # 0 /\ trust' \notin {0, trust} /\ trust \notin commits'[trust'].line =>
       told \/ \E p \in Proc : pc[p] = "check" /\ pc'[p] = "mark" /\ Rewrote(p)]_vars
=============================================================================
