--------------------------- MODULE EncRemote_proofs ---------------------------
(***************************************************************************)
(* Theorems about EncRemote, for every number of clones, refs, commits and *)
(* attempts.                                                               *)
(***************************************************************************)
EXTENDS EncRemote, SequenceTheorems, TLAPS

-----------------------------------------------------------------------------
\* What the operators a push is built from return.

\* Ancestors of commits are commits.
LEMMA ReachType ==
  ASSUME NEW S \in SUBSET Commit
  PROVE  Reach(S) \in SUBSET Commit
BY AncAssumption DEF Reach

\* A manifest read on connecting is a manifest, its tree a set of packs.
LEMMA ManifestType ==
  ASSUME TypeOK, NEW c \in Clone
  PROVE  /\ Manifest(c) \in Manifests
         /\ TreeAt(tip[c]) \in SUBSET Pack
<1>1. EmptyManifest \in Manifests
  BY EmptySeq DEF EmptyManifest, Manifests
<1>2. CASE tip[c] = 0
  BY <1>1, <1>2 DEF Manifest, ManifestAt, TreeAt
<1>3. CASE tip[c] # 0
  <2>1. log \in Seq(BackendCommit) /\ tip[c] \in 1..Len(log)
    BY <1>3 DEF TypeOK
  <2>2. log[tip[c]] \in BackendCommit
    BY <2>1, ElementOfSeq
  <2> QED
    BY <1>3, <2>2 DEF Manifest, ManifestAt, TreeAt, BackendCommit
<1> QED
  BY <1>2, <1>3

\* The refs a manifest names are commits.
LEMMA KnownType ==
  ASSUME NEW m \in Manifests
  PROVE  Known(m) \in SUBSET Commit
BY DEF Known, Manifests

\* What a command asks: refs, and commits for them.
LEMMA SpecsType ==
  ASSUME TypeOK, NEW c \in Clone
  PROVE  /\ DOMAIN op[c].specs \subseteq Ref
         /\ \A r \in DOMAIN op[c].specs : op[c].specs[r] \in RefSpec
<1>1. op[c] \in Op
  BY DEF TypeOK
<1>2. CASE op[c].specs = <<>>
  BY <1>2
<1>3. CASE op[c].specs \in Batches
  BY <1>3 DEF Batches
<1> QED
  BY <1>1, <1>2, <1>3 DEF Op

\* The tips of a push or of a repack are commits, accepted refspecs are refs.
LEMMA WantsType ==
  ASSUME TypeOK, NEW c \in Clone
  PROVE  /\ Accepted(c) \in SUBSET Ref
         /\ Wants(c) \in SUBSET Commit
         /\ Excludes(c) \in SUBSET Commit
<1>1. Known(Manifest(c)) \in SUBSET Commit
  BY ManifestType, KnownType
<1>2. Accepted(c) \subseteq DOMAIN op[c].specs
  BY DEF Accepted
<1>3. \A r \in DOMAIN op[c].specs : op[c].specs[r].src \in Commit \cup {NoCommit}
  BY SpecsType DEF RefSpec
<1> QED
  BY <1>1, <1>2, <1>3, SpecsType DEF Wants, Excludes

\* What is built are packs.
LEMMA BuiltType ==
  ASSUME TypeOK, NEW c \in Clone, NEW build \in BuildId
  PROVE  Built(c, build) \in Seq(Pack)
<1>1. Reach(Wants(c)) \in SUBSET Commit /\ Reach(Excludes(c)) \in SUBSET Commit
  BY WantsType, ReachType
<1>2. ThinPack(c, build) \in Seq(Pack)
  <2> DEFINE new == Reach(Wants(c)) \ Reach(Excludes(c))
  <2>1. [build |-> build, holds |-> new, thin |-> Reach(Excludes(c))] \in Pack
    BY <1>1 DEF Pack
  <2> QED
    BY <2>1, EmptySeq DEF ThinPack
<1>3. RepackedPacks(c, build) \in Seq(Pack)
  <2> DEFINE behind == Reach(Wants(c)) \ Wants(c)
             pack(s) == [build |-> build, holds |-> s, thin |-> {}]
  <2>1. pack(Wants(c)) \in Pack /\ pack(behind) \in Pack
    BY <1>1, WantsType DEF Pack
  <2> HIDE DEF pack
  <2>2. <<pack(Wants(c))>> \in Seq(Pack) /\ <<pack(Wants(c)), pack(behind)>> \in Seq(Pack)
    BY <2>1
  <2> QED
    BY <2>2, EmptySeq DEF RepackedPacks, pack
<1> QED
  BY <1>2, <1>3 DEF Built

\* What an attempt stages, given what it kept.
LEMMA StageType ==
  ASSUME TypeOK, NEW c \in Clone, CanBuild,
         NEW kept \in StagedSet \cup {Nothing}
  PROVE  /\ Stage(c, kept) \in StagedSet \cup {Nothing}
         /\ StagedPacks(Stage(c, kept)) \in Seq(Pack)
<1>1. FreshBuild \in BuildId
  BY DEF FreshBuild, CanBuild
<1>2. Built(c, FreshBuild) \in Seq(Pack)
  BY <1>1, BuiltType
<1>3. Range(Manifest(c).packs) \in SUBSET Pack
  BY ManifestType, LenProperties DEF Manifests, Range
<1>4. Stage(c, kept) \in StagedSet \cup {Nothing}
  BY <1>2, <1>3, WantsType DEF Stage, StagedSet
<1> QED
  BY <1>4, EmptySeq DEF StagedPacks, StagedSet

\* The commit an attempt pushes.
LEMMA DraftType ==
  ASSUME TypeOK, NEW c \in Clone, NEW s \in StagedSet \cup {Nothing}
  PROVE  NewCommitOnTip(c, s) \in BackendCommit
<1>1. StagedPacks(s) \in Seq(Pack)
  BY EmptySeq DEF StagedPacks, StagedSet
<1>2. Range(StagedPacks(s)) \in SUBSET Pack
  BY <1>1, LenProperties DEF Range
<1>3. Manifest(c) \in Manifests /\ TreeAt(tip[c]) \in SUBSET Pack
  BY ManifestType
<1>4. NewRefs(c) \in [Ref -> Commit \cup {NoCommit}]
  BY <1>3, SpecsType DEF NewRefs, Accepted, Manifests, RefSpec
<1>5. (IF Repacking(c) THEN <<>> ELSE Manifest(c).packs) \o StagedPacks(s) \in Seq(Pack)
  BY <1>1, <1>3, EmptySeq, ConcatProperties DEF Manifests
<1>6. NewManifest(c, s) \in Manifests
  BY <1>3, <1>4, <1>5 DEF NewManifest, Manifests
<1>7. NewTree(c, s) \in SUBSET Pack
  BY <1>2, <1>3 DEF NewTree
<1>8. tip[c] \in Nat
  BY DEF TypeOK
<1>9. Repacking(c) \in BOOLEAN
  BY DEF Repacking
<1> QED
  BY <1>6, <1>7, <1>8, <1>9, WantsType DEF NewCommitOnTip, BackendCommit, Asked

-----------------------------------------------------------------------------
\* Types.

(* A helper at the compare-and-swap has a commit on the tip it read; one   *)
(* whose push landed, or that lost a race, is behind the branch.           *)
HelperOK ==
  \A c \in Clone :
    /\ pc[c] = "cas" => draft[c] \in BackendCommit /\ draft[c].on = tip[c]
    /\ pc[c] \in {"landed", "lost"} => tip[c] < Len(log)

TypeInv == TypeOK /\ HelperOK

\* It holds at the start.
LEMMA TypeInit == Init => TypeInv
<1> SUFFICES ASSUME Init PROVE TypeInv
  OBVIOUS
<1>1. log \in Seq(BackendCommit) /\ Len(log) = 0
  BY EmptySeq DEF Init
<1>2. NoOp \in Op
  BY DEF NoOp, Op
<1> QED
  BY <1>1, <1>2, InitialAssumption, BoundAssumption
  DEF Init, TypeInv, TypeOK, HelperOK, Places

\* The log only grows, and by a backend commit.
LEMMA TakesType ==
  ASSUME TypeOK, NEW d \in BackendCommit, HostTakes(d)
  PROVE  /\ log' \in Seq(BackendCommit)
         /\ Len(log') = Len(log) + 1
         /\ tip \in [Clone -> 0..Len(log')]
<1>1. log \in Seq(BackendCommit) /\ Len(log) \in Nat
  BY DEF TypeOK
<1>2. log' \in Seq(BackendCommit) /\ Len(log') = Len(log) + 1
  BY <1>1 DEF HostTakes
<1> QED
  BY <1>1, <1>2 DEF TypeOK

\* A step that ends the command of c keeps the types of what it resets.
LEMMA FinishType ==
  ASSUME TypeOK, NEW c \in Clone, NEW to \in Places, Finish(c, to)
  PROVE  /\ pc' \in [Clone -> Places]
         /\ op' \in [Clone -> Op]
         /\ attempt' \in [Clone -> 0..PushAttempts]
         /\ staged' \in [Clone -> StagedSet \cup {Nothing}]
         /\ draft' \in [Clone -> BackendCommit \cup {Nothing}]
         /\ pc'[c] = to
         /\ \A d \in Clone \ {c} : pc'[d] = pc[d] /\ draft'[d] = draft[d]
<1>1. NoOp \in Op
  BY DEF NoOp, Op
<1> QED
  BY <1>1, BoundAssumption DEF TypeOK, Finish

\* An attempt that builds keeps the types, and has a commit on the tip it read.
LEMMA BuildType ==
  ASSUME TypeOK, NEW c \in Clone, NEW kept \in StagedSet \cup {Nothing}, Build(c, kept)
  PROVE  /\ pc' \in [Clone -> Places]
         /\ staged' \in [Clone -> StagedSet \cup {Nothing}]
         /\ draft' \in [Clone -> BackendCommit \cup {Nothing}]
         /\ draft'[c] \in BackendCommit
         /\ draft'[c].on = tip[c]
         /\ \A d \in Clone \ {c} : pc'[d] = pc[d] /\ draft'[d] = draft[d]
<1> DEFINE s == Stage(c, kept)
<1>1. s \in StagedSet \cup {Nothing}
  BY StageType DEF Build
<1>2. NewCommitOnTip(c, s) \in BackendCommit
  BY <1>1, DraftType
<1>3. NewCommitOnTip(c, s).on = tip[c]
  BY DEF NewCommitOnTip
<1>4. /\ staged' = [staged EXCEPT ![c] = s]
      /\ draft' = [draft EXCEPT ![c] = NewCommitOnTip(c, s)]
      /\ pc' = [pc EXCEPT ![c] = "cas"]
  BY DEF Build
<1> HIDE DEF s
<1> QED
  BY <1>1, <1>2, <1>3, <1>4 DEF TypeOK, Places

\* Every action keeps it.
LEMMA TypeStep == TypeInv /\ [Next]_vars => TypeInv'
<1> SUFFICES ASSUME TypeInv, [Next]_vars PROVE TypeInv'
  OBVIOUS
<1> USE DEF TypeInv, hostVars, storeVars, helperVars
<1>0. /\ Len(log) \in Nat
      /\ \A c \in Clone : tip[c] \in 0..Len(log)
  BY DEF TypeOK
<1>1. ASSUME NEW c \in Clone, NEW x \in Commit, NewCommit(c, x) PROVE TypeInv'
  BY <1>1 DEF NewCommit, TypeOK, HelperOK
<1>2. ASSUME NEW c \in Clone, Connect(c) PROVE TypeInv'
  BY <1>0, <1>2 DEF Connect, TypeOK, HelperOK, Places
<1>3. ASSUME NEW c \in Clone, BeginFetch(c) PROVE TypeInv'
  <2>1. [kind |-> "fetch", specs |-> <<>>] \in Op
    BY DEF Op
  <2> QED
    BY <1>3, <2>1 DEF BeginFetch, TypeOK, HelperOK, Places
<1>4. ASSUME NEW c \in Clone, BeginRepack(c) PROVE TypeInv'
  <2>1. [kind |-> "repack", specs |-> <<>>] \in Op
    BY DEF Op
  <2> QED
    BY <1>4, <2>1, BoundAssumption DEF BeginRepack, TypeOK, HelperOK, Places
<1>5. ASSUME NEW c \in Clone, NEW batch \in Batch[c], BeginPush(c, batch) PROVE TypeInv'
  <2>1. [kind |-> "push", specs |-> batch] \in Op
    BY BatchAssumption DEF Op
  <2> QED
    BY <1>5, <2>1, BoundAssumption DEF BeginPush, TypeOK, HelperOK, Places
<1>6. ASSUME NEW c \in Clone, IndexPack(c) PROVE TypeInv'
  <2>1. \A i \in DOMAIN Manifest(c).packs : Manifest(c).packs[i].holds \in SUBSET Commit
    <3>1. \A i \in DOMAIN Manifest(c).packs : Manifest(c).packs[i] \in Pack
      BY ManifestType, ElementOfSeq, LenProperties DEF Manifests
    <3> QED
      BY <3>1 DEF Pack
  <2>2. objs' \in [Clone -> SUBSET Commit]
    <3>1. PICK i \in DOMAIN Manifest(c).packs :
            objs' \in {objs, [objs EXCEPT ![c] = @ \cup Manifest(c).packs[i].holds]}
      BY <1>6 DEF IndexPack
    <3> QED
      BY <2>1, <3>1 DEF TypeOK
  <2> QED
    BY <1>6, <2>2 DEF IndexPack, TypeOK, HelperOK, Places
<1>7. ASSUME NEW c \in Clone, AddHave(c) PROVE TypeInv'
  <2>1. \A i \in DOMAIN Manifest(c).packs : Manifest(c).packs[i] \in Pack
    BY ManifestType, ElementOfSeq, LenProperties DEF Manifests
  <2>2. have' \in [Clone -> SUBSET Pack]
    BY <1>7, <2>1 DEF AddHave, TypeOK
  <2> QED
    BY <1>7, <2>2 DEF AddHave, TypeOK, HelperOK, Places
<1>8. ASSUME NEW c \in Clone, FetchDone(c) PROVE TypeInv'
  <2>1. CASE Finish(c, "ready")
    BY <1>0, <1>8, <2>1, FinishType DEF FetchDone, TypeOK, HelperOK, Places
  <2>2. CASE ~Finish(c, "ready")
    BY <1>8, <2>2 DEF FetchDone, TypeOK, HelperOK, Places
  <2> QED
    BY <2>1, <2>2
<1>9. ASSUME NEW c \in Clone, NothingAccepted(c) PROVE TypeInv'
  BY <1>9, FinishType DEF NothingAccepted, TypeOK, HelperOK, Places
<1>10. ASSUME NEW c \in Clone PROVE HaveListed(c) \in SUBSET Pack
  <2>1. staged[c] # Nothing => Range(staged[c].packs) \in SUBSET Pack
    BY LenProperties DEF TypeOK, StagedSet, Range
  <2> QED
    BY <2>1 DEF HaveListed, AlreadyListed, TypeOK
<1>11. ASSUME NEW c \in Clone PROVE Unlisted(c) \in StagedSet \cup {Nothing}
  BY DEF Unlisted, TypeOK
<1>12. ASSUME NEW c \in Clone, BuildPush(c) PROVE TypeInv'
  <2>1. Build(c, Unlisted(c)) /\ UNCHANGED <<log, objs, tip, op, attempt, wire>>
    BY <1>12 DEF BuildPush
  <2>2. have' \in [Clone -> SUBSET Pack]
    BY <1>10, <1>12 DEF BuildPush, TypeOK
  <2>3. TypeOK'
    BY <1>11, <2>1, <2>2, BuildType DEF TypeOK
  <2>4. HelperOK'
    <3>1. pc' = [pc EXCEPT ![c] = "cas"]
      BY <2>1 DEF Build
    <3> QED
      BY <1>11, <2>1, <3>1, BuildType DEF TypeOK, HelperOK, BackendCommit
  <2> QED
    BY <2>3, <2>4
<1>13. ASSUME NEW c \in Clone, RepackFoundLanded(c) PROVE TypeInv'
  <2>1. Finish(c, "ready") /\ UNCHANGED <<log, objs, tip, wire>>
    BY <1>13 DEF RepackFoundLanded
  <2>2. have' \in [Clone -> SUBSET Pack]
    BY <1>10, <1>13 DEF RepackFoundLanded, TypeOK
  <2> QED
    BY <2>1, <2>2, FinishType DEF TypeOK, HelperOK, Places
<1>14. ASSUME NEW c \in Clone, RepackFetches(c) PROVE TypeInv'
  <2>1. have' \in [Clone -> SUBSET Pack]
    BY <1>10, <1>14 DEF RepackFetches, TypeOK
  <2>2. staged' \in [Clone -> StagedSet \cup {Nothing}]
    BY <1>11, <1>14 DEF RepackFetches, TypeOK
  <2> QED
    BY <1>14, <2>1, <2>2 DEF RepackFetches, TypeOK, HelperOK, Places
<1>15. ASSUME NEW c \in Clone, BuildRepack(c) PROVE TypeInv'
  <2>1. Build(c, staged[c]) /\ UNCHANGED <<log, objs, have, tip, op, attempt, wire>>
    BY <1>15 DEF BuildRepack
  <2>2. staged[c] \in StagedSet \cup {Nothing}
    BY DEF TypeOK
  <2>3. TypeOK'
    BY <2>1, <2>2, BuildType DEF TypeOK
  <2>4. HelperOK'
    <3>1. pc' = [pc EXCEPT ![c] = "cas"]
      BY <2>1 DEF Build
    <3> QED
      BY <2>1, <2>2, <3>1, BuildType DEF TypeOK, HelperOK
  <2> QED
    BY <2>3, <2>4
<1>16. ASSUME NEW c \in Clone, Land(c) PROVE TypeInv'
  <2>1. draft[c] \in BackendCommit /\ HostTakes(draft[c]) /\ draft[c].on = tip[c]
    BY <1>16 DEF Land, HelperOK
  <2>2. log' \in Seq(BackendCommit) /\ Len(log') = Len(log) + 1 /\ tip \in [Clone -> 0..Len(log')]
    BY <2>1, TakesType
  <2>3. UNCHANGED <<objs, have, tip, op, attempt, staged, draft, wire>>
    BY <1>16 DEF Land
  <2>4. pc' \in [Clone -> Places]
    BY <1>16 DEF Land, TypeOK, Places
  <2>5. TypeOK'
    BY <2>2, <2>3, <2>4 DEF TypeOK
  <2>6. HelperOK'
    BY <1>0, <1>16, <2>1, <2>2, <2>3 DEF Land, TypeOK, HelperOK
  <2> QED
    BY <2>5, <2>6
<1>17. ASSUME NEW c \in Clone, Stale(c) PROVE TypeInv'
  <2>1. draft[c].on = tip[c] /\ Len(log) # draft[c].on
    BY <1>17 DEF Stale, HelperOK
  <2> QED
    BY <1>0, <1>17, <2>1 DEF Stale, TypeOK, HelperOK, Places
<1>18. ASSUME NEW c \in Clone, NEW w \in LeftOnWire(c), pc[c] = "cas"
       PROVE  w \in [Clone -> BackendCommit \cup {Nothing}]
  BY <1>18 DEF LeftOnWire, TypeOK, HelperOK
<1>19. ASSUME NEW c \in Clone, Fail(c) PROVE TypeInv'
  <2>1. wire' \in [Clone -> BackendCommit \cup {Nothing}]
    BY <1>18, <1>19 DEF Fail
  <2> QED
    BY <1>19, <2>1 DEF Fail, TypeOK, HelperOK, Places
<1>20. ASSUME NEW c \in Clone, LateLand(c) PROVE TypeInv'
  <2>1. wire[c] \in BackendCommit /\ HostTakes(wire[c])
    BY <1>20 DEF LateLand, TypeOK
  <2>2. log' \in Seq(BackendCommit) /\ Len(log') = Len(log) + 1 /\ tip \in [Clone -> 0..Len(log')]
    BY <2>1, TakesType
  <2> QED
    BY <1>0, <1>20, <2>2 DEF LateLand, TypeOK, HelperOK
<1>21. ASSUME NEW c \in Clone, LateStale(c) PROVE TypeInv'
  BY <1>21 DEF LateStale, TypeOK, HelperOK
<1>22. ASSUME NEW c \in Clone, CheckTip(c) PROVE TypeInv'
  <2>1. CASE Moved(c)
    <3>1. tip[c] < Len(log)
      BY <1>0, <2>1 DEF Moved
    <3> QED
      BY <1>22, <2>1, <3>1 DEF CheckTip, TypeOK, HelperOK, Places
  <2>2. CASE ~Moved(c)
    <3>1. Finish(c, "idle") /\ tip' = [tip EXCEPT ![c] = 0]
          /\ UNCHANGED <<log, objs, have, wire>>
      BY <1>22, <2>2 DEF CheckTip
    <3> QED
      BY <1>0, <3>1, FinishType DEF TypeOK, HelperOK, Places
  <2> QED
    BY <2>1, <2>2
<1>23. ASSUME NEW c \in Clone, Retry(c) PROVE TypeInv'
  <2>1. CASE attempt[c] < PushAttempts
    <3>1. TypeOK'
      <4>1. tip' \in [Clone -> 0..Len(log')] /\ log' = log
        <5>1. log' = log /\ tip' = [tip EXCEPT ![c] = Len(log)]
          BY <1>23, <2>1 DEF Retry
        <5>2. tip \in [Clone -> 0..Len(log)] /\ Len(log) \in 0..Len(log)
          BY <1>0 DEF TypeOK
        <5> QED
          BY <5>1, <5>2
      <4>2. attempt' \in [Clone -> 0..PushAttempts]
        BY <1>23, <2>1, BoundAssumption DEF Retry, TypeOK
      <4> QED
        BY <1>23, <2>1, <4>1, <4>2 DEF Retry, TypeOK, Places
    <3>2. HelperOK'
      BY <1>23, <2>1 DEF Retry, TypeOK, HelperOK
    <3> QED
      BY <3>1, <3>2
  <2>2. CASE ~(attempt[c] < PushAttempts)
    <3>1. Finish(c, "idle") /\ tip' = [tip EXCEPT ![c] = 0]
          /\ UNCHANGED <<log, objs, have, wire>>
      BY <1>23, <2>2 DEF Retry
    <3> QED
      BY <1>0, <3>1, FinishType DEF TypeOK, HelperOK, Places
  <2> QED
    BY <2>1, <2>2
<1>24. ASSUME NEW c \in Clone, Record(c) PROVE TypeInv'
  <2>1. Finish(c, "ready") /\ tip' = [tip EXCEPT ![c] = @ + 1] /\ UNCHANGED <<log, objs, wire>>
    BY <1>24 DEF Record
  <2>2. tip[c] < Len(log)
    BY <1>24 DEF Record, HelperOK
  <2>3. tip' \in [Clone -> 0..Len(log)]
    BY <1>0, <2>1, <2>2 DEF TypeOK
  <2>4. Range(StagedPacks(staged[c])) \in SUBSET Pack
    BY EmptySeq, LenProperties DEF TypeOK, StagedPacks, StagedSet, Range
  <2>5. have' \in [Clone -> SUBSET Pack]
    BY <1>24, <2>4 DEF Record, TypeOK
  <2> QED
    BY <2>1, <2>3, <2>5, FinishType DEF TypeOK, HelperOK, Places
<1>25. ASSUME NEW c \in Clone, Stop(c) PROVE TypeInv'
  <2>1. Finish(c, "idle") /\ tip' = [tip EXCEPT ![c] = 0] /\ UNCHANGED <<log, objs, have>>
    BY <1>25 DEF Stop
  <2>2. wire' \in [Clone -> BackendCommit \cup {Nothing}]
    BY <1>18, <1>25 DEF Stop, TypeOK
  <2>3. TypeOK'
    <3>1. tip' \in [Clone -> 0..Len(log')]
      BY <1>0, <2>1 DEF TypeOK
    <3>2. log' = log /\ objs' = objs /\ have' = have /\ "idle" \in Places
      BY <2>1 DEF Places
    <3> QED
      BY <2>1, <2>2, <3>1, <3>2, FinishType DEF TypeOK
  <2>4. HelperOK'
    BY <2>1, FinishType DEF TypeOK, HelperOK, Places
  <2> QED
    BY <2>3, <2>4
<1>26. CASE UNCHANGED vars
  BY <1>26 DEF vars, TypeOK, HelperOK, Moved
<1>27. CASE Next
  BY <1>1, <1>2, <1>3, <1>4, <1>5, <1>6, <1>7, <1>8, <1>9, <1>12, <1>13, <1>14, <1>15, <1>16,
     <1>17, <1>19, <1>20, <1>21, <1>22, <1>23, <1>24, <1>25, <1>27
  DEF Next, HelperStep
<1> QED
  BY <1>26, <1>27

(* Every variable keeps its type, whatever the clones, refs and bounds: no *)
(* interleaving of pushes, retries, kills and late landings gives a helper *)
(* a tip that is not a commit of the branch.                               *)
THEOREM TypeCorrect == Spec => []TypeOK
<1>1. TypeInv => TypeOK
  BY DEF TypeInv
<1> QED
  BY <1>1, TypeInit, TypeStep, PTL DEF Spec

(* A helper that counts its push as a lost race has been overtaken         *)
(* (CheckTip, Stale; remote.rs, try_push after a failed push).             *)
THEOREM LostRaceProgress == Spec => []LostRaceMeansProgress
<1>1. TypeInv => LostRaceMeansProgress
  BY DEF TypeInv, TypeOK, HelperOK, LostRaceMeansProgress
<1> QED
  BY <1>1, TypeInit, TypeStep, PTL DEF Spec

-----------------------------------------------------------------------------
\* The line of generations.

\* The manifest at the v-th tip of a branch that went through the tips lg.
At(lg, v) == IF v = 0 THEN EmptyManifest ELSE lg[v].manifest

(* The commit d is built on a tip of the branch lg: its generation is the  *)
(* next, and unless it repacks it lists that tip's packs before its own.   *)
Extends(lg, d) ==
  /\ d.on \in 0..Len(lg)
  /\ d.manifest.generation = d.on + 1
  /\ ~d.repack => LET old == At(lg, d.on).packs
                  IN /\ Len(old) <= Len(d.manifest.packs)
                     /\ SubSeq(d.manifest.packs, 1, Len(old)) = old

(* Every commit extends the branch: those that landed, the one before each *)
(* of them being the one they were built on; those helpers are pushing;    *)
(* and those on the wire, however late they land.                          *)
LineInv ==
  /\ \A v \in 1..Len(log) : log[v].on = v - 1 /\ Extends(log, log[v])
  /\ \A c \in Clone : pc[c] = "cas" => Extends(log, draft[c])
  /\ \A c \in Clone : wire[c] # Nothing => Extends(log, wire[c])

\* A sequence is the beginning of what it is concatenated to.
LEMMA PrefixOfConcat ==
  ASSUME NEW S, NEW s \in Seq(S), NEW t \in Seq(S)
  PROVE  Len(s) <= Len(s \o t) /\ SubSeq(s \o t, 1, Len(s)) = s
<1>0. Len(s) <= Len(s \o t)
  OBVIOUS
<1>1. CASE Len(s) = 0
  <2>1. s = <<>>
    BY <1>1, EmptySeq
  <2> QED
    BY <1>0, <1>1, <2>1, SubSeqEmpty
<1>2. CASE Len(s) # 0
  <2>1. Len(s) \in 1..Len(s)
    BY <1>2, LenProperties
  <2>2. SubSeq(s \o t, 1, Len(s)) = SubSeq(s, 1, Len(s))
    BY <2>1, SubSeqOfConcat1
  <2> QED
    BY <1>0, <2>2, SubSeqFull
<1> QED
  BY <1>1, <1>2

\* A commit that extends a branch still does when the branch has grown.
LEMMA ExtendsStays ==
  ASSUME NEW lg \in Seq(BackendCommit), NEW x \in BackendCommit, NEW d, Extends(lg, d)
  PROVE  Extends(Append(lg, x), d)
<1>1. Len(Append(lg, x)) = Len(lg) + 1 /\ Len(lg) \in Nat
  OBVIOUS
<1>2. \A v \in 0..Len(lg) : At(Append(lg, x), v) = At(lg, v)
  BY DEF At
<1> QED
  BY <1>1, <1>2 DEF Extends

\* What a helper builds extends the branch.
LEMMA BuildExtends ==
  ASSUME TypeOK, LineInv, NEW c \in Clone, NEW kept \in StagedSet \cup {Nothing}, Build(c, kept)
  PROVE  Extends(log, draft'[c])
<1> DEFINE s == Stage(c, kept)
           old == Manifest(c).packs
<1>1. draft'[c] = NewCommitOnTip(c, s)
  BY DEF Build, TypeOK
<1>2. tip[c] \in 0..Len(log) /\ Len(log) \in Nat
  BY DEF TypeOK
<1>3. Manifest(c) = At(log, tip[c]) /\ Manifest(c) \in Manifests
  BY ManifestType DEF Manifest, ManifestAt, At
<1>4. Manifest(c).generation = tip[c]
  <2>1. CASE tip[c] = 0
    BY <1>3, <2>1 DEF At, EmptyManifest
  <2>2. CASE tip[c] # 0
    <3>1. tip[c] \in 1..Len(log) /\ Manifest(c) = log[tip[c]].manifest
      BY <1>2, <1>3, <2>2 DEF At
    <3>2. log[tip[c]].on = tip[c] - 1 /\ Extends(log, log[tip[c]])
      BY <3>1 DEF LineInv
    <3> QED
      BY <1>2, <3>1, <3>2 DEF Extends
  <2> QED
    BY <2>1, <2>2
<1>5. old \in Seq(Pack) /\ StagedPacks(s) \in Seq(Pack)
  BY <1>3, StageType DEF Manifests, Build
<1>6. NewCommitOnTip(c, s).on = tip[c]
  BY DEF NewCommitOnTip
<1>7. NewCommitOnTip(c, s).manifest.generation = tip[c] + 1
  BY <1>4 DEF NewCommitOnTip, NewManifest
<1>8. ~NewCommitOnTip(c, s).repack =>
        /\ Len(old) <= Len(NewCommitOnTip(c, s).manifest.packs)
        /\ SubSeq(NewCommitOnTip(c, s).manifest.packs, 1, Len(old)) = old
  <2>1. ~NewCommitOnTip(c, s).repack => NewCommitOnTip(c, s).manifest.packs = old \o StagedPacks(s)
    BY DEF NewCommitOnTip, NewManifest
  <2> QED
    BY <1>5, <2>1, PrefixOfConcat
<1> HIDE DEF s
<1> QED
  BY <1>1, <1>2, <1>3, <1>6, <1>7, <1>8 DEF Extends

\* It holds at the start: the branch is empty and nobody pushes.
LEMMA LineInit == Init => LineInv
BY DEF Init, LineInv

\* A step of the host or of a helper that pushes nothing new.
LEMMA LineQuiet ==
  ASSUME LineInv, UNCHANGED <<log, wire>>,
         \A c \in Clone : pc'[c] = "cas" => pc[c] = "cas" /\ draft'[c] = draft[c]
  PROVE  LineInv'
BY DEF LineInv

\* The host takes a commit that extends the branch.
LEMMA LineTakes ==
  ASSUME TypeInv, LineInv, NEW d \in BackendCommit, Extends(log, d), HostTakes(d),
         \A c \in Clone : pc'[c] = "cas" => pc[c] = "cas" /\ draft'[c] = draft[c],
         \A c \in Clone : wire'[c] # Nothing => wire'[c] = wire[c]
  PROVE  LineInv'
<1>1. log \in Seq(BackendCommit) /\ log' = Append(log, d) /\ Len(log) = d.on
  BY DEF HostTakes, TypeInv, TypeOK
<1>2. \A e : Extends(log, e) => Extends(log', e)
  BY <1>1, ExtendsStays
<1>3. Len(log') = Len(log) + 1 /\ Len(log) \in Nat /\ log'[Len(log) + 1] = d
      /\ \A v \in 1..Len(log) : log'[v] = log[v]
  BY <1>1
<1>4. \A v \in 1..Len(log') : log'[v].on = v - 1 /\ Extends(log', log'[v])
  <2> SUFFICES ASSUME NEW v \in 1..Len(log') PROVE log'[v].on = v - 1 /\ Extends(log', log'[v])
    OBVIOUS
  <2>1. CASE v \in 1..Len(log)
    BY <1>2, <1>3, <2>1 DEF LineInv
  <2>2. CASE v = Len(log) + 1
    BY <1>1, <1>2, <1>3, <2>2
  <2> QED
    BY <1>3, <2>1, <2>2
<1>5. \A c \in Clone : pc'[c] = "cas" => Extends(log', draft'[c])
  BY <1>2 DEF LineInv
<1>6. \A c \in Clone : wire'[c] # Nothing => Extends(log', wire'[c])
  BY <1>2 DEF LineInv
<1> QED
  BY <1>4, <1>5, <1>6 DEF LineInv

\* Every action keeps it: by LineQuiet, but for building and for landing.
LEMMA LineStep == TypeInv /\ LineInv /\ [Next]_vars => LineInv'
<1> SUFFICES ASSUME TypeInv, LineInv, [Next]_vars PROVE LineInv'
  OBVIOUS
<1> USE DEF hostVars, storeVars, helperVars
<1> DEFINE Quiet == /\ UNCHANGED <<log, wire>>
                    /\ \A c \in Clone : pc'[c] = "cas" => pc[c] = "cas" /\ draft'[c] = draft[c]
<1>0. TypeOK /\ HelperOK
  BY DEF TypeInv
<1>1. ASSUME NEW c \in Clone, NEW x \in Commit, NewCommit(c, x) PROVE Quiet
  BY <1>1 DEF NewCommit
<1>2. ASSUME NEW c \in Clone,
             \/ Connect(c) \/ BeginFetch(c) \/ BeginRepack(c)
             \/ \E batch \in Batch[c] : BeginPush(c, batch)
             \/ IndexPack(c) \/ AddHave(c) \/ RepackFetches(c) \/ Stale(c)
      PROVE  Quiet
  BY <1>0, <1>2 DEF Connect, BeginFetch, BeginRepack, BeginPush, IndexPack, AddHave,
                    RepackFetches, Stale, TypeOK
<1>3. ASSUME NEW c \in Clone,
             FetchDone(c) \/ NothingAccepted(c) \/ RepackFoundLanded(c) \/ CheckTip(c)
             \/ Retry(c) \/ Record(c)
      PROVE  Quiet
  <2>1. UNCHANGED <<log, wire>>
    BY <1>3 DEF FetchDone, NothingAccepted, RepackFoundLanded, CheckTip, Retry, Record
  <2>2. \A d \in Clone \ {c} : pc'[d] = pc[d] /\ draft'[d] = draft[d]
    BY <1>0, <1>3 DEF FetchDone, NothingAccepted, RepackFoundLanded, CheckTip, Retry, Record,
                      Finish, TypeOK
  <2>3. pc'[c] # "cas"
    BY <1>0, <1>3 DEF FetchDone, NothingAccepted, RepackFoundLanded, CheckTip, Retry, Record,
                      Finish, TypeOK
  <2> QED
    BY <2>1, <2>2, <2>3
<1>4. Quiet => LineInv'
  BY LineQuiet
<1>5. ASSUME NEW c \in Clone, BuildPush(c) \/ BuildRepack(c) PROVE LineInv'
  <2>1. PICK kept \in StagedSet \cup {Nothing} : Build(c, kept)
    <3>1. Unlisted(c) \in StagedSet \cup {Nothing} /\ staged[c] \in StagedSet \cup {Nothing}
      BY <1>0 DEF Unlisted, TypeOK
    <3> QED
      BY <1>5, <3>1 DEF BuildPush, BuildRepack
  <2>2. UNCHANGED <<log, wire>>
    BY <1>5 DEF BuildPush, BuildRepack
  <2>3. Extends(log, draft'[c])
    BY <1>0, <2>1, BuildExtends
  <2>4. \A d \in Clone \ {c} : pc'[d] = pc[d] /\ draft'[d] = draft[d]
    BY <1>0, <2>1, BuildType
  <2> QED
    BY <2>2, <2>3, <2>4 DEF LineInv
<1>6. ASSUME NEW c \in Clone, Land(c) PROVE LineInv'
  <2>1. draft[c] \in BackendCommit /\ Extends(log, draft[c]) /\ HostTakes(draft[c])
    BY <1>0, <1>6 DEF Land, HelperOK, LineInv
  <2>2. \A d \in Clone : pc'[d] = "cas" => pc[d] = "cas" /\ draft'[d] = draft[d]
    BY <1>0, <1>6 DEF Land, TypeOK
  <2>3. wire' = wire
    BY <1>6 DEF Land
  <2> QED
    BY <2>1, <2>2, <2>3, LineTakes
<1>7. ASSUME NEW c \in Clone, LateLand(c) PROVE LineInv'
  <2>1. wire[c] \in BackendCommit /\ Extends(log, wire[c]) /\ HostTakes(wire[c])
    BY <1>0, <1>7 DEF LateLand, TypeOK, LineInv
  <2>2. \A d \in Clone : pc'[d] = "cas" => pc[d] = "cas" /\ draft'[d] = draft[d]
    BY <1>7 DEF LateLand
  <2>3. \A d \in Clone : wire'[d] # Nothing => wire'[d] = wire[d]
    BY <1>0, <1>7 DEF LateLand, TypeOK
  <2> QED
    BY <2>1, <2>2, <2>3, LineTakes
<1>8. ASSUME NEW c \in Clone, Fail(c) \/ Stop(c) \/ LateStale(c) PROVE LineInv'
  <2>1. log' = log
    BY <1>8 DEF Fail, Stop, LateStale
  <2>2. \A d \in Clone : pc'[d] = "cas" => pc[d] = "cas" /\ draft'[d] = draft[d]
    BY <1>0, <1>8 DEF Fail, Stop, LateStale, Finish, TypeOK
  <2>3. \A d \in Clone : wire'[d] \in {Nothing, wire[d]} \/ (pc[d] = "cas" /\ wire'[d] = draft[d])
    BY <1>0, <1>8 DEF Fail, Stop, LateStale, LeftOnWire, TypeOK
  <2> QED
    BY <2>1, <2>2, <2>3 DEF LineInv
<1>9. CASE UNCHANGED vars
  BY <1>4, <1>9 DEF vars
<1>10. CASE Next
  BY <1>1, <1>2, <1>3, <1>4, <1>5, <1>6, <1>7, <1>8, <1>10 DEF Next, HelperStep
<1> QED
  BY <1>9, <1>10

(* Each tip is one generation above the tip it replaced, and no two land   *)
(* on the same one, however many pushes race, fail after landing or land   *)
(* late: the lease is what the generation was computed from.               *)
THEOREM GenerationsFollow == Spec => []OneGenerationPerCommit
<1>1. TypeInv /\ LineInv => OneGenerationPerCommit
  <2> SUFFICES ASSUME TypeInv, LineInv, NEW v \in DOMAIN log
               PROVE  log[v].on = v - 1 /\ log[v].manifest.generation = v
    BY DEF OneGenerationPerCommit
  <2>1. v \in 1..Len(log) /\ Len(log) \in Nat
    BY DEF TypeInv, TypeOK
  <2>2. log[v].on = v - 1 /\ log[v].manifest.generation = log[v].on + 1
    BY <2>1 DEF LineInv, Extends
  <2> QED
    BY <2>1, <2>2
<1> QED
  BY <1>1, TypeInit, TypeStep, LineInit, LineStep, PTL DEF Spec

(* A push that lands keeps the packs of the tip it replaces, in the order  *)
(* in which they have to be indexed.                                       *)
THEOREM PackLinesKept == Spec => []NoPackLineLost
<1>1. TypeInv /\ LineInv => NoPackLineLost
  <2> SUFFICES ASSUME TypeInv, LineInv, NEW v \in DOMAIN log, ~log[v].repack
               PROVE  LET old == ManifestAt(v - 1).packs
                          new == log[v].manifest.packs
                      IN Len(old) <= Len(new) /\ SubSeq(new, 1, Len(old)) = old
    BY DEF NoPackLineLost
  <2>1. v \in 1..Len(log)
    BY DEF TypeInv, TypeOK
  <2>2. log[v].on = v - 1 /\ Extends(log, log[v])
    BY <2>1 DEF LineInv
  <2>3. At(log, v - 1) = ManifestAt(v - 1)
    BY DEF At, ManifestAt
  <2> QED
    BY <2>2, <2>3 DEF Extends
<1> QED
  BY <1>1, TypeInit, TypeStep, LineInit, LineStep, PTL DEF Spec

-----------------------------------------------------------------------------
\* The have list and the object store.

(* What c counts on having in its store: the packs of its have list; while *)
(* a pack is indexed and not yet recorded, that pack; before a repack      *)
(* builds, all that the refs reach; and the packs it staged, of which some *)
(* attempt may land without c hearing of it.                               *)
StoreOK(c) ==
  /\ \A p \in have[c] : p.holds \subseteq objs[c]
  /\ pc[c] = "indexed" =>
       \A i \in DOMAIN Manifest(c).packs :
         IsNext(c, i) => Manifest(c).packs[i].holds \subseteq objs[c]
  /\ pc[c] = "build" => RefsComplete(c)
  /\ staged[c] # Nothing => \A p \in Range(staged[c].packs) : p.holds \subseteq objs[c]

StoreInv == \A c \in Clone : StoreOK(c)

\* A landing changes nothing at the tip a helper read.
LEMMA ManifestStays ==
  ASSUME TypeOK, NEW c \in Clone, tip'[c] = tip[c],
         log' = log \/ \E d \in BackendCommit : log' = Append(log, d)
  PROVE  Manifest(c)' = Manifest(c)
<1>1. log \in Seq(BackendCommit) /\ tip[c] \in 0..Len(log)
  BY DEF TypeOK
<1>2. tip[c] \in 1..Len(log) => log'[tip[c]] = log[tip[c]]
  BY <1>1
<1> QED
  BY <1>1, <1>2 DEF Manifest, ManifestAt, EmptyManifest

(* What c counts on is kept by a step that starts no indexing and no build *)
(* in c, changes neither its have list nor what it staged (but to drop it), *)
(* and deletes no object.                                                  *)
LEMMA StoreFrame ==
  ASSUME TypeOK, NEW c \in Clone, StoreOK(c),
         have'[c] = have[c], objs[c] \subseteq objs'[c], staged'[c] \in {staged[c], Nothing},
         pc'[c] \in {"indexed", "build"} => pc'[c] = pc[c] /\ tip'[c] = tip[c],
         log' = log \/ \E d \in BackendCommit : log' = Append(log, d)
  PROVE  StoreOK(c)'
<1>1. CASE pc'[c] \in {"indexed", "build"}
  <2>1. pc'[c] = pc[c] /\ Manifest(c)' = Manifest(c)
    BY <1>1, ManifestStays
  <2>2. \A i : IsNext(c, i)' <=> IsNext(c, i)
    BY <2>1 DEF IsNext
  <2>3. RefsComplete(c) => RefsComplete(c)'
    BY <2>1 DEF RefsComplete, Known, Reach
  <2> QED
    BY <2>1, <2>2, <2>3 DEF StoreOK
<1>2. CASE pc'[c] \notin {"indexed", "build"}
  BY <1>2 DEF StoreOK
<1> QED
  BY <1>1, <1>2

\* What is built is in the store: the tips are complete here.
LEMMA BuiltHeld ==
  ASSUME TypeOK, NEW c \in Clone, NEW build \in BuildId, Repacking(c) => RefsComplete(c)
  PROVE  \A p \in Range(Built(c, build)) : p.holds \subseteq objs[c]
<1>1. Reach(Wants(c)) \subseteq objs[c]
  <2>1. CASE Repacking(c)
    BY <2>1 DEF Wants, RefsComplete
  <2>2. CASE ~Repacking(c)
    <3>1. \A x \in Wants(c) : Anc[x] \subseteq objs[c]
      BY <2>2 DEF Wants, Accepted, Passes, Local
    <3> QED
      BY <3>1 DEF Reach
  <2> QED
    BY <2>1, <2>2
<1>2. Wants(c) \subseteq Reach(Wants(c))
  BY WantsType, AncAssumption DEF Reach
<1>3. CASE Repacking(c)
  BY <1>1, <1>2, <1>3 DEF Built, RepackedPacks, Range
<1>4. CASE ~Repacking(c)
  BY <1>1, <1>4 DEF Built, ThinPack, Range
<1> QED
  BY <1>3, <1>4

\* So is what an attempt stages.
LEMMA StageHeld ==
  ASSUME TypeOK, NEW c \in Clone, CanBuild, Repacking(c) => RefsComplete(c),
         NEW kept \in {staged[c], Nothing}, StoreOK(c), Stage(c, kept) # Nothing
  PROVE  \A p \in Range(Stage(c, kept).packs) : p.holds \subseteq objs[c]
<1>1. FreshBuild \in BuildId
  BY DEF FreshBuild, CanBuild
<1>2. \A p \in Range(Built(c, FreshBuild)) : p.holds \subseteq objs[c]
  BY <1>1, BuiltHeld
<1>3. CASE Stage(c, kept) = kept
  BY <1>3 DEF StoreOK
<1>4. CASE Stage(c, kept) # kept
  <2>1. Stage(c, kept).packs = Built(c, FreshBuild)
    BY <1>4 DEF Stage
  <2> QED
    BY <1>2, <2>1
<1> QED
  BY <1>3, <1>4

\* The packs of an attempt found landed, and recorded then, are here.
LEMMA ListedHeld ==
  ASSUME NEW c \in Clone, StoreOK(c)
  PROVE  \A p \in HaveListed(c) : p.holds \subseteq objs[c]
BY DEF HaveListed, AlreadyListed, StoreOK

\* It holds at the start: nothing is recorded, indexed or staged.
LEMMA StoreInit == Init => StoreInv
BY DEF Init, StoreInv, StoreOK

\* Every action keeps it: by StoreFrame where the helper only moves on.
LEMMA StoreStep == TypeInv /\ StoreInv /\ [Next]_vars => StoreInv'
<1> SUFFICES ASSUME TypeInv, StoreInv, [Next]_vars PROVE StoreInv'
  OBVIOUS
<1> USE DEF hostVars, storeVars, helperVars
<1>0. TypeOK /\ HelperOK /\ \A d \in Clone : StoreOK(d)
  BY DEF TypeInv, StoreInv
<1> DEFINE Kept(d) ==
      /\ have'[d] = have[d] /\ objs[d] \subseteq objs'[d] /\ staged'[d] \in {staged[d], Nothing}
      /\ pc'[d] \in {"indexed", "build"} => pc'[d] = pc[d] /\ tip'[d] = tip[d]
      /\ log' = log \/ \E x \in BackendCommit : log' = Append(log, x)
<1>1. ASSUME NEW d \in Clone, Kept(d) PROVE StoreOK(d)'
  BY <1>0, <1>1, StoreFrame
<1> HIDE DEF Kept
<1>2. ASSUME NEW c \in Clone, NEW x \in Commit, NewCommit(c, x), NEW d \in Clone PROVE Kept(d)
  BY <1>0, <1>2 DEF NewCommit, TypeOK, Kept
<1>3. ASSUME NEW c \in Clone,
             \/ Connect(c) \/ BeginFetch(c) \/ BeginRepack(c)
             \/ \E batch \in Batch[c] : BeginPush(c, batch)
             \/ NothingAccepted(c) \/ Stale(c) \/ Fail(c) \/ LateStale(c),
             NEW d \in Clone
      PROVE  Kept(d)
  BY <1>0, <1>3 DEF Connect, BeginFetch, BeginRepack, BeginPush, NothingAccepted, Stale, Fail,
                    LateStale, Finish, TypeOK, Kept
<1>4. ASSUME NEW c \in Clone, CheckTip(c) \/ Retry(c) \/ Stop(c), NEW d \in Clone PROVE Kept(d)
  BY <1>0, <1>4 DEF CheckTip, Retry, Stop, Finish, TypeOK, Kept
<1>5. ASSUME NEW c \in Clone, Land(c) \/ LateLand(c), NEW d \in Clone PROVE Kept(d)
  <2>1. PICK x \in BackendCommit : HostTakes(x)
    BY <1>0, <1>5 DEF Land, LateLand, HelperOK, TypeOK
  <2> QED
    BY <1>0, <1>5, <2>1 DEF HostTakes, Land, LateLand, TypeOK, Kept
<1>6. ASSUME NEW c \in Clone, IndexPack(c), NEW d \in Clone PROVE StoreOK(d)'
  <2>1. CASE d # c
    BY <1>0, <1>1, <1>6, <2>1 DEF IndexPack, TypeOK, Kept
  <2>2. CASE d = c
    <3>1. PICK i \in DOMAIN Manifest(c).packs :
            /\ IsNext(c, i)
            /\ \/ /\ objs' = [objs EXCEPT ![c] = @ \cup Manifest(c).packs[i].holds]
                  /\ pc' = [pc EXCEPT ![c] = "indexed"]
               \/ objs' = objs /\ pc' = [pc EXCEPT ![c] = "broken"]
      BY <1>6 DEF IndexPack
    <3>2. UNCHANGED <<have, tip, staged, log>>
      BY <1>6 DEF IndexPack
    <3>3. CASE pc'[c] = "broken"
      BY <1>0, <1>1, <2>2, <3>1, <3>2, <3>3 DEF TypeOK, Kept
    <3>4. CASE objs' = [objs EXCEPT ![c] = @ \cup Manifest(c).packs[i].holds]
               /\ pc' = [pc EXCEPT ![c] = "indexed"]
      <4>1. pc'[c] = "indexed" /\ objs'[c] = objs[c] \cup Manifest(c).packs[i].holds
        BY <1>0, <3>4 DEF TypeOK
      <4>2. Manifest(c)' = Manifest(c)
        BY <1>0, <3>2, ManifestStays
      <4>3. ASSUME NEW j \in DOMAIN Manifest(c).packs, IsNext(c, j) PROVE j = i
        <5>1. i \in Nat \ {0} /\ j \in Nat \ {0}
          BY <1>0, ManifestType, LenProperties DEF Manifests
        <5> QED
          BY <3>1, <4>3, <5>1, i < j \/ i = j \/ j < i DEF IsNext
      <4>4. \A j : IsNext(c, j)' <=> IsNext(c, j)
        BY <3>2, <4>2 DEF IsNext
      <4>5. \A j \in DOMAIN Manifest(c)'.packs :
              IsNext(c, j)' => Manifest(c)'.packs[j].holds \subseteq objs'[c]
        BY <4>1, <4>2, <4>3, <4>4
      <4>6. \A p \in have'[c] : p.holds \subseteq objs'[c]
        BY <1>0, <3>2, <4>1 DEF StoreOK
      <4>7. staged'[c] # Nothing => \A p \in Range(staged'[c].packs) : p.holds \subseteq objs'[c]
        BY <1>0, <3>2, <4>1 DEF StoreOK
      <4> QED
        BY <2>2, <4>1, <4>5, <4>6, <4>7 DEF StoreOK
    <3>5. pc'[c] = "broken" \/ (objs' = [objs EXCEPT ![c] = @ \cup Manifest(c).packs[i].holds]
               /\ pc' = [pc EXCEPT ![c] = "indexed"])
      BY <1>0, <3>1 DEF TypeOK
    <3> QED
      BY <3>3, <3>4, <3>5
  <2> QED
    BY <2>1, <2>2
<1>7. ASSUME NEW c \in Clone, AddHave(c), NEW d \in Clone PROVE StoreOK(d)'
  <2>1. CASE d # c
    BY <1>0, <1>1, <1>7, <2>1 DEF AddHave, TypeOK, Kept
  <2>2. CASE d = c
    <3>1. PICK i \in DOMAIN Manifest(c).packs :
            IsNext(c, i) /\ have' = [have EXCEPT ![c] = @ \cup {Manifest(c).packs[i]}]
      BY <1>7 DEF AddHave
    <3>2. Manifest(c).packs[i].holds \subseteq objs[c]
      BY <1>0, <1>7, <3>1 DEF AddHave, StoreOK
    <3>3. \A p \in have'[c] : p.holds \subseteq objs[c]
      BY <1>0, <3>1, <3>2 DEF StoreOK, TypeOK
    <3>4. pc'[c] = "fetch" /\ UNCHANGED <<objs, staged>>
      BY <1>0, <1>7 DEF AddHave, TypeOK
    <3> QED
      BY <1>0, <2>2, <3>3, <3>4 DEF StoreOK
  <2> QED
    BY <2>1, <2>2
<1>8. ASSUME NEW c \in Clone, FetchDone(c), NEW d \in Clone PROVE StoreOK(d)'
  <2>1. CASE d # c \/ pc'[c] # "build"
    BY <1>0, <1>1, <1>8, <2>1 DEF FetchDone, Finish, TypeOK, Kept
  <2>2. CASE d = c /\ pc'[c] = "build"
    <3>1. RefsComplete(c) /\ UNCHANGED <<objs, have, staged, tip, log>>
      BY <1>0, <1>8, <2>2 DEF FetchDone, Finish, TypeOK
    <3>2. RefsComplete(c)'
      <4>1. Manifest(c)' = Manifest(c)
        BY <1>0, <3>1, ManifestStays
      <4> QED
        BY <3>1, <4>1 DEF RefsComplete, Known, Reach
    <3> QED
      BY <1>0, <2>2, <3>1, <3>2 DEF StoreOK
  <2> QED
    BY <2>1, <2>2
<1>9. ASSUME NEW c \in Clone, RepackFoundLanded(c) \/ RepackFetches(c), NEW d \in Clone
      PROVE  StoreOK(d)'
  <2>1. CASE d # c
    BY <1>0, <1>1, <1>9, <2>1 DEF RepackFoundLanded, RepackFetches, Finish, TypeOK, Kept
  <2>2. CASE d = c
    <3>1. have'[c] = HaveListed(c) /\ objs' = objs
      BY <1>0, <1>9 DEF RepackFoundLanded, RepackFetches, TypeOK
    <3>2. pc'[c] \in {"ready", "fetch"} /\ staged'[c] \in {staged[c], Nothing}
      BY <1>0, <1>9 DEF RepackFoundLanded, RepackFetches, Finish, Unlisted, TypeOK
    <3> QED
      BY <1>0, <2>2, <3>1, <3>2, ListedHeld DEF StoreOK
  <2> QED
    BY <2>1, <2>2
<1>10. ASSUME NEW c \in Clone, BuildPush(c) \/ BuildRepack(c), NEW d \in Clone PROVE StoreOK(d)'
  <2>1. CASE d # c
    BY <1>0, <1>1, <1>10, <2>1 DEF BuildPush, BuildRepack, Build, TypeOK, Kept
  <2>2. CASE d = c
    <3>1. PICK kept \in {staged[c], Nothing} : Build(c, kept)
      BY <1>10 DEF BuildPush, BuildRepack, Unlisted
    <3>2. pc'[c] = "cas" /\ staged'[c] = Stage(c, kept) /\ CanBuild
      BY <1>0, <3>1 DEF Build, TypeOK
    <3>3. have'[c] \in {HaveListed(c), have[c]} /\ objs' = objs
      BY <1>0, <1>10 DEF BuildPush, BuildRepack, TypeOK
    <3>4. Repacking(c) => RefsComplete(c)
      BY <1>0, <1>10 DEF BuildPush, BuildRepack, StoreOK
    <3>5. staged'[c] # Nothing => \A p \in Range(staged'[c].packs) : p.holds \subseteq objs[c]
      BY <1>0, <3>2, <3>4, StageHeld
    <3>6. \A p \in have'[c] : p.holds \subseteq objs[c]
      BY <1>0, <3>3, ListedHeld DEF StoreOK
    <3> QED
      BY <2>2, <3>2, <3>3, <3>5, <3>6 DEF StoreOK
  <2> QED
    BY <2>1, <2>2
<1>11. ASSUME NEW c \in Clone, Record(c), NEW d \in Clone PROVE StoreOK(d)'
  <2>1. CASE d # c
    BY <1>0, <1>1, <1>11, <2>1 DEF Record, Finish, TypeOK, Kept
  <2>2. CASE d = c
    <3>1. have'[c] = have[c] \cup Range(StagedPacks(staged[c])) /\ objs' = objs
          /\ pc'[c] = "ready" /\ staged'[c] = Nothing
      BY <1>0, <1>11 DEF Record, Finish, TypeOK
    <3>2. \A p \in Range(StagedPacks(staged[c])) : p.holds \subseteq objs[c]
      BY <1>0 DEF StagedPacks, StoreOK, Range
    <3> QED
      BY <1>0, <2>2, <3>1, <3>2 DEF StoreOK
  <2> QED
    BY <2>1, <2>2
<1>12. CASE UNCHANGED vars
  BY <1>0, <1>1, <1>12 DEF vars, StoreInv, Kept
<1>13. CASE Next
  BY <1>1, <1>2, <1>3, <1>4, <1>5, <1>6, <1>7, <1>8, <1>9, <1>10, <1>11, <1>13
  DEF Next, HelperStep, StoreInv
<1> QED
  BY <1>12, <1>13

(* The have list names only packs whose commits are in the store, whenever *)
(* helpers die and whichever attempts land unheard: a fetch never skips a  *)
(* pack it needs (IndexPack before AddHave; a push records its packs after *)
(* it built them from complete local history).                             *)
THEOREM HaveIsIndexed == Spec => []HaveMeansIndexed
<1>1. StoreInv => HaveMeansIndexed
  BY DEF StoreInv, StoreOK, HaveMeansIndexed
<1> QED
  BY <1>1, TypeInit, TypeStep, StoreInit, StoreStep, PTL DEF Spec
=============================================================================
