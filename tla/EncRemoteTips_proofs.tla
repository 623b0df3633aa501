------------------------- MODULE EncRemoteTips_proofs -------------------------
(***************************************************************************)
(* What every tip of the branch gives a reader: theorems about EncRemote   *)
(* that rest on what the packs of a commit hold and on who built them.     *)
(***************************************************************************)
EXTENDS EncRemote_proofs

-----------------------------------------------------------------------------
\* Lists of packs.

\* What two lists hold, one after the other.
LEMMA HoldsOfConcat ==
  ASSUME NEW s \in Seq(Pack), NEW t \in Seq(Pack)
  PROVE  Holds(s \o t) = Holds(s) \cup Holds(t)
BY RangeConcatenation DEF Holds

\* No packs hold nothing.
LEMMA HoldsNone == Holds(<<>>) = {}
BY DEF Holds, Range

\* Two lists without a pack twice and without a common one.
LEMMA InjectiveConcat ==
  ASSUME NEW S, NEW s \in Seq(S), NEW t \in Seq(S),
         IsInjective(s), IsInjective(t), Range(s) \cap Range(t) = {}
  PROVE  IsInjective(s \o t)
<1>1. Len(s) \in Nat /\ Len(t) \in Nat /\ Len(s \o t) = Len(s) + Len(t)
  OBVIOUS
<1>2. DOMAIN s = 1..Len(s) /\ DOMAIN t = 1..Len(t) /\ DOMAIN (s \o t) = 1..(Len(s) + Len(t))
  OBVIOUS
<1>3. \A i \in 1..(Len(s) + Len(t)) :
        \/ i \in 1..Len(s) /\ (s \o t)[i] = s[i]
        \/ i - Len(s) \in 1..Len(t) /\ (s \o t)[i] = t[i - Len(s)]
  BY <1>1
<1>4. \A i \in 1..Len(s), j \in 1..Len(t) : s[i] # t[j]
  BY <1>2 DEF Range
<1> SUFFICES ASSUME NEW i \in 1..(Len(s) + Len(t)), NEW j \in 1..(Len(s) + Len(t)),
                    (s \o t)[i] = (s \o t)[j]
             PROVE  i = j
  BY <1>2 DEF IsInjective
<1>5. CASE i \in 1..Len(s) /\ j \in 1..Len(s)
  BY <1>1, <1>2, <1>3, <1>5 DEF IsInjective
<1>6. CASE i \notin 1..Len(s) /\ j \notin 1..Len(s)
  <2>1. i - Len(s) \in 1..Len(t) /\ j - Len(s) \in 1..Len(t) /\ t[i - Len(s)] = t[j - Len(s)]
    BY <1>1, <1>3, <1>6
  <2>2. i - Len(s) = j - Len(s)
    BY <1>2, <2>1 DEF IsInjective
  <2> QED
    BY <1>1, <2>2
<1> QED
  BY <1>1, <1>3, <1>4, <1>5, <1>6

\* Packs whose bases are in a list that indexes can be added to it.
LEMMA IndexesConcat ==
  ASSUME NEW s \in Seq(Pack), NEW t \in Seq(Pack), IndexesInOrder(s),
         \A i \in DOMAIN t : t[i].thin \subseteq Holds(s)
  PROVE  IndexesInOrder(s \o t)
<1>1. Len(s) \in Nat /\ Len(t) \in Nat /\ Len(s \o t) = Len(s) + Len(t)
  OBVIOUS
<1>2. DOMAIN s = 1..Len(s) /\ DOMAIN t = 1..Len(t) /\ DOMAIN (s \o t) = 1..(Len(s) + Len(t))
  OBVIOUS
<1>3. \A i \in 1..Len(s) : (s \o t)[i] = s[i]
  BY <1>1
<1> SUFFICES ASSUME NEW i \in 1..(Len(s) + Len(t)), NEW x \in (s \o t)[i].thin
             PROVE  \E j \in 1..(i - 1) : x \in (s \o t)[j].holds
  BY <1>2 DEF IndexesInOrder
<1>4. CASE i \in 1..Len(s)
  <2>1. PICK j \in 1..(i - 1) : x \in s[j].holds
    BY <1>2, <1>3, <1>4 DEF IndexesInOrder
  <2>2. j \in 1..Len(s)
    BY <1>1, <1>4, <2>1
  <2> QED
    BY <1>3, <2>1, <2>2
<1>5. CASE i \notin 1..Len(s)
  <2>1. i - Len(s) \in 1..Len(t) /\ (s \o t)[i] = t[i - Len(s)]
    BY <1>1, <1>5
  <2>2. x \in Holds(s)
    BY <1>2, <2>1
  <2>3. PICK j \in 1..Len(s) : x \in s[j].holds
    BY <1>2, <2>2 DEF Holds, Range
  <2>4. j \in 1..(i - 1)
    BY <1>1, <1>5, <2>3
  <2> QED
    BY <1>3, <2>3, <2>4
<1> QED
  BY <1>4, <1>5

-----------------------------------------------------------------------------
\* What a commit promises its readers.

\* A new clone can index the packs and then has what the refs reach.
Rebuilds(m) == IndexesInOrder(m.packs) /\ Reach(Known(m)) \subseteq Holds(m.packs)

(* Commit d gives a reader everything: its manifest rebuilds, the packs it *)
(* lists are in its tree, none twice; a repack holds what refs reach, only. *)
Sound(d) ==
  /\ Rebuilds(d.manifest)
  /\ Range(d.manifest.packs) \subseteq d.tree
  /\ IsInjective(d.manifest.packs)
  /\ d.repack => Holds(d.manifest.packs) = Reach(Known(d.manifest))

(* Commit d does to the manifest m it replaces what it was asked to: refs  *)
(* not named stay, refs not forced move forward, nothing held is lost but  *)
(* by a repack, which changes no ref.                                      *)
Replaces(m, d) ==
  /\ \A r \in Ref \ d.asked.touched : d.manifest.refs[r] = m.refs[r]
  /\ \A r \in d.asked.touched \ d.asked.forced :
       /\ d.manifest.refs[r] \in Commit
       /\ m.refs[r] # NoCommit => m.refs[r] \in Anc[d.manifest.refs[r]]
  /\ ~d.repack => Holds(m.packs) \subseteq Holds(d.manifest.packs)
  /\ d.repack => d.asked.touched = {} /\ d.asked.forced = {}

\* What the packs of a set hold.
HoldsOf(P) == UNION {p.holds : p \in P}

(* Staged packs serve the tips they were built for: with the packs listed  *)
(* then they hold all the tips reach, and their deltas are against those;  *)
(* a repack's need no others.                                              *)
Serves(s, repacking) ==
  /\ IsInjective(s.packs)
  /\ IF repacking
     THEN /\ \A i \in DOMAIN s.packs : s.packs[i].thin = {}
          /\ Holds(s.packs) = Reach(s.wants)
     ELSE /\ \A i \in DOMAIN s.packs : s.packs[i].thin \subseteq HoldsOf(s.bases)
          /\ Reach(s.wants) \subseteq Holds(s.packs) \cup HoldsOf(s.bases)

(* Every commit that landed, is being pushed or is on the wire is sound    *)
(* and does what it was asked to the tip it replaces; staged packs serve;  *)
(* a helper with no command keeps none; only a repack comes to build, and  *)
(* only with a command is one under way.                                   *)
TipsInv ==
  /\ \A v \in 1..Len(log) : Sound(log[v])
  /\ \A c \in Clone :
       pc[c] = "cas" => Sound(draft[c]) /\ Replaces(At(log, draft[c].on), draft[c])
  /\ \A c \in Clone :
       wire[c] # Nothing => Sound(wire[c]) /\ Replaces(At(log, wire[c].on), wire[c])
  /\ \A c \in Clone : staged[c] # Nothing => Serves(staged[c], Repacking(c))
  /\ \A c \in Clone : pc[c] \in {"idle", "ready"} => staged[c] = Nothing /\ ~Repacking(c)
  /\ \A c \in Clone : pc[c] = "build" => Repacking(c)

\* The manifest a helper read is that of a sound commit, or empty.
LEMMA ManifestSound ==
  ASSUME TypeOK, TipsInv, NEW c \in Clone
  PROVE  /\ Rebuilds(Manifest(c))
         /\ Range(Manifest(c).packs) \subseteq TreeAt(tip[c])
         /\ IsInjective(Manifest(c).packs)
<1>1. CASE tip[c] = 0
  <2>1. Manifest(c) = EmptyManifest /\ TreeAt(tip[c]) = {}
    BY <1>1 DEF Manifest, ManifestAt, TreeAt
  <2>2. EmptyManifest.packs = <<>> /\ Known(EmptyManifest) = {}
    BY DEF EmptyManifest, Known
  <2> QED
    BY <2>1, <2>2 DEF Rebuilds, IndexesInOrder, Reach, IsInjective, Range
<1>2. CASE tip[c] # 0
  <2>1. tip[c] \in 1..Len(log)
    BY <1>2 DEF TypeOK
  <2>2. Manifest(c) = log[tip[c]].manifest /\ TreeAt(tip[c]) = log[tip[c]].tree
    BY <1>2 DEF Manifest, ManifestAt, TreeAt
  <2> QED
    BY <2>1, <2>2 DEF TipsInv, Sound
<1> QED
  BY <1>1, <1>2

\* The packs the manifest lists carry builds in use.
LEMMA ListedAreUsed ==
  ASSUME TypeOK, NEW c \in Clone, NEW p \in Range(Manifest(c).packs)
  PROVE  p.build \in UsedBuilds
<1>1. tip[c] # 0
  BY DEF Manifest, ManifestAt, EmptyManifest, Range
<1>2. tip[c] \in DOMAIN log /\ Manifest(c) = log[tip[c]].manifest
  BY <1>1 DEF TypeOK, Manifest, ManifestAt
<1> QED
  BY <1>2 DEF UsedBuilds

\* The new packs of a push: their deltas are against packs the manifest lists,
\* and with those they hold what the tips reach.
LEMMA ThinPackServes ==
  ASSUME TypeOK, TipsInv, NEW c \in Clone, NEW build \in BuildId
  PROVE  /\ IsInjective(ThinPack(c, build))
         /\ \A i \in DOMAIN ThinPack(c, build) :
              /\ ThinPack(c, build)[i].build = build
              /\ ThinPack(c, build)[i].thin \subseteq Holds(Manifest(c).packs)
         /\ Reach(Wants(c)) \subseteq Holds(ThinPack(c, build)) \cup Holds(Manifest(c).packs)
<1> DEFINE new == Reach(Wants(c)) \ Reach(Excludes(c))
           p == [build |-> build, holds |-> new, thin |-> Reach(Excludes(c))]
<1>1. Reach(Excludes(c)) \subseteq Holds(Manifest(c).packs)
  BY ManifestSound DEF Rebuilds, Excludes, Reach
<1>2. CASE new = {}
  <2>1. ThinPack(c, build) = <<>>
    BY <1>2 DEF ThinPack
  <2> QED
    BY <1>1, <1>2, <2>1 DEF IsInjective
<1>3. CASE new # {}
  <2>1. ThinPack(c, build) = <<p>>
    BY <1>3 DEF ThinPack
  <2>2. Holds(<<p>>) = new
    BY DEF Holds, Range
  <2> QED
    BY <1>1, <2>1, <2>2 DEF IsInjective
<1> QED
  BY <1>2, <1>3

\* Those of a repack need no others, and hold exactly what the refs reach.
LEMMA RepackedServe ==
  ASSUME TypeOK, NEW c \in Clone, NEW build \in BuildId
  PROVE  /\ IsInjective(RepackedPacks(c, build))
         /\ \A i \in DOMAIN RepackedPacks(c, build) : RepackedPacks(c, build)[i].thin = {}
         /\ Holds(RepackedPacks(c, build)) = Reach(Wants(c))
<1> DEFINE behind == Reach(Wants(c)) \ Wants(c)
           pack(s) == [build |-> build, holds |-> s, thin |-> {}]
<1>1. Wants(c) \subseteq Reach(Wants(c))
  BY WantsType, AncAssumption DEF Reach
<1>2. CASE Wants(c) = {}
  <2>1. RepackedPacks(c, build) = <<>>
    BY <1>2 DEF RepackedPacks
  <2>2. Reach({}) = {}
    BY DEF Reach
  <2> QED
    BY <1>2, <2>1, <2>2, HoldsNone DEF IsInjective
<1>3. CASE Wants(c) # {} /\ behind = {}
  <2>1. RepackedPacks(c, build) = <<pack(Wants(c))>>
    BY <1>3 DEF RepackedPacks
  <2>2. Holds(<<pack(Wants(c))>>) = Wants(c)
    BY DEF Holds, Range
  <2> QED
    BY <1>1, <1>3, <2>1, <2>2 DEF IsInjective
<1>4. CASE Wants(c) # {} /\ behind # {}
  <2>1. RepackedPacks(c, build) = <<pack(Wants(c)), pack(behind)>>
    BY <1>4 DEF RepackedPacks
  <2>2. Holds(<<pack(Wants(c)), pack(behind)>>) = Wants(c) \cup behind
    BY DEF Holds, Range
  <2>3. pack(Wants(c)) # pack(behind)
    BY <1>4
  <2>4. Wants(c) \cup behind = Reach(Wants(c))
    BY <1>1
  <2>5. pack(Wants(c)).thin = {} /\ pack(behind).thin = {}
    OBVIOUS
  <2> HIDE DEF pack
  <2> QED
    BY <2>1, <2>2, <2>3, <2>4, <2>5 DEF IsInjective
<1> QED
  BY <1>2, <1>3, <1>4

\* The packs an attempt may keep: of a push, none is listed by now.
MayKeep(c, kept) ==
  /\ kept \in {staged[c], Nothing}
  /\ kept # Nothing /\ ~Repacking(c) => Range(kept.packs) \cap Range(Manifest(c).packs) = {}

(* What an attempt adds, kept or new: with what the manifest lists (for a  *)
(* repack, alone) it holds all the tips reach, its deltas find their bases *)
(* there, and it lists nothing twice.                                      *)
LEMMA StageServes ==
  ASSUME TypeOK, TipsInv, NEW c \in Clone, NEW kept, MayKeep(c, kept), CanBuild
  PROVE  LET s == Stage(c, kept)
             new == StagedPacks(s)
             old == Manifest(c).packs
         IN /\ new \in Seq(Pack)
            /\ s # Nothing => Serves(s, Repacking(c))
            /\ IsInjective(new)
            /\ Repacking(c) => /\ \A i \in DOMAIN new : new[i].thin = {}
                               /\ Holds(new) = Reach(Wants(c))
            /\ ~Repacking(c) => /\ \A i \in DOMAIN new : new[i].thin \subseteq Holds(old)
                                /\ Reach(Wants(c)) \subseteq Holds(new) \cup Holds(old)
                                /\ Range(new) \cap Range(old) = {}
<1> DEFINE s == Stage(c, kept)
           new == StagedPacks(s)
           old == Manifest(c).packs
           built == Built(c, FreshBuild)
           fresh == [wants |-> Wants(c), bases |-> Range(old), packs |-> built]
<1>1. kept \in StagedSet \cup {Nothing}
  BY DEF MayKeep, TypeOK
<1>2. new \in Seq(Pack) /\ s \in StagedSet \cup {Nothing}
  BY <1>1, StageType
<1>3. FreshBuild \in BuildId /\ FreshBuild \notin UsedBuilds
  BY DEF FreshBuild, CanBuild
<1>4. HoldsOf(Range(old)) = Holds(old)
  BY DEF HoldsOf, Holds
<1>5. CASE kept # Nothing /\ Reusable(c, kept)
  <2>1. s = kept /\ new = kept.packs
    BY <1>5 DEF Stage, StagedPacks
  <2>2. kept = staged[c] /\ Serves(kept, Repacking(c))
    BY <1>5 DEF MayKeep, TipsInv
  <2>3. kept.wants = Wants(c)
    BY <1>5 DEF Reusable
  <2>4. CASE Repacking(c)
    BY <1>2, <2>1, <2>2, <2>3, <2>4 DEF Serves
  <2>5. CASE ~Repacking(c)
    <3>1. kept.bases \subseteq Range(old)
      BY <1>5, <2>5 DEF Reusable
    <3>2. HoldsOf(kept.bases) \subseteq Holds(old)
      BY <3>1, <1>4 DEF HoldsOf
    <3>3. Range(new) \cap Range(old) = {}
      BY <1>5, <2>1, <2>5 DEF MayKeep
    <3>4. \A i \in DOMAIN new : new[i].thin \subseteq Holds(old)
      BY <2>1, <2>2, <2>5, <3>2 DEF Serves
    <3>5. Reach(Wants(c)) \subseteq Holds(new) \cup Holds(old)
      BY <2>1, <2>2, <2>3, <2>5, <3>2 DEF Serves
    <3>6. IsInjective(new)
      BY <2>1, <2>2 DEF Serves
    <3> QED
      BY <1>2, <2>1, <2>2, <2>5, <3>3, <3>4, <3>5, <3>6
  <2> QED
    BY <2>4, <2>5
<1>6. CASE ~(kept # Nothing /\ Reusable(c, kept))
  <2>1. s = IF built = <<>> THEN Nothing ELSE fresh
    BY <1>6 DEF Stage
  <2>2. fresh \in StagedSet
    <3>1. Range(old) \in SUBSET Pack
      BY ManifestType, LenProperties DEF Manifests, Range
    <3> QED
      BY <1>3, <3>1, BuiltType, WantsType DEF StagedSet
  <2>3. new = built
    BY <2>1, <2>2, NothingAssumption DEF StagedPacks
  <2>4. CASE Repacking(c)
    <3>1. /\ IsInjective(built)
          /\ \A i \in DOMAIN built : built[i].thin = {}
          /\ Holds(built) = Reach(Wants(c))
      BY <1>3, <2>4, RepackedServe DEF Built
    <3>2. s # Nothing => s.packs = built /\ s.wants = Wants(c)
      BY <2>1
    <3>3. s # Nothing => Serves(s, Repacking(c))
      BY <2>4, <3>1, <3>2 DEF Serves
    <3> QED
      BY <1>2, <2>3, <2>4, <3>1, <3>3
  <2>5. CASE ~Repacking(c)
    <3>1. /\ IsInjective(built)
          /\ \A i \in DOMAIN built :
               built[i].build = FreshBuild /\ built[i].thin \subseteq Holds(old)
          /\ Reach(Wants(c)) \subseteq Holds(built) \cup Holds(old)
      BY <1>3, <2>5, ThinPackServes DEF Built
    <3>2. s # Nothing => s.packs = built /\ s.wants = Wants(c) /\ s.bases = Range(old)
      BY <2>1
    <3>3. s # Nothing => Serves(s, Repacking(c))
      BY <1>4, <2>5, <3>1, <3>2 DEF Serves
    <3>4. Range(built) \cap Range(old) = {}
      BY <1>3, <3>1, ListedAreUsed DEF Range
    <3> QED
      BY <1>2, <2>3, <2>5, <3>1, <3>3, <3>4
  <2> QED
    BY <2>4, <2>5
<1> QED
  BY <1>5, <1>6

\* The refs of the new manifest name tips of the command, or were there.
LEMMA NewRefsNamed ==
  ASSUME TypeOK, NEW c \in Clone, NEW s
  PROVE  /\ Known(NewManifest(c, s)) \subseteq Wants(c) \cup Known(Manifest(c))
         /\ Repacking(c) => /\ Accepted(c) = {}
                            /\ Known(NewManifest(c, s)) = Wants(c)
<1>1. NewManifest(c, s).refs = NewRefs(c)
  BY DEF NewManifest
<1>2. \A r \in Ref :
        NewRefs(c)[r] = IF r \in Accepted(c) THEN op[c].specs[r].src ELSE Manifest(c).refs[r]
  BY DEF NewRefs
<1>3. CASE Repacking(c)
  <2>1. op[c].specs = <<>>
    BY <1>3 DEF TypeOK, Op, Repacking
  <2>2. Accepted(c) = {}
    BY <2>1 DEF Accepted
  <2>3. Known(NewManifest(c, s)) = Known(Manifest(c))
    BY <1>1, <1>2, <2>2 DEF Known
  <2> QED
    BY <1>3, <2>2, <2>3 DEF Wants
<1>4. CASE ~Repacking(c)
  BY <1>1, <1>2, <1>4 DEF Known, Wants
<1> QED
  BY <1>3, <1>4

\* The commit an attempt builds is sound, and does what it was asked.
LEMMA BuildSound ==
  ASSUME TypeOK, TipsInv, NEW c \in Clone, NEW kept, MayKeep(c, kept), Build(c, kept)
  PROVE  /\ Sound(draft'[c])
         /\ Replaces(At(log, draft'[c].on), draft'[c])
         /\ staged'[c] # Nothing => Serves(staged'[c], Repacking(c))
<1> DEFINE s == Stage(c, kept)
           d == NewCommitOnTip(c, s)
           m == NewManifest(c, s)
           new == StagedPacks(s)
           old == Manifest(c).packs
<1>1. draft'[c] = d /\ staged'[c] = s /\ CanBuild
  BY DEF Build, TypeOK
<1>2. /\ new \in Seq(Pack)
      /\ s # Nothing => Serves(s, Repacking(c))
      /\ IsInjective(new)
      /\ Repacking(c) => /\ \A i \in DOMAIN new : new[i].thin = {}
                         /\ Holds(new) = Reach(Wants(c))
      /\ ~Repacking(c) => /\ \A i \in DOMAIN new : new[i].thin \subseteq Holds(old)
                          /\ Reach(Wants(c)) \subseteq Holds(new) \cup Holds(old)
                          /\ Range(new) \cap Range(old) = {}
  BY <1>1, StageServes
<1>3. Manifest(c) \in Manifests /\ old \in Seq(Pack)
  BY ManifestType DEF Manifests
<1>4. Rebuilds(Manifest(c)) /\ Range(old) \subseteq TreeAt(tip[c]) /\ IsInjective(old)
  BY ManifestSound
<1>5. /\ d.manifest = m /\ d.tree = NewTree(c, s) /\ d.repack = Repacking(c) /\ d.on = tip[c]
      /\ d.asked.touched = Accepted(c)
      /\ d.asked.forced = {r \in Accepted(c) : op[c].specs[r].force \/ op[c].specs[r].src = NoCommit}
  BY DEF NewCommitOnTip
<1>6. Known(m) \subseteq Wants(c) \cup Known(Manifest(c))
      /\ (Repacking(c) => Accepted(c) = {} /\ Known(m) = Wants(c))
  BY NewRefsNamed
<1>7. m.refs = NewRefs(c)
      /\ \A r \in Ref :
           NewRefs(c)[r] = IF r \in Accepted(c) THEN op[c].specs[r].src ELSE Manifest(c).refs[r]
  BY DEF NewManifest, NewRefs
<1>8. At(log, d.on) = Manifest(c)
  BY <1>5 DEF At, Manifest, ManifestAt
<1> HIDE DEF s, d, m, new, old
<1>9. \A r \in Ref \ Accepted(c) : m.refs[r] = Manifest(c).refs[r]
  BY <1>7
<1>10. \A r \in Accepted(c) \ d.asked.forced :
         /\ m.refs[r] \in Commit
         /\ Manifest(c).refs[r] # NoCommit => Manifest(c).refs[r] \in Anc[m.refs[r]]
  <2> SUFFICES ASSUME NEW r \in Accepted(c), r \notin d.asked.forced
               PROVE  /\ m.refs[r] \in Commit
                      /\ Manifest(c).refs[r] # NoCommit => Manifest(c).refs[r] \in Anc[m.refs[r]]
    OBVIOUS
  <2>1. r \in Ref /\ m.refs[r] = op[c].specs[r].src
    BY <1>7, WantsType
  <2>2. op[c].specs[r].src # NoCommit /\ ~op[c].specs[r].force
    BY <1>5
  <2>3. op[c].specs[r].src \in Commit
    BY <2>2, SpecsType DEF RefSpec, Accepted
  <2>4. Passes(c, r)
    BY DEF Accepted
  <2> QED
    BY <2>1, <2>2, <2>3, <2>4, AncAssumption DEF Passes
<1>11. CASE Repacking(c)
  <2>1. m.packs = new
    BY <1>2, <1>11, ConcatEmptySeq DEF m, new, NewManifest
  <2>2. d.tree = Range(new)
    BY <1>5, <1>11 DEF new, NewTree
  <2>3. Holds(m.packs) = Reach(Known(m))
    BY <1>2, <1>6, <1>11, <2>1
  <2>4. IndexesInOrder(m.packs)
    BY <1>2, <1>11, <2>1 DEF IndexesInOrder
  <2>5. Sound(d)
    BY <1>2, <1>5, <2>1, <2>2, <2>3, <2>4 DEF Sound, Rebuilds
  <2>6. Replaces(Manifest(c), d)
    BY <1>5, <1>6, <1>9, <1>11 DEF Replaces
  <2> QED
    BY <1>1, <1>2, <1>8, <2>5, <2>6
<1>12. CASE ~Repacking(c)
  <2>1. m.packs = old \o new
    BY <1>12 DEF m, old, new, NewManifest
  <2>2. d.tree = TreeAt(tip[c]) \cup Range(new)
    BY <1>5, <1>12 DEF new, NewTree
  <2>3. Range(m.packs) \subseteq d.tree
    <3>1. Range(m.packs) = Range(old) \cup Range(new)
      BY <1>2, <1>3, <2>1, RangeConcatenation
    <3> QED
      BY <1>4, <2>2, <3>1
  <2>4. Holds(m.packs) = Holds(old) \cup Holds(new)
    BY <1>2, <1>3, <2>1, HoldsOfConcat
  <2>5. Reach(Known(m)) \subseteq Holds(m.packs)
    <3>1. Reach(Known(m)) \subseteq Reach(Wants(c)) \cup Reach(Known(Manifest(c)))
      BY <1>6 DEF Reach
    <3>2. Reach(Known(Manifest(c))) \subseteq Holds(old)
      BY <1>4 DEF Rebuilds, old
    <3> QED
      BY <1>2, <1>12, <2>4, <3>1, <3>2
  <2>6. IndexesInOrder(m.packs)
    <3>1. IndexesInOrder(old)
      BY <1>4 DEF Rebuilds, old
    <3> QED
      BY <1>2, <1>3, <1>12, <2>1, <3>1, IndexesConcat
  <2>7. IsInjective(m.packs)
    BY <1>2, <1>3, <1>4, <1>12, <2>1, InjectiveConcat
  <2>8. Sound(d)
    BY <1>5, <1>12, <2>3, <2>5, <2>6, <2>7 DEF Sound, Rebuilds
  <2>9. Replaces(Manifest(c), d)
    <3>1. Holds(Manifest(c).packs) \subseteq Holds(m.packs)
      BY <2>4 DEF old
    <3> QED
      BY <1>5, <1>9, <1>10, <1>12, <3>1 DEF Replaces
  <2> QED
    BY <1>1, <1>2, <1>8, <2>8, <2>9
<1> QED
  BY <1>11, <1>12

\* It holds at the start.
LEMMA TipsInit == Init => TipsInv
BY DEF Init, TipsInv, Repacking, NoOp

\* A landing changes nothing at the tips before it.
LEMMA AtStays ==
  ASSUME NEW lg \in Seq(BackendCommit), NEW x \in BackendCommit, NEW v \in 0..Len(lg)
  PROVE  At(Append(lg, x), v) = At(lg, v)
BY DEF At

(* What a step does to clone c that builds nothing: no new commit comes to *)
(* be pushed, what is on the wire was there or was being pushed, staged    *)
(* packs are dropped or stay with their command, and so does a helper that *)
(* hears of its landing.                                                   *)
Frame(c) ==
  /\ pc'[c] = "cas" => /\ pc[c] = "cas" /\ draft'[c] = draft[c] /\ staged'[c] = staged[c]
                        /\ op'[c].kind = op[c].kind
  /\ wire'[c] \in {wire[c], Nothing} \/ (pc[c] = "cas" /\ wire'[c] = draft[c])
  /\ staged'[c] = Nothing \/ (staged'[c] = staged[c] /\ op'[c].kind = op[c].kind)
  /\ pc'[c] \in {"idle", "ready"} => staged'[c] = Nothing /\ op'[c].kind # "repack"
  /\ pc'[c] = "build" => op'[c].kind = "repack"
  /\ pc'[c] = "landed" =>
       /\ tip'[c] = tip[c] /\ op'[c].kind = op[c].kind
       /\ pc[c] = "landed" \/ (pc[c] = "cas" /\ HostTakes(draft[c]))

\* A commit in flight lands.
Landing ==
  \/ \E c \in Clone : pc[c] = "cas" /\ HostTakes(draft[c])
  \/ \E c \in Clone : wire[c] # Nothing /\ HostTakes(wire[c])

Builds == \E c \in Clone : BuildPush(c) \/ BuildRepack(c)

\* Such a step keeps TipsInv, also when a sound commit lands.
LEMMA TipsFrame ==
  ASSUME TypeOK, LineInv, TipsInv, \A c \in Clone : Frame(c),
         log' = log \/ \E x \in BackendCommit : Sound(x) /\ log' = Append(log, x)
  PROVE  TipsInv'
<1>1. log \in Seq(BackendCommit)
  BY DEF TypeOK
<1>2. \A v \in 0..Len(log) : At(log', v) = At(log, v)
  BY <1>1, AtStays
<1>3. \A v \in 1..Len(log') : Sound(log'[v])
  <2>1. CASE log' = log
    BY <2>1 DEF TipsInv
  <2>2. CASE \E x \in BackendCommit : Sound(x) /\ log' = Append(log, x)
    BY <1>1, <2>2 DEF TipsInv
  <2> QED
    BY <2>1, <2>2
<1>4. ASSUME NEW c \in Clone, pc'[c] = "cas"
      PROVE  Sound(draft'[c]) /\ Replaces(At(log', draft'[c].on), draft'[c])
  <2>1. pc[c] = "cas" /\ draft'[c] = draft[c]
    BY <1>4 DEF Frame
  <2>2. draft[c].on \in 0..Len(log)
    BY <2>1 DEF LineInv, Extends
  <2> QED
    BY <1>2, <2>1, <2>2 DEF TipsInv
<1>5. ASSUME NEW c \in Clone, wire'[c] # Nothing
      PROVE  Sound(wire'[c]) /\ Replaces(At(log', wire'[c].on), wire'[c])
  <2>1. CASE wire'[c] = wire[c]
    <3>1. wire[c].on \in 0..Len(log)
      BY <1>5, <2>1 DEF LineInv, Extends
    <3> QED
      BY <1>2, <1>5, <2>1, <3>1 DEF TipsInv
  <2>2. CASE pc[c] = "cas" /\ wire'[c] = draft[c]
    <3>1. draft[c].on \in 0..Len(log)
      BY <2>2 DEF LineInv, Extends
    <3> QED
      BY <1>2, <2>2, <3>1 DEF TipsInv
  <2> QED
    BY <1>5, <2>1, <2>2 DEF Frame
<1>6. \A c \in Clone : staged'[c] # Nothing => Serves(staged'[c], op'[c].kind = "repack")
  BY DEF Frame, TipsInv, Repacking
<1>7. \A c \in Clone : pc'[c] \in {"idle", "ready"} =>
        staged'[c] = Nothing /\ op'[c].kind # "repack"
  BY DEF Frame
<1>8. \A c \in Clone : pc'[c] = "build" => op'[c].kind = "repack"
  BY DEF Frame
<1> QED
  BY <1>3, <1>4, <1>5, <1>6, <1>7, <1>8 DEF TipsInv, Repacking

(* Every step either builds or is such a step for all clones, and only a   *)
(* commit in flight lands.                                                 *)
LEMMA BuildsOrFrames ==
  ASSUME TypeInv, TipsInv, [Next]_vars, ~Builds
  PROVE  /\ \A c \in Clone : Frame(c)
         /\ log' = log \/ Landing
<1> USE DEF hostVars, storeVars, helperVars
<1> DEFINE Goal == (\A c \in Clone : Frame(c)) /\ (log' = log \/ Landing)
<1>0. TypeOK /\ HelperOK
  BY DEF TypeInv
<1>1. ASSUME NEW c \in Clone, NEW x \in Commit, NewCommit(c, x) PROVE Goal
  BY <1>1 DEF NewCommit, Frame, TipsInv, Repacking
<1>2. ASSUME NEW c \in Clone,
             \/ Connect(c) \/ BeginFetch(c) \/ BeginRepack(c)
             \/ \E batch \in Batch[c] : BeginPush(c, batch)
      PROVE  Goal
  <2>1. log' = log
    BY <1>2 DEF Connect, BeginFetch, BeginRepack, BeginPush
  <2>2. staged[c] = Nothing /\ staged' = staged /\ op[c].kind # "repack"
    BY <1>2 DEF Connect, BeginFetch, BeginRepack, BeginPush, TipsInv, Repacking
  <2>3. Frame(c)
    BY <1>0, <1>2, <2>2 DEF Connect, BeginFetch, BeginRepack, BeginPush, Frame, TypeOK
  <2>4. \A d \in Clone \ {c} : Frame(d)
    BY <1>0, <1>2 DEF Connect, BeginFetch, BeginRepack, BeginPush, Frame, TypeOK, TipsInv,
                      Repacking
  <2> QED
    BY <2>1, <2>3, <2>4
<1>3. ASSUME NEW c \in Clone, IndexPack(c) \/ AddHave(c) \/ RepackFetches(c) \/ Stale(c) \/ Fail(c)
      PROVE  Goal
  <2>1. log' = log
    BY <1>3 DEF IndexPack, AddHave, RepackFetches, Stale, Fail
  <2>2. pc'[c] \notin {"idle", "ready", "build", "cas", "landed"}
    BY <1>0, <1>3 DEF IndexPack, AddHave, RepackFetches, Stale, Fail, TypeOK
  <2>3. op' = op /\ tip' = tip /\ draft' = draft /\ staged'[c] \in {staged[c], Nothing}
        /\ \A d \in Clone \ {c} : pc'[d] = pc[d] /\ staged'[d] = staged[d]
    BY <1>0, <1>3 DEF IndexPack, AddHave, RepackFetches, Stale, Fail, Unlisted, TypeOK
  <2>4. \A d \in Clone : wire'[d] = wire[d] \/ (pc[d] = "cas" /\ wire'[d] = draft[d])
    BY <1>0, <1>3 DEF IndexPack, AddHave, RepackFetches, Stale, Fail, LeftOnWire, TypeOK
  <2>5. \A d \in Clone : Frame(d)
    BY <2>2, <2>3, <2>4 DEF Frame, TipsInv, Repacking
  <2> QED
    BY <2>1, <2>5
<1>4. ASSUME NEW c \in Clone,
             \/ NothingAccepted(c) \/ RepackFoundLanded(c) \/ CheckTip(c) \/ Retry(c)
             \/ Record(c) \/ Stop(c) \/ FetchDone(c)
      PROVE  Goal
  <2>1. log' = log
    BY <1>4 DEF NothingAccepted, RepackFoundLanded, CheckTip, Retry, Record, Stop, FetchDone
  <2>2. \A d \in Clone : wire'[d] = wire[d] \/ (pc[d] = "cas" /\ wire'[d] = draft[d])
    BY <1>0, <1>4 DEF NothingAccepted, RepackFoundLanded, CheckTip, Retry, Record, Stop, FetchDone,
                      LeftOnWire, TypeOK
  <2>3. \A d \in Clone \ {c} :
          /\ pc'[d] = pc[d] /\ staged'[d] = staged[d] /\ op'[d] = op[d] /\ draft'[d] = draft[d]
          /\ tip'[d] = tip[d]
    BY <1>0, <1>4 DEF NothingAccepted, RepackFoundLanded, CheckTip, Retry, Record, Stop, FetchDone,
                      Finish, TypeOK
  <2>4. \/ staged'[c] = Nothing /\ pc'[c] \in {"idle", "ready"} /\ op'[c].kind # "repack"
        \/ /\ staged'[c] = staged[c] /\ op'[c] = op[c]
           /\ pc'[c] \in {"lost", "attempt", "broken", "build"}
           /\ pc'[c] = "build" => op[c].kind = "repack"
    BY <1>0, <1>4 DEF NothingAccepted, RepackFoundLanded, CheckTip, Retry, Record, Stop, FetchDone,
                      Finish, NoOp, TypeOK
  <2>5. \A d \in Clone : Frame(d)
    BY <2>2, <2>3, <2>4 DEF Frame, TipsInv, Repacking
  <2> QED
    BY <2>1, <2>5
<1>5. ASSUME NEW c \in Clone, Land(c) PROVE Goal
  <2>1. pc[c] = "cas" /\ HostTakes(draft[c])
    BY <1>5 DEF Land
  <2>2. UNCHANGED <<tip, op, staged, draft, wire>>
        /\ pc'[c] \in {"landed", "failed"} /\ \A d \in Clone \ {c} : pc'[d] = pc[d]
    BY <1>0, <1>5 DEF Land, TypeOK
  <2>3. \A d \in Clone : Frame(d)
    BY <2>1, <2>2 DEF Frame, TipsInv, Repacking
  <2> QED
    BY <2>1, <2>3 DEF Landing
<1>6. ASSUME NEW c \in Clone, LateLand(c) \/ LateStale(c) PROVE Goal
  <2>1. log' = log \/ Landing
    BY <1>6 DEF LateLand, LateStale, Landing
  <2>2. \A d \in Clone : Frame(d)
    BY <1>0, <1>6 DEF LateLand, LateStale, Frame, TypeOK, TipsInv, Repacking
  <2> QED
    BY <2>1, <2>2
<1>7. CASE UNCHANGED vars
  BY <1>7 DEF vars, Frame, TipsInv, Repacking
<1>8. CASE Next
  BY <1>1, <1>2, <1>3, <1>4, <1>5, <1>6, <1>8 DEF Next, HelperStep, Builds
<1> QED
  BY <1>7, <1>8

(* A step that builds keeps packs of the attempt before that are not       *)
(* listed, or none, and touches no other clone.                            *)
LEMMA BuildsWhat ==
  ASSUME TypeInv, TipsInv, NEW c \in Clone, BuildPush(c) \/ BuildRepack(c)
  PROVE  /\ \E kept : MayKeep(c, kept) /\ Build(c, kept)
         /\ UNCHANGED <<log, wire, op, tip>>
         /\ pc'[c] = "cas" /\ \A d \in Clone \ {c} :
               pc'[d] = pc[d] /\ staged'[d] = staged[d] /\ draft'[d] = draft[d]
<1>1. PICK kept : MayKeep(c, kept) /\ Build(c, kept)
  <2>1. CASE BuildPush(c)
    <3>1. MayKeep(c, Unlisted(c))
      BY DEF MayKeep, Unlisted, AlreadyListed
    <3> QED
      BY <2>1, <3>1 DEF BuildPush
  <2>2. CASE BuildRepack(c)
    <3>1. MayKeep(c, staged[c])
      BY <2>2 DEF MayKeep, BuildRepack, TipsInv
    <3> QED
      BY <2>2, <3>1 DEF BuildRepack
  <2> QED
    BY <2>1, <2>2
<1>2. UNCHANGED <<log, wire, op, tip>>
  BY DEF BuildPush, BuildRepack, hostVars
<1>3. pc'[c] = "cas" /\ \A d \in Clone \ {c} :
        pc'[d] = pc[d] /\ staged'[d] = staged[d] /\ draft'[d] = draft[d]
  BY <1>1 DEF Build, TypeInv, TypeOK
<1> QED
  BY <1>1, <1>2, <1>3

\* Every step keeps it: by TipsFrame, but for building.
LEMMA TipsStep == TypeInv /\ LineInv /\ TipsInv /\ [Next]_vars => TipsInv'
<1> SUFFICES ASSUME TypeInv, LineInv, TipsInv, [Next]_vars PROVE TipsInv'
  OBVIOUS
<1>0. TypeOK /\ HelperOK
  BY DEF TypeInv
<1>1. CASE ~Builds
  <2>1. (\A c \in Clone : Frame(c)) /\ (log' = log \/ Landing)
    BY <1>1, BuildsOrFrames
  <2>2. log' = log \/ \E x \in BackendCommit : Sound(x) /\ log' = Append(log, x)
    BY <1>0, <2>1 DEF Landing, HostTakes, HelperOK, TypeOK, TipsInv
  <2> QED
    BY <1>0, <2>1, <2>2, TipsFrame
<1>2. ASSUME NEW c \in Clone, BuildPush(c) \/ BuildRepack(c) PROVE TipsInv'
  <2>1. PICK kept : MayKeep(c, kept) /\ Build(c, kept)
    BY <1>2, BuildsWhat
  <2>2. UNCHANGED <<log, wire, op>>
    BY <1>2, BuildsWhat
  <2>3. pc'[c] = "cas" /\ \A d \in Clone \ {c} :
          pc'[d] = pc[d] /\ staged'[d] = staged[d] /\ draft'[d] = draft[d]
    BY <1>2, BuildsWhat
  <2>4. /\ Sound(draft'[c])
        /\ Replaces(At(log, draft'[c].on), draft'[c])
        /\ staged'[c] # Nothing => Serves(staged'[c], Repacking(c))
    BY <1>0, <2>1, BuildSound
  <2> QED
    BY <2>2, <2>3, <2>4 DEF TipsInv, Repacking
<1> QED
  BY <1>1, <1>2 DEF Builds

-----------------------------------------------------------------------------
\* What holds at every tip.

\* The four invariants hold together.
LEMMA AllInvariants == Spec => [](TypeInv /\ LineInv /\ StoreInv /\ TipsInv)
BY TypeInit, TypeStep, LineInit, LineStep, StoreInit, StoreStep, TipsInit, TipsStep, PTL DEF Spec

\* The tips are numbered from 1.
LEMMA LogDomain == TypeInv => DOMAIN log = 1..Len(log)
BY DEF TypeInv, TypeOK

(* A new clone of any tip can index its packs in their order and then has  *)
(* all the history the refs reach: packs built thin and kept over a lost   *)
(* race, a repack in between, are never listed without their bases         *)
(* (try_push: reusable).                                                   *)
THEOREM TipsRebuild == Spec => []EveryTipRebuilds
<1>1. TypeInv /\ TipsInv => EveryTipRebuilds
  BY LogDomain DEF TipsInv, Sound, Rebuilds, EveryTipRebuilds
<1> QED
  BY <1>1, AllInvariants, PTL

(* No manifest lists a pack twice, although a push may land, be reported   *)
(* failed, and be tried again with the same packs (try_push: listed).      *)
THEOREM ListedOnce == Spec => []PacksListedOnce
<1>1. TypeInv /\ TipsInv => PacksListedOnce
  BY LogDomain DEF TipsInv, Sound, PacksListedOnce
<1> QED
  BY <1>1, AllInvariants, PTL

(* A repack that lands holds what its refs reach and no more, its packs    *)
(* kept from an earlier attempt or not (try_push: reusable).               *)
THEOREM RepacksExact == Spec => []RepackIsExact
<1>1. TypeInv /\ TipsInv => RepackIsExact
  BY LogDomain DEF TipsInv, Sound, RepackIsExact
<1> QED
  BY <1>1, AllInvariants, PTL

\* With the packs before it indexed, a pack finds its blobs and its bases.
LEMMA NextIndexes ==
  ASSUME TypeInv, StoreInv, TipsInv, NEW c \in Clone, NEW i \in DOMAIN Manifest(c).packs,
         IsNext(c, i)
  PROVE  /\ Manifest(c).packs[i] \in TreeAt(tip[c])
         /\ Manifest(c).packs[i].thin \subseteq objs[c]
<1> DEFINE packs == Manifest(c).packs
<1>1. IndexesInOrder(packs) /\ Range(packs) \subseteq TreeAt(tip[c])
  BY ManifestSound DEF TypeInv, Rebuilds
<1>2. packs[i] \in TreeAt(tip[c])
  BY <1>1 DEF Range
<1>3. ASSUME NEW x \in packs[i].thin PROVE x \in objs[c]
  <2>1. PICK j \in 1..(i - 1) : x \in packs[j].holds
    BY <1>1 DEF IndexesInOrder
  <2>2. packs[j] \in have[c]
    BY <2>1 DEF IsNext
  <2> QED
    BY <2>1, <2>2 DEF StoreInv, StoreOK
<1> QED
  BY <1>2, <1>3

\* With every pack indexed, what the refs reach is here.
LEMMA AllIndexedComplete ==
  ASSUME TypeInv, StoreInv, TipsInv, NEW c \in Clone, Range(Manifest(c).packs) \subseteq have[c]
  PROVE  RefsComplete(c)
<1>1. Reach(Known(Manifest(c))) \subseteq Holds(Manifest(c).packs)
  BY ManifestSound DEF TypeInv, Rebuilds
<1>2. Holds(Manifest(c).packs) \subseteq objs[c]
  BY DEF Holds, StoreInv, StoreOK
<1> QED
  BY <1>1, <1>2 DEF RefsComplete

\* Only IndexPack and FetchDone could break a fetch, and neither does.
LEMMA BrokenStep ==
  TypeInv /\ StoreInv /\ TipsInv /\ NeverBroken /\ [Next]_vars => NeverBroken'
<1> SUFFICES ASSUME TypeInv, StoreInv, TipsInv, NeverBroken, [Next]_vars PROVE NeverBroken'
  OBVIOUS
<1>0. TypeOK
  BY DEF TypeInv
<1>1. ASSUME NEW c \in Clone, IndexPack(c) PROVE NeverBroken'
  <2>1. pc' = [pc EXCEPT ![c] = "indexed"]
    BY <1>1, NextIndexes DEF IndexPack
  <2> QED
    BY <1>0, <2>1 DEF TypeOK, NeverBroken
<1>2. ASSUME NEW c \in Clone, FetchDone(c) PROVE NeverBroken'
  <2>1. RefsComplete(c)
    BY <1>2, AllIndexedComplete DEF FetchDone
  <2> QED
    BY <1>0, <1>2, <2>1 DEF FetchDone, Finish, TypeOK, NeverBroken
<1>3. ASSUME NEW c \in Clone,
             \/ \E x \in Commit : NewCommit(c, x)
             \/ Connect(c) \/ BeginFetch(c) \/ BeginRepack(c)
             \/ \E batch \in Batch[c] : BeginPush(c, batch)
             \/ AddHave(c) \/ NothingAccepted(c) \/ BuildPush(c) \/ RepackFoundLanded(c)
             \/ RepackFetches(c) \/ BuildRepack(c)
      PROVE  NeverBroken'
  BY <1>0, <1>3 DEF NewCommit, Connect, BeginFetch, BeginRepack, BeginPush, AddHave,
                    NothingAccepted, BuildPush, RepackFoundLanded, RepackFetches, BuildRepack,
                    Build, Finish, helperVars, TypeOK, NeverBroken
<1>4. ASSUME NEW c \in Clone,
             \/ Land(c) \/ Stale(c) \/ Fail(c) \/ CheckTip(c) \/ Retry(c) \/ Record(c)
             \/ LateLand(c) \/ LateStale(c) \/ Stop(c)
      PROVE  NeverBroken'
  BY <1>0, <1>4 DEF Land, Stale, Fail, CheckTip, Retry, Record, LateLand, LateStale, Stop,
                    Finish, helperVars, TypeOK, NeverBroken
<1>5. CASE UNCHANGED vars
  BY <1>5 DEF vars, NeverBroken
<1>6. CASE Next
  BY <1>1, <1>2, <1>3, <1>4, <1>6 DEF Next, HelperStep
<1> QED
  BY <1>5, <1>6

(* No fetch, and no repack fetching first, meets a pack missing from the   *)
(* tree, a delta without its base, or refs still incomplete once every     *)
(* pack is indexed, whatever landed while it read (fetch_packs,            *)
(* index_pack, refs_complete).                                             *)
THEOREM NoFetchBreaks == Spec => []NeverBroken
<1>1. Init => NeverBroken
  BY DEF Init, NeverBroken
<1> QED
  BY <1>1, AllInvariants, BrokenStep, PTL DEF Spec

-----------------------------------------------------------------------------
\* Where the packs of a repack come from.

\* What a clone has staged.
Of(s) == Range(StagedPacks(s))

Starts(s, t) == Len(s) <= Len(t) /\ \A i \in 1..Len(s) : t[i] = s[i]

(* On the branch lg, the packs s that a repack staged are listed at tip v  *)
(* only behind a tip of that very repack, and as it listed them: first.    *)
Comes(lg, v, s) ==
  Range(lg[v].manifest.packs) \cap Range(s) # {} =>
    \E u \in 1..v : /\ lg[u].repack /\ lg[u].manifest.packs = s
                    /\ Starts(s, lg[v].manifest.packs)

\* The commit d lists any of them only as that repack or on top of it.
Brings(lg, d, s) ==
  Range(d.manifest.packs) \cap Range(s) # {} =>
    \/ d.repack /\ d.manifest.packs = s
    \/ ~d.repack /\ Range(At(lg, d.on).packs) \cap Range(s) # {}

\* So on the branch lg, with the helpers at pos and those commits in flight.
OriginsOf(lg, pos, drafts, wired, s) ==
  /\ \A v \in 1..Len(lg) : Comes(lg, v, s)
  /\ \A c \in Clone : pos[c] = "cas" => Brings(lg, drafts[c], s)
  /\ \A c \in Clone : wired[c] # Nothing => Brings(lg, wired[c], s)

Origins(s) == OriginsOf(log, pc, draft, wire, s)

(* The packs a repack staged have no other origin; no two clones stage the *)
(* same; a commit lists what it was built on and what its helper staged,   *)
(* as a repack or not; and one heard to have landed is at the tip after    *)
(* the one the helper read.                                                *)
OriginInv ==
  /\ \A c \in Clone : Repacking(c) /\ staged[c] # Nothing => Origins(staged[c].packs)
  /\ \A c, d \in Clone : c # d => Of(staged[c]) \cap Of(staged[d]) = {}
  /\ \A c \in Clone : pc[c] = "cas" =>
       /\ Range(draft[c].manifest.packs) \subseteq
            Range(At(log, draft[c].on).packs) \cup Of(staged[c])
       /\ draft[c].repack = Repacking(c)
  /\ \A c \in Clone : pc[c] = "landed" => log[tip[c] + 1].repack = Repacking(c)

\* Nobody has staged anything at first.
LEMMA OriginInit == Init => OriginInv
BY DEF Init, OriginInv, Of, StagedPacks, Range, Repacking, NoOp

\* A list that starts one that starts a third starts it too.
LEMMA StartsStarts ==
  ASSUME NEW s \in Seq(Pack), NEW t \in Seq(Pack), NEW w \in Seq(Pack),
         Starts(s, t), Len(t) <= Len(w), SubSeq(w, 1, Len(t)) = t
  PROVE  Starts(s, w)
<1>1. Len(s) \in Nat /\ Len(t) \in Nat /\ Len(w) \in Nat
  BY LenProperties
<1>2. \A i \in 1..Len(t) : SubSeq(w, 1, Len(t))[i] = w[i]
  BY <1>1
<1> QED
  BY <1>1, <1>2 DEF Starts

\* Only a commit in flight lands, on the tip it was built on.
LEMMA LandingIs ==
  ASSUME TypeInv, LineInv, Landing
  PROVE  \E x \in BackendCommit :
           /\ log' = Append(log, x) /\ x.on = Len(log) /\ Extends(log, x)
           /\ \/ \E c \in Clone : pc[c] = "cas" /\ x = draft[c]
              \/ \E c \in Clone : wire[c] # Nothing /\ x = wire[c]
BY DEF Landing, HostTakes, TypeInv, TypeOK, HelperOK, LineInv

\* A step that builds nothing gives a repack's packs no other origin.
LEMMA OriginsStay ==
  ASSUME TypeInv, LineInv, \A c \in Clone : Frame(c), log' = log \/ Landing,
         NEW s \in Seq(Pack), Origins(s)
  PROVE  OriginsOf(log', pc', draft', wire', s)
<1>1. log \in Seq(BackendCommit) /\ Len(log) \in Nat
  BY DEF TypeInv, TypeOK
<1>2. CASE log' = log
  BY <1>2 DEF Origins, OriginsOf, Frame
<1>3. CASE Landing
  <2>1. PICK x \in BackendCommit :
          /\ log' = Append(log, x) /\ x.on = Len(log) /\ Extends(log, x)
          /\ \/ \E c \in Clone : pc[c] = "cas" /\ x = draft[c]
             \/ \E c \in Clone : wire[c] # Nothing /\ x = wire[c]
    BY <1>3, LandingIs
  <2>2. Brings(log, x, s)
    BY <2>1 DEF Origins, OriginsOf
  <2>3. /\ Len(log') = Len(log) + 1 /\ log'[Len(log) + 1] = x
        /\ \A v \in 1..Len(log) : log'[v] = log[v]
    BY <1>1, <2>1
  <2>4. \A v \in 0..Len(log) : At(log', v) = At(log, v)
    BY <1>1, <2>1, AtStays
  <2>5. x.manifest.packs \in Seq(Pack)
    BY DEF BackendCommit, Manifests
  <2>6. Comes(log', Len(log) + 1, s)
    <3> SUFFICES ASSUME Range(x.manifest.packs) \cap Range(s) # {}
                 PROVE  \E u \in 1..(Len(log) + 1) :
                          /\ log'[u].repack /\ log'[u].manifest.packs = s
                          /\ Starts(s, x.manifest.packs)
      BY <2>3 DEF Comes
    <3>1. CASE x.repack /\ x.manifest.packs = s
      <4>1. Starts(s, s)
        BY LenProperties DEF Starts
      <4> QED
        BY <1>1, <2>3, <3>1, <4>1
    <3>2. CASE ~x.repack /\ Range(At(log, x.on).packs) \cap Range(s) # {}
      <4>1. Len(log) # 0
        <5>1. Range(EmptyManifest.packs) = {}
          BY DEF EmptyManifest, Range
        <5> QED
          BY <2>1, <3>2, <5>1 DEF At
      <4>2. Len(log) \in 1..Len(log) /\ At(log, x.on) = log[Len(log)].manifest
        BY <1>1, <2>1, <4>1 DEF At
      <4>3. log[Len(log)].manifest.packs \in Seq(Pack)
        <5>1. log[Len(log)] \in BackendCommit
          BY <1>1, <4>2, ElementOfSeq
        <5> QED
          BY <5>1 DEF BackendCommit, Manifests
      <4>4. PICK u \in 1..Len(log) :
              /\ log[u].repack /\ log[u].manifest.packs = s
              /\ Starts(s, log[Len(log)].manifest.packs)
        BY <3>2, <4>2 DEF Origins, OriginsOf, Comes
      <4>5. Starts(s, x.manifest.packs)
        BY <2>1, <2>5, <3>2, <4>2, <4>3, <4>4, StartsStarts DEF Extends
      <4> QED
        BY <1>1, <2>3, <4>4, <4>5
    <3> QED
      BY <2>2, <3>1, <3>2 DEF Brings
  <2>7. ASSUME NEW v \in 1..Len(log) PROVE Comes(log', v, s)
    <3>1. \A u \in 1..v : log'[u] = log[u]
      BY <1>1, <2>3
    <3> QED
      BY <2>3, <3>1 DEF Origins, OriginsOf, Comes
  <2>8. \A v \in 1..Len(log') : Comes(log', v, s)
    <3>1. \A v \in 1..Len(log') : v \in 1..Len(log) \/ v = Len(log) + 1
      BY <1>1, <2>3
    <3> QED
      BY <2>6, <2>7, <3>1
  <2>9. \A c \in Clone : pc[c] = "cas" => Brings(log', draft[c], s)
    BY <2>4 DEF Origins, OriginsOf, Brings, LineInv, Extends
  <2>10. \A c \in Clone : wire[c] # Nothing => Brings(log', wire[c], s)
    BY <2>4 DEF Origins, OriginsOf, Brings, LineInv, Extends
  <2> QED
    BY <2>8, <2>9, <2>10 DEF Origins, OriginsOf, Frame
<1> QED
  BY <1>2, <1>3

\* Such a step keeps the invariant.
LEMMA OriginFrame ==
  ASSUME TypeInv, LineInv, OriginInv, \A c \in Clone : Frame(c), log' = log \/ Landing
  PROVE  OriginInv'
<1>1. log \in Seq(BackendCommit) /\ Len(log) \in Nat
  BY DEF TypeInv, TypeOK
<1>2. ASSUME NEW c \in Clone, op'[c].kind = "repack", staged'[c] # Nothing
      PROVE  OriginsOf(log', pc', draft', wire', staged'[c].packs)
  <2>1. staged'[c] = staged[c] /\ Repacking(c)
    BY <1>2 DEF Frame, Repacking
  <2> DEFINE s == staged[c].packs
  <2>2. s \in Seq(Pack) /\ Origins(s)
    BY <1>2, <2>1 DEF OriginInv, TypeInv, TypeOK, StagedSet
  <2> HIDE DEF s
  <2>3. OriginsOf(log', pc', draft', wire', s)
    BY <2>2, OriginsStay
  <2>4. staged'[c].packs = s
    BY <2>1 DEF s
  <2> QED
    BY <2>3, <2>4
<1>3. \A c \in Clone : Of(staged'[c]) \subseteq Of(staged[c])
  <2>1. Of(Nothing) = {}
    BY DEF Of, StagedPacks, Range
  <2> QED
    BY <2>1 DEF Frame
<1>4. \A c, d \in Clone : c # d => Of(staged'[c]) \cap Of(staged'[d]) = {}
  BY <1>3 DEF OriginInv
<1>5. /\ \A v \in 0..Len(log) : At(log', v) = At(log, v)
      /\ \A v \in 1..Len(log) : log'[v] = log[v]
  <2>1. CASE log' = log
    BY <2>1
  <2>2. CASE Landing
    <3>1. PICK x \in BackendCommit : log' = Append(log, x)
      BY <2>2, LandingIs
    <3> QED
      BY <1>1, <3>1, AtStays
  <2> QED
    BY <2>1, <2>2
<1>6. ASSUME NEW c \in Clone, pc'[c] = "cas"
      PROVE  /\ Range(draft'[c].manifest.packs) \subseteq
                  Range(At(log', draft'[c].on).packs) \cup Of(staged'[c])
             /\ draft'[c].repack = (op'[c].kind = "repack")
  <2>1. /\ pc[c] = "cas" /\ draft'[c] = draft[c] /\ staged'[c] = staged[c]
        /\ op'[c].kind = op[c].kind
    BY <1>6 DEF Frame
  <2>2. draft[c].on \in 0..Len(log)
    BY <2>1 DEF LineInv, Extends
  <2> QED
    BY <1>5, <2>1, <2>2 DEF OriginInv, Repacking
<1>7. ASSUME NEW c \in Clone, pc'[c] = "landed"
      PROVE  log'[tip'[c] + 1].repack = (op'[c].kind = "repack")
  <2>1. /\ tip'[c] = tip[c] /\ op'[c].kind = op[c].kind
        /\ pc[c] = "landed" \/ (pc[c] = "cas" /\ HostTakes(draft[c]))
    BY <1>7 DEF Frame
  <2>2. CASE pc[c] = "landed"
    <3>1. tip[c] + 1 \in 1..Len(log)
      BY <1>1, <2>2 DEF TypeInv, TypeOK, HelperOK
    <3> QED
      BY <1>5, <2>1, <2>2, <3>1 DEF OriginInv, Repacking
  <2>3. CASE pc[c] = "cas" /\ HostTakes(draft[c])
    <3>1. log' = Append(log, draft[c]) /\ tip[c] = Len(log)
      BY <2>3 DEF HostTakes, TypeInv, HelperOK
    <3>2. log'[tip[c] + 1] = draft[c]
      BY <1>1, <3>1
    <3> QED
      BY <2>1, <2>3, <3>2 DEF OriginInv, Repacking
  <2> QED
    BY <2>1, <2>2, <2>3
<1> QED
  BY <1>2, <1>4, <1>6, <1>7 DEF OriginInv, Origins, Repacking

(* Packs built now carry a build that no listed, staged or pushed pack has. *)
LEMMA FreshIsNew ==
  ASSUME TypeInv, LineInv, OriginInv, CanBuild, NEW p, p.build = FreshBuild
  PROVE  /\ \A v \in 1..Len(log) : p \notin Range(log[v].manifest.packs)
         /\ \A c \in Clone : p \notin Of(staged[c])
         /\ \A c \in Clone : wire[c] # Nothing => p \notin Range(wire[c].manifest.packs)
         /\ \A c \in Clone : pc[c] = "cas" => p \notin Range(draft[c].manifest.packs)
<1>1. p.build \notin UsedBuilds
  BY DEF FreshBuild, CanBuild
<1>2. \A v \in 1..Len(log) : p \notin Range(log[v].manifest.packs)
  <2>1. DOMAIN log = 1..Len(log)
    BY LogDomain
  <2> QED
    BY <1>1, <2>1 DEF UsedBuilds
<1>3. \A c \in Clone : p \notin Of(staged[c])
  <2>1. Of(Nothing) = {}
    BY DEF Of, StagedPacks, Range
  <2> QED
    BY <1>1, <2>1 DEF UsedBuilds, Of, StagedPacks
<1>4. \A c \in Clone : wire[c] # Nothing => p \notin Range(wire[c].manifest.packs)
  BY <1>1 DEF UsedBuilds
<1>5. ASSUME NEW c \in Clone, pc[c] = "cas" PROVE p \notin Range(draft[c].manifest.packs)
  <2>1. draft[c].on \in 0..Len(log)
    BY <1>5 DEF LineInv, Extends
  <2>2. Range(EmptyManifest.packs) = {}
    BY DEF EmptyManifest, Range
  <2>3. p \notin Range(At(log, draft[c].on).packs)
    BY <1>2, <2>1, <2>2 DEF At
  <2> QED
    BY <1>3, <1>5, <2>3 DEF OriginInv
<1> QED
  BY <1>2, <1>3, <1>4, <1>5

\* What an attempt stages was staged by it before, or is new.
LEMMA StagedOrNew ==
  ASSUME TypeInv, NEW c \in Clone, NEW kept, MayKeep(c, kept), CanBuild
  PROVE  LET s == Stage(c, kept) IN
         \/ s = staged[c]
         \/ \A p \in Of(s) : p.build = FreshBuild
<1> DEFINE s == Stage(c, kept)
           built == Built(c, FreshBuild)
           fresh == [wants |-> Wants(c), bases |-> Range(Manifest(c).packs), packs |-> built]
<1>1. CASE kept # Nothing /\ Reusable(c, kept)
  BY <1>1 DEF Stage, MayKeep
<1>2. CASE ~(kept # Nothing /\ Reusable(c, kept))
  <2>1. s = IF built = <<>> THEN Nothing ELSE fresh
    BY <1>2 DEF Stage
  <2>2. Of(Nothing) = {}
    BY DEF Of, StagedPacks, Range
  <2>3. \A i \in DOMAIN built : built[i].build = FreshBuild
    <3>1. \A i \in DOMAIN ThinPack(c, FreshBuild) : ThinPack(c, FreshBuild)[i].build = FreshBuild
      <4> DEFINE p == [build |-> FreshBuild, holds |-> Reach(Wants(c)) \ Reach(Excludes(c)),
                       thin |-> Reach(Excludes(c))]
      <4>1. p.build = FreshBuild
        OBVIOUS
      <4>2. ThinPack(c, FreshBuild) \in {<<>>, <<p>>}
        BY DEF ThinPack
      <4> HIDE DEF p
      <4> QED
        BY <4>1, <4>2
    <3>2. \A i \in DOMAIN RepackedPacks(c, FreshBuild) :
            RepackedPacks(c, FreshBuild)[i].build = FreshBuild
      <4> DEFINE pack(S) == [build |-> FreshBuild, holds |-> S, thin |-> {}]
                 a == pack(Wants(c))
                 b == pack(Reach(Wants(c)) \ Wants(c))
      <4>1. a.build = FreshBuild /\ b.build = FreshBuild
        OBVIOUS
      <4>2. RepackedPacks(c, FreshBuild) \in {<<>>, <<a>>, <<a, b>>}
        BY DEF RepackedPacks
      <4> HIDE DEF a, b
      <4> QED
        BY <4>1, <4>2
    <3> QED
      BY <3>1, <3>2 DEF Built
  <2>5. CASE built = <<>>
    BY <2>1, <2>2, <2>5
  <2>6. CASE built # <<>>
    <3>1. s = fresh /\ fresh.packs = built
      BY <2>1, <2>6
    <3>2. Of(fresh) \subseteq Range(built)
      BY <2>2 DEF Of, StagedPacks, Range
    <3> QED
      BY <2>3, <3>1, <3>2 DEF Range
  <2> QED
    BY <2>5, <2>6
<1> QED
  BY <1>1, <1>2

\* A build gives no repack's packs another origin, and its own none but itself.
LEMMA OriginBuild ==
  ASSUME TypeInv, LineInv, TipsInv, OriginInv, NEW c \in Clone, BuildPush(c) \/ BuildRepack(c)
  PROVE  OriginInv'
<1>1. PICK kept : MayKeep(c, kept) /\ Build(c, kept)
  BY BuildsWhat
<1>2. /\ UNCHANGED <<log, wire, op, tip>>
      /\ pc'[c] = "cas" /\ \A d \in Clone \ {c} :
           pc'[d] = pc[d] /\ staged'[d] = staged[d] /\ draft'[d] = draft[d]
  BY BuildsWhat
<1> DEFINE s == Stage(c, kept)
           d0 == NewCommitOnTip(c, s)
<1>3. staged'[c] = s /\ draft'[c] = d0 /\ CanBuild
  BY <1>1 DEF Build, TypeInv, TypeOK
<1>4. s = staged[c] \/ \A p \in Of(s) : p.build = FreshBuild
  BY <1>1, <1>3, StagedOrNew
<1>5. s \in StagedSet \cup {Nothing} /\ StagedPacks(s) \in Seq(Pack)
  BY <1>1, <1>3, StageType DEF MayKeep, TypeInv, TypeOK
<1>6. /\ d0.on = tip[c] /\ d0.repack = Repacking(c)
      /\ d0.manifest.packs = (IF Repacking(c) THEN <<>> ELSE Manifest(c).packs) \o StagedPacks(s)
  BY DEF NewCommitOnTip, NewManifest
<1>7. Manifest(c) = At(log, tip[c]) /\ Manifest(c).packs \in Seq(Pack)
  BY ManifestType DEF Manifest, ManifestAt, At, TypeInv, Manifests
<1> HIDE DEF s, d0
<1>8. Repacking(c) => d0.manifest.packs = StagedPacks(s)
  BY <1>5, <1>6, ConcatEmptySeq
<1>9. ~Repacking(c) => Range(d0.manifest.packs) = Range(At(log, d0.on).packs) \cup Of(s)
  BY <1>5, <1>6, <1>7, RangeConcatenation DEF Of
<1>10. Range(d0.manifest.packs) \subseteq Range(At(log, d0.on).packs) \cup Of(s)
  BY <1>8, <1>9 DEF Of
<1>11. \A d \in Clone \ {c} : Of(s) \cap Of(staged[d]) = {}
  <2>1. CASE s = staged[c]
    BY <2>1 DEF OriginInv
  <2>2. CASE \A p \in Of(s) : p.build = FreshBuild
    BY <1>3, <2>2, FreshIsNew
  <2> QED
    BY <1>4, <2>1, <2>2
<1>12. \A d, e \in Clone : d # e => Of(staged'[d]) \cap Of(staged'[e]) = {}
  BY <1>2, <1>3, <1>11 DEF OriginInv
<1>13. \A x : x # Nothing => Of(x) = Range(x.packs)
  BY DEF Of, StagedPacks
<1>14. ASSUME NEW d \in Clone \ {c}, Repacking(d), staged[d] # Nothing
       PROVE  Brings(log, d0, staged[d].packs)
  <2>1. Of(s) \cap Range(staged[d].packs) = {}
    BY <1>11, <1>13, <1>14
  <2> QED
    BY <1>6, <1>8, <1>9, <2>1 DEF Brings, Of
<1>15. ASSUME NEW d \in Clone, op'[d].kind = "repack", staged'[d] # Nothing
       PROVE  OriginsOf(log', pc', draft', wire', staged'[d].packs)
  <2>1. CASE d # c
    <3>1. Origins(staged[d].packs) /\ staged'[d] = staged[d]
      BY <1>2, <1>15, <2>1 DEF OriginInv, Repacking
    <3>2. Brings(log, d0, staged[d].packs)
      BY <1>2, <1>14, <1>15, <2>1, <3>1 DEF Repacking
    <3> QED
      BY <1>2, <1>3, <3>1, <3>2 DEF Origins, OriginsOf
  <2>2. CASE d = c
    <3>1. Repacking(c) /\ s # Nothing /\ staged'[d].packs = s.packs
      BY <1>2, <1>3, <1>15, <2>2 DEF Repacking
    <3>2. Brings(log, d0, s.packs)
      BY <1>6, <1>8, <3>1 DEF Brings, StagedPacks
    <3>3. CASE s = staged[c]
      <4>1. Origins(s.packs)
        BY <3>1, <3>3 DEF OriginInv
      <4> QED
        BY <1>2, <1>3, <3>1, <3>2, <4>1 DEF Origins, OriginsOf
    <3>4. CASE \A p \in Of(s) : p.build = FreshBuild
      <4>1. \A p \in Range(s.packs) : p.build = FreshBuild
        BY <1>13, <3>1, <3>4
      <4>2. \A v \in 1..Len(log) : Range(log[v].manifest.packs) \cap Range(s.packs) = {}
        BY <1>3, <4>1, FreshIsNew
      <4>3. \A e \in Clone : wire[e] # Nothing =>
              Range(wire[e].manifest.packs) \cap Range(s.packs) = {}
        BY <1>3, <4>1, FreshIsNew
      <4>4. \A e \in Clone : pc[e] = "cas" =>
              Range(draft[e].manifest.packs) \cap Range(s.packs) = {}
        BY <1>3, <4>1, FreshIsNew
      <4>5. \A v \in 1..Len(log) : Comes(log, v, s.packs)
        BY <4>2 DEF Comes
      <4>6. \A e \in Clone : wire[e] # Nothing => Brings(log, wire[e], s.packs)
        BY <4>3 DEF Brings
      <4>7. \A e \in Clone \ {c} : pc[e] = "cas" => Brings(log, draft[e], s.packs)
        BY <4>4 DEF Brings
      <4> QED
        BY <1>2, <1>3, <3>1, <3>2, <4>5, <4>6, <4>7 DEF Origins, OriginsOf
    <3> QED
      BY <1>4, <3>3, <3>4
  <2> QED
    BY <2>1, <2>2
<1>16. ASSUME NEW d \in Clone, pc'[d] = "cas"
       PROVE  /\ Range(draft'[d].manifest.packs) \subseteq
                   Range(At(log', draft'[d].on).packs) \cup Of(staged'[d])
              /\ draft'[d].repack = (op'[d].kind = "repack")
  <2>1. CASE d = c
    BY <1>2, <1>3, <1>6, <1>10, <2>1 DEF Repacking
  <2>2. CASE d # c
    BY <1>2, <1>16, <2>2 DEF OriginInv, Repacking
  <2> QED
    BY <2>1, <2>2
<1>17. ASSUME NEW d \in Clone, pc'[d] = "landed"
       PROVE  log'[tip'[d] + 1].repack = (op'[d].kind = "repack")
  <2>1. d # c
    BY <1>2, <1>17
  <2> QED
    BY <1>2, <1>17, <2>1 DEF OriginInv, Repacking
<1> QED
  BY <1>12, <1>15, <1>16, <1>17 DEF OriginInv, Origins, Repacking

\* Every step keeps it.
LEMMA OriginStep == TypeInv /\ LineInv /\ TipsInv /\ OriginInv /\ [Next]_vars => OriginInv'
<1> SUFFICES ASSUME TypeInv, LineInv, TipsInv, OriginInv, [Next]_vars PROVE OriginInv'
  OBVIOUS
<1>1. CASE ~Builds
  BY <1>1, BuildsOrFrames, OriginFrame
<1>2. CASE Builds
  BY <1>2, OriginBuild DEF Builds
<1> QED
  BY <1>1, <1>2

(* A repack found landed left its packs alone on the tip it read: they are *)
(* that many, they come first, and a commit of this repack brought them.   *)
LEMMA FoundLandedHolds ==
  ASSUME TypeInv, OriginInv, NEW c \in Clone, RepackLanded(c)
  PROVE  \E v \in 1..tip[c] :
           log[v].repack /\ log[v].manifest.packs = log[tip[c]].manifest.packs
<1> DEFINE s == staged[c].packs
           packs == Manifest(c).packs
<1>1. staged[c] # Nothing /\ Range(s) \cap Range(packs) # {} /\ Len(packs) = Len(s)
  BY DEF RepackLanded, AlreadyListed
<1>2. s \in Seq(Pack) /\ packs \in Seq(Pack)
  BY <1>1, ManifestType DEF TypeInv, TypeOK, StagedSet, Manifests
<1>3. tip[c] \in 1..Len(log) /\ Manifest(c) = log[tip[c]].manifest
  <2>1. Range(EmptyManifest.packs) = {}
    BY DEF EmptyManifest, Range
  <2>2. tip[c] # 0
    BY <1>1, <2>1 DEF Manifest, ManifestAt
  <2> QED
    BY <2>2 DEF TypeInv, TypeOK, Manifest, ManifestAt
<1>4. Origins(s)
  BY <1>1 DEF RepackLanded, OriginInv
<1>5. PICK u \in 1..tip[c] : log[u].repack /\ log[u].manifest.packs = s /\ Starts(s, packs)
  BY <1>1, <1>3, <1>4 DEF Origins, OriginsOf, Comes
<1>6. s = packs
  <2> HIDE DEF s, packs
  <2>1. \A i \in 1..Len(s) : packs[i] = s[i]
    BY <1>5 DEF Starts
  <2> QED
    BY <1>1, <1>2, <2>1, SeqEqual
<1> QED
  BY <1>3, <1>5, <1>6

(* A repack reported done left only packs of a repack on the tip it ends   *)
(* on, also when it was reported failed, landed all the same and others    *)
(* pushed on top before it looked again (remote.rs:1589).                  *)
THEOREM RepacksHold == Spec => DoneRepackHolds
<1> DEFINE Held == \A c \in Clone :
              Repacking(c) /\ pc'[c] = "ready" =>
                \E v \in 1..tip'[c] :
                  log[v].repack /\ log[v].manifest.packs = log[tip'[c]].manifest.packs
<1>1. TypeInv /\ TipsInv /\ OriginInv /\ [Next]_vars => [Held]_vars
  <2> SUFFICES ASSUME TypeInv, TipsInv, OriginInv, [Next]_vars,
                      NEW c \in Clone, Repacking(c), pc'[c] = "ready"
               PROVE  \E v \in 1..tip'[c] :
                        log[v].repack /\ log[v].manifest.packs = log[tip'[c]].manifest.packs
    OBVIOUS
  <2>0. TypeOK /\ HelperOK /\ pc[c] \notin {"idle", "ready"}
    BY DEF TypeInv, TipsInv
  <2>1. CASE RepackFoundLanded(c)
    <3>1. RepackLanded(c) /\ tip' = tip
      BY <2>1 DEF RepackFoundLanded
    <3> QED
      BY <3>1, FoundLandedHolds
  <2>2. CASE Record(c)
    <3>1. pc[c] = "landed" /\ tip'[c] = tip[c] + 1
      BY <2>0, <2>2 DEF Record, TypeOK
    <3>2. tip[c] + 1 \in 1..(tip[c] + 1) /\ log[tip[c] + 1].repack
      BY <2>0, <3>1 DEF OriginInv, TypeOK
    <3> QED
      BY <3>1, <3>2
  <2>3. ASSUME NEW d \in Clone, d # c,
               \/ \E x \in Commit : NewCommit(d, x)
               \/ Connect(d) \/ BeginFetch(d) \/ BeginRepack(d)
               \/ \E batch \in Batch[d] : BeginPush(d, batch)
               \/ HelperStep(d) \/ LateLand(d) \/ LateStale(d) \/ Stop(d)
        PROVE  FALSE
    BY <2>0, <2>3 DEF NewCommit, Connect, BeginFetch, BeginRepack, BeginPush, HelperStep, IndexPack,
       AddHave, FetchDone, NothingAccepted, BuildPush, RepackFoundLanded, RepackFetches,
       BuildRepack, Build, Land, Stale, Fail, CheckTip, Retry, Record, LateLand, LateStale, Stop,
       Finish, helperVars, TypeOK
  <2>4. ASSUME \/ \E x \in Commit : NewCommit(c, x)
               \/ Connect(c) \/ BeginFetch(c) \/ BeginRepack(c)
               \/ \E batch \in Batch[c] : BeginPush(c, batch)
               \/ LateLand(c) \/ LateStale(c) \/ Stop(c)
               \/ IndexPack(c) \/ AddHave(c) \/ FetchDone(c)
               \/ NothingAccepted(c) \/ BuildPush(c) \/ RepackFetches(c) \/ BuildRepack(c)
               \/ Land(c) \/ Stale(c) \/ Fail(c) \/ CheckTip(c) \/ Retry(c)
        PROVE  FALSE
    BY <2>0, <2>4 DEF NewCommit, Connect, BeginFetch, BeginRepack, BeginPush, IndexPack,
       AddHave, FetchDone, NothingAccepted, BuildPush, RepackFetches, BuildRepack, Build, Land,
       Stale, Fail, CheckTip, Retry, LateLand, LateStale, Stop, Finish, Repacking, helperVars,
       TypeOK
  <2>5. CASE UNCHANGED vars
    BY <2>0, <2>5 DEF vars
  <2>6. CASE Next
    BY <2>1, <2>2, <2>3, <2>4, <2>6 DEF Next, HelperStep
  <2> QED
    BY <2>5, <2>6
<1>2. Spec => [](TypeInv /\ TipsInv /\ OriginInv)
  BY AllInvariants, OriginInit, OriginStep, PTL DEF Spec
<1>3. Spec => [][Held]_vars
  BY <1>1, <1>2, PTL DEF Spec
<1> QED
  BY <1>3 DEF DoneRepackHolds

-----------------------------------------------------------------------------
\* The remote implements the abstract store of refs.

\* Before the first push the remote is the empty store.
LEMMA StoreStarts == Init => Store!Init
<1> SUFFICES ASSUME Init PROVE Store!Init
  OBVIOUS
<1>1. Tip = EmptyManifest
  BY DEF Init, Tip, ManifestAt
<1>2. EmptyManifest.refs = [r \in Ref |-> NoCommit] /\ EmptyManifest.packs = <<>>
  BY DEF EmptyManifest
<1> QED
  BY <1>1, <1>2, HoldsNone DEF Init, Store!Init

\* A commit that lands is a push or a repack of the abstract store.
LEMMA LandingIsPush ==
  ASSUME TypeInv, LineInv, TipsInv, NEW d \in BackendCommit, HostTakes(d), Sound(d),
         Replaces(At(log, d.on), d)
  PROVE  Store!Next
<1>1. log \in Seq(BackendCommit) /\ log' = Append(log, d) /\ d.on = Len(log)
  BY DEF HostTakes, TypeInv, TypeOK
<1>2. Tip = At(log, d.on)
  BY <1>1 DEF Tip, ManifestAt, At
<1>3. Len(log') = Len(log) + 1 /\ log'[Len(log')] = d /\ log' # <<>> /\ Len(log') # 0
  BY <1>1
<1>4. Tip' = d.manifest
  BY <1>3 DEF Tip, ManifestAt
<1>5. (IF log = <<>> THEN [touched |-> {}, forced |-> {}] ELSE log[Len(log)].asked)' = d.asked
  BY <1>3
<1>6. d.asked \in Asked /\ d.manifest \in Manifests
  BY DEF BackendCommit
<1>7. Store!Named(Tip.refs)' = Known(d.manifest)
  BY <1>4 DEF Store!Named, Known
<1>8. \A S : Store!Reach(S) = Reach(S)
  BY DEF Store!Reach, Reach
<1>9. CASE d.repack
  <2>1. d.asked = [touched |-> {}, forced |-> {}]
    BY <1>6, <1>9 DEF Replaces, Asked
  <2>2. Tip'.refs = Tip.refs
    <3>1. Tip \in Manifests
      <4>1. CASE d.on = 0
        BY <1>2, <4>1, EmptySeq DEF At, EmptyManifest, Manifests
      <4>2. CASE d.on # 0
        <5>1. d.on \in 1..Len(log)
          BY <1>1, <4>2, LenProperties
        <5>2. log[d.on] \in BackendCommit
          BY <1>1, <5>1, ElementOfSeq
        <5> QED
          BY <1>2, <4>2, <5>2 DEF At, BackendCommit
      <4> QED
        BY <4>1, <4>2
    <3>2. \A r \in Ref : d.manifest.refs[r] = Tip.refs[r]
      BY <1>2, <1>9 DEF Replaces
    <3> QED
      BY <1>4, <1>6, <3>1, <3>2 DEF Manifests
  <2>3. Holds(Tip'.packs) = Reach(Known(Tip))
    BY <1>4, <1>9, <2>2 DEF Sound, Known
  <2>4. Store!Named(Tip.refs) = Known(Tip)
    BY DEF Store!Named, Known
  <2>5. Store!Repack
    BY <1>5, <1>8, <2>1, <2>2, <2>3, <2>4 DEF Store!Repack, Holds
  <2> QED
    BY <2>5 DEF Store!Next
<1>10. CASE ~d.repack
  <2>1. Holds(Tip.packs) \subseteq Holds(Tip'.packs)
    BY <1>2, <1>4, <1>10 DEF Replaces
  <2>2. Reach(Known(d.manifest)) \subseteq Holds(Tip'.packs)
    BY <1>4 DEF Sound, Rebuilds
  <2>3. Tip'.refs \in [Ref -> Commit \cup {NoCommit}]
    BY <1>4, <1>6 DEF Manifests
  <2>4. Store!Push
    BY <1>2, <1>4, <1>5, <1>6, <1>7, <1>8, <2>1, <2>2, <2>3
    DEF Store!Push, Replaces, Asked, Holds
  <2> QED
    BY <2>4 DEF Store!Next
<1> QED
  BY <1>9, <1>10

\* Every step is a step of the abstract store, or changes nothing there.
LEMMA StoreSteps ==
  TypeInv /\ LineInv /\ TipsInv /\ [Next]_vars => [Store!Next]_(Store!abstractVars)
<1> SUFFICES ASSUME TypeInv, LineInv, TipsInv, [Next]_vars
             PROVE  Store!Next \/ UNCHANGED Store!abstractVars
  OBVIOUS
<1>1. ASSUME log' = log PROVE UNCHANGED Store!abstractVars
  BY <1>1 DEF Store!abstractVars, Tip, ManifestAt, EmptyManifest
<1>2. ASSUME NEW c \in Clone, Land(c) PROVE Store!Next
  <2>1. pc[c] = "cas" /\ HostTakes(draft[c])
    BY <1>2 DEF Land
  <2>2. draft[c] \in BackendCommit /\ Sound(draft[c]) /\ Replaces(At(log, draft[c].on), draft[c])
    BY <2>1 DEF TypeInv, HelperOK, TipsInv
  <2> QED
    BY <2>1, <2>2, LandingIsPush
<1>3. ASSUME NEW c \in Clone, LateLand(c) PROVE Store!Next
  <2>1. wire[c] # Nothing /\ HostTakes(wire[c])
    BY <1>3 DEF LateLand
  <2>2. wire[c] \in BackendCommit /\ Sound(wire[c]) /\ Replaces(At(log, wire[c].on), wire[c])
    BY <2>1 DEF TypeInv, TypeOK, TipsInv
  <2> QED
    BY <2>1, <2>2, LandingIsPush
<1>4. ASSUME NEW c \in Clone,
             \/ \E x \in Commit : NewCommit(c, x)
             \/ Connect(c) \/ BeginFetch(c) \/ BeginRepack(c)
             \/ \E batch \in Batch[c] : BeginPush(c, batch)
             \/ IndexPack(c) \/ AddHave(c) \/ FetchDone(c) \/ NothingAccepted(c) \/ BuildPush(c)
             \/ RepackFoundLanded(c) \/ RepackFetches(c) \/ BuildRepack(c)
             \/ Stale(c) \/ Fail(c) \/ CheckTip(c) \/ Retry(c) \/ Record(c)
             \/ LateStale(c) \/ Stop(c)
      PROVE  log' = log
  BY <1>4 DEF NewCommit, Connect, BeginFetch, BeginRepack, BeginPush, IndexPack, AddHave,
              FetchDone, NothingAccepted, BuildPush, RepackFoundLanded, RepackFetches, BuildRepack,
              Stale, Fail, CheckTip, Retry, Record, LateStale, Stop, hostVars
<1>5. CASE UNCHANGED vars
  BY <1>1, <1>5 DEF vars
<1>6. CASE Next
  BY <1>1, <1>2, <1>3, <1>4, <1>6 DEF Next, HelperStep
<1> QED
  BY <1>5, <1>6

(* The remote is an atomic store of refs: whatever races, fails, retries   *)
(* or lands late, each landing is one push or one repack of RefStore on    *)
(* the refs as they then are, and every other step changes nothing.        *)
THEOREM IsRefStore == Spec => ImplementsRefStore
BY StoreStarts, StoreSteps, AllInvariants, PTL DEF Spec, ImplementsRefStore, Store!Spec
=============================================================================
