---------------------------- MODULE Shallow_proofs ----------------------------
(***************************************************************************)
(* Proofs about Shallow, for every history, remote and number of repacks:  *)
(* the helper's record of its boundaries and .git/shallow; types; fetches  *)
(* that connect and complete; pushes and repacks that leave the remote     *)
(* whole.                                                                  *)
(*                                                                         *)
(* set_boundary writes the record, .git/shallow and the record again:      *)
(* RecordedInv says what already holds between these writes.  FetchInv     *)
(* follows a fetch to its end; Whole is what a push keeps of the remote.   *)
(***************************************************************************)
EXTENDS Shallow, FiniteSetTheorems, TLAPS

-----------------------------------------------------------------------------
\* The record of boundaries.

RecordedInv ==
  /\ BoundaryRecorded
  /\ pc = "graft" => planned \subseteq mine
  /\ pc = "settle" => planned \subseteq mine /\ listed \subseteq planned \cup Elsewhere

(* A new repository has neither boundaries nor a record of them.           *)
LEMMA RecordedInit == Init => RecordedInv
  BY DEF Init, RecordedInv, BoundaryRecorded

(* Every step keeps the order of set_boundary's writes.                    *)
LEMMA RecordedStep == RecordedInv /\ [Next]_vars => RecordedInv'
<1> SUFFICES ASSUME RecordedInv, [Next]_vars
             PROVE  RecordedInv'
  OBVIOUS
<1> USE DEF RecordedInv, BoundaryRecorded
<1>1. ASSUME NEW rs \in OtherRefs, OtherPush(rs) PROVE RecordedInv'
  BY <1>1 DEF OtherPush, CanLand, repoVars, helperVars
<1>2. CASE OtherRepack
  BY <1>2 DEF OtherRepack, CanLand, repoVars, helperVars
<1>3. ASSUME NEW x \in Commit, NewCommit(x) PROVE RecordedInv'
  BY <1>3 DEF NewCommit, helperVars
<1>4. ASSUME NEW x \in Commit, DropRef(x) PROVE RecordedInv'
  BY <1>4 DEF DropRef, helperVars
<1>5. ASSUME NEW x \in Commit, FetchElsewhere(x) PROVE RecordedInv'
  BY <1>5 DEF FetchElsewhere, helperVars
<1>6. CASE Gc
  BY <1>6 DEF Gc, helperVars
<1>7. ASSUME NEW c \in {"plain", "depth", "full", "repack"}, Begin(c) PROVE RecordedInv'
  BY <1>7 DEF Begin, Go, repoVars
<1>8. CASE HelperStep
  <2>1. CASE IndexPack
    BY <2>1 DEF IndexPack, Index, helperVars
  <2>2. CASE HistoryForDeltas
    BY <2>2 DEF HistoryForDeltas, IndexHistory, Go
  <2>3. CASE IndexFails
    BY <2>3 DEF IndexFails, Go, repoVars
  <2>4. CASE Indexed
    BY <2>4 DEF Indexed, Go, repoVars
  <2>5. CASE HistoryForBoundary
    BY <2>5 DEF HistoryForBoundary, IndexHistory, Go
  <2>6. CASE Plan
    BY <2>6 DEF Plan, Go, repoVars
  <2>7. CASE Record
    BY <2>7 DEF Record, SetBoundary, Go
  <2>8. CASE Graft
    BY <2>8 DEF Graft, UpdateShallow, Go
  <2>9. CASE Settle
    BY <2>9 DEF Settle, SetBoundary, Go
  <2>10. CASE HistoryForRefs
    BY <2>10 DEF HistoryForRefs, IndexHistory, Go
  <2>11. CASE Verified
    BY <2>11 DEF Verified, Go, repoVars
  <2>12. CASE EndFetch
    BY <2>12 DEF EndFetch, Exit, Go
  <2>13. CASE Repack
    BY <2>13 DEF Repack, Lands, Exit
  <2> QED
    BY <1>8, <2>1, <2>2, <2>3, <2>4, <2>5, <2>6, <2>7, <2>8, <2>9, <2>10, <2>11, <2>12,
       <2>13 DEF HelperStep
<1>9. CASE Crash
  BY <1>9 DEF Crash, Exit, repoVars
<1>10. ASSUME NEW r \in Ref, NEW x \in Commit, Push(r, x) PROVE RecordedInv'
  BY <1>10 DEF Push, CanLand, Lands, helperVars
<1>11. CASE UNCHANGED vars
  BY <1>11 DEF vars
<1> QED
  BY <1>1, <1>2, <1>3, <1>4, <1>5, <1>6, <1>7, <1>8, <1>9, <1>10, <1>11 DEF Next

(* Wherever a helper dies, each commit of .git/shallow is on the helper's  *)
(* list or came from another remote (remote.rs:1203).                      *)
THEOREM BoundariesAreRecorded == Spec => []BoundaryRecorded
<1>1. RecordedInv => BoundaryRecorded
  BY DEF RecordedInv
<1> QED
  BY RecordedInit, RecordedStep, <1>1, PTL DEF Spec

(* A step takes a commit off .git/shallow only when this remote had put it *)
(* on its list, or git pruned the commit (state.rs:170).                   *)
THEOREM OthersBoundariesStay == Spec => OthersStay
<1> DEFINE Stays == \A c \in listed \ listed' : c \in mine \/ c \notin objs'
<1>1. ASSUME [Next]_vars PROVE Stays
  <2>1. CASE Gc
    BY <2>1 DEF Gc
  <2>2. CASE Graft
    BY <2>2 DEF Graft, UpdateShallow
  <2>3. ASSUME NEW x \in Commit, FetchElsewhere(x) PROVE Stays
    BY <2>3 DEF FetchElsewhere
  <2>4. CASE UNCHANGED listed
    BY <2>4
  <2>5. ASSUME Next, ~Gc, ~Graft, \A x \in Commit : ~FetchElsewhere(x)
        PROVE  UNCHANGED listed
    <3>1. ASSUME HelperStep PROVE UNCHANGED listed
      BY <2>5, <3>1 DEF HelperStep, IndexPack, HistoryForDeltas, IndexFails, Indexed,
         HistoryForBoundary, Plan, Record, Settle, HistoryForRefs, IndexHistory, Verified,
         EndFetch, Repack, repoVars
    <3> QED
      BY <2>5, <3>1 DEF Next, OtherPush, OtherRepack, NewCommit, DropRef, Begin, Crash, Push,
         repoVars
  <2>6. CASE UNCHANGED vars
    BY <2>6 DEF vars
  <2> QED
    BY <1>1, <2>1, <2>2, <2>3, <2>4, <2>5, <2>6
<1> QED
  BY <1>1, PTL DEF Spec, OthersStay

-----------------------------------------------------------------------------
\* Walks.

(* A walk starts at S, goes on to the parents of what is not cut, and      *)
(* reaches nothing else.                                                   *)
Closed(T, cut) == \A z \in T \ cut : Parents[z] \subseteq T

(* A commit is reached when it is in every set closed under such steps.   *)
LEMMA ReachesWhat ==
  ASSUME NEW x \in Commit, NEW y \in Commit, NEW cut \in SUBSET Commit
  PROVE  <<x, y, cut>> \in Reaches <=>
           \A T \in SUBSET Commit : x \in T /\ Closed(T, cut) => y \in T
<1>1. <<x, y, cut>> \in Walks
  BY DEF Walks
<1> QED
  BY <1>1 DEF Reaches, Closed

\* A walk holds what it starts from, and commits only.
LEMMA WalkStarts ==
  ASSUME NEW S \in SUBSET Commit, NEW cut \in SUBSET Commit
  PROVE  S \subseteq From(S, cut) /\ From(S, cut) \subseteq Commit
  BY ReachesWhat DEF From

\* A walk goes on to the parents of all it does not cut.
LEMMA WalkGoesOn ==
  ASSUME NEW S \in SUBSET Commit, NEW cut \in SUBSET Commit
  PROVE  Closed(From(S, cut), cut)
<1> SUFFICES ASSUME NEW z \in From(S, cut), z \notin cut, NEW y \in Parents[z]
             PROVE  y \in From(S, cut)
  BY DEF Closed
<1>1. z \in Commit /\ y \in Commit
  BY WalkStarts, CommitAssumption
<1>2. PICK x \in S : <<x, z, cut>> \in Reaches
  BY DEF From
<1>3. ASSUME NEW T \in SUBSET Commit, x \in T, Closed(T, cut) PROVE y \in T
  <2>1. z \in T
    BY <1>1, <1>2, <1>3, ReachesWhat
  <2> QED
    BY <2>1, <1>3 DEF Closed
<1>4. <<x, y, cut>> \in Reaches
  BY <1>1, <1>3, ReachesWhat
<1> QED
  BY <1>1, <1>4 DEF From

\* A walk stays in any set it cannot leave.
LEMMA WalkIsLeast ==
  ASSUME NEW S \in SUBSET Commit, NEW cut \in SUBSET Commit,
         NEW T \in SUBSET Commit, S \subseteq T, Closed(T, cut)
  PROVE  From(S, cut) \subseteq T
<1> SUFFICES ASSUME NEW y \in From(S, cut) PROVE y \in T
  OBVIOUS
<1>1. PICK x \in S : <<x, y, cut>> \in Reaches
  BY DEF From
<1>2. y \in Commit
  BY WalkStarts
<1> QED
  BY <1>1, <1>2, ReachesWhat

(* Boundaries only make a walk shorter.                                    *)
LEMMA WalkInReach ==
  ASSUME NEW S \in SUBSET Commit, NEW cut \in SUBSET Commit
  PROVE  From(S, cut) \subseteq Reach(S)
<1> DEFINE T == From(S, {})
<1>1. S \subseteq T /\ T \in SUBSET Commit
  BY WalkStarts
<1>2. Closed(T, {})
  BY WalkGoesOn
<1>3. Closed(T, cut)
  BY <1>2 DEF Closed
<1> HIDE DEF T
<1>4. From(S, cut) \subseteq T
  BY <1>1, <1>3, WalkIsLeast
<1> QED
  BY <1>4 DEF T, Reach

-----------------------------------------------------------------------------
\* Manifests and types.

Manifest ==
  [generation : 1..MaxGeneration, refs : [Ref -> Commit \cup {NoCommit}],
   packs : Seq(Pack), snapshot : Snapshot \cup {NoSnapshot}]

(* TypeOK, and that a manifest has no other fields.                        *)
TypeInv == TypeOK /\ manifest \in Manifest

\* What a pack sequence holds as it grows.
LEMMA Appended ==
  ASSUME NEW s \in Seq(Pack), NEW p \in Pack
  PROVE  /\ Append(s, p) \in Seq(Pack) /\ Range(Append(s, p)) = Range(s) \cup {p}
         /\ Range(s) \subseteq Pack
<1>1. /\ Append(s, p) \in Seq(Pack) /\ Len(Append(s, p)) = Len(s) + 1 /\ Len(s) \in Nat
      /\ DOMAIN Append(s, p) = 1..(Len(s) + 1) /\ DOMAIN s = 1..Len(s)
      /\ \A i \in 1..Len(s) : Append(s, p)[i] = s[i] /\ s[i] \in Pack
      /\ Append(s, p)[Len(s) + 1] = p
  OBVIOUS
<1> QED
  BY <1>1 DEF Range

\* What the shortest sequences hold.
LEMMA SomeSequences ==
  ASSUME NEW a
  PROVE  /\ Range(<<>>) = {} /\ Range(<<a>>) = {a}
<1>1. Range(<<>>) = {}
  BY DEF Range
<1>2. Range(<<a>>) = {a}
  <2>1. DOMAIN <<a>> = {1} /\ <<a>>[1] = a
    OBVIOUS
  <2> QED
    BY <2>1 DEF Range
<1> QED
  BY <1>1, <1>2

\* What two sequences hold, one behind the other.
LEMMA Joined ==
  ASSUME NEW S, NEW s \in Seq(S), NEW u \in Seq(S)
  PROVE  s \o u \in Seq(S) /\ Range(s \o u) = Range(s) \cup Range(u)
<1>1. Len(s) \in Nat /\ Len(u) \in Nat /\ Len(s \o u) = Len(s) + Len(u) /\ s \o u \in Seq(S)
  OBVIOUS
<1>2. DOMAIN s = 1..Len(s) /\ DOMAIN u = 1..Len(u) /\ DOMAIN (s \o u) = 1..(Len(s) + Len(u))
  BY <1>1
<1>3. \A i \in 1..(Len(s) + Len(u)) :
        \/ i \in 1..Len(s) /\ (s \o u)[i] = s[i]
        \/ i - Len(s) \in 1..Len(u) /\ (s \o u)[i] = u[i - Len(s)]
  BY <1>1
<1>4. \A i \in 1..Len(s) : i \in 1..(Len(s) + Len(u)) /\ (s \o u)[i] = s[i]
  BY <1>1
<1>5. \A i \in 1..Len(u) :
        Len(s) + i \in 1..(Len(s) + Len(u)) /\ (s \o u)[Len(s) + i] = u[i]
  BY <1>1
<1>6. Range(s \o u) \subseteq Range(s) \cup Range(u)
  BY <1>2, <1>3 DEF Range
<1>7. Range(s) \subseteq Range(s \o u)
  BY <1>2, <1>4 DEF Range
<1>8. Range(u) \subseteq Range(s \o u)
  BY <1>2, <1>5 DEF Range
<1> QED
  BY <1>1, <1>6, <1>7, <1>8

\* A repack lists the snapshot's pack and, if the tips are not all, the history's.
IsRepack(m, rs, reached, g) ==
  /\ m \in Manifest /\ m.generation = g /\ m.refs = rs
  /\ \A p \in Range(m.packs) : p \in Pack /\ p.thin = {}
  /\ Named(rs) # {} => /\ m.snapshot = [commits |-> Named(rs), history |-> m.snapshot.history]
                       /\ Holds(Range(m.packs)) = Named(rs) \cup reached
  /\ m.snapshot # NoSnapshot => /\ Named(rs) # {}
                                /\ m.snapshot.history \subseteq Range(m.packs)

\* Repacked is such a manifest.
LEMMA RepackedType ==
  ASSUME NEW rs \in [Ref -> Commit \cup {NoCommit}], NEW reached \in SUBSET Commit,
         NEW g \in 1..MaxGeneration
  PROVE  IsRepack(Repacked(rs, reached, g), rs, reached, g)
<1> DEFINE m     == Repacked(rs, reached, g)
           tips  == Named(rs)
           behind == reached \ tips
           a == [generation |-> g, holds |-> tips, thin |-> {}]
           b == [generation |-> g, holds |-> behind, thin |-> {}]
           second == IF behind = {} THEN <<>> ELSE <<b>>
           packs == IF tips = {} THEN <<>> ELSE <<a>> \o second
           history == IF behind = {} THEN {} ELSE {b}
           snapshot == IF tips = {} THEN NoSnapshot ELSE [commits |-> tips, history |-> history]
<1>1. tips \subseteq Commit /\ a \in Pack /\ b \in Pack
  BY DEF Named, Pack
<1>2. a.holds = tips /\ b.holds = behind /\ a.thin = {} /\ b.thin = {}
  OBVIOUS
<1>b. m = [generation |-> g, refs |-> rs,
           packs |-> IF tips = {} THEN <<>>
                     ELSE <<a>> \o (IF behind = {} THEN <<>> ELSE <<b>>),
           snapshot |-> IF tips = {} THEN NoSnapshot
                        ELSE [commits |-> tips,
                              history |-> Range(IF behind = {} THEN <<>> ELSE <<b>>)]]
  BY DEF Repacked
<1> HIDE DEF a, b, m, tips, behind
<1>3. Range(<<>>) = {} /\ Range(<<a>>) = {a} /\ Range(<<b>>) = {b}
  BY SomeSequences
<1>c. /\ packs \in Seq(Pack) /\ DOMAIN packs \subseteq Nat
      /\ Range(packs) = IF tips = {} THEN {} ELSE IF behind = {} THEN {a} ELSE {a, b}
  <2>1. <<>> \in Seq(Pack) /\ <<a>> \in Seq(Pack) /\ second \in Seq(Pack)
    BY <1>1
  <2>2. Range(second) = IF behind = {} THEN {} ELSE {b}
    BY <1>3
  <2> HIDE DEF second
  <2>3. /\ <<a>> \o second \in Seq(Pack)
        /\ Range(<<a>> \o second) = IF behind = {} THEN {a} ELSE {a, b}
    <3>1. /\ <<a>> \o second \in Seq(Pack)
          /\ Range(<<a>> \o second) = Range(<<a>>) \cup Range(second)
      BY <2>1, Joined
    <3>2. Range(<<a>>) = {a}
      BY <1>3
    <3> QED
      BY <3>1, <3>2, <2>2
  <2>4. /\ packs \in Seq(Pack)
        /\ Range(packs) = IF tips = {} THEN {} ELSE IF behind = {} THEN {a} ELSE {a, b}
    BY <2>1, <2>3, <1>3
  <2>5. DOMAIN packs \subseteq Nat
    BY <2>4
  <2> QED
    BY <2>4, <2>5
<1>5. m = [generation |-> g, refs |-> rs, packs |-> packs, snapshot |-> snapshot]
  BY <1>b, <1>3
<1>6. history \subseteq Range(packs) \/ tips = {}
  BY <1>c
<1>7. snapshot \in Snapshot \cup {NoSnapshot}
  BY <1>1 DEF Snapshot
<1>8. m \in Manifest
  BY <1>c, <1>5, <1>7 DEF Manifest
<1>9. tips # {} => Holds(Range(packs)) = tips \cup reached
  BY <1>c, <1>2 DEF Holds, behind
<1>10. \A p \in Range(packs) : p \in Pack /\ p.thin = {}
  BY <1>1, <1>2, <1>c
<1> HIDE DEF packs, history
<1>11. m.generation = g /\ m.refs = rs /\ m.packs = packs /\ m.snapshot = snapshot
  BY <1>5
<1>12. tips # {} => /\ snapshot = [commits |-> tips, history |-> history]
                    /\ snapshot.history = history
  OBVIOUS
<1> HIDE DEF snapshot
<1>13. snapshot # NoSnapshot => tips # {}
  BY DEF snapshot
<1>14. tips # {} => m.snapshot = [commits |-> tips, history |-> m.snapshot.history]
  BY <1>11, <1>12
<1>15. m.snapshot # NoSnapshot => tips # {} /\ m.snapshot.history \subseteq Range(m.packs)
  BY <1>6, <1>11, <1>12, <1>13
<1> QED
  BY <1>c, <1>8, <1>9, <1>10, <1>11, <1>14, <1>15 DEF IsRepack, m, tips

\* What changing three fields of a manifest leaves of it.
LEMMA FieldsOf ==
  ASSUME NEW G, NEW R, NEW P, NEW S,
         NEW m \in [generation : G, refs : R, packs : P, snapshot : S],
         NEW g \in G, NEW r \in R, NEW p \in P
  PROVE  LET n == [m EXCEPT !.generation = g, !.refs = r, !.packs = p]
         IN /\ n \in [generation : G, refs : R, packs : P, snapshot : S]
            /\ n.generation = g /\ n.refs = r /\ n.packs = p /\ n.snapshot = m.snapshot
  OBVIOUS

\* A push lists its pack, unless it is empty, behind the others.
NewPack(new, thin) == [generation |-> manifest.generation + 1, holds |-> new, thin |-> thin]

IsPush(m, rs, new, thin) ==
  /\ m \in Manifest /\ m.generation = manifest.generation + 1 /\ m.refs = rs
  /\ m.snapshot = manifest.snapshot
  /\ NewPack(new, thin) \in Pack
  /\ m.packs = IF new = {} THEN manifest.packs ELSE Append(manifest.packs, NewPack(new, thin))
  /\ Range(m.packs) = IF new = {} THEN Listed ELSE Listed \cup {NewPack(new, thin)}
  /\ Range(m.packs) \subseteq Pack

\* Pushed is such a manifest.
LEMMA PushedType ==
  ASSUME TypeInv, manifest.generation < MaxGeneration,
         NEW rs \in [Ref -> Commit \cup {NoCommit}],
         NEW new \in SUBSET Commit, NEW thin \in SUBSET Commit
  PROVE  IsPush(Pushed(rs, new, thin), rs, new, thin)
<1> DEFINE m == Pushed(rs, new, thin)
           p == [generation |-> manifest.generation + 1, holds |-> new, thin |-> thin]
           packs == IF new = {} THEN manifest.packs ELSE Append(manifest.packs, p)
<1>1. manifest.generation + 1 \in 1..MaxGeneration /\ manifest.packs \in Seq(Pack)
  BY GenerationAssumption DEF TypeInv, TypeOK, Manifest
<1>2. p \in Pack
  BY <1>1 DEF Pack
<1>a. manifest \in Manifest
  BY DEF TypeInv
<1>3. m = [manifest EXCEPT !.generation = manifest.generation + 1, !.refs = rs, !.packs = packs]
  BY DEF Pushed
<1> HIDE DEF p, m
<1>4. /\ packs \in Seq(Pack) /\ Range(packs) \subseteq Pack
      /\ Range(packs) = IF new = {} THEN Listed ELSE Listed \cup {p}
  BY <1>1, <1>2, Appended DEF Listed
<1> HIDE DEF packs
<1>6. m \in Manifest /\ m.generation = manifest.generation + 1 /\ m.refs = rs
      /\ m.packs = packs /\ m.snapshot = manifest.snapshot
  BY <1>1, <1>a, <1>3, <1>4, FieldsOf DEF Manifest
<1> QED
  BY <1>2, <1>4, <1>6 DEF IsPush, NewPack, p, packs, m

-----------------------------------------------------------------------------
\* Types.

\* What the type invariant says of what is derived from the manifest.
LEMMA ManifestType ==
  ASSUME TypeInv
  PROVE  /\ Known \in SUBSET Commit /\ Listed \subseteq Pack /\ History \subseteq Listed
         /\ manifest.packs \in Seq(Pack) /\ manifest \in Manifest
         /\ Range(manifest.packs) = Listed
         /\ {objs, refs, listed, mine, planned} \subseteq SUBSET Commit
         /\ \A C \in SUBSET Pack : Holds(C) \in SUBSET Commit
<1>1. Known \in SUBSET Commit
  BY DEF TypeInv, Manifest, Known, Named
<1>2. \A C \in SUBSET Pack : Holds(C) \in SUBSET Commit
  BY DEF Holds, Pack
<1>3. History \subseteq Listed
  BY DEF TypeInv, TypeOK, History
<1> QED
  BY <1>1, <1>2, <1>3 DEF TypeInv, TypeOK, Manifest, Listed

\* A set of numbers has a least one: their intervals are ordered by inclusion.
LEMMA Least ==
  ASSUME NEW S \in SUBSET Nat, S # {}
  PROVE  \E n \in S : \A m \in S : n <= m
<1> DEFINE T == {1..n : n \in S}
<1>1. IsWellFoundedOn(StrictSubsetOrdering(Nat), FiniteSubsetsOf(Nat))
  BY FS_StrictSubsetOrderingWellFounded
<1>2. T \subseteq FiniteSubsetsOf(Nat)
  <2> SUFFICES ASSUME NEW n \in S PROVE 1..n \in FiniteSubsetsOf(Nat)
    OBVIOUS
  <2>1. n \in Int /\ 1 \in Int /\ 1..n \in SUBSET Nat
    OBVIOUS
  <2>2. IsFiniteSet(1..n)
    BY <2>1, FS_Interval
  <2> QED
    BY <2>1, <2>2 DEF FiniteSubsetsOf
<1>3. T # {}
  OBVIOUS
<1> HIDE DEF T
<1>4. PICK x \in T : \A y \in T : ~ (<<y, x>> \in StrictSubsetOrdering(Nat))
  BY <1>1, <1>2, <1>3, WFMin
<1>5. PICK n \in S : x = 1..n
  BY DEF T
<1>6. ASSUME NEW m \in S PROVE n <= m
  <2>1. SUFFICES ASSUME m < n PROVE FALSE
    OBVIOUS
  <2>2. 1..m \in SUBSET Nat /\ 1..n \in SUBSET Nat /\ 1..m \subseteq 1..n
    BY <2>1
  <2>3. n \in 1..n /\ n \notin 1..m
    BY <2>1
  <2>4. 1..m \in T
    BY DEF T
  <2>5. <<1..m, 1..n>> \in StrictSubsetOrdering(Nat)
    BY <2>2, <2>3 DEF StrictSubsetOrdering
  <2> QED
    BY <1>4, <1>5, <2>4, <2>5
<1> QED
  BY <1>6

\* The next pack is the first that is still to be indexed.
LEMMA NextPackIs ==
  ASSUME TypeInv, Todo # {}
  PROVE  \E i \in DOMAIN manifest.packs :
           /\ NextPack = manifest.packs[i] /\ NextPack \in Todo
           /\ \A k \in 1..(i - 1) : k \in DOMAIN manifest.packs /\ manifest.packs[k] \notin Todo
<1> DEFINE S == {n \in DOMAIN manifest.packs : manifest.packs[n] \in Todo}
<1>1. DOMAIN manifest.packs = 1..Len(manifest.packs) /\ Len(manifest.packs) \in Nat
  BY ManifestType
<1>2. S \subseteq Nat
  BY <1>1
<1>3. S # {}
  BY <1>1 DEF Todo, Listed, Range
<1>4. PICK n \in S : \A m \in S : n <= m
  BY <1>2, <1>3, Least
<1>5. \A k \in 1..(n - 1) : k \in DOMAIN manifest.packs /\ manifest.packs[k] \notin Todo
  BY <1>1, <1>4
<1>6. \E i \in DOMAIN manifest.packs :
        /\ manifest.packs[i] \in Todo /\ \A k \in 1..(i - 1) : manifest.packs[k] \notin Todo
  BY <1>4, <1>5
<1> DEFINE i == CHOOSE n1 \in DOMAIN manifest.packs :
             /\ manifest.packs[n1] \in Todo
             /\ \A k \in 1..(n1 - 1) : manifest.packs[k] \notin Todo
<1>7. /\ i \in DOMAIN manifest.packs /\ manifest.packs[i] \in Todo
      /\ \A k \in 1..(i - 1) : manifest.packs[k] \notin Todo
  BY <1>6
<1>8. NextPack = manifest.packs[i]
  BY DEF NextPack
<1> HIDE DEF i
<1>9. \A k \in 1..(i - 1) : k \in DOMAIN manifest.packs
  BY <1>1, <1>7
<1> QED
  BY <1>7, <1>8, <1>9

\* Indexing listed packs keeps the types of the store and the have list.
LEMMA IndexType ==
  ASSUME TypeInv, NEW packs \in SUBSET Listed, Index(packs)
  PROVE  objs' \in SUBSET Commit /\ have' \subseteq Pack /\ objs \subseteq objs'
         /\ have' = have \cup packs
  BY ManifestType DEF Index, TypeInv, TypeOK

\* The remote cloned from has a manifest as a repack leaves it.
LEMMA TypeInit == Init => TypeInv
<1> SUFFICES ASSUME Init PROVE TypeInv
  OBVIOUS
<1>1. InitialRefs \in [Ref -> Commit \cup {NoCommit}] /\ 1 \in 1..MaxGeneration
  BY CommitAssumption, GenerationAssumption
<1>2. Named(InitialRefs) \in SUBSET Commit
  BY <1>1 DEF Named
<1>3. Reach(Named(InitialRefs)) \in SUBSET Commit
  BY <1>2, WalkStarts DEF Reach
<1> DEFINE reached == Reach(Named(InitialRefs))
           m == Repacked(InitialRefs, reached, 1)
<1> HIDE DEF reached
<1>a. reached \in SUBSET Commit
  BY <1>3 DEF reached
<1>4. IsRepack(m, InitialRefs, reached, 1)
  BY <1>1, <1>a, RepackedType
<1>5. manifest = m
  BY DEF Init, reached
<1> HIDE DEF m
<1> QED
  BY <1>1, <1>4, <1>5 DEF Init, TypeInv, TypeOK, Listed, Manifest, IsRepack

\* The types hold when each variable has its own.
LEMMA ManifestTyped ==
  ASSUME manifest' \in Manifest,
         manifest'.snapshot # NoSnapshot =>
           manifest'.snapshot.history \subseteq Range(manifest'.packs),
         Range(manifest'.packs) \subseteq Pack,
         {objs', refs', listed', mine', planned'} \subseteq SUBSET Commit, have' \subseteq Pack,
         pc' \in {"idle", "index", "plan", "record", "graft", "settle", "verify", "end",
                 "broken"},
         cmd' \in {"plain", "depth", "full", "repack"}, shallow' \in BOOLEAN
  PROVE  TypeInv'
  BY DEF TypeInv, TypeOK, Manifest, Listed

(* A push of this or another repository, and a repack, leave a manifest.   *)
LEMMA TypeStep == TypeInv /\ [Next]_vars => TypeInv'
<1> SUFFICES ASSUME TypeInv, [Next]_vars PROVE TypeInv'
  OBVIOUS
<1>a. /\ manifest \in Manifest /\ Listed \subseteq Pack /\ Range(manifest.packs) = Listed
      /\ {objs, refs, listed, mine, planned} \subseteq SUBSET Commit /\ have \subseteq Pack
      /\ manifest.generation \in Nat /\ manifest.refs \in [Ref -> Commit \cup {NoCommit}]
      /\ Known \in SUBSET Commit /\ History \subseteq Listed
      /\ manifest.snapshot # NoSnapshot => manifest.snapshot.history \subseteq Listed
      /\ pc \in {"idle", "index", "plan", "record", "graft", "settle", "verify", "end", "broken"}
      /\ cmd \in {"plain", "depth", "full", "repack"} /\ shallow \in BOOLEAN
  BY ManifestType, GenerationAssumption DEF TypeInv, TypeOK, Manifest
<1>b. ASSUME UNCHANGED manifest,
             {objs', refs', listed', mine', planned'} \subseteq SUBSET Commit,
             have' \subseteq Pack,
             pc' \in {"idle", "index", "plan", "record", "graft", "settle", "verify", "end",
                     "broken"},
             cmd' \in {"plain", "depth", "full", "repack"}, shallow' \in BOOLEAN
      PROVE  TypeInv'
  BY <1>a, <1>b, ManifestTyped
<1>c. ASSUME manifest.generation < MaxGeneration, UNCHANGED <<objs, refs, listed, mine>>,
             have' \in {have, have \cup (Range(manifest'.packs) \ Listed)},
             UNCHANGED helperVars \/ Exit,
             NEW rs \in [Ref -> Commit \cup {NoCommit}],
             \/ \E new, thin \in SUBSET Commit : manifest' = Pushed(rs, new, thin)
             \/ \E reached \in SUBSET Commit :
                  manifest' = Repacked(rs, reached, manifest.generation + 1)
      PROVE  TypeInv'
  <2>1. /\ manifest' \in Manifest /\ Range(manifest'.packs) \subseteq Pack
        /\ manifest'.snapshot # NoSnapshot =>
             manifest'.snapshot.history \subseteq Range(manifest'.packs)
    <3>1. CASE \E new, thin \in SUBSET Commit : manifest' = Pushed(rs, new, thin)
      <4>1. PICK new \in SUBSET Commit, thin \in SUBSET Commit : manifest' = Pushed(rs, new, thin)
        BY <3>1
      <4>2. IsPush(manifest', rs, new, thin)
        BY <1>c, <4>1, PushedType
      <4> QED
        BY <1>a, <4>2 DEF IsPush
    <3>2. CASE \E reached \in SUBSET Commit :
                 manifest' = Repacked(rs, reached, manifest.generation + 1)
      <4>1. PICK reached \in SUBSET Commit :
              manifest' = Repacked(rs, reached, manifest.generation + 1)
        BY <3>2
      <4>2. manifest.generation + 1 \in 1..MaxGeneration
        BY <1>a, <1>c, GenerationAssumption
      <4>3. IsRepack(manifest', rs, reached, manifest.generation + 1)
        BY <4>1, <4>2, RepackedType
      <4> QED
        BY <4>3 DEF IsRepack
    <3> QED
      BY <1>c, <3>1, <3>2
  <2>2. have' \subseteq Pack
    BY <1>a, <1>c, <2>1
  <2>3. /\ planned' \in SUBSET Commit /\ shallow' \in BOOLEAN
        /\ cmd' \in {"plain", "depth", "full", "repack"}
        /\ pc' \in {"idle", "index", "plan", "record", "graft", "settle", "verify", "end", "broken"}
    BY <1>a, <1>c DEF helperVars, Exit
  <2> QED
    BY <1>a, <1>c, <2>1, <2>2, <2>3, ManifestTyped
<1>1. ASSUME NEW rs \in OtherRefs, OtherPush(rs) PROVE TypeInv'
  <2>1. rs \in [Ref -> Commit \cup {NoCommit}]
    BY CommitAssumption
  <2>2. Reach(Known) \in SUBSET Commit /\ Reach(Named(rs)) \in SUBSET Commit
    <3>1. Named(rs) \in SUBSET Commit
      BY <2>1 DEF Named
    <3> QED
      BY <3>1, <1>a, WalkStarts DEF Reach
  <2>3. \E new, thin \in SUBSET Commit : manifest' = Pushed(rs, new, thin)
    BY <1>1, <2>2 DEF OtherPush
  <2> QED
    BY <1>1, <1>c, <2>1, <2>3 DEF OtherPush, CanLand, repoVars
<1>2. CASE OtherRepack
  <2>1. Reach(Known) \in SUBSET Commit
    BY <1>a, WalkStarts DEF Reach
  <2> QED
    BY <1>2, <1>a, <1>c, <2>1 DEF OtherRepack, CanLand, repoVars
<1>3. ASSUME NEW x \in Commit, NewCommit(x) PROVE TypeInv'
  BY <1>3, <1>a, <1>b DEF NewCommit, helperVars
<1>4. ASSUME NEW x \in Commit, DropRef(x) PROVE TypeInv'
  BY <1>4, <1>a, <1>b DEF DropRef, helperVars
<1>5. ASSUME NEW x \in Commit, FetchElsewhere(x) PROVE TypeInv'
  BY <1>5, <1>a, <1>b DEF FetchElsewhere, helperVars
<1>6. CASE Gc
  <2>1. objs' \subseteq objs /\ listed' \subseteq listed
    BY <1>6 DEF Gc
  <2> QED
    BY <1>6, <2>1, <1>a, <1>b DEF Gc, helperVars
<1>7. ASSUME NEW c \in {"plain", "depth", "full", "repack"}, Begin(c) PROVE TypeInv'
  BY <1>7, <1>a, <1>b DEF Begin, Go, repoVars
<1>8. CASE HelperStep
  <2>a. ASSUME NEW to \in {"index", "plan"}, IndexHistory(to) PROVE TypeInv'
    <3>1. objs' \in SUBSET Commit /\ have' \subseteq Pack
      BY <2>a, <1>a, IndexType DEF IndexHistory
    <3> QED
      BY <2>a, <3>1, <1>a, <1>b DEF IndexHistory, Go
  <2>1. CASE IndexPack
    <3>1. NextPack \in Listed
      BY <2>1, NextPackIs DEF IndexPack, Todo
    <3>2. objs' \in SUBSET Commit /\ have' \subseteq Pack
      BY <2>1, <3>1, IndexType DEF IndexPack
    <3> QED
      BY <2>1, <3>2, <1>a, <1>b DEF IndexPack, helperVars
  <2>2. CASE HistoryForDeltas
    BY <2>2, <2>a DEF HistoryForDeltas
  <2>3. CASE IndexFails
    BY <2>3, <1>a, <1>b DEF IndexFails, Go, repoVars
  <2>4. CASE Indexed
    BY <2>4, <1>a, <1>b DEF Indexed, Go, repoVars
  <2>5. CASE HistoryForBoundary
    BY <2>5, <2>a DEF HistoryForBoundary
  <2>6. CASE Plan
    <3>1. PlanBoundary \in SUBSET Commit
      BY <1>a DEF PlanBoundary, Lacking, CommitParents
    <3> QED
      BY <2>6, <3>1, <1>a, <1>b DEF Plan, Go, repoVars
  <2>7. CASE Record
    BY <2>7, <1>a, <1>b DEF Record, SetBoundary, Go
  <2>8. CASE Graft
    BY <2>8, <1>a, <1>b DEF Graft, UpdateShallow, Go
  <2>9. CASE Settle
    BY <2>9, <1>a, <1>b DEF Settle, SetBoundary, Go
  <2>10. CASE HistoryForRefs
    BY <2>10, <2>a DEF HistoryForRefs
  <2>11. CASE Verified
    BY <2>11, <1>a, <1>b DEF Verified, Go, repoVars
  <2>12. CASE EndFetch
    BY <2>12, <1>a, <1>b DEF EndFetch, Exit, Go
  <2>13. CASE Repack
    <3>1. Walk(Known, listed) \in SUBSET Commit
      BY <1>a, WalkStarts DEF Walk
    <3> QED
      BY <2>13, <3>1, <1>a, <1>c DEF Repack, Lands
  <2> QED
    BY <1>8, <2>1, <2>2, <2>3, <2>4, <2>5, <2>6, <2>7, <2>8, <2>9, <2>10, <2>11, <2>12,
       <2>13 DEF HelperStep
<1>9. CASE Crash
  BY <1>9, <1>a, <1>b DEF Crash, Exit, repoVars
<1>10. ASSUME NEW r \in Ref, NEW x \in Commit, Push(r, x) PROVE TypeInv'
  <2>1. [manifest.refs EXCEPT ![r] = x] \in [Ref -> Commit \cup {NoCommit}]
    BY <1>a
  <2>2. Walk(Known \cap objs, listed) \in SUBSET Commit /\ Walk({x}, listed) \in SUBSET Commit
    BY <1>a, WalkStarts DEF Walk
  <2>3. \E new, thin \in SUBSET Commit :
          manifest' = Pushed([manifest.refs EXCEPT ![r] = x], new, thin)
    BY <1>10, <2>2 DEF Push, Lands
  <2> QED
    BY <1>10, <1>c, <2>1, <2>3 DEF Push, CanLand, Lands
<1>11. CASE UNCHANGED vars
  BY <1>11, <1>a, <1>b DEF vars
<1> QED
  BY <1>1, <1>2, <1>3, <1>4, <1>5, <1>6, <1>7, <1>8, <1>9, <1>10, <1>11 DEF Next

\* Types hold in all behaviours.
LEMMA TypeAlways == Spec => []TypeInv
  BY TypeInit, TypeStep, PTL DEF Spec

-----------------------------------------------------------------------------
\* Fetches.

\* The commits of C are here, and their parents are not.
EndsAt(C) == \A c \in C : c \in objs /\ ~(Parents[c] \subseteq objs)

(* Past the loop of fetch_packs all packs are indexed but a history pack   *)
(* that is skipped, which a fetch of everything does not do; the boundary  *)
(* planned, then recorded, is where the history ends here; and a fetch     *)
(* that skipped the history ends with refs that do not need it.            *)
FetchInv ==
  /\ cmd \in {"full", "repack"} => ~shallow
  /\ pc \in {"plan", "record", "graft", "settle", "verify", "end"} =>
       Listed \subseteq have \cup (IF shallow THEN History ELSE {})
  /\ pc \in {"record", "graft", "settle"} => EndsAt(planned)
  /\ pc = "verify" => EndsAt(mine)
  /\ pc = "end" => IF shallow THEN RefsComplete ELSE EndsAt(mine)
  /\ FetchConnects

\* No helper runs at first.
LEMMA FetchInit == Init => FetchInv
  BY DEF Init, FetchInv, FetchConnects

\* What a fetch of everything indexed is all a whole remote's refs need.
LEMMA AllConnects ==
  ASSUME TypeInv, Listed \subseteq have, NothingPruned, RemoteWhole
  PROVE  RefsComplete
<1>1. Reach(Known) \subseteq objs
  BY DEF NothingPruned, RemoteWhole, Holds
<1>2. Walk(Known, listed) \subseteq Reach(Known)
  <2>1. Known \in SUBSET Commit /\ listed \cup (Commit \ objs) \in SUBSET Commit
    BY ManifestType
  <2> QED
    BY <2>1, WalkInReach DEF Walk
<1> QED
  BY <1>1, <1>2 DEF RefsComplete

\* The deltas of the next pack are against what was indexed before it.
LEMMA NextIndexes ==
  ASSUME TypeInv, ~shallow, Todo # {}, NothingPruned, RemoteWhole
  PROVE  NextPack.thin \subseteq objs
<1>1. PICK n \in DOMAIN manifest.packs :
        /\ NextPack = manifest.packs[n]
        /\ \A k \in 1..(n - 1) : k \in DOMAIN manifest.packs /\ manifest.packs[k] \notin Todo
  BY NextPackIs
<1>2. \A k \in 1..(n - 1) : manifest.packs[k] \in have \cap Listed
  BY <1>1 DEF Todo, Listed, Range
<1>3. manifest.packs[n].thin \subseteq Holds({manifest.packs[k] : k \in 1..(n - 1)})
  BY DEF RemoteWhole
<1>4. Holds({manifest.packs[k] : k \in 1..(n - 1)}) \subseteq Holds(have \cap Listed)
  BY <1>2 DEF Holds
<1> QED
  BY <1>1, <1>3, <1>4 DEF NothingPruned

\* What the invariant speaks of depends on these variables only.
LEMMA FetchSame ==
  /\ UNCHANGED manifest => UNCHANGED <<Listed, Known>>
  /\ UNCHANGED <<manifest, have>> => UNCHANGED History
  /\ UNCHANGED objs => \A C : EndsAt(C)' <=> EndsAt(C)
  /\ UNCHANGED <<manifest, objs, refs, listed>> => (RefsComplete' <=> RefsComplete)
  /\ UNCHANGED <<manifest, objs, have>> =>
       (NothingPruned /\ RemoteWhole)' = (NothingPruned /\ RemoteWhole)
<1>1. UNCHANGED manifest => UNCHANGED <<Listed, Known>>
  BY DEF Listed, Known
<1>2. UNCHANGED <<manifest, have>> => UNCHANGED History
  BY DEF History
<1>3. UNCHANGED objs => \A C : EndsAt(C)' <=> EndsAt(C)
  BY DEF EndsAt
<1>4. UNCHANGED <<manifest, objs, refs, listed>> => (RefsComplete' <=> RefsComplete)
  BY DEF RefsComplete, Walk, Known
<1>5. UNCHANGED <<manifest, objs, have>> =>
        (NothingPruned /\ RemoteWhole)' = (NothingPruned /\ RemoteWhole)
  BY DEF NothingPruned, RemoteWhole, Known, Listed
<1> QED
  BY <1>1, <1>2, <1>3, <1>4, <1>5

\* Every step of the repository, the helper and the others keeps the invariant.
LEMMA FetchStep == TypeInv /\ FetchInv /\ [Next]_vars => FetchInv'
<1> SUFFICES ASSUME TypeInv, FetchInv, [Next]_vars PROVE FetchInv'
  OBVIOUS
<1>a. ASSUME pc' = "idle", cmd' \in {"full", "repack"} => ~shallow' PROVE FetchInv'
  BY <1>a DEF FetchInv, FetchConnects
<1>b. ASSUME pc = "idle", UNCHANGED helperVars PROVE FetchInv'
  BY <1>a, <1>b DEF helperVars, FetchInv
<1>c. ASSUME Exit PROVE FetchInv'
  BY <1>a, <1>c DEF Exit
<1>1. ASSUME NEW rs \in OtherRefs, OtherPush(rs) PROVE FetchInv'
  BY <1>1, <1>b DEF OtherPush, CanLand
<1>2. CASE OtherRepack
  BY <1>2, <1>b DEF OtherRepack, CanLand
<1>3. ASSUME NEW x \in Commit, NewCommit(x) PROVE FetchInv'
  BY <1>3, <1>b DEF NewCommit
<1>4. ASSUME NEW x \in Commit, DropRef(x) PROVE FetchInv'
  BY <1>4, <1>b DEF DropRef
<1>5. ASSUME NEW x \in Commit, FetchElsewhere(x) PROVE FetchInv'
  BY <1>5, <1>b DEF FetchElsewhere
<1>6. CASE Gc
  BY <1>6, <1>b DEF Gc
<1>7. ASSUME NEW c \in {"plain", "depth", "full", "repack"}, Begin(c) PROVE FetchInv'
  BY <1>7 DEF Begin, Go, FetchInv, FetchConnects
<1>8. CASE HelperStep
  <2>1. CASE IndexPack
    BY <2>1 DEF IndexPack, helperVars, FetchInv, FetchConnects
  <2>2. CASE HistoryForDeltas
    BY <2>2 DEF HistoryForDeltas, IndexHistory, Go, FetchInv, FetchConnects
  <2>a. ASSUME pc \in {"plan", "verify"}, shallow, IndexHistory("plan") PROVE FetchInv'
    <3>1. Listed' = Listed
      BY <2>a, FetchSame DEF IndexHistory
    <3>2. have' = have \cup History
      BY <2>a DEF IndexHistory, Index
    <3>3. Listed' \subseteq have'
      BY <2>a, <3>1, <3>2 DEF FetchInv
    <3> QED
      BY <2>a, <3>3 DEF IndexHistory, Go, FetchInv, FetchConnects
  <2>3. CASE IndexFails
    <3>1. ~(NothingPruned /\ RemoteWhole)
      BY <2>3, NextIndexes DEF IndexFails
    <3>2. ~(NothingPruned /\ RemoteWhole)'
      BY <2>3, <3>1, FetchSame DEF IndexFails, repoVars
    <3> QED
      BY <2>3, <3>2 DEF IndexFails, Go, FetchInv, FetchConnects
  <2>b. ASSUME UNCHANGED <<manifest, objs, refs, listed, have>>
        PROVE  /\ UNCHANGED <<Listed, Known, History>> /\ \A C : EndsAt(C)' <=> EndsAt(C)
               /\ RefsComplete' <=> RefsComplete
    BY <2>b, FetchSame
  <2>4. CASE Indexed
    <3>1. UNCHANGED <<Listed, History, have, shallow, cmd, mine>>
      BY <2>4, <2>b DEF Indexed, repoVars
    <3>2. Listed \subseteq have \cup (IF shallow THEN History ELSE {})
      BY <2>4 DEF Indexed, Todo
    <3>3. pc' = "plan" \/ (pc' = "end" /\ ~shallow /\ mine' = {})
      BY <2>4, <3>1 DEF Indexed, Go
    <3>4. mine' = {} => EndsAt(mine)'
      BY DEF EndsAt
    <3> QED
      BY <3>1, <3>2, <3>3, <3>4 DEF FetchInv, FetchConnects
  <2>5. CASE HistoryForBoundary
    BY <2>5, <2>a DEF HistoryForBoundary, CutsOff
  <2>6. CASE Plan
    <3>1. EndsAt(PlanBoundary)
      BY DEF PlanBoundary, Lacking, CommitParents, EndsAt
    <3>2. UNCHANGED <<Listed, History, have, shallow, cmd, objs>>
      BY <2>6, <2>b DEF Plan, repoVars
    <3>3. EndsAt(planned)'
      BY <2>6, <3>1, <3>2 DEF Plan, EndsAt
    <3> QED
      BY <2>6, <3>2, <3>3 DEF Plan, Go, FetchInv, FetchConnects
  <2>7. CASE Record
    <3>1. UNCHANGED <<Listed, History, have, shallow, cmd, objs, planned>>
      BY <2>7, FetchSame DEF Record
    <3> QED
      BY <2>7, <3>1 DEF Record, Go, FetchInv, FetchConnects, EndsAt
  <2>8. CASE Graft
    <3>1. UNCHANGED <<Listed, History, have, shallow, cmd, objs, planned>>
      BY <2>8, FetchSame DEF Graft
    <3> QED
      BY <2>8, <3>1 DEF Graft, Go, FetchInv, FetchConnects, EndsAt
  <2>9. CASE Settle
    <3>1. UNCHANGED <<Listed, History, have, shallow, cmd, objs, planned>> /\ mine' = planned
      BY <2>9, FetchSame DEF Settle, SetBoundary
    <3> QED
      BY <2>9, <3>1 DEF Settle, Go, FetchInv, FetchConnects, EndsAt
  <2>10. CASE HistoryForRefs
    BY <2>10, <2>a DEF HistoryForRefs
  <2>11. CASE Verified
    <3>1. /\ UNCHANGED <<Listed, History, have, shallow, cmd, objs, mine>>
          /\ RefsComplete' <=> RefsComplete
      BY <2>11, <2>b DEF Verified, repoVars
    <3>2. EndsAt(mine)'
      BY <2>11, <3>1 DEF Verified, FetchInv, EndsAt
    <3> QED
      BY <2>11, <3>1, <3>2 DEF Verified, Go, FetchInv, FetchConnects
  <2>12. CASE EndFetch
    <3>1. CASE RefsComplete
      BY <2>12, <3>1, <1>c DEF EndFetch
    <3>2. CASE ~RefsComplete
      <4>1. Listed \subseteq have
        BY <2>12, <3>2 DEF EndFetch, FetchInv
      <4>2. ~(NothingPruned /\ RemoteWhole)
        BY <3>2, <4>1, AllConnects
      <4>3. ~(NothingPruned /\ RemoteWhole)'
        BY <2>12, <4>2, FetchSame DEF EndFetch
      <4> QED
        BY <2>12, <3>2, <4>3 DEF EndFetch, Go, FetchInv, FetchConnects
    <3> QED
      BY <3>1, <3>2
  <2>13. CASE Repack
    BY <2>13, <1>c DEF Repack
  <2> QED
    BY <1>8, <2>1, <2>2, <2>3, <2>4, <2>5, <2>6, <2>7, <2>8, <2>9, <2>10, <2>11, <2>12,
       <2>13 DEF HelperStep
<1>9. CASE Crash
  BY <1>9, <1>c DEF Crash
<1>10. ASSUME NEW r \in Ref, NEW x \in Commit, Push(r, x) PROVE FetchInv'
  BY <1>10, <1>b DEF Push, CanLand
<1>11. CASE UNCHANGED vars
  <2>1. /\ UNCHANGED <<Listed, History, have, shallow, cmd, objs, mine, planned, pc>>
    BY <1>11, FetchSame DEF vars
  <2>2. EndsAt(planned)' <=> EndsAt(planned)
    BY <2>1 DEF EndsAt
  <2>3. EndsAt(mine)' <=> EndsAt(mine)
    BY <2>1 DEF EndsAt
  <2>4. FetchConnects' <=> FetchConnects
    <3>1. (NothingPruned /\ RemoteWhole)' = (NothingPruned /\ RemoteWhole)
      BY <1>11, FetchSame DEF vars
    <3> QED
      BY <2>1, <3>1 DEF FetchConnects
  <2>5. RefsComplete' <=> RefsComplete
    BY <1>11, FetchSame DEF vars
  <2> QED
    BY <2>1, <2>2, <2>3, <2>4, <2>5 DEF FetchInv
<1> QED
  BY <1>1, <1>2, <1>3, <1>4, <1>5, <1>6, <1>7, <1>8, <1>9, <1>10, <1>11 DEF Next

\* Types and the fetch invariant hold in all behaviours.
LEMMA FetchAlways == Spec => [](TypeInv /\ FetchInv)
  BY TypeAlways, FetchInit, FetchStep, PTL DEF Spec

-----------------------------------------------------------------------------
\* What a push and a repack leave on the remote.

Whole == RemoteWhole /\ SnapshotWhole

\* The history behind the snapshot, when completable_boundary counts on it.
Behind ==
  IF manifest.snapshot = NoSnapshot \/ manifest.snapshot.history = {} THEN {}
  ELSE Reach(manifest.snapshot.commits)

(* It holds the boundaries that may be packed over and all they build on,  *)
(* and a whole remote has it.                                              *)
LEMMA BehindIs ==
  ASSUME TypeInv, Whole
  PROVE  /\ Behind \in SUBSET Commit /\ Closed(Behind, {}) /\ Behind \subseteq Holds(Listed)
         /\ Completable \subseteq Behind \cap mine
<1>1. CASE manifest.snapshot = NoSnapshot \/ manifest.snapshot.history = {}
  BY <1>1 DEF Behind, Completable, Closed
<1>2. CASE ~(manifest.snapshot = NoSnapshot \/ manifest.snapshot.history = {})
  <2> DEFINE S == manifest.snapshot.commits
  <2>1. S \in SUBSET Commit
    BY <1>2 DEF TypeInv, TypeOK, Snapshot
  <2>2. Behind = From(S, {}) /\ Completable = S \cap mine \cap listed
    BY <1>2 DEF Behind, Completable, Reach
  <2>3. Behind \subseteq Holds(Listed)
    BY <1>2, <2>2 DEF Whole, SnapshotWhole, Reach
  <2> HIDE DEF S
  <2> QED
    BY <2>1, <2>2, <2>3, WalkStarts, WalkGoesOn
<1> QED
  BY <1>1, <1>2

\* A walk without boundaries is closed under parents.
LEMMA ReachIs ==
  ASSUME NEW S \in SUBSET Commit
  PROVE  S \subseteq Reach(S) /\ Reach(S) \in SUBSET Commit /\ Closed(Reach(S), {})
  BY WalkStarts, WalkGoesOn DEF Reach

\* A pack put behind the others, of what they lack, with deltas against what they hold.
LEMMA PushWhole ==
  ASSUME TypeInv, Whole, NEW rs, NEW new \in SUBSET Commit, NEW thin \in SUBSET Commit,
         IsPush(manifest', rs, new, thin),
         Reach(Named(rs)) \subseteq Holds(Listed) \cup new,
         thin \subseteq Holds(Listed)
  PROVE  Whole'
<1> DEFINE p == NewPack(new, thin)
<1>1. /\ manifest'.refs = rs /\ manifest'.snapshot = manifest.snapshot
      /\ manifest'.packs = IF new = {} THEN manifest.packs ELSE Append(manifest.packs, p)
      /\ Listed' = IF new = {} THEN Listed ELSE Listed \cup {p}
      /\ p \in Pack
  BY DEF IsPush, Listed
<1>2. p.holds = new /\ p.thin = thin
  BY DEF NewPack
<1> HIDE DEF p
<1>3. Holds(Listed') = Holds(Listed) \cup new
  BY <1>1, <1>2 DEF Holds
<1>4. Known' = Named(rs)
  BY <1>1 DEF Known
<1>5. Reach(Known') \subseteq Holds(Listed')
  BY <1>3, <1>4
<1>6. SnapshotWhole'
  <2>1. Holds(Listed)' = Holds(Listed')
    BY DEF Holds
  <2>2. Reach(manifest.snapshot.commits)' = Reach(manifest.snapshot.commits)
    BY <1>1 DEF Reach, From
  <2> QED
    BY <1>1, <1>3, <2>1, <2>2 DEF Whole, SnapshotWhole
<1>7. ASSUME NEW n \in DOMAIN manifest'.packs
      PROVE  manifest'.packs[n].thin \subseteq Holds({manifest'.packs[k] : k \in 1..(n - 1)})
  <2> DEFINE s == manifest.packs
  <2>1. s \in Seq(Pack) /\ Len(s) \in Nat /\ DOMAIN s = 1..Len(s) /\ Range(s) = Listed
    BY ManifestType
  <2>2. \A i \in DOMAIN s : s[i].thin \subseteq Holds({s[k] : k \in 1..(i - 1)})
    BY DEF Whole, RemoteWhole
  <2> HIDE DEF s
  <2>3. CASE new = {}
    <3>1. manifest'.packs = s
      BY <1>1, <2>3 DEF s
    <3> QED
      BY <1>7, <2>2, <3>1
  <2>4. CASE new # {}
    <3>1. manifest'.packs = Append(s, p)
      BY <1>1, <2>4 DEF s
    <3>2. /\ DOMAIN Append(s, p) = 1..(Len(s) + 1) /\ Append(s, p)[Len(s) + 1] = p
          /\ \A i \in 1..Len(s) : Append(s, p)[i] = s[i]
      BY <1>1, <2>1
    <3>3. n \in 1..(Len(s) + 1)
      BY <1>7, <3>1, <3>2
    <3>4. \A k \in 1..(n - 1) : k \in 1..Len(s) /\ Append(s, p)[k] = s[k]
      BY <2>1, <3>2, <3>3
    <3>5. {manifest'.packs[k] : k \in 1..(n - 1)} = {s[k] : k \in 1..(n - 1)}
      BY <3>1, <3>4
    <3>6. CASE n \in 1..Len(s)
      BY <2>1, <2>2, <3>1, <3>2, <3>5, <3>6
    <3>7. CASE n = Len(s) + 1
      <4>1. n - 1 = Len(s)
        BY <2>1, <3>7
      <4>2. {s[k] : k \in 1..(n - 1)} = Listed
        BY <2>1, <4>1 DEF Range
      <4>3. manifest'.packs[n].thin = thin
        BY <1>2, <3>1, <3>2, <3>7
      <4> QED
        BY <3>5, <4>2, <4>3
    <3> QED
      BY <2>1, <3>3, <3>6, <3>7
  <2> QED
    BY <2>3, <2>4
<1>8. RemoteWhole'
  BY <1>5, <1>7 DEF RemoteWhole, Reach, From, Holds, Known
<1> QED
  BY <1>6, <1>8 DEF Whole

\* A repack of all the refs reach.
LEMMA RepackWhole ==
  ASSUME TypeInv, NEW reached \in SUBSET Commit, NEW g,
         IsRepack(manifest', manifest.refs, reached, g), Reach(Known) \subseteq reached
  PROVE  Whole'
<1>1. Known' = Known /\ Named(manifest.refs) = Known
  BY DEF IsRepack, Known
<1>2. Reach(Known') \subseteq Holds(Listed')
  <2>1. CASE Known = {}
    BY <1>1, <2>1 DEF Reach, From
  <2>2. CASE Known # {}
    <3>1. Holds(Range(manifest'.packs)) = Known \cup reached
      BY <1>1, <2>2 DEF IsRepack
    <3>2. Listed' = Range(manifest'.packs)
      BY DEF Listed
    <3> QED
      BY <1>1, <3>1, <3>2
  <2> QED
    BY <2>1, <2>2
<1>3. \A n \in DOMAIN manifest'.packs : manifest'.packs[n].thin = {}
  BY DEF IsRepack, Range
<1>4. RemoteWhole'
  BY <1>2, <1>3 DEF RemoteWhole, Reach, From, Holds, Known
<1>5. ASSUME manifest'.snapshot # NoSnapshot
      PROVE  Reach(manifest'.snapshot.commits) \subseteq Holds(Listed')
  <2>1. manifest'.snapshot.commits = Known
    <3>1. manifest'.snapshot = [commits |-> Known, history |-> manifest'.snapshot.history]
      BY <1>1, <1>5 DEF IsRepack
    <3> QED
      BY <3>1
  <2> QED
    BY <1>1, <1>2, <2>1
<1>6. SnapshotWhole'
  BY <1>5 DEF SnapshotWhole, Reach, From, Holds
<1> QED
  BY <1>4, <1>6 DEF Whole

(* A repack from here that fetched finds no boundary on its way: the       *)
(* history of one that it might pack over is indexed, so it is none.       *)
LEMMA RepackReaches ==
  ASSUME TypeInv, FetchInv, NothingPruned, Whole, Repack
  PROVE  Reach(Known) \subseteq Walk(Known, listed)
<1> DEFINE reached == Walk(Known, listed)
           cut == listed \cup (Commit \ objs)
<1>1. Known \in SUBSET Commit /\ cut \in SUBSET Commit
  BY ManifestType
<1>2. reached = From(Known, cut)
  BY DEF Walk
<1>3. reached \subseteq objs /\ reached \cap listed \subseteq Completable
  BY DEF Repack, MayPack, Boundaries
<1>4. Listed \subseteq have /\ EndsAt(mine)
  BY DEF Repack, FetchInv
<1>5. Holds(Listed) \subseteq objs
  BY <1>4 DEF NothingPruned, Holds
<1> HIDE DEF cut, reached
<1>6. reached \cap listed = {}
  <2> SUFFICES ASSUME NEW z \in reached \cap listed PROVE FALSE
    OBVIOUS
  <2>1. z \in Behind /\ z \in mine
    BY <1>3, BehindIs
  <2>2. Parents[z] \subseteq objs
    BY <1>5, <2>1, BehindIs DEF Closed
  <2> QED
    BY <1>4, <2>1, <2>2 DEF EndsAt
<1>7. reached \in SUBSET Commit /\ Known \subseteq reached /\ Closed(reached, cut)
  BY <1>1, <1>2, WalkStarts, WalkGoesOn
<1>8. Closed(reached, {})
  BY <1>3, <1>6, <1>7 DEF Closed, cut
<1>9. From(Known, {}) \subseteq reached
  BY <1>1, <1>7, <1>8, WalkIsLeast
<1> QED
  BY <1>9 DEF Reach, reached

(* A push from here packs what the remote lacks: its pack ends at what the *)
(* refs reach, or at a boundary whose history the remote has.              *)
LEMMA PushReaches ==
  ASSUME TypeInv, Whole, NEW r \in Ref, NEW x \in Commit,
         MayPack(Walk({x}, listed) \ Walk(Known \cap objs, listed))
  PROVE  LET base == Walk(Known \cap objs, listed)
             new  == Walk({x}, listed) \ base
         IN /\ base \subseteq Holds(Listed)
            /\ Reach(Named([manifest.refs EXCEPT ![r] = x])) \subseteq Holds(Listed) \cup new
<1> DEFINE base == Walk(Known \cap objs, listed)
           new  == Walk({x}, listed) \ base
           cut  == listed \cup (Commit \ objs)
           rs   == [manifest.refs EXCEPT ![r] = x]
           T    == Reach(Known) \cup Behind \cup new
<1>1. Known \in SUBSET Commit /\ cut \in SUBSET Commit /\ {x} \in SUBSET Commit
  BY ManifestType
<1>2. base = From(Known \cap objs, cut) /\ Walk({x}, listed) = From({x}, cut)
  BY DEF Walk
<1>3. new \subseteq objs /\ new \cap listed \subseteq Completable
  BY DEF MayPack, Boundaries
<1>4. /\ Known \subseteq Reach(Known) /\ Reach(Known) \in SUBSET Commit
      /\ Closed(Reach(Known), {}) /\ Reach(Known) \subseteq Holds(Listed)
  BY <1>1, ReachIs DEF Whole, RemoteWhole
<1>5. Named(rs) \subseteq Known \cup {x}
  <2>1. manifest.refs \in [Ref -> Commit \cup {NoCommit}]
    BY DEF TypeInv, Manifest
  <2> QED
    BY <2>1 DEF Named, Known
<1>6. Closed(Reach(Known), cut)
  BY <1>4 DEF Closed
<1> HIDE DEF cut, rs
<1>7. base \subseteq Reach(Known)
  <2>1. Known \cap objs \in SUBSET Commit /\ Known \cap objs \subseteq Reach(Known)
    BY <1>1, <1>4
  <2>2. From(Known \cap objs, cut) \subseteq Reach(Known)
    BY <1>1, <1>4, <1>6, <2>1, WalkIsLeast
  <2> QED
    BY <1>2, <2>2
<1>8. /\ Walk({x}, listed) \in SUBSET Commit /\ x \in Walk({x}, listed)
      /\ Closed(Walk({x}, listed), cut)
  BY <1>1, <1>2, WalkStarts, WalkGoesOn
<1> HIDE DEF base
<1>9. T \in SUBSET Commit
  BY <1>4, <1>8, BehindIs
<1>10. Closed(T, {})
  <2> SUFFICES ASSUME NEW z \in T PROVE Parents[z] \subseteq T
    BY DEF Closed
  <2>1. CASE z \in Reach(Known)
    BY <1>4, <2>1 DEF Closed
  <2>2. CASE z \in Behind
    BY <2>2, BehindIs DEF Closed
  <2>3. CASE z \in new /\ z \in listed
    <3>1. z \in Behind
      BY <1>3, <2>3, BehindIs
    <3> QED
      BY <3>1, BehindIs DEF Closed
  <2>4. CASE z \in new /\ z \notin listed
    <3>1. z \in objs /\ z \notin cut
      BY <1>3, <2>4 DEF cut
    <3>2. Parents[z] \subseteq Walk({x}, listed)
      BY <1>8, <2>4, <3>1 DEF Closed
    <3> QED
      BY <1>7, <3>2
  <2> QED
    BY <2>1, <2>2, <2>3, <2>4
<1>11. Named(rs) \subseteq T
  BY <1>4, <1>5, <1>7, <1>8
<1>12. Reach(Named(rs)) \subseteq T
  <2>1. Named(rs) \in SUBSET Commit
    BY <1>9, <1>11
  <2> HIDE DEF T
  <2>2. From(Named(rs), {}) \subseteq T
    BY <1>9, <1>10, <1>11, <2>1, WalkIsLeast
  <2> QED
    BY <2>2 DEF Reach
<1>13. T \subseteq Holds(Listed) \cup new
  BY <1>4, BehindIs
<1>14. base \subseteq Holds(Listed) /\ Reach(Named(rs)) \subseteq Holds(Listed) \cup new
  BY <1>4, <1>7, <1>12, <1>13
<1> QED
  BY <1>14 DEF base, rs

\* The remote cloned from is whole: it was just repacked.
LEMMA WholeInit == Init => Whole
<1> SUFFICES ASSUME Init PROVE Whole
  OBVIOUS
<1>1. InitialRefs \in [Ref -> Commit \cup {NoCommit}] /\ 1 \in 1..MaxGeneration
  BY CommitAssumption, GenerationAssumption
<1>2. Named(InitialRefs) \in SUBSET Commit
  BY <1>1 DEF Named
<1> DEFINE reached == Reach(Named(InitialRefs))
<1>3. reached \in SUBSET Commit
  BY <1>2, ReachIs
<1>4. manifest = Repacked(InitialRefs, reached, 1)
  BY DEF Init
<1> HIDE DEF reached
<1>5. IsRepack(manifest, InitialRefs, reached, 1)
  BY <1>1, <1>3, <1>4, RepackedType
<1>6. Known = Named(InitialRefs) /\ Reach(Known) = reached
  BY <1>5 DEF IsRepack, Known, reached
<1>7. Reach(Known) \subseteq Holds(Listed)
  <2>1. CASE Known = {}
    BY <2>1 DEF Reach, From
  <2>2. CASE Known # {}
    BY <1>5, <1>6, <2>2 DEF IsRepack, Listed
  <2> QED
    BY <2>1, <2>2
<1>8. \A n \in DOMAIN manifest.packs : manifest.packs[n].thin = {}
  BY <1>5 DEF IsRepack, Range
<1>9. ASSUME manifest.snapshot # NoSnapshot PROVE manifest.snapshot.commits = Known
  <2>1. manifest.snapshot = [commits |-> Known, history |-> manifest.snapshot.history]
    BY <1>5, <1>6, <1>9 DEF IsRepack
  <2> QED
    BY <2>1
<1> QED
  BY <1>7, <1>8, <1>9 DEF Whole, RemoteWhole, SnapshotWhole

\* No step takes from a whole remote what it needs.
LEMMA WholeStep ==
  ASSUME TypeInv, FetchInv, NothingPruned, Whole, [Next]_vars
  PROVE  Whole'
<1>a. ASSUME UNCHANGED manifest PROVE Whole'
  BY <1>a DEF Whole, RemoteWhole, SnapshotWhole, Known, Listed
<1>b. /\ Known \in SUBSET Commit /\ Reach(Known) \in SUBSET Commit
      /\ Reach(Known) \subseteq Holds(Listed)
      /\ manifest.refs \in [Ref -> Commit \cup {NoCommit}]
      /\ manifest.generation \in 1..MaxGeneration
  BY ManifestType, ReachIs DEF Whole, RemoteWhole, TypeInv, TypeOK
<1>c. ASSUME manifest.generation < MaxGeneration
      PROVE  manifest.generation + 1 \in 1..MaxGeneration
  BY <1>b, <1>c, GenerationAssumption
<1>1. ASSUME NEW rs \in OtherRefs, OtherPush(rs) PROVE Whole'
  <2> DEFINE new == Reach(Named(rs)) \ Reach(Known)
  <2>1. rs \in [Ref -> Commit \cup {NoCommit}]
    BY CommitAssumption
  <2>2. Named(rs) \in SUBSET Commit
    BY <2>1 DEF Named
  <2>3. new \in SUBSET Commit
    BY <2>2, ReachIs
  <2>4. PICK thin \in {{}, Reach(Known)} : manifest' = Pushed(rs, new, thin)
    BY <1>1 DEF OtherPush
  <2>5. manifest.generation < MaxGeneration
    BY <1>1 DEF OtherPush, CanLand
  <2>6. thin \in SUBSET Commit /\ thin \subseteq Holds(Listed)
    BY <1>b
  <2>7. Reach(Named(rs)) \subseteq Holds(Listed) \cup new
    BY <1>b
  <2> HIDE DEF new
  <2>8. IsPush(manifest', rs, new, thin)
    BY <2>1, <2>3, <2>4, <2>5, <2>6, PushedType
  <2> QED
    BY <2>3, <2>6, <2>7, <2>8, PushWhole
<1>2. CASE OtherRepack
  <2>1. manifest.generation < MaxGeneration
        /\ manifest' = Repacked(manifest.refs, Reach(Known), manifest.generation + 1)
    BY <1>2 DEF OtherRepack, CanLand
  <2>2. IsRepack(manifest', manifest.refs, Reach(Known), manifest.generation + 1)
    BY <1>b, <1>c, <2>1, RepackedType
  <2> QED
    BY <1>b, <2>2, RepackWhole
<1>3. CASE Repack
  <2>1. /\ manifest.generation < MaxGeneration
        /\ manifest' = Repacked(manifest.refs, Walk(Known, listed), manifest.generation + 1)
    BY <1>3 DEF Repack, Lands
  <2>2. Walk(Known, listed) \in SUBSET Commit
    <3>1. listed \cup (Commit \ objs) \in SUBSET Commit
      BY ManifestType
    <3> QED
      BY <1>b, <3>1, WalkStarts DEF Walk
  <2>3. IsRepack(manifest', manifest.refs, Walk(Known, listed), manifest.generation + 1)
    BY <1>b, <1>c, <2>1, <2>2, RepackedType
  <2> QED
    BY <1>3, <2>2, <2>3, RepackReaches, RepackWhole
<1>4. ASSUME NEW r \in Ref, NEW x \in Commit, Push(r, x) PROVE Whole'
  <2> DEFINE base == Walk(Known \cap objs, listed)
             new  == Walk({x}, listed) \ base
             rs   == [manifest.refs EXCEPT ![r] = x]
  <2>1. manifest.generation < MaxGeneration /\ MayPack(new)
    BY <1>4 DEF Push, CanLand
  <2>2. PICK thin \in {{}, base \cap objs} : manifest' = Pushed(rs, new, thin)
    BY <1>4 DEF Push, Lands
  <2>3. rs \in [Ref -> Commit \cup {NoCommit}]
    BY <1>b
  <2>4. base \subseteq Holds(Listed) /\ Reach(Named(rs)) \subseteq Holds(Listed) \cup new
    BY <2>1, PushReaches
  <2>5. base \in SUBSET Commit /\ new \in SUBSET Commit
    <3>1. /\ listed \cup (Commit \ objs) \in SUBSET Commit /\ {x} \in SUBSET Commit
          /\ Known \cap objs \in SUBSET Commit
      BY ManifestType
    <3> QED
      BY <3>1, WalkStarts DEF Walk
  <2> HIDE DEF base, new, rs
  <2>6. thin \in SUBSET Commit /\ thin \subseteq Holds(Listed)
    BY <2>4, <2>5
  <2>7. IsPush(manifest', rs, new, thin)
    BY <2>1, <2>2, <2>3, <2>5, <2>6, PushedType
  <2> QED
    BY <2>4, <2>5, <2>6, <2>7, PushWhole
<1>5. ASSUME Next, \A rs \in OtherRefs : ~OtherPush(rs), ~OtherRepack, ~Repack,
             \A r \in Ref, x \in Commit : ~Push(r, x)
      PROVE  UNCHANGED manifest
  <2>1. ASSUME HelperStep PROVE UNCHANGED manifest
    BY <1>5, <2>1 DEF HelperStep, IndexPack, HistoryForDeltas, IndexFails, Indexed,
       HistoryForBoundary, Plan, Record, Graft, Settle, HistoryForRefs, IndexHistory, Verified,
       EndFetch
  <2> QED
    BY <1>5, <2>1 DEF Next, NewCommit, DropRef, FetchElsewhere, Gc, Begin, Crash
<1>6. UNCHANGED vars => UNCHANGED manifest
  BY DEF vars
<1> QED
  BY <1>a, <1>1, <1>2, <1>3, <1>4, <1>5, <1>6

-----------------------------------------------------------------------------
\* The history of the local refs.

\* What a boundary that goes leaves behind it is here.
Connects(c) == From({c}, listed' \cup (Commit \ objs')) \subseteq objs'
Drops == \A c \in (listed \ listed') \cap objs' : Connects(c)

\* Where objects only come, it takes the drop of a boundary to leave a gap.
LEMMA GrowsWhole ==
  ASSUME TypeInv, TypeInv', HistoryWhole, Drops, objs \subseteq objs',
         NEW more \in SUBSET Commit, NEW base \in SUBSET Commit,
         base \subseteq objs,
         Closed(base, listed \cup (Commit \ objs)), more \subseteq objs',
         \A x \in more : x \in listed' \/ Parents[x] \subseteq base,
         refs' \subseteq base \cup more
  PROVE  HistoryWhole'
<1> DEFINE cut == listed' \cup (Commit \ objs')
           D == (listed \ listed') \cap objs'
           T == base \cup more \cup UNION {From({c}, cut) : c \in D}
<1>1. /\ objs \in SUBSET Commit /\ objs' \in SUBSET Commit
      /\ listed' \in SUBSET Commit /\ listed \in SUBSET Commit
  BY DEF TypeInv, TypeOK
<1>2. cut \in SUBSET Commit /\ D \in SUBSET Commit /\ refs' \in SUBSET Commit
  BY <1>1 DEF TypeInv, TypeOK
<1>3. \A c \in D : From({c}, cut) \subseteq objs'
  BY DEF Drops, Connects
<1>4. T \subseteq objs'
  BY <1>3
<1>5. T \in SUBSET Commit /\ refs' \subseteq T
  BY <1>1, <1>4
<1>6. \A c \in D : c \in From({c}, cut) /\ Closed(From({c}, cut), cut)
  <2> HIDE DEF cut
  <2> QED
    BY <1>2, WalkStarts, WalkGoesOn
<1> HIDE DEF D
<1>7. Closed(T, cut)
  <2> SUFFICES ASSUME NEW z \in T, z \notin cut PROVE Parents[z] \subseteq T
    BY DEF Closed
  <2>1. z \in objs' /\ z \notin listed' /\ z \in Commit
    BY <1>1, <1>4
  <2>2. ASSUME NEW c \in D, z \in From({c}, cut) PROVE Parents[z] \subseteq T
    BY <1>6, <2>2 DEF Closed
  <2>3. ASSUME z \in base PROVE Parents[z] \subseteq T
    <3>1. CASE z \in listed
      <4>1. z \in D
        BY <2>1, <3>1 DEF D
      <4> QED
        BY <1>6, <2>2, <4>1
    <3>2. CASE z \notin listed /\ z \in objs
      <4>1. Parents[z] \subseteq base
        BY <2>3, <3>2 DEF Closed
      <4> QED
        BY <4>1
    <3> QED
      BY <2>3, <3>1, <3>2
  <2>4. ASSUME z \in more PROVE Parents[z] \subseteq T
    BY <2>1, <2>4
  <2> QED
    BY <2>2, <2>3, <2>4
<1> HIDE DEF T, cut
<1>8. From(refs', cut) \subseteq T
  BY <1>2, <1>5, <1>7, WalkIsLeast
<1>9. From(refs', cut) \subseteq objs'
  BY <1>4, <1>8
<1> QED
  BY <1>9 DEF HistoryWhole, Walk, cut

\* Every step but a drop that leaves a gap keeps the history whole.
LEMMA HistoryStep ==
  ASSUME TypeInv, HistoryWhole, [Next]_vars, Drops
  PROVE  HistoryWhole'
<1> DEFINE base == Walk(refs, listed)
<1>a. TypeInv'
  BY TypeStep
<1>b. {objs, refs, listed, objs', refs', listed', Known} \subseteq SUBSET Commit
  <2>1. {objs, refs, listed} \subseteq SUBSET Commit /\ Known \in SUBSET Commit
    BY ManifestType
  <2>2. {objs', refs', listed'} \subseteq SUBSET Commit
    BY <1>a DEF TypeInv, TypeOK
  <2> QED
    BY <2>1, <2>2
<1>c. /\ base \in SUBSET Commit /\ refs \subseteq base
      /\ Closed(base, listed \cup (Commit \ objs))
  <2> DEFINE cut == listed \cup (Commit \ objs)
  <2>1. cut \in SUBSET Commit /\ refs \in SUBSET Commit
    BY <1>b
  <2> HIDE DEF cut
  <2>2. /\ refs \subseteq From(refs, cut) /\ From(refs, cut) \subseteq Commit
        /\ Closed(From(refs, cut), cut)
    BY <2>1, WalkStarts, WalkGoesOn
  <2> QED
    BY <2>2 DEF Walk, cut
<1>d. base \subseteq objs
  BY DEF HistoryWhole
<1> HIDE DEF base
<1>e. ASSUME objs \subseteq objs', NEW more \in SUBSET Commit, more \subseteq objs',
             \A x \in more : x \in listed' \/ Parents[x] \subseteq base,
             refs' \subseteq base \cup more
      PROVE  HistoryWhole'
  <2>1. base \in SUBSET Commit
    BY <1>c
  <2>2. Closed(base, listed \cup (Commit \ objs))
    BY <1>c
  <2> QED
    BY <1>a, <1>d, <1>e, <2>1, <2>2, GrowsWhole
<1>f. ASSUME objs \subseteq objs', refs' \subseteq refs PROVE HistoryWhole'
  <2> DEFINE more == {}
  <2>1. more \in SUBSET Commit /\ more \subseteq objs' /\ refs' \subseteq base \cup more
    BY <1>c, <1>f
  <2>2. \A x \in more : x \in listed' \/ Parents[x] \subseteq base
    OBVIOUS
  <2> HIDE DEF more
  <2> QED
    BY <1>e, <1>f, <2>1, <2>2
<1>1. ASSUME NEW x \in Commit, NewCommit(x) PROVE HistoryWhole'
  <2>1. /\ objs \subseteq objs' /\ {x} \subseteq objs' /\ refs' = refs \cup {x}
        /\ Parents[x] \subseteq refs
    BY <1>1 DEF NewCommit
  <2>2. refs' \subseteq base \cup {x} /\ Parents[x] \subseteq base
    BY <1>c, <2>1
  <2> QED
    BY <1>e, <2>1, <2>2
<1>2. ASSUME NEW x \in Commit, DropRef(x) PROVE HistoryWhole'
  BY <1>2, <1>f DEF DropRef
<1>3. ASSUME NEW x \in Commit, FetchElsewhere(x) PROVE HistoryWhole'
  <2>1. /\ objs \subseteq objs' /\ {x} \subseteq objs' /\ refs' = refs \cup {x}
        /\ x \in listed'
    BY <1>3 DEF FetchElsewhere
  <2>2. refs' \subseteq base \cup {x}
    BY <1>c, <2>1
  <2> QED
    BY <1>e, <2>1, <2>2
<1>4. CASE Gc
  <2>1. objs' = base /\ listed' = listed \cap base /\ refs' = refs
    BY <1>4 DEF Gc, base
  <2> DEFINE cut == listed' \cup (Commit \ objs')
  <2>2. cut \in SUBSET Commit /\ Closed(base, cut)
    BY <1>b, <1>c, <1>d, <2>1 DEF Closed
  <2> HIDE DEF cut
  <2>3. From(refs', cut) \subseteq base
    BY <1>b, <1>c, <2>1, <2>2, WalkIsLeast
  <2> QED
    BY <2>1, <2>3 DEF HistoryWhole, Walk, cut
<1>5. CASE EndFetch
  <2>1. UNCHANGED <<objs, listed>> /\ (refs' = refs \/ (RefsComplete /\ refs' = refs \cup Known))
    BY <1>5 DEF EndFetch
  <2>2. CASE refs' = refs
    BY <1>f, <2>1, <2>2
  <2>3. CASE RefsComplete /\ refs' = refs \cup Known
    <3> DEFINE cut == listed \cup (Commit \ objs)
               fetched == Walk(Known, listed)
               both == base \cup fetched
    <3>1. cut \in SUBSET Commit /\ Known \in SUBSET Commit
      BY <1>b
    <3>2. Known \subseteq fetched /\ fetched \subseteq Commit /\ Closed(fetched, cut)
      <4> HIDE DEF cut
      <4>1. /\ Known \subseteq From(Known, cut) /\ From(Known, cut) \subseteq Commit
            /\ Closed(From(Known, cut), cut)
        BY <3>1, WalkStarts, WalkGoesOn
      <4> QED
        BY <4>1 DEF Walk, cut
    <3>3. fetched \ base \subseteq objs
      BY <2>3 DEF RefsComplete, base
    <3> HIDE DEF fetched
    <3>4. both \in SUBSET Commit /\ both \subseteq objs /\ refs' \subseteq both \cup {}
      BY <1>c, <1>d, <2>3, <3>2, <3>3
    <3>5. Closed(both, cut)
      BY <1>c, <3>2 DEF Closed
    <3> HIDE DEF both
    <3>6. objs \subseteq objs'
      BY <2>1
    <3> DEFINE more == {}
    <3>7. more \in SUBSET Commit /\ more \subseteq objs' /\ refs' \subseteq both \cup more
      BY <3>4
    <3>8. \A x \in more : x \in listed' \/ Parents[x] \subseteq both
      OBVIOUS
    <3>9. both \in SUBSET Commit
      BY <3>4
    <3>10. both \subseteq objs
      BY <3>4
    <3> HIDE DEF more
    <3> QED
      BY <1>a, <3>5, <3>6, <3>7, <3>8, <3>9, <3>10, GrowsWhole
  <2> QED
    BY <2>1, <2>2, <2>3
<1>6. ASSUME HelperStep, ~EndFetch PROVE HistoryWhole'
  <2>1. objs \subseteq objs' /\ refs' = refs
    BY <1>6 DEF HelperStep, IndexPack, HistoryForDeltas, IndexFails, Indexed,
       HistoryForBoundary, Plan, Record, Graft, Settle, HistoryForRefs, IndexHistory, Index,
       Verified, Repack, repoVars
  <2> QED
    BY <1>f, <2>1
<1>7. CASE /\ Next /\ ~HelperStep /\ ~Gc
           /\ \A x \in Commit : ~NewCommit(x) /\ ~DropRef(x) /\ ~FetchElsewhere(x)
  <2>1. UNCHANGED <<objs, refs>>
    BY <1>7 DEF Next, OtherPush, OtherRepack, Begin, Crash, Push, repoVars
  <2> QED
    BY <1>f, <2>1
<1>8. CASE UNCHANGED vars
  BY <1>8, <1>f DEF vars
<1> QED
  BY <1>1, <1>2, <1>3, <1>4, <1>5, <1>6, <1>7, <1>8

LEMMA HistoryInit == Init => HistoryWhole
<1> SUFFICES ASSUME Init PROVE HistoryWhole
  OBVIOUS
<1>1. refs = {} /\ listed = {} /\ objs = {}
  BY DEF Init
<1>2. {} \in SUBSET Commit /\ Commit \in SUBSET Commit /\ Closed({}, Commit)
  BY DEF Closed
<1>3. From({}, Commit) \subseteq {}
  BY <1>2, WalkIsLeast
<1> QED
  BY <1>1, <1>3 DEF HistoryWhole, Walk

(* Deepening is never piecemeal: where the parents of a boundary are here, *)
(* what the fetch under way is to index, or any fetch when none is, holds  *)
(* all of the history behind it.  The code cannot see to that: it is about *)
(* what others push and repack, and when.                                  *)
ComesWhole ==
  \A c \in mine \cap objs : Parents[c] \subseteq objs =>
    Reach(Parents[c]) \subseteq Holds(Listed \ (IF shallow THEN History ELSE {}))

\* A boundary that is left out of the plan has its parents here.
PlanInv ==
  pc \in {"record", "graft"} => \A c \in mine \cap objs : Parents[c] \subseteq objs \/ c \in planned

LEMMA PlanStep == PlanInv /\ [Next]_vars => PlanInv'
<1> SUFFICES ASSUME PlanInv, [Next]_vars PROVE PlanInv'
  OBVIOUS
<1>1. CASE pc' \notin {"record", "graft"}
  BY <1>1 DEF PlanInv
<1>2. CASE pc' \in {"record", "graft"}
  <2>1. CASE Plan
    <3>1. UNCHANGED <<mine, objs>> /\ planned' = PlanBoundary
      BY <2>1 DEF Plan, repoVars
    <3>2. ASSUME NEW c \in mine \cap objs, ~(Parents[c] \subseteq objs)
          PROVE  c \in PlanBoundary
      <4>1. c \in Lacking(Candidates)
        BY <3>2 DEF Lacking, CommitParents, Candidates
      <4> QED
        BY <3>2, <4>1 DEF PlanBoundary
    <3> QED
      BY <3>1, <3>2 DEF PlanInv
  <2>2. CASE Record
    BY <2>2 DEF Record, SetBoundary, PlanInv
  <2>3. CASE UNCHANGED vars
    BY <2>3 DEF vars, PlanInv
  <2>4. CASE Next /\ ~Plan /\ ~Record
    <3>1. pc' \notin {"record", "graft"}
      BY <2>4 DEF Next, OtherPush, OtherRepack, NewCommit, DropRef, FetchElsewhere, Gc,
         Begin, HelperStep, IndexPack, HistoryForDeltas, IndexHistory, IndexFails, Indexed,
         HistoryForBoundary, Graft, Settle, HistoryForRefs, Verified, EndFetch, Repack, Exit,
         Crash, Push, CanLand, Go, helperVars
    <3> QED
      BY <1>2, <3>1
  <2> QED
    BY <2>1, <2>2, <2>3, <2>4
<1> QED
  BY <1>1, <1>2

(* A fetch that is through its packs has all that history, and no step but *)
(* update_shallow drops a boundary whose commit is here.                   *)
LEMMA WholeDrops ==
  ASSUME TypeInv, FetchInv, PlanInv, NothingPruned, ComesWhole, [Next]_vars
  PROVE  Drops
<1>1. ASSUME Graft PROVE Drops
  <2> SUFFICES ASSUME NEW c \in (listed \ listed') \cap objs' PROVE Connects(c)
    BY DEF Drops
  <2>1. UNCHANGED <<manifest, objs>> /\ c \in mine \ planned
    BY <1>1 DEF Graft, UpdateShallow
  <2>2. Parents[c] \subseteq objs
    BY <1>1, <2>1 DEF Graft, PlanInv
  <2>3. Listed \ (IF shallow THEN History ELSE {}) \subseteq have \cap Listed
    BY <1>1 DEF Graft, FetchInv
  <2>4. Reach(Parents[c]) \subseteq objs
    BY <2>1, <2>2, <2>3 DEF ComesWhole, NothingPruned, Holds
  <2> DEFINE cut == listed' \cup (Commit \ objs')
             T   == {c} \cup Reach(Parents[c])
  <2>5. c \in Commit /\ Parents[c] \in SUBSET Commit /\ cut \in SUBSET Commit
    <3>1. objs \in SUBSET Commit /\ listed' \in SUBSET Commit
      BY TypeStep DEF TypeInv, TypeOK
    <3> QED
      BY <2>1, <3>1, CommitAssumption
  <2>6. T \in SUBSET Commit /\ Closed(T, cut)
    <3>1. /\ Parents[c] \subseteq Reach(Parents[c]) /\ Reach(Parents[c]) \in SUBSET Commit
          /\ Closed(Reach(Parents[c]), {})
      BY <2>5, ReachIs
    <3> QED
      BY <2>5, <3>1 DEF Closed
  <2> HIDE DEF cut, T
  <2>7. From({c}, cut) \subseteq T
    <3>1. {c} \subseteq T /\ {c} \in SUBSET Commit
      BY <2>5 DEF T
    <3> QED
      BY <2>5, <2>6, <3>1, WalkIsLeast
  <2>8. T \subseteq objs'
    BY <2>1, <2>4 DEF T
  <2> QED
    BY <2>7, <2>8 DEF Connects, cut
<1>2. ASSUME ~Graft PROVE (listed \ listed') \cap objs' = {}
  <2>1. CASE Gc
    BY <2>1 DEF Gc
  <2>2. CASE Next /\ ~Gc
    BY <1>2, <2>2 DEF Next, OtherPush, OtherRepack, NewCommit, DropRef, FetchElsewhere, Begin,
       HelperStep, IndexPack, HistoryForDeltas, IndexHistory, IndexFails, Indexed,
       HistoryForBoundary, Plan, Record, Settle, HistoryForRefs, Verified, EndFetch, Repack,
       Crash, Push, repoVars
  <2>3. CASE UNCHANGED vars
    BY <2>3 DEF vars
  <2> QED
    BY <2>1, <2>2, <2>3
<1> QED
  BY <1>1, <1>2 DEF Drops

(* This remote has set no boundary and is skipping nothing.                *)
NeverCut == mine = {} /\ ~shallow /\ pc \in {"idle", "index", "end", "broken"}

LEMMA NeverCutStep ==
  ASSUME NeverCut, cmd' # "depth", [Next]_vars
  PROVE  NeverCut' /\ UNCHANGED mine
<1> USE DEF NeverCut
<1>1. CASE HelperStep
  <2>1. CASE IndexPack \/ IndexFails \/ Indexed
    BY <2>1 DEF IndexPack, IndexFails, Indexed, Go, repoVars, helperVars
  <2>2. CASE EndFetch \/ Repack
    BY <2>2 DEF EndFetch, Repack, Exit, Go
  <2> QED
    BY <1>1, <2>1, <2>2 DEF HelperStep, HistoryForDeltas, HistoryForBoundary, Plan, Record,
       Graft, Settle, HistoryForRefs, Verified
<1>2. ASSUME NEW c \in {"plain", "depth", "full", "repack"}, Begin(c)
      PROVE  NeverCut' /\ UNCHANGED mine
  BY <1>2 DEF Begin, Go, repoVars
<1>3. CASE /\ Next /\ ~HelperStep
           /\ \A c \in {"plain", "depth", "full", "repack"} : ~Begin(c)
  <2>1. ASSUME NEW x \in Commit, NewCommit(x) \/ DropRef(x) \/ FetchElsewhere(x)
        PROVE  NeverCut' /\ UNCHANGED mine
    BY <2>1 DEF NewCommit, DropRef, FetchElsewhere, helperVars
  <2>2. CASE Gc \/ Crash
    BY <2>2 DEF Gc, Crash, Exit, repoVars, helperVars
  <2>3. ASSUME NEW rs \in OtherRefs, OtherPush(rs) PROVE NeverCut' /\ UNCHANGED mine
    BY <2>3 DEF OtherPush, repoVars, helperVars
  <2>4. CASE OtherRepack
    BY <2>4 DEF OtherRepack, repoVars, helperVars
  <2>5. ASSUME NEW r \in Ref, NEW x \in Commit, Push(r, x) PROVE NeverCut' /\ UNCHANGED mine
    BY <2>5 DEF Push, helperVars
  <2> QED
    BY <1>3, <2>1, <2>2, <2>3, <2>4, <2>5 DEF Next
<1>4. CASE UNCHANGED vars
  BY <1>4 DEF vars
<1> QED
  BY <1>1, <1>2, <1>3, <1>4

-----------------------------------------------------------------------------
\* The theorems.

(* Every variable keeps its type, for any history, refs and number of      *)
(* generations; a snapshot's history is a pack the manifest lists.         *)
THEOREM TypeCorrect == Spec => []TypeOK
<1>1. TypeInv => TypeOK
  BY DEF TypeInv
<1> QED
  BY <1>1, TypeAlways, PTL

(* Whatever a snapshot leaves out, fetch_packs gets it where a delta, a    *)
(* ref or a boundary needs it: no fetch of a whole remote fails for want   *)
(* of history (remote.rs:1068).                                            *)
THEOREM FetchesConnect == Spec => []FetchConnects
<1>1. FetchInv => FetchConnects
  BY DEF FetchInv
<1> QED
  BY <1>1, FetchAlways, PTL

(* After a fetch of everything the boundaries left are those whose parents *)
(* are not here and not on the remote: what `doctor` calls stuck           *)
(* (stuck_boundary).                                                       *)
THEOREM FullFetchesComplete == Spec => []Completed
<1>1. TypeInv /\ FetchInv => Completed
  <2> SUFFICES ASSUME TypeInv, FetchInv, pc = "end", cmd \in {"full", "repack"}
               PROVE  /\ mine \cap listed \subseteq Stuck
                      /\ NothingPruned => \A c \in Stuck : ~(Parents[c] \subseteq Holds(Listed))
    BY DEF Completed
  <2>1. Listed \subseteq have /\ EndsAt(mine)
    BY DEF FetchInv
  <2>2. Stuck = Lacking(mine \cap listed)
    BY <2>1 DEF Stuck
  <2>3. \A c \in mine \cap listed : c \in Lacking(mine \cap listed)
    BY <2>1 DEF Lacking, CommitParents, EndsAt
  <2>4. NothingPruned => Holds(Listed) \subseteq objs
    BY <2>1 DEF NothingPruned, Holds
  <2>5. \A c \in Stuck : ~(Parents[c] \subseteq objs)
    BY <2>2 DEF Lacking, CommitParents
  <2> QED
    BY <2>2, <2>3, <2>4, <2>5
<1> QED
  BY <1>1, FetchAlways, PTL

(* Whoever pushes or repacks, from a shallow clone or another, leaves a    *)
(* remote that can be cloned and a snapshot whose history is there: a      *)
(* boundary is packed over only when its parents are on the remote.        *)
THEOREM PushesLeaveWhole == Spec => PushesWhole
<1> DEFINE Kept == NothingPruned /\ RemoteWhole /\ SnapshotWhole =>
                     RemoteWhole' /\ SnapshotWhole'
<1>1. TypeInv /\ FetchInv /\ [Next]_vars => [Kept]_vars
  <2> SUFFICES ASSUME TypeInv, FetchInv, [Next]_vars, NothingPruned, RemoteWhole, SnapshotWhole
               PROVE  RemoteWhole' /\ SnapshotWhole'
    OBVIOUS
  <2>1. Whole
    BY DEF Whole
  <2>2. Whole'
    BY <2>1, WholeStep
  <2> QED
    BY <2>2 DEF Whole
<1>2. Spec => [][Kept]_vars
  BY <1>1, FetchAlways, PTL DEF Spec
<1> QED
  BY <1>2 DEF PushesWhole

(* Where no gc ever takes what a listed pack brought, the remote can be    *)
(* cloned and its boundaries packed over at all times, and no fetch, with  *)
(* or without a depth, fails for want of history.                          *)
THEOREM StaysWhole ==
  Spec /\ []NothingPruned => [](RemoteWhole /\ SnapshotWhole /\ pc # "broken")
<1>1. TypeInv /\ FetchInv /\ NothingPruned /\ Whole /\ [Next]_vars => Whole'
  BY WholeStep
<1>2. FetchInv /\ NothingPruned /\ Whole => RemoteWhole /\ SnapshotWhole /\ pc # "broken"
  BY DEF FetchInv, FetchConnects, Whole
<1> QED
  BY <1>1, <1>2, WholeInit, FetchAlways, PTL DEF Spec

(* A boundary goes only where the history behind it has come, whatever     *)
(* forces, deletions, repacks and crashes came before: where deepening is  *)
(* not piecemeal and no gc takes what a listed pack brought.  The run      *)
(* shallow_cut shows what happens where it is (remote.rs:1176).            *)
THEOREM DeepeningConnects == Spec /\ [](NothingPruned /\ ComesWhole) => DropsConnect
<1>1. Init => PlanInv
  BY DEF Init, PlanInv
<1>2. TypeInv /\ FetchInv /\ PlanInv /\ NothingPruned /\ ComesWhole /\ [Next]_vars => [Drops]_vars
  BY WholeDrops
<1>3. Drops <=> \A c \in (listed \ listed') \cap objs' :
                 From({c}, listed' \cup (Commit \ objs')) \subseteq objs'
  BY DEF Drops, Connects
<1>4. Spec /\ [](NothingPruned /\ ComesWhole) => [][Drops]_vars
  BY <1>1, <1>2, PlanStep, FetchAlways, PTL DEF Spec
<1> QED
  BY <1>3, <1>4, PTL DEF DropsConnect

(* Then what the local refs reach is here, down to the boundaries, after   *)
(* every fetch, deepening, repack, gc and crash.                           *)
THEOREM HistoryStaysWhole == Spec /\ [](NothingPruned /\ ComesWhole) => []HistoryWhole
<1>1. Init => PlanInv
  BY DEF Init, PlanInv
<1>2. /\ TypeInv /\ FetchInv /\ PlanInv /\ NothingPruned /\ ComesWhole /\ HistoryWhole
      /\ [Next]_vars
      => HistoryWhole'
  BY WholeDrops, HistoryStep
<1> QED
  BY <1>1, <1>2, PlanStep, HistoryInit, FetchAlways, PTL DEF Spec

(* A repository that never fetches from this remote with a depth needs no  *)
(* such condition: whatever boundaries other remotes set in it, and        *)
(* whatever is pushed, repacked and pruned, its history stays whole.       *)
THEOREM WithoutDepthHistoryWhole == Spec /\ [](cmd # "depth") => []HistoryWhole
<1> DEFINE Stays == \A c \in listed \ listed' : c \in mine \/ c \notin objs'
<1>1. Init => NeverCut
  BY DEF Init, NeverCut
<1>2. /\ TypeInv /\ NeverCut /\ HistoryWhole /\ [Next]_vars /\ (cmd # "depth")'
      /\ [Stays]_vars
      => NeverCut' /\ HistoryWhole'
  <2> SUFFICES ASSUME TypeInv, NeverCut, HistoryWhole, [Next]_vars, cmd' # "depth",
                      [Stays]_vars
               PROVE  NeverCut' /\ HistoryWhole'
    OBVIOUS
  <2>1. NeverCut'
    BY NeverCutStep
  <2>2. Drops
    BY DEF Drops, NeverCut, vars
  <2> QED
    BY <2>1, <2>2, HistoryStep
<1>3. Spec => [][Stays]_vars
  BY OthersBoundariesStay DEF OthersStay
<1> HIDE DEF Stays
<1> QED
  BY <1>1, <1>2, <1>3, HistoryInit, TypeAlways, PTL DEF Spec
=============================================================================
