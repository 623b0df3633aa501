----------------------------- MODULE Trust_proofs -----------------------------
(***************************************************************************)
(* Proofs about Trust: what a helper works with is what it recorded, the   *)
(* trust file only moves forward, and the marker stands for it.            *)
(* Then those that rest on the shape of the history: a generation has as   *)
(* many pushes behind it, a rewritten history is reported, and what        *)
(* writers push by the rules no reader refuses and no log complains of.    *)
(***************************************************************************)
EXTENDS Trust, FiniteSetTheorems, TLAPS

-----------------------------------------------------------------------------
\* Types.

\* What was made before stays what it was.
Made == /\ Len(commits) <= Len(commits')
        /\ \A c \in Commits : commits'[c] = commits[c]

LEMMA CommitGrows ==
  ASSUME NEW m \in Nat, NEW n \in Nat, m <= n
  PROVE  Commit(m) \subseteq Commit(n)
<1>1. 1..m \subseteq 1..n /\ 0..m \subseteq 0..n
  OBVIOUS
<1> QED
  BY <1>1 DEF Commit

LEMMA CommitType ==
  ASSUME TypeOK, NEW c \in Commits
  PROVE  commits[c] \in Commit(Len(commits)) /\ c \in Nat /\ c # 0
BY DEF TypeOK, Commits

LEMMA PushedType ==
  ASSUME TypeOK, NEW s \in Member, NEW c \in Position, NEW lists \in Lists, NEW jump \in Nat
  PROVE  /\ Pushed(s, c, lists, jump) \in Commit(Len(commits) + 1)
         /\ Gen(c) \in Nat /\ Line(c) \subseteq Commits
<1>1. Len(commits) \in Nat
  BY DEF TypeOK
<1>2. c # 0 => commits[c] \in Commit(Len(commits))
  BY CommitType DEF Position, Commits
<1>3. c # 0 => commits[c] \in Commit(Len(commits) + 1)
  BY <1>1, <1>2, CommitGrows
<1>4. Gen(c) \in Nat /\ Line(c) \subseteq Commits
  BY <1>2 DEF Gen, Line, Commit, Commits
<1>5. Line(c) \cup {Len(commits) + 1} \subseteq 1..(Len(commits) + 1)
  BY <1>1, <1>4 DEF Commits
<1>6. c \in 0..(Len(commits) + 1) /\ Gen(c) + jump \in Nat
      /\ Len(commits) + 1 \in 1..(Len(commits) + 1)
  BY <1>1, <1>4 DEF Position
<1> QED
  BY <1>3, <1>4, <1>5, <1>6 DEF Pushed, Commit

LEMMA RewrittenType ==
  ASSUME TypeOK, NEW s \in Member, NEW c \in Commits
  PROVE  Rewritten(s, c) \in Commit(Len(commits) + 1)
<1>1. c \in Position /\ commits[c].lists \in Lists /\ Len(commits) \in Nat
  <2>1. commits[c] \in Commit(Len(commits))
    BY CommitType
  <2>2. commits[c].lists \in Lists
    BY <2>1 DEF Commit
  <2> QED
    BY <2>2 DEF Position, Commits, TypeOK
<1>2. Pushed(s, c, commits[c].lists, 1) \in Commit(Len(commits) + 1) /\ Gen(c) + 1 \in Nat
  BY <1>1, PushedType
<1>3. {Len(commits) + 1} \subseteq 1..(Len(commits) + 1)
  BY <1>1
<1> QED
  BY <1>2, <1>3 DEF Rewritten, Commit

(* A commit that lands is the last one made, and the host's branch.        *)
LEMMA LandsType ==
  ASSUME TypeOK, NEW commit \in Commit(Len(commits) + 1), Lands(commit)
  PROVE  /\ commits' \in Seq(Commit(Len(commits'))) /\ Made
         /\ Len(commits') = Len(commits) + 1
         /\ branch' = Len(commits') /\ commits'[branch'] = commit
         /\ Position' = Position \cup {branch'} /\ Commits' = Commits \cup {branch'}
<1>1. commits \in Seq(Commit(Len(commits))) /\ Len(commits) \in Nat
  BY DEF TypeOK
<1>2. Commit(Len(commits)) \subseteq Commit(Len(commits) + 1)
  BY <1>1, CommitGrows
<1>3. commits \in Seq(Commit(Len(commits) + 1))
  BY <1>1, <1>2
<1>4. commits' = Append(commits, commit)
  BY DEF Lands
<1>5. Len(commits') = Len(commits) + 1
  BY <1>1, <1>4
<1>6. commits' \in Seq(Commit(Len(commits) + 1))
  BY <1>3, <1>4
<1>7. (\A c \in Commits : commits'[c] = commits[c]) /\ commits'[Len(commits) + 1] = commit
  BY <1>1, <1>4 DEF Commits
<1>8. branch' = Len(commits) + 1
  BY DEF Lands
<1> QED
  BY <1>1, <1>5, <1>6, <1>7, <1>8 DEF Made, Position, Commits

LEMMA OtherPushLands ==
  ASSUME TypeOK, NEW s \in Member, NEW lists \in Lists, NEW jump \in Jumps,
         OtherPush(s, lists, jump)
  PROVE  Pushed(s, branch, lists, jump) \in Commit(Len(commits) + 1)
BY PushedType, BoundsAssumption DEF TypeOK

LEMMA OtherRewriteLands ==
  ASSUME TypeOK, NEW s \in Member, OtherRewrite(s)
  PROVE  Rewritten(s, branch) \in Commit(Len(commits) + 1)
BY RewrittenType DEF OtherRewrite, TypeOK, Position, Commits

LEMMA PushLands ==
  ASSUME TypeOK, NEW p \in Proc, NEW lists \in Lists, Push(p, lists)
  PROVE  Pushed(Me, tip[p], lists, 1) \in Commit(Len(commits) + 1)
<1>1. tip[p] \in Position
  BY DEF TypeOK
<1>2. tip[p] # 0 => commits[tip[p]].lists \in Lists
  BY <1>1, CommitType DEF Position, Commits, Commit
<1>3. Me \in Member
  BY <1>2, ListsAssumption DEF Push, MayPush
<1> QED
  BY <1>1, <1>3, PushedType

LEMMA TypeInit == Init => TypeOK
<1> SUFFICES ASSUME Init PROVE TypeOK
  OBVIOUS
<1>1. commits = <<>> /\ Len(commits) = 0 /\ commits \in Seq(Commit(Len(commits)))
  BY DEF Init
<1>2. Position = {0}
  BY <1>1 DEF Position
<1> QED
  BY <1>1, <1>2, Zenon DEF Init, TypeOK, Places

(* The commits made, the branch and the helper are all a step may move.    *)
LEMMA SaveType ==
  ASSUME TypeOK, NEW c \in Position, SaveTrust(c)
  PROVE  trust' \in Position
BY DEF SaveTrust, TypeOK

LEMMA TypeStep == TypeOK /\ [Next]_vars => TypeOK'
<1> SUFFICES ASSUME TypeOK, [Next]_vars PROVE TypeOK'
  OBVIOUS
<1>1. ASSUME NEW s \in Member, NEW lists \in Lists, NEW jump \in Jumps, OtherPush(s, lists, jump)
      PROVE  TypeOK'
  BY <1>1, OtherPushLands, LandsType DEF OtherPush, TypeOK, Position, fileVars, helperVars
<1>2. ASSUME NEW s \in Member, OtherRewrite(s) PROVE TypeOK'
  BY <1>2, OtherRewriteLands, LandsType DEF OtherRewrite, TypeOK, Position, fileVars, helperVars
<1>3. ASSUME NEW c \in Commits, HostRestores(c) PROVE TypeOK'
  BY <1>3 DEF HostRestores, TypeOK, Position, Commits, fileVars, helperVars
<1>4. CASE HostDeletes
  BY <1>4 DEF HostDeletes, TypeOK, Position, fileVars, helperVars
<1>5. ASSUME NEW p \in Proc, NEW lists \in Lists, Push(p, lists) PROVE TypeOK'
  <2>1. Pushed(Me, tip[p], lists, 1) \in Commit(Len(commits) + 1)
    BY <1>5, PushLands
  <2>2. /\ commits' \in Seq(Commit(Len(commits')))
        /\ Position' = Position \cup {branch'} /\ branch' = Len(commits) + 1
    BY <1>5, <2>1, LandsType DEF Push, Lands
  <2>3. PICK to \in {"landed", "connect"} : pc' = [pc EXCEPT ![p] = to]
    BY <1>5 DEF Push, Go
  <2>4. pc' \in [Proc -> Places]
    BY <2>3 DEF TypeOK, Places
  <2>5. pushed' = [pushed EXCEPT ![p] = branch']
    BY <1>5, <2>2 DEF Push
  <2> HIDE DEF Position
  <2> QED
    BY <1>5, <2>2, <2>4, <2>5 DEF Push, TypeOK, fileVars
<1>6. ASSUME NEW p \in Proc, Start(p) PROVE TypeOK'
  BY <1>6 DEF Start, Go, TypeOK, Position, Places
<1>7. ASSUME NEW p \in Proc, Fetch(p) PROVE TypeOK'
  BY <1>7 DEF Fetch, LockFetch, FetchTip, Go, TypeOK, Position, Places
<1>8. ASSUME NEW p \in Proc, FetchNothing(p) PROVE TypeOK'
  BY <1>8 DEF FetchNothing, Go, fileVars, TypeOK, Position, Places
<1>9. ASSUME NEW p \in Proc, FetchFails(p) PROVE TypeOK'
  BY <1>9 DEF FetchFails, Exit, fileVars, TypeOK, Position, Places
<1>10. ASSUME NEW p \in Proc, Accept(p) PROVE TypeOK'
  BY <1>10, SaveType DEF Accept, Go, TypeOK, Position, Places
<1>11. ASSUME NEW p \in Proc, Mark(p) PROVE TypeOK'
  BY <1>11 DEF Mark, MarkKnown, Go, TypeOK, Position, Places
<1>12. ASSUME NEW p \in Proc, Refuse(p) PROVE TypeOK'
  BY <1>12 DEF Refuse, Go, TypeOK, Position, Places
<1>13. ASSUME NEW p \in Proc, Record(p) PROVE TypeOK'
  BY <1>13 DEF Record, LockFetch, Go, TypeOK, Position, Places
<1>14. ASSUME NEW p \in Proc, RecordOrphaned(p) PROVE TypeOK'
  BY <1>14 DEF RecordOrphaned, Exit, fileVars, TypeOK, Position, Places
<1>15. ASSUME NEW p \in Proc, SaveRecord(p) PROVE TypeOK'
  BY <1>15, SaveType DEF SaveRecord, Go, TypeOK, Position, Places
<1>16. ASSUME NEW p \in Proc, RecordFails(p) PROVE TypeOK'
  BY <1>16 DEF RecordFails, Go, fileVars, TypeOK, Position, Places
<1>17. ASSUME NEW p \in Proc, Note(p) PROVE TypeOK'
  BY <1>17 DEF Note, MarkKnown, Go, TypeOK, Position, Places
<1>18. ASSUME NEW p \in Proc, NoteFails(p) PROVE TypeOK'
  BY <1>18 DEF NoteFails, Exit, fileVars, TypeOK, Position, Places
<1>19. ASSUME NEW p \in Proc, ForgetMarker(p) PROVE TypeOK'
  <2>1. {branch', trust', tracking'} \subseteq Position'
    BY <1>19 DEF ForgetMarker, TypeOK, Position
  <2>2. {known', dir', told'} \subseteq BOOLEAN
    BY <1>19 DEF ForgetMarker, TypeOK
  <2>3. UNCHANGED <<commits, lock>> /\ Position' = Position /\ 0 \in Position
    BY <1>19 DEF ForgetMarker, Position, TypeOK
  <2>4. /\ pc' \in [Proc -> Places] /\ knew' \in [Proc -> BOOLEAN]
        /\ previous' \in [Proc -> Position] /\ tip' \in [Proc -> Position]
        /\ pushed' \in [Proc -> Position] /\ orphan' \in [Proc -> BOOLEAN]
    BY <1>19, <2>3 DEF ForgetMarker, Exit, TypeOK, Places
  <2> QED
    BY <2>1, <2>2, <2>3, <2>4 DEF TypeOK
<1>20. ASSUME NEW p \in Proc, LostRace(p) PROVE TypeOK'
  BY <1>20 DEF LostRace, Go, fileVars, TypeOK, Position, Places
<1>21. ASSUME NEW p \in Proc, Forget(p) PROVE TypeOK'
  <2>1. {branch', trust', tracking'} \subseteq Position'
    BY <1>21 DEF Forget, TypeOK, Position
  <2>2. {known', dir', told'} \subseteq BOOLEAN
    BY <1>21 DEF Forget, TypeOK
  <2>3. pc' \in [Proc -> Places]
    BY <1>21 DEF Forget, Go, TypeOK, Places
  <2>4. orphan' \in [Proc -> BOOLEAN]
    BY <1>21, Zenon DEF Forget, TypeOK
  <2>5. UNCHANGED <<commits, lock, knew, previous, tip, pushed>> /\ Position' = Position
    BY <1>21 DEF Forget, Position
  <2> QED
    BY <2>1, <2>2, <2>3, <2>4, <2>5 DEF TypeOK
<1>22. ASSUME NEW p \in Proc, End(p) PROVE TypeOK'
  BY <1>22 DEF End, Exit, fileVars, TypeOK, Position, Places
<1>23. ASSUME NEW p \in Proc, Crash(p) PROVE TypeOK'
  BY <1>23 DEF Crash, Exit, fileVars, TypeOK, Position, Places
<1>24. CASE UNCHANGED vars
  BY <1>24 DEF vars, TypeOK, Position
<1> QED
  BY <1>1, <1>2, <1>3, <1>4, <1>5, <1>6, <1>7, <1>8, <1>9, <1>10, <1>11, <1>12, <1>13,
     <1>14, <1>15, <1>16, <1>17, <1>18, <1>19, <1>20, <1>21, <1>22, <1>23, <1>24
     DEF Next, HelperStep

LEMMA TypeAlways == Spec => []TypeOK
BY TypeInit, TypeStep, PTL DEF Spec

-----------------------------------------------------------------------------
\* The lock.

\* Who holds it is at one of three places, and nobody else is.
Locked == \A p \in Proc : lock = p <=> pc[p] \in {"check", "mark", "saving"}

\* What a helper checks or has pushed is a commit.
AtCommit ==
  \A p \in Proc : /\ pc[p] \in {"check", "mark"} => tip[p] # 0
                  /\ pc[p] \in {"landed", "saving", "note"} => pushed[p] # 0

LockInv == TypeOK /\ Locked /\ AtCommit /\ UsedIsRecorded

LEMMA LockInit == Init => LockInv
<1> SUFFICES ASSUME Init PROVE LockInv
  OBVIOUS
<1> QED
  BY TypeInit, NoProcAssumption DEF Init, LockInv, Locked, AtCommit, UsedIsRecorded

(* An accepted manifest is not older than the recorded one.                *)
LEMMA AcceptRecords ==
  ASSUME LockInv, NEW p \in Proc, Accept(p)
  PROVE  trust' = tip[p]
<1>1. tip[p] # 0 /\ tip[p] \in Position /\ trust \in Position
  BY DEF LockInv, TypeOK, AtCommit, Accept
<1>2. trust # 0 => Gen(tip[p]) >= Gen(trust)
  BY DEF Accept, Acceptable, Follows
<1>3. Gen(tip[p]) \in Nat /\ (trust # 0 => Gen(trust) \in Nat)
  BY <1>1, CommitType DEF LockInv, Position, Commits, Gen, Commit
<1> QED
  BY <1>2, <1>3 DEF Accept, SaveTrust

LEMMA LockStep == LockInv /\ [Next]_vars => LockInv'
<1> SUFFICES ASSUME LockInv, [Next]_vars PROVE LockInv'
  OBVIOUS
<1>0. TypeOK'
  BY TypeStep DEF LockInv
<1> DEFINE Kept == Locked /\ AtCommit /\ UsedIsRecorded
<1> USE NoProcAssumption
<1>1. ASSUME NEW s \in Member, NEW lists \in Lists, NEW jump \in Jumps, OtherPush(s, lists, jump)
      PROVE  Kept'
  BY <1>1 DEF OtherPush, LockInv, Locked, AtCommit, UsedIsRecorded, fileVars, helperVars
<1>2. ASSUME NEW s \in Member, OtherRewrite(s) PROVE Kept'
  BY <1>2 DEF OtherRewrite, LockInv, Locked, AtCommit, UsedIsRecorded, fileVars, helperVars
<1>3. ASSUME NEW c \in Commits, HostRestores(c) PROVE Kept'
  BY <1>3 DEF HostRestores, LockInv, Locked, AtCommit, UsedIsRecorded, fileVars, helperVars
<1>4. ASSUME HostDeletes PROVE Kept'
  BY <1>4 DEF HostDeletes, LockInv, Locked, AtCommit, UsedIsRecorded, fileVars, helperVars
<1>5. ASSUME NEW p \in Proc, NEW lists \in Lists, Push(p, lists) PROVE Kept'
  <2>1. PICK to \in {"landed", "connect"} : pc' = [pc EXCEPT ![p] = to]
    BY <1>5 DEF Push, Go
  <2>2. Len(commits) + 1 # 0 /\ pushed' = [pushed EXCEPT ![p] = Len(commits) + 1]
    BY <1>5 DEF Push, LockInv, TypeOK
  <2>3. pc[p] = "ready" /\ UNCHANGED <<lock, tip, trust>>
    BY <1>5 DEF Push, fileVars
  <2> QED
    BY <2>1, <2>2, <2>3 DEF LockInv, TypeOK, Locked, AtCommit, UsedIsRecorded
<1>6. ASSUME NEW p \in Proc, Start(p) PROVE Kept'
  BY <1>6 DEF Start, Go, LockInv, TypeOK, Locked, AtCommit, UsedIsRecorded
<1>7. ASSUME NEW p \in Proc, Fetch(p) PROVE Kept'
  BY <1>7 DEF Fetch, LockFetch, FetchTip, Go, LockInv, TypeOK, Locked, AtCommit, UsedIsRecorded
<1>8. ASSUME NEW p \in Proc, FetchNothing(p) PROVE Kept'
  BY <1>8 DEF FetchNothing, Go, fileVars, LockInv, TypeOK, Locked, AtCommit, UsedIsRecorded
<1>9. ASSUME NEW p \in Proc, FetchFails(p) PROVE Kept'
  BY <1>9 DEF FetchFails, Exit, fileVars, LockInv, TypeOK, Locked, AtCommit, UsedIsRecorded
<1>10. ASSUME NEW p \in Proc, Accept(p) PROVE Kept'
  BY <1>10, AcceptRecords DEF Accept, Go, LockInv, TypeOK, Locked, AtCommit, UsedIsRecorded
<1>11. ASSUME NEW p \in Proc, Mark(p) PROVE Kept'
  BY <1>11 DEF Mark, MarkKnown, Go, LockInv, TypeOK, Locked, AtCommit, UsedIsRecorded
<1>12. ASSUME NEW p \in Proc, Refuse(p) PROVE Kept'
  BY <1>12 DEF Refuse, Go, LockInv, TypeOK, Locked, AtCommit, UsedIsRecorded
<1>13. ASSUME NEW p \in Proc, Record(p) PROVE Kept'
  BY <1>13 DEF Record, LockFetch, Go, LockInv, TypeOK, Locked, AtCommit, UsedIsRecorded
<1>14. ASSUME NEW p \in Proc, RecordOrphaned(p) PROVE Kept'
  BY <1>14 DEF RecordOrphaned, Exit, fileVars, LockInv, TypeOK, Locked, AtCommit, UsedIsRecorded
<1>15. ASSUME NEW p \in Proc, SaveRecord(p) PROVE Kept'
  BY <1>15 DEF SaveRecord, Go, LockInv, TypeOK, Locked, AtCommit, UsedIsRecorded
<1>16. ASSUME NEW p \in Proc, RecordFails(p) PROVE Kept'
  BY <1>16 DEF RecordFails, Go, fileVars, LockInv, TypeOK, Locked, AtCommit, UsedIsRecorded
<1>17. ASSUME NEW p \in Proc, Note(p) PROVE Kept'
  BY <1>17 DEF Note, MarkKnown, Go, LockInv, TypeOK, Locked, AtCommit, UsedIsRecorded
<1>18. ASSUME NEW p \in Proc, NoteFails(p) PROVE Kept'
  BY <1>18 DEF NoteFails, Exit, fileVars, LockInv, TypeOK, Locked, AtCommit, UsedIsRecorded
<1>19. ASSUME NEW p \in Proc, ForgetMarker(p) PROVE Kept'
  BY <1>19 DEF ForgetMarker, Exit, LockInv, TypeOK, Locked, AtCommit, UsedIsRecorded
<1>20. ASSUME NEW p \in Proc, LostRace(p) PROVE Kept'
  BY <1>20 DEF LostRace, Go, fileVars, LockInv, TypeOK, Locked, AtCommit, UsedIsRecorded
<1>21. ASSUME NEW p \in Proc, Forget(p) PROVE Kept'
  BY <1>21 DEF Forget, Go, LockInv, TypeOK, Locked, AtCommit, UsedIsRecorded
<1>22. ASSUME NEW p \in Proc, End(p) PROVE Kept'
  BY <1>22 DEF End, Exit, fileVars, LockInv, TypeOK, Locked, AtCommit, UsedIsRecorded
<1>23. ASSUME NEW p \in Proc, Crash(p) PROVE Kept'
  BY <1>23 DEF Crash, Exit, fileVars, LockInv, TypeOK, Locked, AtCommit, UsedIsRecorded
<1>24. ASSUME UNCHANGED vars PROVE Kept'
  BY <1>24 DEF vars, LockInv, TypeOK, Locked, AtCommit, UsedIsRecorded
<1> QED
  BY <1>0, <1>1, <1>2, <1>3, <1>4, <1>5, <1>6, <1>7, <1>8, <1>9, <1>10, <1>11, <1>12,
     <1>13, <1>14, <1>15, <1>16, <1>17, <1>18, <1>19, <1>20, <1>21, <1>22, <1>23, <1>24
     DEF Next, HelperStep, LockInv

LEMMA LockAlways == Spec => []LockInv
BY LockInit, LockStep, PTL DEF Spec

-----------------------------------------------------------------------------
\* The marker.

(* Without `forget` and with a lock that can be taken, the marker follows  *)
(* the trust file: a push that landed is recorded before it is noted.      *)
MarkerInv ==
  /\ dir = TRUE /\ (known => trust # 0)
  /\ \A p \in Proc : pc[p] # "forgetting" /\ (pc[p] = "note" => trust # 0)

LEMMA MarkerStep ==
  ASSUME Forgetters = {}, LockFailures = {}, LockInv, MarkerInv, [Next]_vars
  PROVE  MarkerInv'
<1>1. ASSUME NEW s \in Member, NEW lists \in Lists, NEW jump \in Jumps, OtherPush(s, lists, jump)
      PROVE  MarkerInv'
  BY <1>1 DEF OtherPush, fileVars, helperVars, MarkerInv, LockInv, TypeOK
<1>2. ASSUME NEW s \in Member, OtherRewrite(s) PROVE MarkerInv'
  BY <1>2 DEF OtherRewrite, fileVars, helperVars, MarkerInv, LockInv, TypeOK
<1>3. ASSUME NEW c \in Commits, HostRestores(c) PROVE MarkerInv'
  BY <1>3 DEF HostRestores, fileVars, helperVars, MarkerInv, LockInv, TypeOK
<1>4. ASSUME HostDeletes PROVE MarkerInv'
  BY <1>4 DEF HostDeletes, fileVars, helperVars, MarkerInv, LockInv, TypeOK
<1>5. ASSUME NEW p \in Proc, NEW lists \in Lists, Push(p, lists) PROVE MarkerInv'
  BY <1>5 DEF Push, Go, fileVars, MarkerInv, LockInv, TypeOK
<1>6. ASSUME NEW p \in Proc, Start(p) PROVE MarkerInv'
  BY <1>6 DEF Start, Go, MarkerInv, LockInv, TypeOK
<1>7. ASSUME NEW p \in Proc, Fetch(p) PROVE MarkerInv'
  BY <1>7 DEF Fetch, LockFetch, FetchTip, Go, MarkerInv, LockInv, TypeOK
<1>8. ASSUME NEW p \in Proc, FetchNothing(p) PROVE MarkerInv'
  BY <1>8 DEF FetchNothing, Go, fileVars, MarkerInv, LockInv, TypeOK
<1>9. ASSUME NEW p \in Proc, FetchFails(p) PROVE MarkerInv'
  BY <1>9 DEF FetchFails, Exit, fileVars, MarkerInv, LockInv, TypeOK
<1>10. ASSUME NEW p \in Proc, Accept(p) PROVE MarkerInv'
  BY <1>10, AcceptRecords DEF Accept, Go, MarkerInv, LockInv, TypeOK, AtCommit
<1>11. ASSUME NEW p \in Proc, Mark(p) PROVE MarkerInv'
  BY <1>11 DEF Mark, MarkKnown, Go, MarkerInv, LockInv, TypeOK, UsedIsRecorded, AtCommit
<1>12. ASSUME NEW p \in Proc, Refuse(p) PROVE MarkerInv'
  BY <1>12 DEF Refuse, Go, MarkerInv, LockInv, TypeOK
<1>13. ASSUME NEW p \in Proc, Record(p) PROVE MarkerInv'
  BY <1>13 DEF Record, LockFetch, Go, MarkerInv, LockInv, TypeOK
<1>14. ASSUME NEW p \in Proc, RecordOrphaned(p) PROVE MarkerInv'
  BY <1>14 DEF RecordOrphaned, Exit, fileVars, MarkerInv, LockInv, TypeOK
<1>15. ASSUME NEW p \in Proc, SaveRecord(p) PROVE MarkerInv'
  BY <1>15 DEF SaveRecord, Go, MarkerInv, LockInv, TypeOK, SaveTrust, AtCommit
<1>16. ASSUME NEW p \in Proc, RecordFails(p) PROVE MarkerInv'
  BY <1>16 DEF RecordFails, Go, fileVars, MarkerInv, LockInv, TypeOK
<1>17. ASSUME NEW p \in Proc, Note(p) PROVE MarkerInv'
  BY <1>17 DEF Note, MarkKnown, Go, MarkerInv, LockInv, TypeOK
<1>18. ASSUME NEW p \in Proc, NoteFails(p) PROVE MarkerInv'
  BY <1>18 DEF NoteFails, Exit, fileVars, MarkerInv, LockInv, TypeOK
<1>19. ASSUME NEW p \in Proc, ForgetMarker(p) PROVE MarkerInv'
  BY <1>19 DEF ForgetMarker, Exit, MarkerInv, LockInv, TypeOK
<1>20. ASSUME NEW p \in Proc, LostRace(p) PROVE MarkerInv'
  BY <1>20 DEF LostRace, Go, fileVars, MarkerInv, LockInv, TypeOK
<1>21. ASSUME NEW p \in Proc, Forget(p) PROVE MarkerInv'
  BY <1>21 DEF Forget, Go, MarkerInv, LockInv, TypeOK
<1>22. ASSUME NEW p \in Proc, End(p) PROVE MarkerInv'
  BY <1>22 DEF End, Exit, fileVars, MarkerInv, LockInv, TypeOK
<1>23. ASSUME NEW p \in Proc, Crash(p) PROVE MarkerInv'
  BY <1>23 DEF Crash, Exit, fileVars, MarkerInv, LockInv, TypeOK
<1>24. ASSUME UNCHANGED vars PROVE MarkerInv'
  BY <1>24 DEF vars, MarkerInv, LockInv, TypeOK
<1> QED
  BY <1>1, <1>2, <1>3, <1>4, <1>5, <1>6, <1>7, <1>8, <1>9, <1>10, <1>11, <1>12, <1>13,
     <1>14, <1>15, <1>16, <1>17, <1>18, <1>19, <1>20, <1>21, <1>22, <1>23, <1>24 DEF Next,
     HelperStep

-----------------------------------------------------------------------------
\* What moves the trust file.

LEMMA TrustMoves ==
  ASSUME LockInv, [Next]_vars, trust' \notin {0, trust}
  PROVE  \E p \in Proc : Accept(p) \/ SaveRecord(p)
<1> SUFFICES ASSUME \A p \in Proc : ~ Accept(p) /\ ~ SaveRecord(p)
             PROVE  trust' \in {0, trust}
  OBVIOUS
<1>1. ASSUME NEW s \in Member, NEW lists \in Lists, NEW jump \in Jumps, OtherPush(s, lists, jump)
      PROVE  trust' \in {0, trust}
  BY <1>1 DEF OtherPush, fileVars, helperVars
<1>2. ASSUME NEW s \in Member, OtherRewrite(s) PROVE trust' \in {0, trust}
  BY <1>2 DEF OtherRewrite, fileVars, helperVars
<1>3. ASSUME NEW c \in Commits, HostRestores(c) PROVE trust' \in {0, trust}
  BY <1>3 DEF HostRestores, fileVars, helperVars
<1>4. ASSUME HostDeletes PROVE trust' \in {0, trust}
  BY <1>4 DEF HostDeletes, fileVars, helperVars
<1>5. ASSUME NEW p \in Proc, NEW lists \in Lists, Push(p, lists) PROVE trust' \in {0, trust}
  BY <1>5 DEF Push, Go, fileVars
<1>6. ASSUME NEW p \in Proc, Start(p) PROVE trust' \in {0, trust}
  BY <1>6 DEF Start, Go
<1>7. ASSUME NEW p \in Proc, Fetch(p) PROVE trust' \in {0, trust}
  BY <1>7 DEF Fetch, LockFetch, FetchTip, Go
<1>8. ASSUME NEW p \in Proc, FetchNothing(p) PROVE trust' \in {0, trust}
  BY <1>8 DEF FetchNothing, Go, fileVars
<1>9. ASSUME NEW p \in Proc, FetchFails(p) PROVE trust' \in {0, trust}
  BY <1>9 DEF FetchFails, Exit, fileVars
<1>10. ASSUME NEW p \in Proc, Accept(p) PROVE trust' \in {0, trust}
  BY <1>10 DEF Accept, Go
<1>11. ASSUME NEW p \in Proc, Mark(p) PROVE trust' \in {0, trust}
  BY <1>11 DEF Mark, MarkKnown, Go
<1>12. ASSUME NEW p \in Proc, Refuse(p) PROVE trust' \in {0, trust}
  BY <1>12 DEF Refuse, Go
<1>13. ASSUME NEW p \in Proc, Record(p) PROVE trust' \in {0, trust}
  BY <1>13 DEF Record, LockFetch, Go
<1>14. ASSUME NEW p \in Proc, RecordOrphaned(p) PROVE trust' \in {0, trust}
  BY <1>14 DEF RecordOrphaned, Exit, fileVars
<1>15. ASSUME NEW p \in Proc, SaveRecord(p) PROVE trust' \in {0, trust}
  BY <1>15 DEF SaveRecord, Go
<1>16. ASSUME NEW p \in Proc, RecordFails(p) PROVE trust' \in {0, trust}
  BY <1>16 DEF RecordFails, Go, fileVars
<1>17. ASSUME NEW p \in Proc, Note(p) PROVE trust' \in {0, trust}
  BY <1>17 DEF Note, MarkKnown, Go
<1>18. ASSUME NEW p \in Proc, NoteFails(p) PROVE trust' \in {0, trust}
  BY <1>18 DEF NoteFails, Exit, fileVars
<1>19. ASSUME NEW p \in Proc, ForgetMarker(p) PROVE trust' \in {0, trust}
  BY <1>19 DEF ForgetMarker, Exit
<1>20. ASSUME NEW p \in Proc, LostRace(p) PROVE trust' \in {0, trust}
  BY <1>20 DEF LostRace, Go, fileVars
<1>21. ASSUME NEW p \in Proc, Forget(p) PROVE trust' \in {0, trust}
  BY <1>21 DEF Forget, Go
<1>22. ASSUME NEW p \in Proc, End(p) PROVE trust' \in {0, trust}
  BY <1>22 DEF End, Exit, fileVars
<1>23. ASSUME NEW p \in Proc, Crash(p) PROVE trust' \in {0, trust}
  BY <1>23 DEF Crash, Exit, fileVars
<1>24. ASSUME UNCHANGED vars PROVE trust' \in {0, trust}
  BY <1>24 DEF vars
<1> QED
  BY <1>1, <1>2, <1>3, <1>4, <1>5, <1>6, <1>7, <1>8, <1>9, <1>10, <1>11, <1>12, <1>13,
     <1>14, <1>15, <1>16, <1>17, <1>18, <1>19, <1>20, <1>21, <1>22, <1>23, <1>24 DEF Next,
     HelperStep

-----------------------------------------------------------------------------
\* The order of the commits.

(* Behind an honest host, every commit lands on the last one: all are of   *)
(* one repository, in the order of their generations.                      *)
InOrder ==
  /\ branch = Len(commits)
  /\ \A c \in Commits :
       /\ commits[c].repo = 1
       /\ \A b \in Commits : b < c => commits[b].generation < commits[c].generation

LEMMA LandsInOrder ==
  ASSUME TypeOK, InOrder, NEW s \in Member, NEW lists \in Lists, NEW jump \in Nat \ {0},
         NEW commit \in Commit(Len(commits) + 1), Lands(commit),
         commit.generation = Gen(branch) + jump,
         commit.repo = Pushed(s, branch, lists, jump).repo
  PROVE  InOrder'
<1>1. /\ Len(commits') = Len(commits) + 1 /\ Made
      /\ branch' = Len(commits') /\ commits'[branch'] = commit
      /\ Commits' = Commits \cup {branch'} /\ Len(commits) \in Nat
  BY LandsType DEF TypeOK
<1>2. \A c \in Commits : commits[c].generation \in Nat /\ c \in Nat /\ c <= branch
  BY CommitType DEF Commit, InOrder, Commits
<1>3. commit.repo = 1
  <2>1. branch = 0 => commit.repo = 1
    BY DEF InOrder, Pushed
  <2>2. branch # 0 => branch \in Commits /\ commit.repo = commits[branch].repo
    BY DEF Pushed, TypeOK, Position, Commits
  <2> QED
    BY <2>1, <2>2 DEF InOrder
<1>4. \A b \in Commits : commits[b].generation < commit.generation
  <2> SUFFICES ASSUME NEW b \in Commits
               PROVE  commits[b].generation < commit.generation
    OBVIOUS
  <2>1. branch # 0 /\ branch \in Commits /\ Gen(branch) = commits[branch].generation
    BY <1>2 DEF Gen, TypeOK, Position, Commits
  <2>2. commits[b].generation <= commits[branch].generation
    BY <1>2, <2>1 DEF InOrder
  <2> QED
    BY <1>2, <2>1, <2>2
<1>5. branch' \notin Commits /\ (\A c \in Commits : c < branch')
  BY <1>1, <1>2 DEF Commits
<1> HIDE DEF Commits
<1>6. \A c \in Commits : commits'[c] = commits[c]
  BY <1>1 DEF Made
<1>7. ASSUME NEW c \in Commits' PROVE commits'[c].repo = 1
  BY <1>1, <1>3, <1>6, <1>7 DEF InOrder
<1>8. ASSUME NEW b \in Commits', NEW c \in Commits', b < c
      PROVE  commits'[b].generation < commits'[c].generation
  <2>1. b \in Commits
    BY <1>1, <1>2, <1>5, <1>8
  <2> QED
    BY <1>1, <1>4, <1>6, <1>8, <2>1 DEF InOrder
<1> QED
  BY <1>1, <1>7, <1>8 DEF InOrder

LEMMA OrderStep ==
  ASSUME HostFaults = {}, 0 \notin Jumps, TypeOK, InOrder, [Next]_vars
  PROVE  InOrder'
<1>1. ASSUME NEW s \in Member, NEW lists \in Lists, NEW jump \in Jumps, OtherPush(s, lists, jump)
      PROVE  InOrder'
  <2>1. Pushed(s, branch, lists, jump) \in Commit(Len(commits) + 1) /\ jump \in Nat \ {0}
    BY <1>1, OtherPushLands, BoundsAssumption
  <2>2. Pushed(s, branch, lists, jump).generation = Gen(branch) + jump
    BY DEF Pushed
  <2> QED
    BY <1>1, <2>1, <2>2, LandsInOrder DEF OtherPush
<1>2. ASSUME NEW s \in Member, OtherRewrite(s) PROVE InOrder'
  <2>0. branch \in Commits
    BY <1>2 DEF OtherRewrite, TypeOK, Position, Commits
  <2>1. commits[branch].lists \in Lists
    BY <2>0, CommitType DEF Commit
  <2>2. Rewritten(s, branch) \in Commit(Len(commits) + 1)
    BY <1>2, OtherRewriteLands
  <2>3. /\ Rewritten(s, branch).generation = Gen(branch) + 1
        /\ Rewritten(s, branch).repo = Pushed(s, branch, commits[branch].lists, 1).repo
    BY DEF Rewritten, Pushed
  <2> QED
    BY <1>2, <2>1, <2>2, <2>3, LandsInOrder DEF OtherRewrite
<1>3. ASSUME NEW c \in Commits, HostRestores(c) PROVE InOrder'
  BY <1>3 DEF HostRestores, fileVars, helperVars, InOrder, Commits
<1>4. ASSUME HostDeletes PROVE InOrder'
  BY <1>4 DEF HostDeletes, fileVars, helperVars, InOrder, Commits
<1>5. ASSUME NEW p \in Proc, NEW lists \in Lists, Push(p, lists) PROVE InOrder'
  <2>1. Pushed(Me, branch, lists, 1) \in Commit(Len(commits) + 1)
    BY <1>5, PushLands DEF Push
  <2>2. Pushed(Me, branch, lists, 1).generation = Gen(branch) + 1
    BY DEF Pushed
  <2>3. Me \in Member
    BY <2>1 DEF Pushed, Commit
  <2> QED
    BY <1>5, <2>1, <2>2, <2>3, LandsInOrder DEF Push
<1>6. ASSUME NEW p \in Proc, Start(p) PROVE InOrder'
  BY <1>6 DEF Start, Go, InOrder, Commits
<1>7. ASSUME NEW p \in Proc, Fetch(p) PROVE InOrder'
  BY <1>7 DEF Fetch, LockFetch, FetchTip, Go, InOrder, Commits
<1>8. ASSUME NEW p \in Proc, FetchNothing(p) PROVE InOrder'
  BY <1>8 DEF FetchNothing, Go, fileVars, InOrder, Commits
<1>9. ASSUME NEW p \in Proc, FetchFails(p) PROVE InOrder'
  BY <1>9 DEF FetchFails, Exit, fileVars, InOrder, Commits
<1>10. ASSUME NEW p \in Proc, Accept(p) PROVE InOrder'
  BY <1>10 DEF Accept, Go, InOrder, Commits
<1>11. ASSUME NEW p \in Proc, Mark(p) PROVE InOrder'
  BY <1>11 DEF Mark, MarkKnown, Go, InOrder, Commits
<1>12. ASSUME NEW p \in Proc, Refuse(p) PROVE InOrder'
  BY <1>12 DEF Refuse, Go, InOrder, Commits
<1>13. ASSUME NEW p \in Proc, Record(p) PROVE InOrder'
  BY <1>13 DEF Record, LockFetch, Go, InOrder, Commits
<1>14. ASSUME NEW p \in Proc, RecordOrphaned(p) PROVE InOrder'
  BY <1>14 DEF RecordOrphaned, Exit, fileVars, InOrder, Commits
<1>15. ASSUME NEW p \in Proc, SaveRecord(p) PROVE InOrder'
  BY <1>15 DEF SaveRecord, Go, InOrder, Commits
<1>16. ASSUME NEW p \in Proc, RecordFails(p) PROVE InOrder'
  BY <1>16 DEF RecordFails, Go, fileVars, InOrder, Commits
<1>17. ASSUME NEW p \in Proc, Note(p) PROVE InOrder'
  BY <1>17 DEF Note, MarkKnown, Go, InOrder, Commits
<1>18. ASSUME NEW p \in Proc, NoteFails(p) PROVE InOrder'
  BY <1>18 DEF NoteFails, Exit, fileVars, InOrder, Commits
<1>19. ASSUME NEW p \in Proc, ForgetMarker(p) PROVE InOrder'
  BY <1>19 DEF ForgetMarker, Exit, InOrder, Commits
<1>20. ASSUME NEW p \in Proc, LostRace(p) PROVE InOrder'
  BY <1>20 DEF LostRace, Go, fileVars, InOrder, Commits
<1>21. ASSUME NEW p \in Proc, Forget(p) PROVE InOrder'
  BY <1>21 DEF Forget, Go, InOrder, Commits
<1>22. ASSUME NEW p \in Proc, End(p) PROVE InOrder'
  BY <1>22 DEF End, Exit, fileVars, InOrder, Commits
<1>23. ASSUME NEW p \in Proc, Crash(p) PROVE InOrder'
  BY <1>23 DEF Crash, Exit, fileVars, InOrder, Commits
<1>24. ASSUME UNCHANGED vars PROVE InOrder'
  BY <1>24 DEF vars, InOrder, Commits
<1> QED
  BY <1>1, <1>2, <1>3, <1>4, <1>5, <1>6, <1>7, <1>8, <1>9, <1>10, <1>11, <1>12, <1>13,
     <1>14, <1>15, <1>16, <1>17, <1>18, <1>19, <1>20, <1>21, <1>22, <1>23, <1>24 DEF Next,
     HelperStep

LEMMA OrderInit == Init => InOrder
BY DEF Init, InOrder, Commits

(* With nobody who pushes, nothing is recorded of a push.                  *)
NoPushes == \A p \in Proc : pc[p] \notin {"landed", "saving", "note"}

LEMMA NoPushesStep ==
  ASSUME Pushers = {}, TypeOK, NoPushes, [Next]_vars
  PROVE  NoPushes'
<1>1. ASSUME NEW s \in Member, NEW lists \in Lists, NEW jump \in Jumps, OtherPush(s, lists, jump)
      PROVE  NoPushes'
  BY <1>1 DEF OtherPush, fileVars, helperVars, NoPushes, TypeOK
<1>2. ASSUME NEW s \in Member, OtherRewrite(s) PROVE NoPushes'
  BY <1>2 DEF OtherRewrite, fileVars, helperVars, NoPushes, TypeOK
<1>3. ASSUME NEW c \in Commits, HostRestores(c) PROVE NoPushes'
  BY <1>3 DEF HostRestores, fileVars, helperVars, NoPushes, TypeOK
<1>4. ASSUME HostDeletes PROVE NoPushes'
  BY <1>4 DEF HostDeletes, fileVars, helperVars, NoPushes, TypeOK
<1>5. ASSUME NEW p \in Proc, NEW lists \in Lists, Push(p, lists) PROVE NoPushes'
  BY <1>5 DEF Push, Go, fileVars, NoPushes, TypeOK
<1>6. ASSUME NEW p \in Proc, Start(p) PROVE NoPushes'
  BY <1>6 DEF Start, Go, NoPushes, TypeOK
<1>7. ASSUME NEW p \in Proc, Fetch(p) PROVE NoPushes'
  BY <1>7 DEF Fetch, LockFetch, FetchTip, Go, NoPushes, TypeOK
<1>8. ASSUME NEW p \in Proc, FetchNothing(p) PROVE NoPushes'
  BY <1>8 DEF FetchNothing, Go, fileVars, NoPushes, TypeOK
<1>9. ASSUME NEW p \in Proc, FetchFails(p) PROVE NoPushes'
  BY <1>9 DEF FetchFails, Exit, fileVars, NoPushes, TypeOK
<1>10. ASSUME NEW p \in Proc, Accept(p) PROVE NoPushes'
  BY <1>10 DEF Accept, Go, NoPushes, TypeOK
<1>11. ASSUME NEW p \in Proc, Mark(p) PROVE NoPushes'
  BY <1>11 DEF Mark, MarkKnown, Go, NoPushes, TypeOK
<1>12. ASSUME NEW p \in Proc, Refuse(p) PROVE NoPushes'
  BY <1>12 DEF Refuse, Go, NoPushes, TypeOK
<1>13. ASSUME NEW p \in Proc, Record(p) PROVE NoPushes'
  BY <1>13 DEF Record, LockFetch, Go, NoPushes, TypeOK
<1>14. ASSUME NEW p \in Proc, RecordOrphaned(p) PROVE NoPushes'
  BY <1>14 DEF RecordOrphaned, Exit, fileVars, NoPushes, TypeOK
<1>15. ASSUME NEW p \in Proc, SaveRecord(p) PROVE NoPushes'
  BY <1>15 DEF SaveRecord, Go, NoPushes, TypeOK
<1>16. ASSUME NEW p \in Proc, RecordFails(p) PROVE NoPushes'
  BY <1>16 DEF RecordFails, Go, fileVars, NoPushes, TypeOK
<1>17. ASSUME NEW p \in Proc, Note(p) PROVE NoPushes'
  BY <1>17 DEF Note, MarkKnown, Go, NoPushes, TypeOK
<1>18. ASSUME NEW p \in Proc, NoteFails(p) PROVE NoPushes'
  BY <1>18 DEF NoteFails, Exit, fileVars, NoPushes, TypeOK
<1>19. ASSUME NEW p \in Proc, ForgetMarker(p) PROVE NoPushes'
  BY <1>19 DEF ForgetMarker, Exit, NoPushes, TypeOK
<1>20. ASSUME NEW p \in Proc, LostRace(p) PROVE NoPushes'
  BY <1>20 DEF LostRace, Go, fileVars, NoPushes, TypeOK
<1>21. ASSUME NEW p \in Proc, Forget(p) PROVE NoPushes'
  BY <1>21 DEF Forget, Go, NoPushes, TypeOK
<1>22. ASSUME NEW p \in Proc, End(p) PROVE NoPushes'
  BY <1>22 DEF End, Exit, fileVars, NoPushes, TypeOK
<1>23. ASSUME NEW p \in Proc, Crash(p) PROVE NoPushes'
  BY <1>23 DEF Crash, Exit, fileVars, NoPushes, TypeOK
<1>24. ASSUME UNCHANGED vars PROVE NoPushes'
  BY <1>24 DEF vars, NoPushes, TypeOK
<1> QED
  BY <1>1, <1>2, <1>3, <1>4, <1>5, <1>6, <1>7, <1>8, <1>9, <1>10, <1>11, <1>12, <1>13,
     <1>14, <1>15, <1>16, <1>17, <1>18, <1>19, <1>20, <1>21, <1>22, <1>23, <1>24 DEF Next,
     HelperStep

-----------------------------------------------------------------------------
\* The theorems.

(* Every variable keeps its type, whatever the host and the helpers do.    *)
THEOREM TypeCorrect == Spec => []TypeOK
BY TypeAlways

(* A helper goes on with the very manifest it recorded: what another one   *)
(* records meanwhile is behind the fetch lock (remote.rs:412-415).         *)
THEOREM UsesWhatItRecorded == Spec => []UsedIsRecorded
<1>1. LockInv => UsedIsRecorded
  BY DEF LockInv
<1> QED
  BY <1>1, LockAlways, PTL

(* Where nobody runs `forget` and the lock can be taken after a push, no   *)
(* crash and no race leaves the contact marker without trust state         *)
(* (remote.rs:417, 558).                                                   *)
THEOREM MarkerStands ==
  ASSUME Forgetters = {}, LockFailures = {}
  PROVE  Spec => []MarkerMeansTrust
<1>1. Init => MarkerInv
  BY DEF Init, MarkerInv
<1>2. LockInv /\ MarkerInv /\ [Next]_vars => MarkerInv'
  BY MarkerStep
<1>3. MarkerInv => MarkerMeansTrust
  BY DEF MarkerInv, MarkerMeansTrust
<1> QED
  BY <1>1, <1>2, <1>3, LockAlways, PTL DEF Spec

(* What an accepted manifest moves is its generation, forwards, of one     *)
(* repository: whatever the host does where this clone does not push, and  *)
(* whatever the helpers do behind an honest host (remote.rs:307).          *)
LEMMA AcceptAdvances ==
  ASSUME LockInv, NEW p \in Proc, Accept(p), trust # 0, trust' # trust,
         RefuseForks \/ InOrder
  PROVE  /\ commits'[trust'].generation > Gen(trust)
         /\ commits'[trust'].repo = commits[trust].repo
<1> DEFINE c == tip[p]
<1>1. trust' = c /\ c # 0 /\ commits' = commits
  BY AcceptRecords DEF Accept, LockInv, AtCommit
<1>2. c \in Commits /\ trust \in Commits /\ c # trust
  BY <1>1 DEF LockInv, TypeOK, Position, Commits
<1>3. commits[c].repo = commits[trust].repo /\ Gen(c) >= Gen(trust) /\ (RefuseForks => ~Forked(c))
  BY DEF Accept, Acceptable, Follows
<1>4. /\ Gen(c) = commits[c].generation /\ Gen(trust) = commits[trust].generation
      /\ Gen(c) \in Nat /\ Gen(trust) \in Nat /\ c \in Nat /\ trust \in Nat
  BY <1>1, <1>2, CommitType DEF LockInv, Commit, Gen
<1>5. Gen(c) # Gen(trust)
  <2>1. CASE RefuseForks
    BY <2>1, <1>2, <1>3 DEF Forked
  <2>2. CASE InOrder
    <3>1. c < trust \/ trust < c
      BY <1>2, <1>4
    <3> QED
      BY <2>2, <3>1, <1>2, <1>4 DEF InOrder
  <2> QED
    BY <2>1, <2>2
<1> QED
  BY <1>1, <1>3, <1>4, <1>5

LEMMA SaveAdvances ==
  ASSUME LockInv, InOrder, NEW p \in Proc, SaveRecord(p), trust # 0, trust' # trust
  PROVE  /\ commits'[trust'].generation > Gen(trust)
         /\ commits'[trust'].repo = commits[trust].repo
<1> DEFINE c == pushed[p]
<1>1. trust' = c /\ c # 0 /\ commits' = commits /\ ~(Gen(trust) > Gen(c))
  BY DEF SaveRecord, SaveTrust, LockInv, AtCommit
<1>2. c \in Commits /\ trust \in Commits /\ c # trust
  BY <1>1 DEF LockInv, TypeOK, Position, Commits
<1>3. /\ Gen(c) = commits[c].generation /\ Gen(trust) = commits[trust].generation
      /\ Gen(c) \in Nat /\ Gen(trust) \in Nat /\ c \in Nat /\ trust \in Nat
  BY <1>1, <1>2, CommitType DEF LockInv, Commit, Gen
<1>4. c < trust \/ trust < c
  BY <1>2, <1>3
<1> QED
  BY <1>1, <1>2, <1>3, <1>4 DEF InOrder

(* What was accepted is never taken back (save_trust, remote.rs:307): with *)
(* forks refused, whatever the host serves to helpers that only read; with *)
(* an honest host, however late a push is recorded.                        *)
THEOREM TrustOnlyAdvances ==
  ASSUME \/ Pushers = {} /\ RefuseForks
         \/ HostFaults = {} /\ 0 \notin Jumps
  PROVE  Spec => TrustAdvances
<1> DEFINE Order == IF Pushers = {} /\ RefuseForks THEN NoPushes ELSE InOrder
           Advance == trust # 0 /\ trust' \notin {0, trust} =>
                        /\ commits'[trust'].generation > Gen(trust)
                        /\ commits'[trust'].repo = commits[trust].repo
<1>1. Init => Order
  BY OrderInit DEF Init, NoPushes
<1>2. LockInv /\ Order /\ [Next]_vars => Order'
  BY NoPushesStep, OrderStep DEF LockInv
<1>3. LockInv /\ Order /\ [Next]_vars => Advance
  <2> SUFFICES ASSUME LockInv, Order, [Next]_vars, trust # 0, trust' \notin {0, trust}
               PROVE  /\ commits'[trust'].generation > Gen(trust)
                      /\ commits'[trust'].repo = commits[trust].repo
    OBVIOUS
  <2>1. PICK p \in Proc : Accept(p) \/ SaveRecord(p)
    BY TrustMoves
  <2>2. CASE Accept(p)
    BY <2>2, AcceptAdvances
  <2>3. CASE SaveRecord(p)
    <3>1. InOrder
      BY <2>3 DEF SaveRecord, NoPushes
    <3> QED
      BY <2>3, <3>1, SaveAdvances
  <2> QED
    BY <2>1, <2>2, <2>3
<1> HIDE DEF Order, Advance
<1>4. LockInv /\ Order /\ [Next]_vars => [Advance]_vars
  BY <1>3
<1>5. Spec => [][Advance]_vars
  BY <1>1, <1>2, <1>4, LockAlways, PTL DEF Spec
<1> QED
  BY <1>5 DEF TrustAdvances, Advance

-----------------------------------------------------------------------------
\* The pushes behind a generation.

(* Where no history is rewritten and the host does not move the branch     *)
(* back, the first-parent chain of a commit is all of its repository up to *)
(* it.                                                                     *)
Straight ==
  /\ branch \in {0, Len(commits)}
  /\ \A c \in Commits :
       /\ commits[c].epoch = 0 /\ commits[c].repo \in 1..c
       /\ commits[c].line = commits[c].repo..c
       /\ \A x \in commits[c].line : commits[x].repo = commits[c].repo

LEMMA LandsStraight ==
  ASSUME TypeOK, Straight, NEW s, NEW lists, NEW jump,
         Pushed(s, branch, lists, jump) \in Commit(Len(commits) + 1),
         Lands(Pushed(s, branch, lists, jump))
  PROVE  Straight'
<1> DEFINE commit == Pushed(s, branch, lists, jump)
           n == Len(commits) + 1
<1>1. /\ Len(commits') = n /\ Made
      /\ branch' = Len(commits') /\ commits'[branch'] = commit
      /\ Commits' = Commits \cup {branch'} /\ Len(commits) \in Nat
  BY LandsType DEF TypeOK
<1>2. (\A c \in Commits : commits'[c] = commits[c] /\ c # n) /\ branch' = n
  BY <1>1 DEF Made, Commits
<1>3. \A c \in Commits : commits[c].line \subseteq Commits
  BY CommitType DEF Commit, Commits
<1>4. /\ commit.epoch = 0 /\ commit.repo \in 1..n /\ commit.line = commit.repo..n
      /\ \A x \in commit.line \ {n} : x \in Commits /\ commits[x].repo = commit.repo
  <2>1. CASE branch = 0
    <3>1. commit.epoch = 0 /\ commit.repo = n /\ commit.line = {n}
      BY <2>1 DEF Pushed, Line
    <3>2. n..n = {n}
      BY <1>1
    <3> QED
      BY <1>1, <3>1, <3>2
  <2>2. CASE branch # 0
    <3>1. branch \in Commits /\ branch = Len(commits)
      BY <2>2, <1>1 DEF Straight, Commits
    <3>2. /\ commit.epoch = commits[branch].epoch /\ commit.repo = commits[branch].repo
          /\ commit.line = commits[branch].line \cup {n}
      BY <2>2 DEF Pushed, Line
    <3> HIDE DEF commit
    <3>3. /\ commits[branch].epoch = 0 /\ commits[branch].repo \in 1..branch
          /\ commits[branch].line = commits[branch].repo..branch
          /\ \A x \in commits[branch].line : x \in Commits /\ commits[x].repo = commits[branch].repo
      BY <3>1, <1>3 DEF Straight
    <3>4. (commits[branch].repo..branch) \cup {n} = commits[branch].repo..n
      BY <3>1, <3>3, <1>1
    <3> QED
      BY <1>1, <3>1, <3>2, <3>3, <3>4
  <2> QED
    BY <2>1, <2>2
<1> HIDE DEF commit, Commits, n
<1>5. ASSUME NEW c \in Commits
      PROVE  /\ commits'[c].epoch = 0 /\ commits'[c].repo \in 1..c
             /\ commits'[c].line = commits'[c].repo..c
             /\ \A x \in commits'[c].line : commits'[x].repo = commits'[c].repo
  <2>1. commits'[c] = commits[c]
    BY <1>2
  <2>2. \A x \in commits[c].line : commits'[x] = commits[x]
    BY <1>2, <1>3
  <2> QED
    BY <2>1, <2>2 DEF Straight
<1>6. \A x \in commit.line : commits'[x].repo = commit.repo
  BY <1>1, <1>2, <1>4
<1> QED
  BY <1>1, <1>2, <1>4, <1>5, <1>6 DEF Straight

LEMMA StraightStep ==
  ASSUME Rewriters = {}, "restore" \notin HostFaults, TypeOK, Straight, [Next]_vars
  PROVE  Straight'
<1>1. ASSUME NEW s \in Member, NEW lists \in Lists, NEW jump \in Jumps, OtherPush(s, lists, jump)
      PROVE  Straight'
  BY <1>1, OtherPushLands, LandsStraight DEF OtherPush
<1>2. ASSUME NEW s \in Member, OtherRewrite(s) PROVE Straight'
  BY <1>2 DEF OtherRewrite, fileVars, helperVars, Straight, Commits
<1>3. ASSUME NEW c \in Commits, HostRestores(c) PROVE Straight'
  BY <1>3 DEF HostRestores, fileVars, helperVars, Straight, Commits
<1>4. ASSUME HostDeletes PROVE Straight'
  BY <1>4 DEF HostDeletes, fileVars, helperVars, Straight, Commits
<1>5. ASSUME NEW p \in Proc, NEW lists \in Lists, Push(p, lists) PROVE Straight'
  BY <1>5, PushLands, LandsStraight DEF Push
<1>6. ASSUME NEW p \in Proc, Start(p) PROVE Straight'
  BY <1>6 DEF Start, Go, Straight, Commits
<1>7. ASSUME NEW p \in Proc, Fetch(p) PROVE Straight'
  BY <1>7 DEF Fetch, LockFetch, FetchTip, Go, Straight, Commits
<1>8. ASSUME NEW p \in Proc, FetchNothing(p) PROVE Straight'
  BY <1>8 DEF FetchNothing, Go, fileVars, Straight, Commits
<1>9. ASSUME NEW p \in Proc, FetchFails(p) PROVE Straight'
  BY <1>9 DEF FetchFails, Exit, fileVars, Straight, Commits
<1>10. ASSUME NEW p \in Proc, Accept(p) PROVE Straight'
  BY <1>10 DEF Accept, Go, Straight, Commits
<1>11. ASSUME NEW p \in Proc, Mark(p) PROVE Straight'
  BY <1>11 DEF Mark, MarkKnown, Go, Straight, Commits
<1>12. ASSUME NEW p \in Proc, Refuse(p) PROVE Straight'
  BY <1>12 DEF Refuse, Go, Straight, Commits
<1>13. ASSUME NEW p \in Proc, Record(p) PROVE Straight'
  BY <1>13 DEF Record, LockFetch, Go, Straight, Commits
<1>14. ASSUME NEW p \in Proc, RecordOrphaned(p) PROVE Straight'
  BY <1>14 DEF RecordOrphaned, Exit, fileVars, Straight, Commits
<1>15. ASSUME NEW p \in Proc, SaveRecord(p) PROVE Straight'
  BY <1>15 DEF SaveRecord, Go, Straight, Commits
<1>16. ASSUME NEW p \in Proc, RecordFails(p) PROVE Straight'
  BY <1>16 DEF RecordFails, Go, fileVars, Straight, Commits
<1>17. ASSUME NEW p \in Proc, Note(p) PROVE Straight'
  BY <1>17 DEF Note, MarkKnown, Go, Straight, Commits
<1>18. ASSUME NEW p \in Proc, NoteFails(p) PROVE Straight'
  BY <1>18 DEF NoteFails, Exit, fileVars, Straight, Commits
<1>19. ASSUME NEW p \in Proc, ForgetMarker(p) PROVE Straight'
  BY <1>19 DEF ForgetMarker, Exit, Straight, Commits
<1>20. ASSUME NEW p \in Proc, LostRace(p) PROVE Straight'
  BY <1>20 DEF LostRace, Go, fileVars, Straight, Commits
<1>21. ASSUME NEW p \in Proc, Forget(p) PROVE Straight'
  BY <1>21 DEF Forget, Go, Straight, Commits
<1>22. ASSUME NEW p \in Proc, End(p) PROVE Straight'
  BY <1>22 DEF End, Exit, fileVars, Straight, Commits
<1>23. ASSUME NEW p \in Proc, Crash(p) PROVE Straight'
  BY <1>23 DEF Crash, Exit, fileVars, Straight, Commits
<1>24. ASSUME UNCHANGED vars PROVE Straight'
  BY <1>24 DEF vars, Straight, Commits
<1> QED
  BY <1>1, <1>2, <1>3, <1>4, <1>5, <1>6, <1>7, <1>8, <1>9, <1>10, <1>11, <1>12, <1>13,
     <1>14, <1>15, <1>16, <1>17, <1>18, <1>19, <1>20, <1>21, <1>22, <1>23, <1>24 DEF Next,
     HelperStep

(* A commit as many pushes behind as its generation says.                  *)
Bounded(c) == Gen(c) <= Cardinality(Line(c))

BoundedInv ==
  /\ trust # 0 => Bounded(trust)
  /\ \A p \in Proc :
       /\ pc[p] = "check" => trust <= tip[p]
       /\ pc[p] \in {"mark", "ready", "landed", "saving", "note"} => Bounded(tip[p])
       /\ pc[p] \in {"landed", "saving", "note"} => Bounded(pushed[p])

LEMMA BoundedStays ==
  ASSUME TypeOK, Made, NEW c \in Position
  PROVE  Bounded(c)' = Bounded(c)
<1>1. c # 0 => commits'[c] = commits[c]
  BY DEF Made, Position, Commits, TypeOK
<1> QED
  BY <1>1 DEF Bounded, Gen, Line

LEMMA NothingBounded == Bounded(0)
BY FS_EmptySet DEF Bounded, Gen, Line

LEMMA LineCount ==
  ASSUME TypeOK, Straight, NEW c \in Commits
  PROVE  /\ Line(c) = commits[c].repo..c /\ commits[c].repo \in 1..c /\ c \in Nat
         /\ Cardinality(Line(c)) = c - commits[c].repo + 1
<1>1. c \in Nat /\ c # 0 /\ Line(c) = commits[c].repo..c /\ commits[c].repo \in 1..c
  BY CommitType DEF Straight, Line
<1> QED
  BY <1>1, FS_Interval

LEMMA AcceptBounded ==
  ASSUME LockInv, Straight, BoundedInv, NEW p \in Proc, pc[p] = "check", Acceptable(p, tip[p])
  PROVE  Bounded(tip[p])
<1> DEFINE c == tip[p]
           r == commits[c].repo
<1>1. TypeOK /\ c \in Commits /\ trust \in Position
  BY DEF LockInv, TypeOK, AtCommit, Position, Commits
<1>2. /\ Line(c) = r..c /\ r \in 1..c /\ c \in Nat
      /\ Cardinality(Line(c)) = c - r + 1
  BY <1>1, LineCount
<1>3. RewriteEpoch(c) = 0
  <2>1. r \in Line(c) /\ \A x \in Line(c) : r <= x
    BY <1>2
  <2> DEFINE root == CHOOSE a \in Line(c) : \A x \in Line(c) : a <= x
  <2>2. root \in Line(c)
    BY <2>1
  <2>3. root \in Commits
    BY <1>1, <1>2, <2>2 DEF Commits
  <2> QED
    BY <2>3 DEF RewriteEpoch, Straight
<1>4. \A limit \in GenerationLimit(c) : Gen(c) <= limit
  BY DEF Acceptable, JumpAllowed
<1>5. CASE trust = 0
  <2>1. GenerationLimit(c) = {Cardinality(Line(c))}
    BY <1>3, <1>5 DEF GenerationLimit
  <2> QED
    BY <1>4, <2>1 DEF Bounded
<1>6. CASE trust # 0
  <2>1. trust \in Commits
    BY <1>1, <1>6 DEF Position, Commits, LockInv, TypeOK
  <2>2. /\ Line(trust) = commits[trust].repo..trust /\ commits[trust].repo \in 1..trust
        /\ trust \in Nat /\ Cardinality(Line(trust)) = trust - commits[trust].repo + 1
    BY <1>1, <2>1, LineCount
  <2>3. commits[trust].repo = r /\ trust <= c
    BY <1>6 DEF Acceptable, Follows, BoundedInv
  <2>4. trust \in Line(c) /\ Line(c) \ Line(trust) = (trust + 1)..c
    BY <1>2, <2>2, <2>3
  <2>5. Cardinality(Line(c) \ Line(trust)) = c - trust
    <3>1. trust + 1 \in Int /\ c \in Int
      BY <1>2, <2>2
    <3>2. Cardinality((trust + 1)..c) = IF trust + 1 > c THEN 0 ELSE c - (trust + 1) + 1
      BY <3>1, FS_Interval
    <3>3. Cardinality((trust + 1)..c) = c - trust
      BY <1>2, <2>2, <2>3, <3>2
    <3> QED
      BY <2>4, <3>3
  <2>6. GenerationLimit(c) = {Gen(trust) + (c - trust)}
    BY <1>6, <2>4, <2>5 DEF GenerationLimit, IsAncestor
  <2>7. Gen(trust) <= trust - r + 1
    BY <1>6, <2>2, <2>3 DEF BoundedInv, Bounded
  <2>8. Gen(trust) \in Nat /\ Gen(c) \in Nat
    BY <1>1, <2>1, CommitType DEF Gen, Commit
  <2> HIDE DEF c, r
  <2>9. Gen(c) <= Gen(trust) + (c - trust)
    BY <1>4, <2>6 DEF c
  <2>10. r \in Nat
    BY <1>2
  <2>11. Gen(c) <= c - r + 1
    BY <1>2, <2>2, <2>7, <2>8, <2>9, <2>10
  <2> QED
    BY <1>2, <2>11 DEF Bounded, c
<1> QED
  BY <1>5, <1>6

(* A push puts one generation and one commit on top.                       *)
LEMMA PushBounded ==
  ASSUME TypeOK, NEW s, NEW c \in Position, NEW lists, Bounded(c),
         NEW n, n = Len(commits) + 1,
         Pushed(s, c, lists, 1) \in Commit(Len(commits) + 1), Lands(Pushed(s, c, lists, 1))
  PROVE  Bounded(n)'
<1>1. commits'[n] = Pushed(s, c, lists, 1) /\ n \in Nat /\ n # 0 /\ Len(commits) \in Nat
  BY LandsType DEF TypeOK
<1>2. Gen(n)' = Gen(c) + 1 /\ Line(n)' = Line(c) \cup {n}
  BY <1>1 DEF Gen, Line, Pushed
<1>3. Line(c) \subseteq 1..Len(commits) /\ Gen(c) \in Nat
  <2>1. CASE c = 0
    BY <2>1 DEF Line, Gen
  <2>2. CASE c # 0
    <3>1. commits[c] \in Commit(Len(commits))
      BY <2>2, CommitType DEF Position, Commits, TypeOK
    <3> QED
      BY <2>2, <3>1 DEF Line, Gen, Commit
  <2> QED
    BY <2>1, <2>2
<1>4. IsFiniteSet(Line(c)) /\ n \notin Line(c)
  <2>1. IsFiniteSet(1..Len(commits))
    BY <1>1, FS_Interval
  <2>2. IsFiniteSet(Line(c))
    BY <1>3, <2>1, FS_Subset
  <2>3. n \notin 1..Len(commits)
    BY <1>1
  <2> QED
    BY <1>3, <2>2, <2>3
<1>5. Cardinality(Line(n)') = Cardinality(Line(c)) + 1 /\ Cardinality(Line(c)) \in Nat
  BY <1>2, <1>4, FS_AddElement, FS_CardinalityType
<1> QED
  BY <1>2, <1>3, <1>5 DEF Bounded

LEMMA BoundedStep ==
  ASSUME LockInv, Straight, BoundedInv, [Next]_vars
  PROVE  BoundedInv'
<1>a. TypeOK /\ {0} \cup {trust} \subseteq Position
      /\ \A p \in Proc : tip[p] \in Position /\ pushed[p] \in Position
  BY DEF LockInv, TypeOK, Position
<1>b. ASSUME Made PROVE \A c \in Position : Bounded(c)' = Bounded(c)
  BY <1>a, <1>b, BoundedStays
<1>c. ASSUME UNCHANGED commits PROVE \A c \in Position : Bounded(c)' = Bounded(c)
  BY <1>a, <1>c, BoundedStays DEF Made, TypeOK
<1>1. ASSUME NEW s \in Member, NEW lists \in Lists, NEW jump \in Jumps, OtherPush(s, lists, jump)
      PROVE  BoundedInv'
  <2>1. Pushed(s, branch, lists, jump) \in Commit(Len(commits) + 1) /\ Lands(Pushed(s, branch, lists, jump))
    BY <1>1, <1>a, OtherPushLands DEF OtherPush
  <2>2. Made
    BY <1>a, <2>1, LandsType
  <2>3. UNCHANGED <<trust, pc, tip, pushed>>
    BY <1>1 DEF OtherPush, fileVars, helperVars
  <2> HIDE DEF Bounded
  <2> QED
    BY <1>a, <1>b, <2>2, <2>3 DEF BoundedInv
<1>2. ASSUME NEW s \in Member, OtherRewrite(s) PROVE BoundedInv'
  <2>1. Rewritten(s, branch) \in Commit(Len(commits) + 1) /\ Lands(Rewritten(s, branch))
    BY <1>2, <1>a, OtherRewriteLands DEF OtherRewrite
  <2>2. Made
    BY <1>a, <2>1, LandsType
  <2>3. UNCHANGED <<trust, pc, tip, pushed>>
    BY <1>2 DEF OtherRewrite, fileVars, helperVars
  <2> HIDE DEF Bounded
  <2> QED
    BY <1>a, <1>b, <2>2, <2>3 DEF BoundedInv
<1>3. ASSUME NEW c \in Commits, HostRestores(c) PROVE BoundedInv'
  BY <1>3, <1>a, <1>c DEF HostRestores, fileVars, helperVars, BoundedInv, LockInv, TypeOK
<1>4. ASSUME HostDeletes PROVE BoundedInv'
  BY <1>4, <1>a, <1>c DEF HostDeletes, fileVars, helperVars, BoundedInv, LockInv, TypeOK
<1>5. ASSUME NEW p \in Proc, NEW lists \in Lists, Push(p, lists) PROVE BoundedInv'
  <2>1. Pushed(Me, tip[p], lists, 1) \in Commit(Len(commits) + 1)
        /\ Lands(Pushed(Me, tip[p], lists, 1)) /\ pc[p] = "ready"
    BY <1>5, <1>a, PushLands DEF Push
  <2>2. Made
    BY <1>a, <2>1, LandsType
  <2> PICK n : n = Len(commits) + 1
    OBVIOUS
  <2>3. Bounded(n)'
    BY <1>a, <2>1, PushBounded DEF BoundedInv
  <2>4. PICK to \in {"landed", "connect"} : pc' = [pc EXCEPT ![p] = to]
    BY <1>5 DEF Push, Go
  <2>5. pushed' = [pushed EXCEPT ![p] = n] /\ UNCHANGED <<trust, tip>>
    BY <1>5, <2>2 DEF Push, fileVars
  <2>6. pushed'[p] = n /\ \A q \in Proc \ {p} : pushed'[q] = pushed[q] /\ pc'[q] = pc[q]
    BY <1>a, <2>4, <2>5 DEF TypeOK
  <2>7. pc'[p] = to
    BY <1>a, <2>4 DEF TypeOK
  <2> HIDE DEF Bounded
  <2> QED
    BY <1>a, <1>b, <2>1, <2>2, <2>3, <2>5, <2>6, <2>7 DEF BoundedInv
<1>6. ASSUME NEW p \in Proc, Start(p) PROVE BoundedInv'
  BY <1>6, <1>a, <1>c DEF Start, Go, BoundedInv, LockInv, TypeOK
<1>7. ASSUME NEW p \in Proc, Fetch(p) PROVE BoundedInv'
  BY <1>7, <1>a, <1>c DEF Fetch, LockFetch, FetchTip, Go, BoundedInv, LockInv, TypeOK,
     Straight, Position
<1>8. ASSUME NEW p \in Proc, FetchNothing(p) PROVE BoundedInv'
  BY <1>8, <1>a, <1>c, NothingBounded DEF FetchNothing, Go, fileVars, BoundedInv, LockInv,
     TypeOK
<1>9. ASSUME NEW p \in Proc, FetchFails(p) PROVE BoundedInv'
  BY <1>9, <1>a, <1>c DEF FetchFails, Exit, fileVars, BoundedInv, LockInv, TypeOK
<1>10. ASSUME NEW p \in Proc, Accept(p) PROVE BoundedInv'
  BY <1>10, <1>a, <1>c, AcceptRecords, AcceptBounded DEF Accept, Go, BoundedInv, LockInv,
     TypeOK, Locked
<1>11. ASSUME NEW p \in Proc, Mark(p) PROVE BoundedInv'
  BY <1>11, <1>a, <1>c DEF Mark, MarkKnown, Go, BoundedInv, LockInv, TypeOK
<1>12. ASSUME NEW p \in Proc, Refuse(p) PROVE BoundedInv'
  BY <1>12, <1>a, <1>c DEF Refuse, Go, BoundedInv, LockInv, TypeOK
<1>13. ASSUME NEW p \in Proc, Record(p) PROVE BoundedInv'
  BY <1>13, <1>a, <1>c DEF Record, LockFetch, Go, BoundedInv, LockInv, TypeOK
<1>14. ASSUME NEW p \in Proc, RecordOrphaned(p) PROVE BoundedInv'
  BY <1>14, <1>a, <1>c DEF RecordOrphaned, Exit, fileVars, BoundedInv, LockInv, TypeOK
<1>15. ASSUME NEW p \in Proc, SaveRecord(p) PROVE BoundedInv'
  BY <1>15, <1>a, <1>c DEF SaveRecord, Go, BoundedInv, LockInv, TypeOK, SaveTrust, Locked,
     AtCommit
<1>16. ASSUME NEW p \in Proc, RecordFails(p) PROVE BoundedInv'
  BY <1>16, <1>a, <1>c DEF RecordFails, Go, fileVars, BoundedInv, LockInv, TypeOK
<1>17. ASSUME NEW p \in Proc, Note(p) PROVE BoundedInv'
  BY <1>17, <1>a, <1>c DEF Note, MarkKnown, Go, BoundedInv, LockInv, TypeOK
<1>18. ASSUME NEW p \in Proc, NoteFails(p) PROVE BoundedInv'
  BY <1>18, <1>a, <1>c DEF NoteFails, Exit, fileVars, BoundedInv, LockInv, TypeOK
<1>19. ASSUME NEW p \in Proc, ForgetMarker(p) PROVE BoundedInv'
  BY <1>19, <1>a, <1>c DEF ForgetMarker, Exit, BoundedInv, LockInv, TypeOK
<1>20. ASSUME NEW p \in Proc, LostRace(p) PROVE BoundedInv'
  BY <1>20, <1>a, <1>c DEF LostRace, Go, fileVars, BoundedInv, LockInv, TypeOK
<1>21. ASSUME NEW p \in Proc, Forget(p) PROVE BoundedInv'
  BY <1>21, <1>a, <1>c DEF Forget, Go, BoundedInv, LockInv, TypeOK, Locked, AtCommit,
     Position
<1>22. ASSUME NEW p \in Proc, End(p) PROVE BoundedInv'
  BY <1>22, <1>a, <1>c DEF End, Exit, fileVars, BoundedInv, LockInv, TypeOK
<1>23. ASSUME NEW p \in Proc, Crash(p) PROVE BoundedInv'
  BY <1>23, <1>a, <1>c DEF Crash, Exit, fileVars, BoundedInv, LockInv, TypeOK
<1>24. ASSUME UNCHANGED vars PROVE BoundedInv'
  BY <1>24, <1>a, <1>c DEF vars, BoundedInv, LockInv, TypeOK
<1> QED
  BY <1>1, <1>2, <1>3, <1>4, <1>5, <1>6, <1>7, <1>8, <1>9, <1>10, <1>11, <1>12, <1>13,
     <1>14, <1>15, <1>16, <1>17, <1>18, <1>19, <1>20, <1>21, <1>22, <1>23, <1>24 DEF Next,
     HelperStep

-----------------------------------------------------------------------------
\* Rewritten histories.

(* A first-parent chain holds the chains of what is on it.                 *)
Nested ==
  \A c \in Commits :
    c \in commits[c].line /\ \A x \in commits[c].line : commits[x].line \subseteq commits[c].line

LEMMA LandsNested ==
  ASSUME TypeOK, Nested, NEW commit \in Commit(Len(commits) + 1), Lands(commit),
         NEW c \in Position, commit.line \ {Len(commits) + 1} \in {{}, Line(c)},
         Len(commits) + 1 \in commit.line
  PROVE  Nested'
<1> PICK n : n = Len(commits) + 1
  OBVIOUS
<1>1. Made /\ commits'[n] = commit /\ Commits' = Commits \cup {n} /\ n \notin Commits
  BY LandsType DEF Commits, TypeOK
<1>2. \A x \in Commits : commits'[x] = commits[x]
  BY <1>1 DEF Made
<1>3. \A x \in Commits : commits[x].line \subseteq Commits
  BY CommitType DEF Commit, Commits
<1>4. \A x \in Line(c) : x \in Commits /\ commits[x].line \subseteq Line(c)
  <2>1. c # 0 => c \in Commits
    BY DEF Position, Commits, TypeOK
  <2> HIDE DEF Commits
  <2> QED
    BY <2>1, <1>3 DEF Line, Nested
<1> HIDE DEF Commits
<1>5. ASSUME NEW y \in Commits
      PROVE  /\ y \in commits'[y].line
             /\ \A x \in commits'[y].line : commits'[x].line \subseteq commits'[y].line
  BY <1>2, <1>3 DEF Nested
<1>6. ASSUME NEW x \in commit.line PROVE commits'[x].line \subseteq commit.line
  <2>1. x = n \/ x \in Line(c)
    OBVIOUS
  <2>2. CASE x = n
    BY <2>2, <1>1
  <2>3. CASE x \in Line(c)
    <3>1. Line(c) \subseteq commit.line
      BY <2>3, <1>1, <1>4, <1>6
    <3> QED
      BY <2>3, <3>1, <1>2, <1>4
  <2> QED
    BY <2>1, <2>2, <2>3
<1>7. \A y \in Commits' : y \in Commits \/ y = n
  BY <1>1
<1> QED
  BY <1>1, <1>5, <1>6, <1>7 DEF Nested

LEMMA PushedLine ==
  ASSUME TypeOK, NEW c \in Position
  PROVE  Line(c) \subseteq Commits
<1>1. c # 0 => commits[c] \in Commit(Len(commits))
  BY CommitType DEF Position, Commits, TypeOK
<1> QED
  BY <1>1 DEF Line, Commit, Commits

LEMMA NestedStep == TypeOK /\ Nested /\ [Next]_vars => Nested'
<1> SUFFICES ASSUME TypeOK, Nested, [Next]_vars PROVE Nested'
  OBVIOUS
<1>1. ASSUME NEW s \in Member, NEW lists \in Lists, NEW jump \in Jumps, OtherPush(s, lists, jump)
      PROVE  Nested'
  <2>1. Pushed(s, branch, lists, jump) \in Commit(Len(commits) + 1) /\ Lands(Pushed(s, branch, lists, jump))
    BY <1>1, OtherPushLands DEF OtherPush
  <2>2. branch \in Position /\ Line(branch) \subseteq Commits /\ Len(commits) + 1 \notin Commits
    BY PushedLine DEF TypeOK, Commits
  <2>3. Pushed(s, branch, lists, jump).line = Line(branch) \cup {Len(commits) + 1}
    BY DEF Pushed
  <2>4. Pushed(s, branch, lists, jump).line \ {Len(commits) + 1} \in {{}, Line(branch)}
        /\ Len(commits) + 1 \in Pushed(s, branch, lists, jump).line
    BY <2>2, <2>3
  <2> QED
    BY <2>1, <2>2, <2>4, LandsNested
<1>2. ASSUME NEW s \in Member, OtherRewrite(s) PROVE Nested'
  <2>1. Rewritten(s, branch) \in Commit(Len(commits) + 1) /\ Lands(Rewritten(s, branch))
    BY <1>2, OtherRewriteLands DEF OtherRewrite
  <2>2. branch \in Position /\ Line(branch) \subseteq Commits /\ Len(commits) + 1 \notin Commits
    BY PushedLine DEF TypeOK, Commits
  <2>3. Rewritten(s, branch).line = {Len(commits) + 1}
    BY DEF Rewritten, Pushed
  <2>4. Rewritten(s, branch).line \ {Len(commits) + 1} \in {{}, Line(branch)}
        /\ Len(commits) + 1 \in Rewritten(s, branch).line
    BY <2>2, <2>3
  <2> QED
    BY <2>1, <2>2, <2>4, LandsNested
<1>3. ASSUME NEW c \in Commits, HostRestores(c) PROVE Nested'
  BY <1>3 DEF HostRestores, fileVars, helperVars, Nested, Commits
<1>4. ASSUME HostDeletes PROVE Nested'
  BY <1>4 DEF HostDeletes, fileVars, helperVars, Nested, Commits
<1>5. ASSUME NEW p \in Proc, NEW lists \in Lists, Push(p, lists) PROVE Nested'
  <2>1. Pushed(Me, tip[p], lists, 1) \in Commit(Len(commits) + 1) /\ Lands(Pushed(Me, tip[p], lists, 1))
    BY <1>5, PushLands DEF Push
  <2>2. tip[p] \in Position /\ Line(tip[p]) \subseteq Commits /\ Len(commits) + 1 \notin Commits
    BY PushedLine DEF TypeOK, Commits
  <2>3. Pushed(Me, tip[p], lists, 1).line = Line(tip[p]) \cup {Len(commits) + 1}
    BY DEF Pushed
  <2>4. Pushed(Me, tip[p], lists, 1).line \ {Len(commits) + 1} \in {{}, Line(tip[p])}
        /\ Len(commits) + 1 \in Pushed(Me, tip[p], lists, 1).line
    BY <2>2, <2>3
  <2> QED
    BY <2>1, <2>2, <2>4, LandsNested
<1>6. ASSUME NEW p \in Proc, Start(p) PROVE Nested'
  BY <1>6 DEF Start, Go, Nested, Commits
<1>7. ASSUME NEW p \in Proc, Fetch(p) PROVE Nested'
  BY <1>7 DEF Fetch, LockFetch, FetchTip, Go, Nested, Commits
<1>8. ASSUME NEW p \in Proc, FetchNothing(p) PROVE Nested'
  BY <1>8 DEF FetchNothing, Go, fileVars, Nested, Commits
<1>9. ASSUME NEW p \in Proc, FetchFails(p) PROVE Nested'
  BY <1>9 DEF FetchFails, Exit, fileVars, Nested, Commits
<1>10. ASSUME NEW p \in Proc, Accept(p) PROVE Nested'
  BY <1>10 DEF Accept, Go, Nested, Commits
<1>11. ASSUME NEW p \in Proc, Mark(p) PROVE Nested'
  BY <1>11 DEF Mark, MarkKnown, Go, Nested, Commits
<1>12. ASSUME NEW p \in Proc, Refuse(p) PROVE Nested'
  BY <1>12 DEF Refuse, Go, Nested, Commits
<1>13. ASSUME NEW p \in Proc, Record(p) PROVE Nested'
  BY <1>13 DEF Record, LockFetch, Go, Nested, Commits
<1>14. ASSUME NEW p \in Proc, RecordOrphaned(p) PROVE Nested'
  BY <1>14 DEF RecordOrphaned, Exit, fileVars, Nested, Commits
<1>15. ASSUME NEW p \in Proc, SaveRecord(p) PROVE Nested'
  BY <1>15 DEF SaveRecord, Go, Nested, Commits
<1>16. ASSUME NEW p \in Proc, RecordFails(p) PROVE Nested'
  BY <1>16 DEF RecordFails, Go, fileVars, Nested, Commits
<1>17. ASSUME NEW p \in Proc, Note(p) PROVE Nested'
  BY <1>17 DEF Note, MarkKnown, Go, Nested, Commits
<1>18. ASSUME NEW p \in Proc, NoteFails(p) PROVE Nested'
  BY <1>18 DEF NoteFails, Exit, fileVars, Nested, Commits
<1>19. ASSUME NEW p \in Proc, ForgetMarker(p) PROVE Nested'
  BY <1>19 DEF ForgetMarker, Exit, Nested, Commits
<1>20. ASSUME NEW p \in Proc, LostRace(p) PROVE Nested'
  BY <1>20 DEF LostRace, Go, fileVars, Nested, Commits
<1>21. ASSUME NEW p \in Proc, Forget(p) PROVE Nested'
  BY <1>21 DEF Forget, Go, Nested, Commits
<1>22. ASSUME NEW p \in Proc, End(p) PROVE Nested'
  BY <1>22 DEF End, Exit, fileVars, Nested, Commits
<1>23. ASSUME NEW p \in Proc, Crash(p) PROVE Nested'
  BY <1>23 DEF Crash, Exit, fileVars, Nested, Commits
<1>24. ASSUME UNCHANGED vars PROVE Nested'
  BY <1>24 DEF vars, Nested, Commits
<1> QED
  BY <1>1, <1>2, <1>3, <1>4, <1>5, <1>6, <1>7, <1>8, <1>9, <1>10, <1>11, <1>12, <1>13,
     <1>14, <1>15, <1>16, <1>17, <1>18, <1>19, <1>20, <1>21, <1>22, <1>23, <1>24 DEF Next,
     HelperStep

(* What was accepted and is not known to be rewritten is on the chain of   *)
(* the tracking ref, or of what that was before a fetch that is checked.   *)
Unreported(c) == trust # 0 => told \/ trust \in Line(c)

ReportInv ==
  /\ \A p \in Proc :
       /\ pc[p] # "forgetting"
       /\ pc[p] = "check" => /\ tracking = tip[p] /\ Unreported(previous[p])
                             /\ trust # 0 => known /\ knew[p]
       /\ pc[p] = "mark" => tracking = tip[p]
  /\ lock = NoProc => Unreported(tracking) /\ (trust # 0 => known)

LEMMA LineStays ==
  ASSUME TypeOK, Made, NEW c \in Position
  PROVE  Line(c)' = Line(c)
<1>1. c # 0 => commits'[c] = commits[c]
  BY DEF Made, Position, Commits, TypeOK
<1> QED
  BY <1>1 DEF Line

(* Nothing but the history moves: the lines of what was made stay.         *)
LEMMA OthersReport ==
  ASSUME TypeOK, ReportInv, Made,
         UNCHANGED <<trust, known, tracking, told, lock, pc, knew, previous, tip>>
  PROVE  ReportInv'
<1>1. tracking \in Position /\ \A p \in Proc : previous[p] \in Position
  BY DEF TypeOK, Position
<1>2. (Line(tracking))' = Line(tracking) /\ \A p \in Proc : (Line(previous[p]))' = Line(previous[p])
  <2>1. \A c \in Position : Line(c)' = Line(c)
    BY LineStays
  <2>2. tracking' = tracking /\ previous' = previous
    OBVIOUS
  <2> QED
    BY <1>1, <2>1, <2>2 DEF Line
<1> QED
  BY <1>2 DEF ReportInv, Unreported

(* A history rewritten is seen on the way from the tracking ref.           *)
LEMMA SeesRewrite ==
  ASSUME TypeOK, Nested, NEW p \in Proc, pc[p] = "check", tip[p] # 0,
         Unreported(previous[p]), trust # 0, ~told, ~Rewrote(p)
  PROVE  trust \in Line(tip[p])
<1>1. trust \in Line(previous[p]) /\ previous[p] # 0
  BY DEF Unreported, Line
<1>2. tip[p] \in Commits
  BY DEF TypeOK, Position, Commits
<1>3. previous[p] = tip[p] \/ previous[p] \in Line(tip[p])
  BY <1>1 DEF Rewrote, IsAncestor
<1> QED
  BY <1>1, <1>2, <1>3 DEF Line, Nested

LEMMA ReportStep ==
  ASSUME Pushers = {}, Forgetters = {}, Crashers = {},
         LockInv, NoPushes, Nested, ReportInv, [Next]_vars
  PROVE  ReportInv'
<1>1. ASSUME NEW s \in Member, NEW lists \in Lists, NEW jump \in Jumps, OtherPush(s, lists, jump)
      PROVE  ReportInv'
  <2>1. Pushed(s, branch, lists, jump) \in Commit(Len(commits) + 1) /\ Lands(Pushed(s, branch, lists, jump))
    BY <1>1, OtherPushLands DEF OtherPush, LockInv
  <2> QED
    BY <1>1, <2>1, LandsType, OthersReport DEF OtherPush, LockInv, fileVars, helperVars
<1>2. ASSUME NEW s \in Member, OtherRewrite(s) PROVE ReportInv'
  <2>1. Rewritten(s, branch) \in Commit(Len(commits) + 1) /\ Lands(Rewritten(s, branch))
    BY <1>2, OtherRewriteLands DEF OtherRewrite, LockInv
  <2> QED
    BY <1>2, <2>1, LandsType, OthersReport DEF OtherRewrite, LockInv, fileVars, helperVars
<1>3. ASSUME NEW c \in Commits, HostRestores(c) PROVE ReportInv'
  BY <1>3 DEF HostRestores, fileVars, helperVars, ReportInv, Unreported, Line, LockInv,
     TypeOK, Locked
<1>4. ASSUME HostDeletes PROVE ReportInv'
  BY <1>4 DEF HostDeletes, fileVars, helperVars, ReportInv, Unreported, Line, LockInv,
     TypeOK, Locked
<1>5. ASSUME NEW p \in Proc, NEW lists \in Lists, Push(p, lists) PROVE ReportInv'
  BY <1>5 DEF Push
<1>6. ASSUME NEW p \in Proc, Start(p) PROVE ReportInv'
  BY <1>6 DEF Start, Go, ReportInv, Unreported, Line, LockInv, TypeOK, Locked
<1>7. ASSUME NEW p \in Proc, Fetch(p) PROVE ReportInv'
  BY <1>7, NoProcAssumption DEF Fetch, LockFetch, FetchTip, Go, ReportInv, Unreported, Line,
     LockInv, TypeOK, Locked
<1>8. ASSUME NEW p \in Proc, FetchNothing(p) PROVE ReportInv'
  BY <1>8 DEF FetchNothing, Go, fileVars, ReportInv, Unreported, Line, LockInv, TypeOK,
     Locked
<1>9. ASSUME NEW p \in Proc, FetchFails(p) PROVE ReportInv'
  BY <1>9 DEF FetchFails, Exit, fileVars, ReportInv, Unreported, Line, LockInv, TypeOK,
     Locked
<1>10. ASSUME NEW p \in Proc, Accept(p) PROVE ReportInv'
  <2>1. trust' = tip[p] /\ tracking = tip[p] /\ pc' = [pc EXCEPT ![p] = "mark"] /\ lock = p
    BY <1>10, AcceptRecords DEF Accept, Go, ReportInv, LockInv, Locked
  <2> QED
    BY <1>10, <2>1, NoProcAssumption DEF Accept, ReportInv, LockInv, TypeOK, Locked
<1>11. ASSUME NEW p \in Proc, Mark(p) PROVE ReportInv'
  <2>1. trust = tip[p] /\ tracking = tip[p] /\ tip[p] # 0 /\ lock = p
    BY <1>11 DEF Mark, ReportInv, LockInv, UsedIsRecorded, AtCommit, Locked
  <2>2. tip[p] \in Commits
    BY <2>1 DEF LockInv, TypeOK, Position, Commits
  <2>3. trust \in Line(tracking)
    BY <2>1, <2>2 DEF Line, Nested
  <2> QED
    BY <1>11, <2>1, <2>3 DEF Mark, MarkKnown, Go, ReportInv, Unreported, Line, LockInv, TypeOK, Locked
<1>12. ASSUME NEW p \in Proc, Refuse(p) PROVE ReportInv'
  <2>1. tip[p] # 0 /\ tracking = tip[p] /\ Unreported(previous[p]) /\ lock = p
        /\ (trust # 0 => known /\ knew[p])
    BY <1>12 DEF Refuse, ReportInv, LockInv, AtCommit, Locked
  <2>2. trust # 0 /\ ~told /\ ~Rewrote(p) => trust \in Line(tip[p])
    BY <1>12, <2>1, SeesRewrite DEF Refuse, LockInv
  <2>3. trust # 0 => tracking' = tip[p] /\ (told' \/ trust \in Line(tip[p]))
    BY <1>12, <2>1, <2>2 DEF Refuse
  <2>4. (Unreported(tracking))'
    BY <1>12, <2>3 DEF Refuse, Unreported, Line
  <2> QED
    BY <1>12, <2>1, <2>4 DEF Refuse, Go, ReportInv, LockInv, TypeOK, Locked
<1>13. ASSUME NEW p \in Proc, Record(p) PROVE ReportInv'
  BY <1>13 DEF Record, NoPushes
<1>14. ASSUME NEW p \in Proc, RecordOrphaned(p) PROVE ReportInv'
  BY <1>14 DEF RecordOrphaned, Exit, fileVars, ReportInv, Unreported, Line, LockInv, TypeOK,
     Locked
<1>15. ASSUME NEW p \in Proc, SaveRecord(p) PROVE ReportInv'
  BY <1>15 DEF SaveRecord, NoPushes
<1>16. ASSUME NEW p \in Proc, RecordFails(p) PROVE ReportInv'
  BY <1>16 DEF RecordFails, Go, fileVars, ReportInv, Unreported, Line, LockInv, TypeOK,
     Locked
<1>17. ASSUME NEW p \in Proc, Note(p) PROVE ReportInv'
  BY <1>17 DEF Note, NoPushes
<1>18. ASSUME NEW p \in Proc, NoteFails(p) PROVE ReportInv'
  BY <1>18 DEF NoteFails, Exit, fileVars, ReportInv, Unreported, Line, LockInv, TypeOK,
     Locked
<1>19. ASSUME NEW p \in Proc, ForgetMarker(p) PROVE ReportInv'
  BY <1>19 DEF ForgetMarker, ReportInv
<1>20. ASSUME NEW p \in Proc, LostRace(p) PROVE ReportInv'
  BY <1>20 DEF LostRace, Go, fileVars, ReportInv, Unreported, Line, LockInv, TypeOK, Locked
<1>21. ASSUME NEW p \in Proc, Forget(p) PROVE ReportInv'
  BY <1>21 DEF Forget
<1>22. ASSUME NEW p \in Proc, End(p) PROVE ReportInv'
  BY <1>22 DEF End, Exit, fileVars, ReportInv, Unreported, Line, LockInv, TypeOK, Locked
<1>23. ASSUME NEW p \in Proc, Crash(p) PROVE ReportInv'
  BY <1>23 DEF Crash
<1>24. ASSUME UNCHANGED vars PROVE ReportInv'
  BY <1>24 DEF vars, ReportInv, Unreported, Line, LockInv, TypeOK, Locked
<1> QED
  BY <1>1, <1>2, <1>3, <1>4, <1>5, <1>6, <1>7, <1>8, <1>9, <1>10, <1>11, <1>12, <1>13,
     <1>14, <1>15, <1>16, <1>17, <1>18, <1>19, <1>20, <1>21, <1>22, <1>23, <1>24 DEF Next,
     HelperStep

-----------------------------------------------------------------------------
\* A host that shows what is pushed, and writers who keep the lists.

(* All agree on the lists, I am on them and pin nobody else; the host is   *)
(* honest; nothing is forgotten or left unrecorded.                        *)
Steady(l) ==
  /\ Lists = {l} /\ Me \in l.members
  /\ HostFaults = {} /\ Forgetters = {} /\ LockFailures = {} /\ Jumps = {1}
  /\ FirstContact # "refuse" /\ (FirstContact = "pinned" => l.members \subseteq Pinned)
  /\ PinnedRepo \in {0, 1} /\ MinGeneration <= 1

\* Where the first-parent chain of c starts.
StartOf(c) == IF commits[c].epoch = 0 THEN 1 ELSE commits[c].epoch

(* The n-th commit is of generation n, replaces the one before and starts  *)
(* a chain or goes on with that one's.                                     *)
Regular(l) ==
  /\ branch = Len(commits)
  /\ \A c \in Commits :
       /\ commits[c].generation = c /\ commits[c].repo = 1 /\ commits[c].replaces = c - 1
       /\ commits[c].signer \in l.members /\ commits[c].lists = l /\ SoundLists(l)
       /\ StartOf(c) \in 1..c /\ commits[c].line = StartOf(c)..c
       /\ \A x \in commits[c].line : commits[x].epoch = commits[c].epoch

LEMMA LandsRegular ==
  ASSUME NEW l, Steady(l), TypeOK, Regular(l),
         NEW commit \in Commit(Len(commits) + 1), Lands(commit),
         commit.generation = Gen(branch) + 1, commit.replaces = branch,
         commit.repo = IF branch = 0 THEN Len(commits) + 1 ELSE commits[branch].repo,
         commit.signer \in l.members, SoundLists(l),
         \/ /\ commit.epoch = IF branch = 0 THEN 0 ELSE commits[branch].epoch
            /\ commit.line = Line(branch) \cup {Len(commits) + 1}
         \/ /\ branch # 0 /\ commit.epoch = Gen(branch) + 1
            /\ commit.line = {Len(commits) + 1}
  PROVE  Regular(l)'
<1> PICK n : n = Len(commits) + 1
  OBVIOUS
<1>1. /\ Made /\ commits'[n] = commit /\ branch' = Len(commits') /\ branch' = n
      /\ Commits' = Commits \cup {n} /\ n \notin Commits /\ n \in Nat /\ branch = n - 1
  BY LandsType DEF Commits, TypeOK, Regular, Lands
<1>2. \A c \in Commits : commits'[c] = commits[c]
  BY <1>1 DEF Made
<1>3. \A c \in Commits : commits[c].line \subseteq Commits
  BY CommitType DEF Commit, Commits
<1>4. branch # 0 => branch \in Commits
  BY DEF TypeOK, Position, Commits
<1> HIDE DEF Commits
<1>5. commit.generation = n /\ commit.repo = 1 /\ commit.replaces = n - 1 /\ commit.lists = l
  <2>1. Gen(branch) = branch
    BY <1>4 DEF Gen, Regular
  <2>2. commit.repo = 1
    BY <1>1, <1>4 DEF Regular
  <2>3. commit.lists = l
    BY DEF Commit, Steady
  <2> QED
    BY <1>1, <2>1, <2>2, <2>3
<1> DEFINE start == IF commit.epoch = 0 THEN 1 ELSE commit.epoch
<1>6. /\ start \in 1..n /\ commit.line = start..n
      /\ \A x \in commit.line \ {n} : x \in Commits /\ commits[x].epoch = commit.epoch
  <2>1. CASE branch = 0 /\ commit.epoch = 0 /\ commit.line = Line(branch) \cup {Len(commits) + 1}
    <3>1. n = 1 /\ commit.line = {1} /\ 1..1 = {1}
      BY <2>1, <1>1 DEF Line
    <3> QED
      BY <2>1, <3>1
  <2>2. CASE branch # 0 /\ commit.epoch = commits[branch].epoch
             /\ commit.line = Line(branch) \cup {Len(commits) + 1}
    <3>1. /\ start = StartOf(branch) /\ commit.line = commits[branch].line \cup {n}
          /\ StartOf(branch) \in 1..branch /\ commits[branch].line = StartOf(branch)..branch
          /\ \A x \in commits[branch].line : commits[x].epoch = commits[branch].epoch
      BY <2>2, <1>4 DEF Line, StartOf, Regular
    <3>2. (StartOf(branch)..branch) \cup {n} = StartOf(branch)..n /\ StartOf(branch) \in 1..n
      BY <3>1, <1>1
    <3> QED
      BY <2>2, <3>1, <3>2, <1>3, <1>4
  <2>3. CASE branch # 0 /\ commit.epoch = Gen(branch) + 1 /\ commit.line = {Len(commits) + 1}
    <3>1. commit.epoch = n /\ n # 0 /\ n..n = {n} /\ n \in 1..n
      BY <2>3, <1>1, <1>5
    <3> QED
      BY <2>3, <3>1
  <2> QED
    BY <2>1, <2>2, <2>3
<1> HIDE DEF start
<1>7. ASSUME NEW c \in Commits
      PROVE  /\ commits'[c].generation = c /\ commits'[c].repo = 1 /\ commits'[c].replaces = c - 1
             /\ commits'[c].signer \in l.members /\ commits'[c].lists = l /\ SoundLists(l)
             /\ StartOf(c)' \in 1..c /\ commits'[c].line = StartOf(c)'..c
             /\ \A x \in commits'[c].line : commits'[x].epoch = commits'[c].epoch
  <2>1. commits'[c] = commits[c] /\ StartOf(c)' = StartOf(c)
    BY <1>2 DEF StartOf
  <2>2. \A x \in commits[c].line : commits'[x] = commits[x]
    BY <1>2, <1>3
  <2> QED
    BY <2>1, <2>2 DEF Regular
<1>8. StartOf(n)' = start
  BY <1>1 DEF StartOf, start
<1>9. \A x \in commit.line : commits'[x].epoch = commit.epoch
  BY <1>1, <1>2, <1>6
<1>10. \A c \in Commits' :
         /\ commits'[c].generation = c /\ commits'[c].repo = 1 /\ commits'[c].replaces = c - 1
         /\ commits'[c].signer \in l.members /\ commits'[c].lists = l /\ SoundLists(l)
         /\ StartOf(c)' \in 1..c /\ commits'[c].line = StartOf(c)'..c
         /\ \A x \in commits'[c].line : commits'[x].epoch = commits'[c].epoch
  <2>1. \A c \in Commits' : c \in Commits \/ c = n
    BY <1>1
  <2> SUFFICES ASSUME NEW c \in Commits', c = n
               PROVE  /\ commits'[c].generation = c /\ commits'[c].repo = 1
                      /\ commits'[c].replaces = c - 1 /\ commits'[c].signer \in l.members
                      /\ commits'[c].lists = l /\ SoundLists(l)
                      /\ StartOf(c)' \in 1..c /\ commits'[c].line = StartOf(c)'..c
                      /\ \A x \in commits'[c].line : commits'[x].epoch = commits'[c].epoch
    BY <2>1, <1>7
  <2>2. StartOf(c)' = start
    BY <1>8
  <2> QED
    BY <2>2, <1>1, <1>5, <1>6, <1>9
<1> QED
  BY <1>1, <1>10 DEF Regular

LEMMA RegularStep ==
  ASSUME NEW l, Steady(l), TypeOK, Regular(l), [Next]_vars
  PROVE  Regular(l)'
<1>a. \A lists \in Lists : lists = l
  BY DEF Steady
<1>b. branch \in Position /\ (branch # 0 => commits[branch].lists = l)
  BY DEF TypeOK, Regular, Position, Commits
<1>1. ASSUME NEW s \in Member, NEW lists \in Lists, NEW jump \in Jumps, OtherPush(s, lists, jump)
      PROVE  Regular(l)'
  <2>1. Pushed(s, branch, lists, jump) \in Commit(Len(commits) + 1) /\ Lands(Pushed(s, branch, lists, jump))
    BY <1>1, OtherPushLands DEF OtherPush
  <2>2. s \in l.members /\ SoundLists(l)
    BY <1>1, <1>a, <1>b DEF OtherPush, MayPush
  <2> QED
    BY <1>1, <1>b, <2>1, <2>2, LandsRegular DEF OtherPush, Pushed, Steady
<1>2. ASSUME NEW s \in Member, OtherRewrite(s) PROVE Regular(l)'
  <2>1. Rewritten(s, branch) \in Commit(Len(commits) + 1) /\ Lands(Rewritten(s, branch)) /\ branch # 0
    BY <1>2, OtherRewriteLands DEF OtherRewrite
  <2>2. s \in l.members /\ SoundLists(l)
    BY <1>2, <1>b, <2>1 DEF OtherRewrite, Regular, Position, Commits
  <2>3. /\ Rewritten(s, branch).generation = Gen(branch) + 1
        /\ Rewritten(s, branch).replaces = branch /\ Rewritten(s, branch).signer = s
        /\ Rewritten(s, branch).repo = commits[branch].repo
        /\ Rewritten(s, branch).epoch = Gen(branch) + 1
        /\ Rewritten(s, branch).line = {Len(commits) + 1}
    BY <2>1 DEF Rewritten, Pushed
  <2> QED
    BY <1>b, <2>1, <2>2, <2>3, LandsRegular
<1>3. ASSUME NEW c \in Commits, HostRestores(c) PROVE Regular(l)'
  BY <1>3 DEF HostRestores, Steady
<1>4. ASSUME HostDeletes PROVE Regular(l)'
  BY <1>4 DEF HostDeletes, Steady
<1>5. ASSUME NEW p \in Proc, NEW lists \in Lists, Push(p, lists) PROVE Regular(l)'
  <2>1. Pushed(Me, branch, lists, 1) \in Commit(Len(commits) + 1) /\ Lands(Pushed(Me, branch, lists, 1))
    BY <1>5, PushLands DEF Push
  <2>2. Me \in l.members /\ SoundLists(l)
    BY <1>5, <1>a, <1>b DEF Push, MayPush
  <2> QED
    BY <1>5, <1>b, <2>1, <2>2, LandsRegular DEF Push, Pushed
<1>6. ASSUME NEW p \in Proc, Start(p) PROVE Regular(l)'
  BY <1>6 DEF Start, Go, Regular, StartOf, Commits, Steady
<1>7. ASSUME NEW p \in Proc, Fetch(p) PROVE Regular(l)'
  BY <1>7 DEF Fetch, LockFetch, FetchTip, Go, Regular, StartOf, Commits, Steady
<1>8. ASSUME NEW p \in Proc, FetchNothing(p) PROVE Regular(l)'
  BY <1>8 DEF FetchNothing, Go, fileVars, Regular, StartOf, Commits, Steady
<1>9. ASSUME NEW p \in Proc, FetchFails(p) PROVE Regular(l)'
  BY <1>9 DEF FetchFails, Exit, fileVars, Regular, StartOf, Commits, Steady
<1>10. ASSUME NEW p \in Proc, Accept(p) PROVE Regular(l)'
  BY <1>10 DEF Accept, Go, Regular, StartOf, Commits, Steady
<1>11. ASSUME NEW p \in Proc, Mark(p) PROVE Regular(l)'
  BY <1>11 DEF Mark, MarkKnown, Go, Regular, StartOf, Commits, Steady
<1>12. ASSUME NEW p \in Proc, Refuse(p) PROVE Regular(l)'
  BY <1>12 DEF Refuse, Go, Regular, StartOf, Commits, Steady
<1>13. ASSUME NEW p \in Proc, Record(p) PROVE Regular(l)'
  BY <1>13 DEF Record, LockFetch, Go, Regular, StartOf, Commits, Steady
<1>14. ASSUME NEW p \in Proc, RecordOrphaned(p) PROVE Regular(l)'
  BY <1>14 DEF RecordOrphaned, Exit, fileVars, Regular, StartOf, Commits, Steady
<1>15. ASSUME NEW p \in Proc, SaveRecord(p) PROVE Regular(l)'
  BY <1>15 DEF SaveRecord, Go, Regular, StartOf, Commits, Steady
<1>16. ASSUME NEW p \in Proc, RecordFails(p) PROVE Regular(l)'
  BY <1>16 DEF RecordFails, Go, fileVars, Regular, StartOf, Commits, Steady
<1>17. ASSUME NEW p \in Proc, Note(p) PROVE Regular(l)'
  BY <1>17 DEF Note, MarkKnown, Go, Regular, StartOf, Commits, Steady
<1>18. ASSUME NEW p \in Proc, NoteFails(p) PROVE Regular(l)'
  BY <1>18 DEF NoteFails, Exit, fileVars, Regular, StartOf, Commits, Steady
<1>19. ASSUME NEW p \in Proc, ForgetMarker(p) PROVE Regular(l)'
  BY <1>19 DEF ForgetMarker, Exit, Regular, StartOf, Commits, Steady
<1>20. ASSUME NEW p \in Proc, LostRace(p) PROVE Regular(l)'
  BY <1>20 DEF LostRace, Go, fileVars, Regular, StartOf, Commits, Steady
<1>21. ASSUME NEW p \in Proc, Forget(p) PROVE Regular(l)'
  BY <1>21 DEF Forget, Go, Regular, StartOf, Commits, Steady
<1>22. ASSUME NEW p \in Proc, End(p) PROVE Regular(l)'
  BY <1>22 DEF End, Exit, fileVars, Regular, StartOf, Commits, Steady
<1>23. ASSUME NEW p \in Proc, Crash(p) PROVE Regular(l)'
  BY <1>23 DEF Crash, Exit, fileVars, Regular, StartOf, Commits, Steady
<1>24. ASSUME UNCHANGED vars PROVE Regular(l)'
  BY <1>24 DEF vars, Regular, StartOf, Commits, Steady
<1> QED
  BY <1>1, <1>2, <1>3, <1>4, <1>5, <1>6, <1>7, <1>8, <1>9, <1>10, <1>11, <1>12, <1>13,
     <1>14, <1>15, <1>16, <1>17, <1>18, <1>19, <1>20, <1>21, <1>22, <1>23, <1>24 DEF Next,
     HelperStep

(* No helper meets a tip older than what it accepted, nor a marker without *)
(* trust state.                                                            *)
HonestInv ==
  \A p \in Proc : /\ pc[p] = "check" => trust <= tip[p] /\ (knew[p] => trust # 0)
                  /\ pc[p] # "refused"

LEMMA LineEpoch ==
  ASSUME NEW l, Regular(l), NEW c \in Commits
  PROVE  /\ Line(c) = StartOf(c)..c /\ StartOf(c) \in 1..c /\ c \in Nat /\ Gen(c) = c
         /\ RewriteEpoch(c) = commits[c].epoch
         /\ Cardinality(Line(c)) = c - StartOf(c) + 1
<1>1. c \in Nat /\ c # 0
  BY DEF Commits
<1>2. Line(c) = StartOf(c)..c /\ StartOf(c) \in 1..c /\ Gen(c) = c
  BY <1>1 DEF Regular, Line, Gen
<1>3. RewriteEpoch(c) = commits[c].epoch
  <2>1. StartOf(c) \in Line(c) /\ \A x \in Line(c) : StartOf(c) <= x
    BY <1>1, <1>2
  <2> DEFINE root == CHOOSE a \in Line(c) : \A x \in Line(c) : a <= x
  <2>2. root \in commits[c].line
    BY <1>1, <2>1 DEF Line
  <2> QED
    BY <2>2 DEF RewriteEpoch, Regular
<1>4. Cardinality(StartOf(c)..c) = c - StartOf(c) + 1
  BY <1>1, <1>2, FS_Interval
<1> QED
  BY <1>1, <1>2, <1>3, <1>4

LEMMA HonestAccepted ==
  ASSUME NEW l, Steady(l), LockInv, Regular(l), HonestInv, NEW p \in Proc, pc[p] = "check"
  PROVE  Acceptable(p, tip[p])
<1> PICK c : c = tip[p]
  OBVIOUS
<1>1. TypeOK /\ c \in Commits /\ trust \in Position /\ c \in Nat /\ c # 0
  BY DEF LockInv, TypeOK, AtCommit, Position, Commits
<1>2. /\ commits[c].generation = c /\ commits[c].repo = 1 /\ commits[c].replaces = c - 1
      /\ commits[c].signer \in l.members /\ commits[c].lists = l /\ SoundLists(l) /\ Gen(c) = c
  BY <1>1 DEF Regular, Gen
<1>3. trust # 0 =>
        /\ trust \in Commits /\ trust \in Nat /\ Gen(trust) = trust /\ trust <= c
        /\ commits[trust].repo = 1 /\ commits[trust].lists = l
  <2>1. trust # 0 => trust \in Commits /\ trust \in Nat
    BY <1>1 DEF Position, Commits, TypeOK
  <2> QED
    BY <2>1 DEF Regular, Gen, HonestInv
<1>4. SignerTrusted(c)
  BY <1>2, <1>3 DEF SignerTrusted, Steady
<1>5. JumpAllowed(c)
  <2>1. /\ Line(c) = StartOf(c)..c /\ StartOf(c) \in 1..c
        /\ RewriteEpoch(c) = commits[c].epoch /\ Cardinality(Line(c)) = c - StartOf(c) + 1
    BY <1>1, LineEpoch
  <2> DEFINE since == IF RewriteEpoch(c) = 0 THEN Cardinality(Line(c))
                      ELSE RewriteEpoch(c) - 1 + Cardinality(Line(c))
  <2>2. since = c
    BY <1>1, <2>1 DEF StartOf
  <2>3. CASE trust # 0 /\ IsAncestor(trust, c)
    <3>1. trust \in Line(c)
      BY <2>3 DEF IsAncestor
    <3>2. commits[trust].epoch = commits[c].epoch
      BY <3>1, <1>1 DEF Line, Regular
    <3>3. Line(trust) = StartOf(c)..trust
      BY <2>3, <3>2, <1>3, LineEpoch DEF StartOf
    <3>4. Line(c) \ Line(trust) = (trust + 1)..c
      <4>1. PICK s \in Nat : s = StartOf(c)
        BY <2>1, <1>1
      <4>2. PICK t \in Nat : t = trust
        BY <1>3, <2>3
      <4>3. s <= t /\ t <= c /\ Line(c) = s..c /\ Line(t) = s..t
        BY <2>1, <2>3, <3>1, <3>3, <4>1, <4>2, <1>1, <1>3
      <4>4. (s..c) \ (s..t) = (t + 1)..c
        BY <4>3, <1>1
      <4> QED
        BY <4>2, <4>3, <4>4
    <3>5. Cardinality((trust + 1)..c) = c - trust
      <4>1. trust + 1 \in Int /\ c \in Int
        BY <1>1, <1>3, <2>3
      <4>2. Cardinality((trust + 1)..c) = IF trust + 1 > c THEN 0 ELSE c - (trust + 1) + 1
        BY <4>1, FS_Interval
      <4> QED
        BY <4>2, <1>1, <1>3, <2>3
    <3>6. GenerationLimit(c) = {Gen(trust) + Cardinality(Line(c) \ Line(trust))}
      BY <2>3 DEF GenerationLimit
    <3>7. Gen(trust) + (c - trust) = c
      BY <1>1, <1>3, <2>3
    <3>8. GenerationLimit(c) = {c}
      BY <1>3, <2>3, <3>4, <3>5, <3>6, <3>7
    <3> QED
      BY <1>1, <1>2, <3>8 DEF JumpAllowed
  <2>4. CASE ~(trust # 0 /\ IsAncestor(trust, c))
    <3>1. GenerationLimit(c) \subseteq {since}
      BY <2>4 DEF GenerationLimit
    <3> QED
      BY <1>1, <1>2, <2>2, <3>1 DEF JumpAllowed
  <2> QED
    BY <2>3, <2>4
<1>6. trust # 0 => Follows(c) /\ MayChange(commits[c].signer, commits[trust].lists, commits[c].lists)
  BY <1>1, <1>2, <1>3 DEF Follows, Forked, MayChange
<1>7. trust = 0 => ~knew[p] /\ FirstContact # "refuse"
  BY DEF HonestInv, Steady
<1>8. (PinnedRepo # 0 => commits[c].repo = PinnedRepo) /\ Gen(c) >= MinGeneration
  BY <1>1, <1>2, BoundsAssumption DEF Steady
<1>9. Me \in commits[c].lists.members /\ SoundLists(commits[c].lists)
  BY <1>2 DEF Steady
<1> QED
  BY <1>4, <1>5, <1>6, <1>7, <1>8, <1>9 DEF Acceptable

LEMMA HonestStep ==
  ASSUME NEW l, Steady(l), LockInv, MarkerInv, Regular(l), HonestInv, [Next]_vars
  PROVE  HonestInv'
<1>1. ASSUME NEW s \in Member, NEW lists \in Lists, NEW jump \in Jumps, OtherPush(s, lists, jump)
      PROVE  HonestInv'
  BY <1>1 DEF OtherPush, fileVars, helperVars, HonestInv, LockInv, TypeOK
<1>2. ASSUME NEW s \in Member, OtherRewrite(s) PROVE HonestInv'
  BY <1>2 DEF OtherRewrite, fileVars, helperVars, HonestInv, LockInv, TypeOK
<1>3. ASSUME NEW c \in Commits, HostRestores(c) PROVE HonestInv'
  BY <1>3 DEF HostRestores, fileVars, helperVars, HonestInv, LockInv, TypeOK
<1>4. ASSUME HostDeletes PROVE HonestInv'
  BY <1>4 DEF HostDeletes, fileVars, helperVars, HonestInv, LockInv, TypeOK
<1>5. ASSUME NEW p \in Proc, NEW lists \in Lists, Push(p, lists) PROVE HonestInv'
  <2>1. PICK to \in {"landed", "connect"} : pc' = [pc EXCEPT ![p] = to]
    BY <1>5 DEF Push, Go
  <2> QED
    BY <1>5, <2>1 DEF Push, fileVars, HonestInv, LockInv, TypeOK
<1>6. ASSUME NEW p \in Proc, Start(p) PROVE HonestInv'
  BY <1>6 DEF Start, Go, HonestInv, LockInv, TypeOK
<1>7. ASSUME NEW p \in Proc, Fetch(p) PROVE HonestInv'
  <2>1. trust <= branch /\ branch # 0 /\ tip' = [tip EXCEPT ![p] = branch]
    BY <1>7 DEF Fetch, FetchTip, Regular, LockInv, TypeOK, Position
  <2> QED
    BY <1>7, <2>1 DEF Fetch, LockFetch, FetchTip, Go, HonestInv, MarkerInv, LockInv, TypeOK
<1>8. ASSUME NEW p \in Proc, FetchNothing(p) PROVE HonestInv'
  <2>1. trust = 0 /\ ~known
    BY <1>8 DEF FetchNothing, Regular, MarkerInv, LockInv, TypeOK, Position
  <2> QED
    BY <1>8, <2>1 DEF FetchNothing, Go, fileVars, HonestInv, LockInv, TypeOK
<1>9. ASSUME NEW p \in Proc, FetchFails(p) PROVE HonestInv'
  BY <1>9 DEF FetchFails, Exit, fileVars, HonestInv, LockInv, TypeOK
<1>10. ASSUME NEW p \in Proc, Accept(p) PROVE HonestInv'
  BY <1>10, AcceptRecords DEF Accept, Go, HonestInv, LockInv, TypeOK, Locked
<1>11. ASSUME NEW p \in Proc, Mark(p) PROVE HonestInv'
  BY <1>11 DEF Mark, MarkKnown, Go, HonestInv, LockInv, TypeOK
<1>12. ASSUME NEW p \in Proc, Refuse(p) PROVE HonestInv'
  BY <1>12, HonestAccepted DEF Refuse
<1>13. ASSUME NEW p \in Proc, Record(p) PROVE HonestInv'
  BY <1>13 DEF Record, LockFetch, Go, HonestInv, LockInv, TypeOK
<1>14. ASSUME NEW p \in Proc, RecordOrphaned(p) PROVE HonestInv'
  BY <1>14 DEF RecordOrphaned, Exit, fileVars, HonestInv, LockInv, TypeOK
<1>15. ASSUME NEW p \in Proc, SaveRecord(p) PROVE HonestInv'
  BY <1>15, NoProcAssumption DEF SaveRecord, Go, HonestInv, LockInv, TypeOK, SaveTrust,
     Locked
<1>16. ASSUME NEW p \in Proc, RecordFails(p) PROVE HonestInv'
  BY <1>16 DEF RecordFails, Go, fileVars, HonestInv, LockInv, TypeOK
<1>17. ASSUME NEW p \in Proc, Note(p) PROVE HonestInv'
  BY <1>17 DEF Note, MarkKnown, Go, HonestInv, LockInv, TypeOK
<1>18. ASSUME NEW p \in Proc, NoteFails(p) PROVE HonestInv'
  BY <1>18 DEF NoteFails, Exit, fileVars, HonestInv, LockInv, TypeOK
<1>19. ASSUME NEW p \in Proc, ForgetMarker(p) PROVE HonestInv'
  BY <1>19 DEF ForgetMarker, Exit, HonestInv, LockInv, TypeOK
<1>20. ASSUME NEW p \in Proc, LostRace(p) PROVE HonestInv'
  BY <1>20 DEF LostRace, Go, fileVars, HonestInv, LockInv, TypeOK
<1>21. ASSUME NEW p \in Proc, Forget(p) PROVE HonestInv'
  BY <1>21 DEF Forget, Steady
<1>22. ASSUME NEW p \in Proc, End(p) PROVE HonestInv'
  BY <1>22 DEF End, Exit, fileVars, HonestInv, LockInv, TypeOK
<1>23. ASSUME NEW p \in Proc, Crash(p) PROVE HonestInv'
  BY <1>23 DEF Crash, Exit, fileVars, HonestInv, LockInv, TypeOK
<1>24. ASSUME UNCHANGED vars PROVE HonestInv'
  BY <1>24 DEF vars, HonestInv, LockInv, TypeOK
<1> QED
  BY <1>1, <1>2, <1>3, <1>4, <1>5, <1>6, <1>7, <1>8, <1>9, <1>10, <1>11, <1>12, <1>13,
     <1>14, <1>15, <1>16, <1>17, <1>18, <1>19, <1>20, <1>21, <1>22, <1>23, <1>24 DEF Next,
     HelperStep

-----------------------------------------------------------------------------
\* The audit log on a regular history.

LEMMA LatestIs ==
  ASSUME NEW S \in SUBSET Nat, NEW m \in S, \A y \in S : y <= m
  PROVE  Latest(S) = m
<1>1. \A x \in S : (\A y \in S : y <= x) => x = m
  OBVIOUS
<1> QED
  BY <1>1 DEF Latest

LEMMA LogClean ==
  ASSUME NEW l, Steady(l), Regular(l), NEW c \in Commits
  PROVE  Discontinuities(c) = {} /\ Verified(c) = Line(c)
<1>1. /\ Line(c) = StartOf(c)..c /\ StartOf(c) \in 1..c /\ c \in Nat
      /\ \A x \in Line(c) : commits[x].epoch = commits[c].epoch
  BY LineEpoch DEF Regular, Line, Commits
<1>2. Line(c) \subseteq Commits /\ Line(c) \subseteq Nat /\ 0 \notin Line(c)
  BY <1>1 DEF Commits
<1>3. Readable(c) = Line(c)
  BY <1>2 DEF Readable, Regular, Steady
<1>4. \A x \in Line(c) : Gen(x) = x /\ commits[x].replaces = x - 1 /\ StartOf(x) = StartOf(c)
  BY <1>1, <1>2 DEF Regular, Gen, StartOf
<1>5. ASSUME NEW x \in Line(c), x # StartOf(c)
      PROVE  Latest({y \in Line(c) : y < x}) = x - 1
  <2>1. x - 1 \in Line(c) /\ x - 1 < x /\ \A y \in Line(c) : y < x => y <= x - 1
    BY <1>1, <1>5
  <2>2. {y \in Line(c) : y < x} \subseteq Nat
    BY <1>2
  <2> QED
    BY <2>1, <2>2, LatestIs
<1>6. ASSUME NEW x \in Line(c) PROVE Gen(x) = Expected(c, x)
  <2> DEFINE last == Latest({y \in Line(c) : y < x})
             since == {y \in Line(c) : last < y /\ y <= x}
  <2>1. Gen(x) = x /\ x \in Nat
    BY <1>2, <1>4
  <2>2. CASE HistoryStart(x)
    BY <2>2 DEF Expected
  <2>3. CASE ~HistoryStart(x) /\ x = StartOf(c)
    <3>1. commits[x].epoch # x
      BY <2>1, <2>3 DEF HistoryStart
    <3>2. x = 1
      BY <2>3, <3>1, <1>4 DEF StartOf
    <3>3. {y \in Line(c) : y < x} = {}
      BY <1>1, <2>3
    <3>4. last = 0
      BY <3>3 DEF Latest
    <3> HIDE DEF last
    <3>5. since = {1}
      BY <1>1, <2>3, <3>2, <3>4
    <3> HIDE DEF since
    <3>6. Gen(last) + Cardinality(since) = 1
      <4>1. Cardinality(since) = 1
        BY <3>5, FS_Singleton
      <4> QED
        BY <3>4, <4>1 DEF Gen
    <3> QED
      BY <2>1, <2>3, <3>2, <3>6, <1>3 DEF Expected, last, since
  <2>4. CASE ~HistoryStart(x) /\ x # StartOf(c)
    <3>1. last = x - 1
      BY <1>5, <2>4
    <3>2. x - 1 \in Line(c)
      BY <1>1, <2>4
    <3> HIDE DEF last
    <3>3. since = {x}
      BY <1>1, <3>1
    <3>4. Gen(last) = x - 1
      BY <1>4, <3>1, <3>2
    <3> HIDE DEF since
    <3>5. Gen(last) + Cardinality(since) = x
      <4>1. Cardinality(since) = 1
        BY <3>3, FS_Singleton
      <4> QED
        BY <2>1, <3>4, <4>1
    <3> QED
      BY <2>1, <2>4, <3>5, <1>3 DEF Expected, last, since
  <2> QED
    BY <2>2, <2>3, <2>4
<1>7. ASSUME NEW x \in Line(c), NEW y \in {z \in Line(c) : z > x}
      PROVE  y \in Readable(c) /\ commits[y].replaces = Latest({z \in Line(c) : z < y})
  <2>1. y \in Line(c) /\ y # StartOf(c)
    BY <1>1
  <2> QED
    BY <2>1, <1>3, <1>4, <1>5
<1> QED
  BY <1>3, <1>6, <1>7 DEF Discontinuities, Verified
-----------------------------------------------------------------------------
\* The theorems.

(* What was accepted never runs ahead of the pushes behind it, by whatever *)
(* jumps others write, where no history is rewritten and the host does not *)
(* move the branch back (check_generation_jump).                           *)
THEOREM GenerationsBounded ==
  ASSUME Rewriters = {}, "restore" \notin HostFaults
  PROVE  Spec => []NoGenerationRunsAhead
<1>1. Init => Straight /\ BoundedInv
  BY DEF Init, Straight, BoundedInv, Commits
<1>2. LockInv /\ Straight /\ BoundedInv /\ [Next]_vars => Straight' /\ BoundedInv'
  BY StraightStep, BoundedStep DEF LockInv
<1>3. BoundedInv => NoGenerationRunsAhead
  BY DEF BoundedInv, NoGenerationRunsAhead, Bounded
<1> QED
  BY <1>1, <1>2, <1>3, LockAlways, PTL DEF Spec

(* A history rewritten by the host or a participant is reported before a   *)
(* manifest on it is accepted, even when a first sight of it was refused   *)
(* and moved the tracking ref: in a clone that only reads, whose helpers   *)
(* are neither killed nor told to forget (remote.rs:433-473).              *)
THEOREM RewritesAreReported ==
  ASSUME Pushers = {}, Forgetters = {}, Crashers = {}
  PROVE  Spec => RewriteReported
<1> DEFINE Reported == trust # 0 /\ trust' \notin {0, trust} /\ trust \notin commits'[trust'].line =>
             told \/ \E p \in Proc : pc[p] = "check" /\ pc'[p] = "mark" /\ Rewrote(p)
<1>1. Init => NoPushes /\ Nested /\ ReportInv
  BY DEF Init, NoPushes, Nested, ReportInv, Unreported, Commits
<1>2. LockInv /\ NoPushes /\ Nested /\ ReportInv /\ [Next]_vars => NoPushes' /\ Nested' /\ ReportInv'
  BY NoPushesStep, NestedStep, ReportStep DEF LockInv
<1>3. LockInv /\ NoPushes /\ Nested /\ ReportInv /\ [Next]_vars => Reported
  <2> SUFFICES ASSUME LockInv, NoPushes, Nested, ReportInv, [Next]_vars, ~told,
                      trust # 0, trust' \notin {0, trust}, trust \notin commits'[trust'].line
               PROVE  \E p \in Proc : pc[p] = "check" /\ pc'[p] = "mark" /\ Rewrote(p)
    OBVIOUS
  <2>1. PICK p \in Proc : Accept(p) \/ SaveRecord(p)
    BY TrustMoves
  <2>2. Accept(p)
    BY <2>1 DEF SaveRecord, NoPushes
  <2>3. trust' = tip[p] /\ commits' = commits /\ tip[p] # 0 /\ pc[p] = "check"
    BY <2>2, AcceptRecords DEF Accept, LockInv, AtCommit
  <2>4. trust \notin Line(tip[p])
    BY <2>3 DEF Line
  <2>5. Rewrote(p)
    BY <2>3, <2>4, SeesRewrite DEF ReportInv, LockInv
  <2>6. pc'[p] = "mark"
    BY <2>2 DEF Accept, Go, LockInv, TypeOK
  <2> QED
    BY <2>3, <2>5, <2>6
<1> HIDE DEF Reported
<1>4. LockInv /\ NoPushes /\ Nested /\ ReportInv /\ [Next]_vars => [Reported]_vars
  BY <1>3
<1>5. Spec => [][Reported]_vars
  BY <1>1, <1>2, <1>4, LockAlways, PTL DEF Spec
<1> QED
  BY <1>5 DEF RewriteReported, Reported

LEMMA SteadyAlways ==
  ASSUME NEW l, Steady(l)
  PROVE  Spec => [](LockInv /\ Regular(l) /\ HonestInv)
<1>1. Init => MarkerInv /\ Regular(l) /\ HonestInv
  BY DEF Init, MarkerInv, Regular, HonestInv, Commits
<1>2. LockInv /\ MarkerInv /\ Regular(l) /\ HonestInv /\ [Next]_vars =>
        MarkerInv' /\ Regular(l)' /\ HonestInv'
  BY MarkerStep, RegularStep, HonestStep DEF LockInv, Steady
<1> QED
  BY <1>1, <1>2, LockAlways, PTL DEF Spec

(* While the host shows what the participants pushed and all keep the      *)
(* lists, no helper refuses it: no race, crash or rewritten history makes  *)
(* a rollback, a fork or a jump of what is none (DESIGN.md, 5.4 and 6.1).  *)
THEOREM HonestIsNeverRefused ==
  ASSUME NEW l, Steady(l)
  PROVE  Spec => []NeverRefused
<1>1. HonestInv => NeverRefused
  BY DEF HonestInv, NeverRefused
<1> QED
  BY <1>1, SteadyAlways, PTL

(* ... and the log calls none of it unverified and reports no gap          *)
(* (history; DESIGN.md, 6.6).                                              *)
THEOREM HonestLogIsClean ==
  ASSUME NEW l, Steady(l)
  PROVE  Spec => []LogIsClean
<1>1. LockInv /\ Regular(l) => LogIsClean
  <2> SUFFICES ASSUME LockInv, Regular(l), NEW p \in Proc, tip[p] # 0
               PROVE  Discontinuities(tip[p]) = {} /\ Verified(tip[p]) = Line(tip[p])
    BY DEF LogIsClean
  <2>1. tip[p] \in Commits
    BY DEF LockInv, TypeOK, Position, Commits
  <2> QED
    BY <2>1, LogClean
<1> QED
  BY <1>1, SteadyAlways, PTL
================================================================================
